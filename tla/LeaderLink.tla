----------------------------- MODULE LeaderLink -----------------------------
(***************************************************************************)
(* A worker's connection to the leader: PeerManager's m_leaderSocket and   *)
(* m_connectedToLeader (PeerManager.cpp), used by four kinds of threads    *)
(* without a common lock.                                                  *)
(*   "main"  the event loop: handle_leader_data, the commands that call    *)
(*           connectToLeader (registerWorker, setPeerConfig, ...), the     *)
(*           commands that call PeerManager::forwardToLeader and those     *)
(*           that use the leader's socket themselves (the port commands    *)
(*           of cmdPort.cpp, getAppPeers)                                  *)
(*   "rec"   reconnectLoop: connects when disconnected, sends heartbeats   *)
(*   Slows   the threads of slow commands, which call forwardToLeader      *)
(*   again   the threads in which an execRequest of the leader runs a      *)
(*           second time (mainCommand); they close the leader's number     *)
(* m_leaderCommMutex covers a write to the leader and, in forwardToLeader, *)
(* the wait for the answer; it covers neither connecting nor the loop's    *)
(* read nor disconnecting, and not the commands that use the socket        *)
(* themselves.  Answers carry no request number, and the leader sends      *)
(* commands of its own on the same connection.                             *)
(***************************************************************************)
EXTENDS Integers, Sequences, FiniteSets, FiniteSetsExt, Functions

CONSTANTS
    Slows,        \* threads of slow commands
    MaxSock,      \* how many sockets can be open at one time
    MaxCalls,     \* bound of the model on commands that forward or connect
    MaxCommands,  \* bound of the model on execRequests the leader sends
    MaxOutages    \* bound of the model on outages of the leader or the network

ASSUME ConstantsAssumption ==
    /\ {"main", "rec", "nobody"} \cap Slows = {}
    /\ MaxSock \in Nat \ {0}
    /\ MaxCalls \in Nat
    /\ MaxCommands \in Nat /\ MaxOutages \in Nat

Threads == {"main", "rec"} \cup Slows
Queries == 1 .. MaxCalls
Socks == 1 .. MaxSock
NoSock == 0         \* m_leaderSocket = -1
NoThread == "nobody"
Reg == 0            \* the registration; queries are numbered from 1
Cmd == -2           \* an execRequest of the leader
Reply == -3         \* what it put out, in one line
Error == -4         \* the leader's answer to a line that is not a command

VARIABLES
    sock,       \* m_leaderSocket
    connected,  \* m_connectedToLeader
    mutex,      \* who holds m_leaderCommMutex
    pc,         \* where each thread is
    query,      \* the query a thread waits for
    wire,       \* of a socket: closed, fresh, up, or cut by the other side
    req,        \* of a socket: what the leader has not answered yet
    resp,       \* of a socket: what the worker has not read yet
    waits,      \* of a socket: the leader's execOnPeer waits for a reply
    fd,         \* leader_fd of the event loop's handler
    todo,       \* how many commands handle_leader_data has read and not run yet
    again,      \* of a socket: how many threads run a command again and close it
    reach,      \* the leader can be reached
    asked,      \* how many queries were forwarded
    admin,      \* how many commands called connectToLeader
    commands,   \* how many execRequests the leader sent
    outages,    \* how many outages there were
    returned,   \* ghost: the queries whose forwarding has returned
    owed        \* ghost: answers a socket will get whose reader gave up

linkVars == <<sock, connected>>
wireVars == <<wire, req, resp, waits>>
execVars == <<fd, todo, again, commands>>
budget == <<asked, admin, outages>>
vars == <<linkVars, mutex, pc, query, wireVars, execVars, reach, budget, returned, owed>>

\* main.cpp has called connectToLeader and then started the threads
Init ==
    /\ sock = 1 /\ connected = TRUE
    /\ mutex = NoThread
    /\ pc = [t \in Threads |-> "idle"]
    /\ query = [t \in Threads |-> Reg]
    /\ wire = [s \in Socks |-> IF s = 1 THEN "up" ELSE "closed"]
    /\ req = [s \in Socks |-> <<>>]
    /\ resp = [s \in Socks |-> <<>>]
    /\ waits = [s \in Socks |-> FALSE]
    /\ fd = NoSock /\ todo = 0 /\ again = [s \in Socks |-> 0]
    /\ reach = TRUE
    /\ asked = 0 /\ admin = 0 /\ commands = 0 /\ outages = 0
    /\ returned = {}
    /\ owed = [s \in Socks |-> FALSE]

Goto(t, l) == pc' = [pc EXCEPT ![t] = l]

\* A command of the event loop that uses the leader's socket without the mutex
Forwarding(t) == t = "main" /\ query[t] # Reg

\* The client has its answer, the leader's or an error
Answered(t) ==
    /\ returned' = returned \cup {query[t]}
    /\ query' = [query EXCEPT ![t] = Reg]

\* The thread that called connectToLeader goes on, without a connection...
ReturnFailed(t) ==
    /\ Goto(t, IF t = "rec" THEN "sleep" ELSE "idle")
    /\ IF Forwarding(t) THEN Answered(t) ELSE UNCHANGED <<query, returned>>

\* ...or with one
Return(t) ==
    Goto(t, IF t = "rec" THEN "sleep" ELSE IF Forwarding(t) THEN "write" ELSE "idle")

\* close(s)
CloseNumber(s) ==
    /\ wire' = [wire EXCEPT ![s] = "closed"]
    /\ req' = [req EXCEPT ![s] = <<>>]
    /\ resp' = [resp EXCEPT ![s] = <<>>]
    /\ waits' = [waits EXCEPT ![s] = FALSE]
    /\ owed' = [owed EXCEPT ![s] = FALSE]

\* close(m_leaderSocket); m_leaderSocket = -1
CloseLeaderSocket == sock' = NoSock /\ CloseNumber(sock)

KeepLeaderSocket == UNCHANGED <<sock, wireVars, owed>>

DisconnectFromLeader ==
    /\ connected' = FALSE
    /\ IF sock # NoSock THEN CloseLeaderSocket ELSE KeepLeaderSocket

-----------------------------------------------------------------------------
(* connectToLeader *)

ConnectClose(t) ==
    /\ IF sock # NoSock THEN CloseLeaderSocket ELSE KeepLeaderSocket
    /\ Goto(t, "socket")
    /\ UNCHANGED connected

\* reconnectLoop finds m_connectedToLeader false
RecConnect ==
    /\ pc["rec"] = "idle" /\ ~connected
    /\ ConnectClose("rec")
    /\ UNCHANGED <<mutex, query, execVars, reach, budget, returned>>

\* handleRegisterWorker, handleSetPeerConfig
AdminConnect ==
    /\ pc["main"] = "idle" /\ asked + admin < MaxCalls
    /\ admin' = admin + 1
    /\ ConnectClose("main")
    /\ UNCHANGED <<mutex, query, execVars, reach, asked, outages, returned>>

\* socket() takes the least free number, or fails when there is none: a thread
\* that assigns m_leaderSocket while another one connects leaks that one's number.
ClosedSocks == {s \in Socks : wire[s] = "closed"}

ConnectSocket(t) ==
    /\ pc[t] = "socket"
    /\ \/ /\ ClosedSocks # {}
          /\ sock' = Min(ClosedSocks)
          /\ wire' = [wire EXCEPT ![Min(ClosedSocks)] = "fresh"]
          /\ Goto(t, "connect")
          /\ UNCHANGED <<query, returned>>
       \/ /\ ClosedSocks = {}
          /\ sock' = NoSock
          /\ ReturnFailed(t)
          /\ UNCHANGED wire
    /\ UNCHANGED <<connected, mutex, req, resp, waits, execVars, reach, budget, owed>>

\* connect() on the socket m_leaderSocket holds now; it fails when the leader
\* is away, and when another thread closed or connected that socket meanwhile
ConnectCall(t) ==
    /\ pc[t] = "connect"
    /\ IF sock # NoSock /\ wire[sock] = "fresh" /\ reach
       THEN /\ wire' = [wire EXCEPT ![sock] = "up"]
            /\ Goto(t, "flag")
            /\ UNCHANGED <<sock, query, req, resp, waits, returned, owed>>
       ELSE /\ IF sock # NoSock THEN CloseLeaderSocket ELSE KeepLeaderSocket
            /\ ReturnFailed(t)
    /\ UNCHANGED <<connected, mutex, execVars, reach, budget>>

ConnectFlag(t) ==
    /\ pc[t] = "flag"
    /\ connected' = TRUE
    /\ Goto(t, "register")
    /\ UNCHANGED <<sock, mutex, query, wireVars, execVars, reach, budget, returned, owed>>

\* write() of a message; m # <<>> when the leader will answer it.  A write to a
\* connection the other side has cut may still succeed, and is lost.
WriteToLeader(m) ==
    \/ /\ wire[sock] = "up"
       /\ req' = [req EXCEPT ![sock] = @ \o m]
       /\ UNCHANGED <<linkVars, wire, resp, waits, owed>>
    \/ /\ wire[sock] = "cut"
       /\ UNCHANGED <<linkVars, wireVars, owed>>

WriteFails == wire[sock] # "up" /\ DisconnectFromLeader

\* m_leaderSocket is a number that is open
IsOpen == sock # NoSock /\ wire[sock] # "closed"

\* Mutant: no lock
MutexIgnored == TRUE

\* lock_guard on m_leaderCommMutex
MutexFree == mutex = NoThread

CanSend == connected /\ sock # NoSock

\* sendToLeader: the whole call is under the mutex
SendToLeader(m) ==
    /\ MutexFree
    /\ \/ ~CanSend /\ UNCHANGED <<linkVars, wireVars, owed>>
       \/ CanSend /\ WriteToLeader(m)
       \/ CanSend /\ WriteFails

ConnectRegister(t) ==
    /\ pc[t] = "register"
    /\ SendToLeader(<<Reg>>)
    /\ Goto(t, "response")
    /\ UNCHANGED <<mutex, query, execVars, reach, budget, returned>>

\* The registration response is read without the mutex: whatever is there, or
\* nothing within 5 seconds
ConnectResponse(t) ==
    /\ pc[t] = "response"
    /\ IF IsOpen
       THEN /\ resp' = [resp EXCEPT ![sock] = <<>>]
            /\ owed' = [owed EXCEPT ![sock] = @ \/ resp[sock] # <<Reg>>]
       ELSE UNCHANGED <<resp, owed>>
    /\ Return(t)
    /\ UNCHANGED <<linkVars, mutex, query, wire, req, waits, execVars, reach, budget, returned>>

-----------------------------------------------------------------------------
(* reconnectLoop: the heartbeat, which the leader does not answer *)

RecConnected ==
    /\ pc["rec"] = "idle" /\ connected
    /\ Goto("rec", "sleep")
    /\ UNCHANGED <<linkVars, mutex, query, wireVars, execVars, reach, budget, returned, owed>>

\* Mutant: the heartbeat is not a line the leader can read
RecHeartbeatAnswered ==
    /\ pc["rec"] = "sleep"
    /\ IF connected THEN SendToLeader(<<-1>>) ELSE UNCHANGED <<linkVars, wireVars, owed>>
    /\ Goto("rec", "idle")
    /\ UNCHANGED <<mutex, query, execVars, reach, budget, returned>>

RecHeartbeat ==
    /\ pc["rec"] = "sleep"
    /\ IF connected THEN SendToLeader(<<>>) ELSE UNCHANGED <<linkVars, wireVars, owed>>
    /\ Goto("rec", "idle")
    /\ UNCHANGED <<mutex, query, execVars, reach, budget, returned>>

-----------------------------------------------------------------------------
(* PeerManager::forwardToLeader *)

ForwardSend(t) ==
    /\ t # "rec" /\ pc[t] = "idle" /\ asked + admin < MaxCalls
    /\ MutexFree
    /\ asked' = asked + 1
    /\ \/ /\ ~CanSend
          /\ returned' = returned \cup {asked + 1}
          /\ UNCHANGED <<linkVars, mutex, pc, query, wireVars, owed>>
       \/ /\ CanSend
          /\ WriteToLeader(<<asked + 1>>)
          /\ mutex' = t
          /\ query' = [query EXCEPT ![t] = asked + 1]
          /\ Goto(t, "wait")
          /\ UNCHANGED returned
       \/ /\ CanSend
          /\ WriteFails
          /\ returned' = returned \cup {asked + 1}
          /\ UNCHANGED <<mutex, pc, query>>
    /\ UNCHANGED <<execVars, reach, admin, outages>>

\* Mutant: poll() waits for ever
PollWaitsForever == FALSE

\* poll() returns 0 after timeoutMs
PollTimesOut == IsOpen /\ resp[sock] = <<>>

\* poll() reported data and read() returns all of it, or poll() timed out, or
\* the socket is gone (POLLNVAL when only its number is left)
ForwardReturn(t) ==
    /\ pc[t] = "wait"
    /\ \/ /\ IsOpen /\ resp[sock] # <<>>
          /\ resp' = [resp EXCEPT ![sock] = <<>>]
          /\ owed' = [owed EXCEPT ![sock] = @ \/ resp[sock] # <<query[t]>>]
       \/ /\ PollTimesOut
          /\ owed' = [owed EXCEPT ![sock] = TRUE]
          /\ UNCHANGED resp
       \/ ~IsOpen /\ UNCHANGED <<resp, owed>>
    /\ mutex' = NoThread
    /\ Answered(t)
    /\ Goto(t, "idle")
    /\ UNCHANGED <<linkVars, wire, req, waits, execVars, reach, budget>>

-----------------------------------------------------------------------------
(* The port commands' own forwardToLeader, and getAppPeers: write() and read()
   on getLeaderSocket() in the event loop, without the mutex *)

\* The port commands connect first; getAppPeers forwards only when connected
UnlockedForward ==
    /\ pc["main"] = "idle" /\ asked + admin < MaxCalls
    /\ asked' = asked + 1
    /\ query' = [query EXCEPT !["main"] = asked + 1]
    /\ \/ connected /\ Goto("main", "write") /\ KeepLeaderSocket /\ UNCHANGED connected
       \/ ~connected /\ ConnectClose("main")
    /\ UNCHANGED <<mutex, execVars, reach, admin, outages, returned>>

\* A write that fails is reported to the client, and the link stays as it is
UnlockedWrite ==
    /\ pc["main"] = "write"
    /\ \/ /\ sock # NoSock /\ WriteToLeader(<<query["main"]>>)
          /\ fd' = sock
          /\ Goto("main", "read")
          /\ UNCHANGED <<query, returned>>
       \/ /\ ~(sock # NoSock /\ wire[sock] = "up")
          /\ Answered("main")
          /\ Goto("main", "idle")
          /\ UNCHANGED <<linkVars, wireVars, owed, fd>>
    /\ UNCHANGED <<mutex, todo, again, commands, reach, budget>>

\* read() returns all there is, or nothing within 5 seconds (SO_RCVTIMEO), or
\* fails when leader_fd has been closed or opened again meanwhile
UnlockedRead ==
    /\ pc["main"] = "read"
    /\ resp' = [resp EXCEPT ![fd] = <<>>]
    /\ owed' = [owed EXCEPT
                  ![fd] = @ \/ (wire[fd] \in {"up", "cut"} /\ resp[fd] # <<query["main"]>>)]
    /\ fd' = NoSock
    /\ Answered("main")
    /\ Goto("main", "idle")
    /\ UNCHANGED <<linkVars, mutex, wire, req, waits, todo, again, commands, reach, budget>>

-----------------------------------------------------------------------------
(* The event loop: select, then handle_leader_data *)

LeaderReady == sock # NoSock /\ (resp[sock] # <<>> \/ wire[sock] = "cut")

SelectLeader ==
    /\ pc["main"] = "idle" /\ connected /\ LeaderReady
    /\ Goto("main", "ready")
    /\ UNCHANGED <<linkVars, mutex, query, wireVars, execVars, reach, budget, returned, owed>>

Commands(o) == Cardinality({i \in DOMAIN o : o[i] = Cmd})

\* Somebody's answer is in o
HoldsAnswer(o) == \E i \in DOMAIN o : o[i] \notin {Cmd, Error}

\* Answers are not commands and are ignored, commands are executed.  A read that
\* finds nothing, since another thread was faster, times out and counts as a lost
\* connection.
HandleLeaderData ==
    /\ pc["main"] = "ready"
    /\ \/ /\ sock = NoSock
          /\ Goto("main", "idle")
          /\ UNCHANGED <<resp, owed, fd, todo>>
       \/ /\ sock # NoSock /\ resp[sock] # <<>>
          /\ resp' = [resp EXCEPT ![sock] = <<>>]
          /\ owed' = [owed EXCEPT ![sock] = @ \/ HoldsAnswer(resp[sock])]
          /\ todo' = Commands(resp[sock])
          /\ IF todo' = 0
             THEN Goto("main", "idle") /\ UNCHANGED fd
             ELSE Goto("main", "execute") /\ fd' = sock
       \/ /\ sock # NoSock /\ resp[sock] = <<>>
          /\ Goto("main", "lost")
          /\ UNCHANGED <<resp, owed, fd, todo>>
    /\ UNCHANGED <<linkVars, mutex, query, wire, req, waits, again, commands, reach,
                   budget, returned>>

\* mainCommand(j, leader_fd) of an execRequest: its output, if there is any, is
\* written to leader_fd, and a thread is started that executes it again
ExecuteCommand ==
    /\ pc["main"] = "execute"
    /\ req' \in {req, [req EXCEPT ![fd] = IF wire[fd] = "up" THEN Append(@, Reply) ELSE @]}
    /\ again' = [again EXCEPT ![fd] = @ + 1]
    /\ todo' = todo - 1
    /\ IF todo = 1
       THEN Goto("main", "idle") /\ fd' = NoSock
       ELSE UNCHANGED <<pc, fd>>
    /\ UNCHANGED <<linkVars, mutex, query, wire, resp, waits, commands, reach, budget,
                   returned, owed>>

\* The thread writes its output and closes the number, whatever it denotes by
\* now.  m_leaderSocket and m_connectedToLeader stay as they are.
ExecutedAgain(s) ==
    /\ again[s] > 0
    /\ again' = [again EXCEPT ![s] = @ - 1]
    /\ CloseNumber(s)
    /\ UNCHANGED <<linkVars, mutex, pc, query, fd, todo, commands, reach, budget, returned>>

LostConnection ==
    /\ pc["main"] = "lost"
    /\ DisconnectFromLeader
    /\ Goto("main", "idle")
    /\ UNCHANGED <<mutex, query, execVars, reach, budget, returned>>

-----------------------------------------------------------------------------
(* The leader and the network *)

\* handle_peer_data on the leader: a line that is not a command is an error
AnswerTo(m) == IF m = Reply THEN Error ELSE m

LeaderAnswers(s) ==
    /\ wire[s] = "up" /\ req[s] # <<>>
    /\ resp' = [resp EXCEPT ![s] = Append(@, AnswerTo(Head(req[s])))]
    /\ req' = [req EXCEPT ![s] = Tail(@)]
    /\ UNCHANGED <<linkVars, mutex, pc, query, wire, waits, execVars, reach, budget,
                   returned, owed>>

\* execOnPeer on the leader writes to the number registerPeer was called with...
LeaderCommands(s) ==
    /\ wire[s] = "up" /\ commands < MaxCommands
    /\ commands' = commands + 1
    /\ resp' = [resp EXCEPT ![s] = Append(@, Cmd)]
    /\ waits' = [waits EXCEPT ![s] = TRUE]
    /\ UNCHANGED <<linkVars, mutex, pc, query, wire, req, fd, todo, again, reach, budget,
                   returned, owed>>

\* ...and takes whatever it can read next for the output
LeaderTakes(s) ==
    /\ waits[s] /\ req[s] # <<>>
    /\ waits' = [waits EXCEPT ![s] = FALSE]
    /\ req' = [req EXCEPT ![s] = <<>>]
    /\ UNCHANGED <<linkVars, mutex, pc, query, wire, resp, execVars, reach, budget,
                   returned, owed>>

Outage ==
    /\ reach /\ outages < MaxOutages
    /\ outages' = outages + 1
    /\ reach' = FALSE
    /\ wire' = [s \in Socks |-> IF wire[s] = "up" THEN "cut" ELSE wire[s]]
    /\ req' = [s \in Socks |-> <<>>]
    /\ waits' = [s \in Socks |-> FALSE]
    /\ UNCHANGED <<linkVars, mutex, pc, query, resp, execVars, asked, admin, returned, owed>>

Recover ==
    /\ ~reach /\ reach' = TRUE
    /\ UNCHANGED <<linkVars, mutex, pc, query, wireVars, execVars, budget, returned, owed>>

-----------------------------------------------------------------------------
ConnectStep(t) ==
    \/ ConnectSocket(t) \/ ConnectCall(t) \/ ConnectFlag(t)
    \/ ConnectRegister(t) \/ ConnectResponse(t)

RecStep == RecConnect \/ RecConnected \/ RecHeartbeat \/ ConnectStep("rec")

MainStep ==
    \/ SelectLeader \/ HandleLeaderData \/ LostConnection \/ ExecuteCommand
    \/ UnlockedWrite \/ UnlockedRead \/ ConnectStep("main")

Next ==
    \/ RecStep \/ MainStep \/ AdminConnect \/ UnlockedForward
    \/ \E t \in Threads \ {"rec"} : ForwardSend(t) \/ ForwardReturn(t)
    \/ \E s \in Socks : ExecutedAgain(s)
    \/ \E s \in Socks : LeaderAnswers(s) \/ LeaderCommands(s) \/ LeaderTakes(s)
    \/ Outage \/ Recover

Spec == Init /\ [][Next]_vars

\* The threads are scheduled, poll() ends, and an outage ends.
FairSpec ==
    /\ Spec
    /\ WF_vars(RecStep) /\ WF_vars(MainStep) /\ WF_vars(Recover)
    /\ \A t \in Threads \ {"rec"} : WF_vars(ForwardReturn(t))

-----------------------------------------------------------------------------
(* Properties. *)

Asks == {Reg} \cup Queries
Requests == Asks \cup {Reply}
Answers == Asks \cup {Cmd, Error}

\* Every variable has its type.
TypeOK ==
    /\ sock \in {NoSock} \cup Socks /\ connected \in BOOLEAN
    /\ mutex \in Threads \cup {NoThread}
    /\ pc \in [Threads -> {"idle", "sleep", "socket", "connect", "flag", "register",
                           "response", "wait", "write", "read", "ready", "execute", "lost"}]
    /\ query \in [Threads -> Asks]
    /\ wire \in [Socks -> {"closed", "fresh", "up", "cut"}]
    /\ req \in [Socks -> Seq(Requests)] /\ resp \in [Socks -> Seq(Answers)]
    /\ waits \in [Socks -> BOOLEAN]
    /\ fd \in {NoSock} \cup Socks /\ todo \in Nat /\ again \in [Socks -> Nat]
    /\ reach \in BOOLEAN
    /\ asked \in 0 .. MaxCalls /\ admin \in 0 .. MaxCalls
    /\ commands \in 0 .. MaxCommands /\ outages \in 0 .. MaxOutages
    /\ returned \subseteq Queries
    /\ owed \in [Socks -> BOOLEAN]

\* A thread has written the registration and not read the response yet
Registering == \E t \in {"main", "rec"} : pc[t] = "response"

\* A command of the event loop waits on the leader's socket without the mutex
UnlockedWaits == pc["main"] = "read" /\ fd = sock

\* A command of the leader, or its error about the output of one, is among what
\* can be read
Commanded == \E i \in DOMAIN resp[sock] : resp[sock][i] \in {Cmd, Error}

\* A thread that waits in PeerManager::forwardToLeader finds the answer to its own
\* command on the socket and nothing else, across the event loop, the threads of
\* slow commands and reconnections, except
\*   when on this socket a reader has given up on an answer, or has read
\*   another one's, or the event loop has read one,
\*   while the response to a registration was not read yet,
\*   while a command that uses the socket without m_leaderCommMutex waits for
\*   its answer, and
\*   while a command of the leader, or its error about the output of one, is
\*   there to be read.
PairedUnlessGivenUp ==
    sock # NoSock /\ ~owed[sock] /\ ~Registering /\ ~UnlockedWaits /\ ~Commanded =>
        \A t \in Threads : pc[t] = "wait" =>
            resp[sock] = <<>> \/ resp[sock] = <<query[t]>>

\* Both kinds of forwarding return, with an answer or without, even when the
\* request or its answer is lost, another thread reads it or the socket's number
\* is closed meanwhile: nobody keeps the mutex.
\* (The calls are finitely many: that each returns is that, again and again, all
\* that were made have returned.)
QueriesReturn ==
    []<>(returned = 1 .. asked)

Linked == connected /\ sock # NoSock /\ wire[sock] = "up"

\* main.cpp: the reconnect loop "handles disconnections and failed initial
\* connects": a worker that lost the leader is connected again, and again,
\* as long as outages end.
Reconnects == []<>Linked
=============================================================================
