---------------------------- MODULE DaemonServer ----------------------------
(***************************************************************************)
(* The daemon's event loop (DaemonServer.cpp), its command dispatcher      *)
(* (mainCommand.cpp) and the log subscribers (Utils.cpp), over the kernel's *)
(* descriptor table.                                                       *)
(*                                                                         *)
(* One thread selects on the listening sockets and on the descriptors of   *)
(* `clients' (local programs) and `peer_clients' (other daemons), and      *)
(* serves the ready ones in a fixed order.  A slow command also starts a   *)
(* detached thread that runs it again, replies and closes the descriptor.  *)
(* The maps hold descriptor numbers, and the kernel reuses the lowest free *)
(* number: a number kept too long denotes somebody else's connection.      *)
(***************************************************************************)
EXTENDS Integers, Sequences, FiniteSets, FiniteSetsExt

CONSTANTS
    Locals,       \* connections made by local programs, each made once
    Remotes,      \* connections made by other daemons, each made once
    LocalKinds,   \* the kinds of command local programs send
    RemoteKinds,  \* the kinds of command other daemons send
    MaxSends,     \* bound of the model: commands sent on one connection
    MaxCommands,  \* bound of the model: commands sent on all connections
    MaxFd,        \* descriptor numbers for connections: 1 .. MaxFd
    Free          \* a descriptor number that is not open

Conns == Locals \cup Remotes
Fds == 1 .. MaxFd

\* plain: the connection is closed after the reply; ask: listWindows and
\* activateWindow, plain too, which ask the window extension; keep:
\* registerLogListener, the connection stays open; slow: execOnPeer, execRequest,
\* remotePull, ...; invalid: a line that is not JSON, answered with an error
Kinds == {"plain", "ask", "keep", "slow", "invalid"}

LogLine == "log line"

ASSUME ConstantsAssumption ==
    /\ Locals \cap Remotes = {}
    /\ Free \notin Conns /\ LogLine \notin Conns
    /\ LocalKinds \subseteq Kinds /\ RemoteKinds \subseteq Kinds
    /\ MaxSends \in Nat \ {0}
    /\ MaxCommands \in Nat
    /\ MaxFd \in Nat

ASSUME EnoughDescriptors == IsFiniteSet(Conns) /\ Cardinality(Conns) <= MaxFd

VARIABLES
    running,       \* cleared by the signal handler
    ready,         \* the descriptors select reported, still to be looked at
    listening,     \* the listening sockets select reported
    asking,        \* the handler's read of the window extension's number
    table,         \* the kernel's table: descriptor number -> connection
    phase,         \* of a connection: new, backlog, open, closed
    inbox,         \* of a connection: the commands sent and not yet read
    hung,          \* the connections whose other end has closed
    clients,       \* descriptor numbers tracked for local programs
    peer_clients,  \* descriptor numbers tracked for other daemons
    subscribers,   \* g_logSubscribers
    threads,       \* the detached threads of slow commands
    sent,          \* ghost: how many commands a connection has sent
    ran,           \* ghost: how many times the handler of a command has run
    got,           \* ghost: whose replies, or log lines, a connection received
    robbed         \* ghost: whose commands a handler read for the extension's answer

loopVars == <<running, ready, listening, asking>>
connVars == <<table, phase, inbox, hung>>
mapVars == <<clients, peer_clients, subscribers>>
ghosts == <<sent, ran, got, robbed>>
vars == <<loopVars, connVars, mapVars, threads, ghosts>>

Init ==
    /\ running = TRUE
    /\ ready = {} /\ listening = {} /\ asking = "no"
    /\ table = [f \in Fds |-> Free]
    /\ phase = [c \in Conns |-> "new"]
    /\ inbox = [c \in Conns |-> <<>>]
    /\ hung = {}
    /\ clients = {} /\ peer_clients = {} /\ subscribers = {}
    /\ threads = {}
    /\ sent = [c \in Conns |-> 0]
    /\ ran = [c \in Conns |-> [n \in 1 .. MaxSends |-> 0]]
    /\ got = [c \in Conns |-> {}]
    /\ robbed = {}

-----------------------------------------------------------------------------
(* The programs and daemons at the other end. *)

Connect(c) ==
    /\ running
    /\ phase[c] = "new"
    /\ phase' = [phase EXCEPT ![c] = "backlog"]
    /\ UNCHANGED <<loopVars, table, inbox, hung, mapVars, threads, ghosts>>

AllSent == MapThenSumSet(LAMBDA c : sent[c], Conns)

Send(c, k) ==
    /\ phase[c] \in {"backlog", "open"} /\ c \notin hung
    /\ sent[c] < MaxSends
    /\ AllSent < MaxCommands
    /\ k \in IF c \in Locals THEN LocalKinds ELSE RemoteKinds
    /\ inbox' = [inbox EXCEPT ![c] = Append(@, [kind |-> k, n |-> sent[c] + 1])]
    /\ sent' = [sent EXCEPT ![c] = @ + 1]
    /\ UNCHANGED <<loopVars, table, phase, hung, mapVars, threads, ran, got, robbed>>

HangUp(c) ==
    /\ phase[c] \in {"backlog", "open"} /\ c \notin hung
    /\ hung' = hung \cup {c}
    /\ UNCHANGED <<loopVars, table, phase, inbox, mapVars, threads, ghosts>>

-----------------------------------------------------------------------------
(* System calls. *)

Open(f) == table[f] # Free

\* write(): bytes written to f reach the connection f denotes now
Deliver(f, who, g) ==
    IF Open(f) /\ table[f] \notin hung
    THEN [g EXCEPT ![table[f]] = @ \cup {who}] ELSE g

\* close(): nothing happens when f is not open
Close(f) ==
    /\ table' = [table EXCEPT ![f] = Free]
    /\ phase' = [c \in Conns |-> IF c = table[f] THEN "closed" ELSE phase[c]]

Readable(f) == inbox[table[f]] # <<>> \/ table[f] \in hung

\* read(): a number that is not open fails, which counts as end of file; an
\* open one with nothing to read blocks the loop
EndOfFile(f) ==
    Open(f) => inbox[table[f]] = <<>> /\ table[f] \in hung

\* accept() returns the lowest number that is free
FreeFds == {f \in Fds : ~Open(f)}

-----------------------------------------------------------------------------
(* daemon_loop *)

Waiting(S) == \E c \in S : phase[c] = "backlog"

\* One pass of the loop accepts, then serves the ready clients, then the ready
\* peers, each list in the order of the numbers; then it selects again.
ClientsTurn == listening = {}
PeersTurn == listening = {} /\ ready \cap clients = {}
PassDone == PeersTurn /\ ready \cap peer_clients = {}

\* A tracked number that is not open makes select fail with EBADF; the loop
\* then starts over with the same numbers, so this step is not enabled.
Select ==
    /\ running /\ PassDone
    /\ \A f \in clients \cup peer_clients : Open(f)
    /\ ready' = {f \in clients \cup peer_clients : Readable(f)}
    /\ listening' = {s \in {"local", "peer"} :
                        Waiting(IF s = "local" THEN Locals ELSE Remotes)}
    /\ ready' # {} \/ listening' # {}
    /\ UNCHANGED <<running, asking, connVars, mapVars, threads, ghosts>>

\* accept_new_client, then accept_new_peer
AcceptOne(c, f) ==
    /\ phase[c] = "backlog"
    /\ table' = [table EXCEPT ![f] = c]
    /\ phase' = [phase EXCEPT ![c] = "open"]

AcceptNewClient(c) ==
    /\ "local" \in listening
    /\ FreeFds # {}
    /\ AcceptOne(c, Min(FreeFds))
    /\ clients' = clients \cup {Min(FreeFds)}
    /\ listening' = listening \ {"local"}
    /\ UNCHANGED <<running, ready, asking, inbox, hung, peer_clients, subscribers,
                   threads, ghosts>>

AcceptNewPeer(c) ==
    /\ listening = {"peer"}
    /\ FreeFds # {}
    /\ AcceptOne(c, Min(FreeFds))
    /\ peer_clients' = peer_clients \cup {Min(FreeFds)}
    /\ listening' = {}
    /\ UNCHANGED <<running, ready, asking, inbox, hung, clients, subscribers,
                   threads, ghosts>>

\* The loop sees that running was cleared and the process exits
Stop ==
    /\ running /\ PassDone
    /\ running' = FALSE
    /\ table' = [f \in Fds |-> Free]
    /\ phase' = [c \in Conns |-> IF phase[c] \in {"open", "backlog"} THEN "closed"
                                 ELSE phase[c]]
    /\ clients' = {} /\ peer_clients' = {} /\ subscribers' = {} /\ threads' = {}
    /\ UNCHANGED <<ready, listening, asking, inbox, hung, ghosts>>

-----------------------------------------------------------------------------
(* mainCommand *)

\* Mutant: the result is not written
RunHandlerNoReply(f, c, m) ==
    /\ ran' = IF m.kind = "invalid" THEN ran ELSE [ran EXCEPT ![c][m.n] = @ + 1]
    /\ UNCHANGED got

\* The handler runs in the loop, whatever the kind of the command, and its
\* result, or the error for a line that is not JSON, is written to the descriptor
RunHandler(f, c, m) ==
    /\ ran' = IF m.kind = "invalid" THEN ran ELSE [ran EXCEPT ![c][m.n] = @ + 1]
    /\ got' = Deliver(f, c, got)

\* Mutant: the thread gets a descriptor variable that was already reset
SpawnReset(f, c, m) == [fd |-> 0, conn |-> c, n |-> m.n, stage |-> "handler"]

\* A slow command is then handed to a thread
Spawn(f, c, m) == [fd |-> f, conn |-> c, n |-> m.n, stage |-> "handler"]

\* Mutants: the map entry, or the log subscription, is left behind
UntrackForgotten(f) ==
    /\ subscribers' = subscribers \ {f}
    /\ ready' = ready \ {f}
    /\ UNCHANGED clients

UntrackKeepsSubscriber(f) ==
    /\ clients' = clients \ {f}
    /\ ready' = ready \ {f}
    /\ UNCHANGED subscribers

\* handle_client_data forgets a descriptor: unregisterLogSubscriber, erase
Untrack(f) ==
    /\ clients' = clients \ {f}
    /\ subscribers' = subscribers \ {f}
    /\ ready' = ready \ {f}

\* handle_client_data: end of file
ClientGone(f) ==
    /\ Close(f)
    /\ Untrack(f)
    /\ UNCHANGED <<inbox, threads, ran, got>>

\* handle_client_data: one line, and what mainCommand's return value asks for
ClientCommand(f, c, m) ==
    /\ RunHandler(f, c, m)
    /\ inbox' = [inbox EXCEPT ![c] = Tail(@)]
    /\ \/ /\ m.kind \in {"plain", "ask"}
          /\ Close(f)
          /\ Untrack(f)
          /\ UNCHANGED threads
       \/ /\ m.kind \in {"keep", "invalid"}
          /\ subscribers' = subscribers \cup (IF m.kind = "keep" THEN {f} ELSE {})
          /\ ready' = IF Len(inbox[c]) = 1 THEN ready \ {f} ELSE ready
          /\ UNCHANGED <<table, phase, clients, threads>>
       \/ /\ m.kind = "slow"
          /\ Untrack(f)
          /\ threads' = threads \cup {Spawn(f, c, m)}
          /\ UNCHANGED <<table, phase>>

\* The number the loop looks at now
ClientInTurn(f) ==
    /\ ClientsTurn /\ f \in ready \cap clients
    /\ \A g \in ready \cap clients : f <= g

PeerInTurn(f) ==
    /\ PeersTurn /\ f \in ready \cap peer_clients
    /\ \A g \in ready \cap peer_clients : f <= g

HandleClientData(f) ==
    /\ asking # "reading" /\ asking' = "no"
    /\ ClientInTurn(f)
    /\ \/ EndOfFile(f) /\ ClientGone(f)
       \/ /\ Open(f) /\ inbox[table[f]] # <<>>
          /\ ClientCommand(f, table[f], Head(inbox[table[f]]))
    /\ UNCHANGED <<running, listening, hung, peer_clients, sent, robbed>>

\* handle_peer_data: end of file; the log subscribers are left alone
PeerGone(f) ==
    /\ Close(f)
    /\ peer_clients' = peer_clients \ {f}
    /\ ready' = ready \ {f}
    /\ UNCHANGED <<inbox, subscribers, threads, ran, got>>

\* handle_peer_data: one line; mainCommand's return value is ignored
PeerCommand(f, c, m) ==
    /\ RunHandler(f, c, m)
    /\ inbox' = [inbox EXCEPT ![c] = Tail(@)]
    /\ ready' = IF Len(inbox[c]) = 1 THEN ready \ {f} ELSE ready
    /\ subscribers' = IF m.kind = "keep" THEN subscribers \cup {f} ELSE subscribers
    /\ threads' = IF m.kind = "slow" THEN threads \cup {Spawn(f, c, m)} ELSE threads
    /\ UNCHANGED <<table, phase, peer_clients>>

HandlePeerData(f) ==
    /\ asking # "reading" /\ asking' = "no"
    /\ PeerInTurn(f)
    /\ \/ EndOfFile(f) /\ PeerGone(f)
       \/ /\ Open(f) /\ inbox[table[f]] # <<>>
          /\ PeerCommand(f, table[f], Head(inbox[table[f]]))
    /\ UNCHANGED <<running, listening, hung, clients, sent, robbed>>

-----------------------------------------------------------------------------
(* handleListWindows, handleActivateWindow: the handler writes to the number of
   the window extension and reads its answer in the loop, without a timeout.  The
   extension's connection is not among Conns (module Extensions has it). *)

InTurn(f) == ClientInTurn(f) \/ PeerInTurn(f)

\* An extension is registered, and the write succeeded; the handler is at the read.
\* (Without one the command is served like a plain one.)
AskExtension(f) ==
    /\ asking = "no" /\ InTurn(f)
    /\ Open(f) /\ inbox[table[f]] # <<>> /\ Head(inbox[table[f]]).kind = "ask"
    /\ asking' = "reading"
    /\ UNCHANGED <<running, ready, listening, connVars, mapVars, threads, ghosts>>

\* The extension answers, or its connection ends...
ExtensionAnswers ==
    /\ asking = "reading"
    /\ asking' = "read"
    /\ UNCHANGED <<running, ready, listening, connVars, mapVars, threads, ghosts>>

\* ...or its connection had ended before, its number denotes another one, and the
\* handler reads that one's commands
ReadsCommands(f) ==
    /\ asking = "reading"
    /\ Open(f) /\ ~InTurn(f) /\ inbox[table[f]] # <<>>
    /\ asking' = "read"
    /\ inbox' = [inbox EXCEPT ![table[f]] = <<>>]
    /\ robbed' = robbed \cup {table[f]}
    /\ UNCHANGED <<running, ready, listening, table, phase, hung, mapVars, threads,
                   sent, ran, got>>

-----------------------------------------------------------------------------
(* The detached thread of a slow command: the handler again, the reply to the
   number it was given, and close.                                           *)

ThreadHandler(th) ==
    /\ th \in threads /\ th.stage = "handler"
    /\ ran' = [ran EXCEPT ![th.conn][th.n] = @ + 1]
    /\ got' = Deliver(th.fd, th.conn, got)
    /\ threads' = (threads \ {th}) \cup {[th EXCEPT !.stage = "close"]}
    /\ UNCHANGED <<loopVars, connVars, mapVars, sent, robbed>>

\* Mutant: the thread does not close the descriptor
ThreadCloseForgotten(th) ==
    /\ th \in threads /\ th.stage = "close"
    /\ threads' = threads \ {th}
    /\ UNCHANGED <<loopVars, connVars, mapVars, ghosts>>

ThreadClose(th) ==
    /\ th \in threads /\ th.stage = "close"
    /\ Close(th.fd)
    /\ threads' = threads \ {th}
    /\ UNCHANGED <<loopVars, inbox, hung, mapVars, ghosts>>

\* logToFile with LOG_INPUT, called by the input thread
StreamLog ==
    /\ subscribers # {}
    /\ got' = [c \in Conns |->
                 IF c \notin hung /\ \E f \in subscribers : table[f] = c
                 THEN got[c] \cup {LogLine} ELSE got[c]]
    /\ UNCHANGED <<loopVars, connVars, mapVars, threads, sent, ran, robbed>>

-----------------------------------------------------------------------------
Loop ==
    \/ Select
    \/ \E c \in Locals : AcceptNewClient(c)
    \/ \E c \in Remotes : AcceptNewPeer(c)
    \/ \E f \in Fds : HandleClientData(f) \/ HandlePeerData(f) \/ AskExtension(f)

ThreadStep == \E th \in threads : ThreadHandler(th) \/ ThreadClose(th)

Next ==
    \/ \E c \in Conns : Connect(c) \/ HangUp(c) \/ \E k \in Kinds : Send(c, k)
    \/ Loop
    \/ ThreadStep
    \/ ExtensionAnswers \/ \E f \in Fds : ReadsCommands(f)
    \/ StreamLog
    \/ Stop

Spec == Init /\ [][Next]_vars

\* The loop and the threads are scheduled; nobody has to connect, send, log or
\* answer the loop's reads.
FairSpec == Spec /\ WF_vars(Loop) /\ WF_vars(ThreadStep)

-----------------------------------------------------------------------------
(* Properties. *)

\* Every variable has its type.
TypeOK ==
    /\ running \in BOOLEAN
    /\ ready \subseteq Fds /\ listening \subseteq {"local", "peer"}
    /\ asking \in {"no", "reading", "read"}
    /\ table \in [Fds -> Conns \cup {Free}]
    /\ phase \in [Conns -> {"new", "backlog", "open", "closed"}]
    /\ inbox \in [Conns -> Seq([kind : Kinds, n : 1 .. MaxSends])]
    /\ hung \subseteq Conns
    /\ clients \subseteq Fds /\ peer_clients \subseteq Fds /\ subscribers \subseteq Fds
    /\ threads \subseteq [fd : Fds, conn : Conns, n : 1 .. MaxSends,
                          stage : {"handler", "close"}]
    /\ sent \in [Conns -> 0 .. MaxSends]
    /\ ran \in [Conns -> [1 .. MaxSends -> Nat]]
    /\ got \in [Conns -> SUBSET (Conns \cup {LogLine})]
    /\ robbed \subseteq Conns

\* What the loop and the threads hold is exactly what is open, and each open
\* descriptor is held once: by `clients', by `peer_clients' or by one thread.
\* So nothing leaks, nothing is closed twice, select never fails, and a thread
\* never closes a number that was reused.
ThreadFds == {th.fd : th \in threads}

OneHolder ==
    /\ clients \cap peer_clients = {}
    /\ ThreadFds \cap (clients \cup peer_clients) = {}
    /\ \A th, ti \in threads : th.fd = ti.fd => th = ti
    /\ \A f \in Fds : Open(f) <=> f \in clients \cup peer_clients \cup ThreadFds

\* A reply or a log line only reaches the connection that asked for it, although
\* the daemon keeps numbers and the kernel reuses them.
OwnAnswersOnly ==
    \A c \in Conns :
        /\ got[c] \subseteq {c, LogLine}
        /\ LogLine \in got[c] => \E n \in 1 .. MaxSends : ran[c][n] > 0

\* The daemon closes a connection only after it answered a command on it or the
\* other end has gone.
NoSilentClose ==
    [][\A c \in Conns :
          phase[c] = "open" /\ phase'[c] = "closed" /\ running' =>
             c \in got[c] \/ c \in got'[c] \/ c \in hung]_vars

\* handle_peer_data: "Just process the command - peer connections stay open".
PeerConnectionsStayOpen == \A f \in peer_clients : Open(f)

\* The loop is inside a read() that has no timeout: of the window extension's
\* number, or of a connection whose commands were read meanwhile.
LoopReads ==
    \/ asking = "reading"
    \/ \E f \in Fds : InTurn(f) /\ Open(f) /\ ~Readable(f)

\* Provided every such read of the loop ends, a local program that sent a command
\* is answered, unless it hangs up, the daemon stops, or a handler read its
\* commands for the window extension's answer; a command after the first one may be
\* dropped with the connection.
LocalsAreAnswered ==
    []<>~LoopReads =>
        \A c \in Locals :
            (sent[c] > 0) ~> (c \in got[c] \/ c \in hung \/ ~running \/ c \in robbed)

\* The connection of a slow command, which no map tracks any more, is closed in
\* the end.
SlowConnectionsClose ==
    \A c \in Locals : (\E th \in threads : th.conn = c) ~> (phase[c] = "closed")
=============================================================================
