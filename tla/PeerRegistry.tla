---------------------------- MODULE PeerRegistry ----------------------------
(***************************************************************************)
(* The leader's view of its workers: the table peer_registry               *)
(* (DatabaseTableManagers.cpp), the identities of the connections in       *)
(* peer_clients (DaemonServer.cpp), the map m_peers from a worker to a     *)
(* descriptor number (PeerManager.cpp) and execOnPeer, which sends a       *)
(* command over the descriptor of that map (cmdPeer.cpp).                  *)
(*                                                                         *)
(* A worker connects, registers, sends heartbeats, loses its connection    *)
(* and connects again.  The leader hears of the end of a connection late,  *)
(* or never; the map keeps the number of a closed descriptor; and a        *)
(* command is executed once by the event loop, which it blocks, and once   *)
(* more by a thread.                                                       *)
(***************************************************************************)
EXTENDS Integers, Sequences, FiniteSets, FiniteSetsExt

CONSTANTS
    Peers,      \* the workers
    MaxLinks,   \* bound of the model: connections from or to one worker
    MaxTotal,   \* bound of the model: connections of all workers
    MaxFd,      \* descriptor numbers for them: 1 .. MaxFd
    MaxInbox,   \* bound of the model: messages on their way to the leader
    MaxExecs,   \* bound of the model: execOnPeer commands
    Free        \* a descriptor number that is not open

Conns == Peers \X (1 .. MaxLinks)
Fds == 1 .. MaxFd
NoFd == 0
Unknown == "unknown"        \* a tracked connection that has not said who it is
Untracked == "untracked"

ASSUME ConstantsAssumption ==
    /\ {MaxLinks, MaxTotal, MaxFd, MaxInbox, MaxExecs} \subseteq Nat
    /\ Free \notin Conns
    /\ {Unknown, Untracked} \cap Peers = {}

ASSUME EnoughDescriptors == IsFiniteSet(Peers) /\ MaxTotal <= MaxFd

VARIABLES
    made,          \* how many connections there were from or to a worker
    link,          \* the connection a worker takes for its link to the leader, or 0
    phase,         \* of a connection, at the leader: new, backlog, open, closed
    ended,         \* the connections whose end the leader can see
    inbox,         \* of a connection: what the leader has not read yet
    req,           \* of a connection: commands the worker has not executed yet
    rerun,         \* commands a worker's thread executes once more
    table,         \* the leader's descriptor table
    peer_clients,  \* of a number: the peer_id, Unknown, or Untracked
    m_peers,       \* of a worker: the number m_peers keeps, or NoFd
    rows, online, fresh,   \* peer_registry: the rows, is_online, last_seen < 20 s ago
    apps,          \* the workers with a cached application status
    job,           \* the execOnPeer command that is executed
    ready,         \* what select reported with that command: handled after it
    execs,         \* how many execOnPeer commands there were
    ran            \* ghost: <<worker asked for, worker that executed>>

wireVars == <<made, link, phase, ended, inbox, req, rerun>>
rowVars == <<rows, online, fresh>>
vars == <<wireVars, table, peer_clients, m_peers, rowVars, apps, job, ready, execs, ran>>

Idle == [stage |-> "idle", peer |-> Unknown, fd |-> NoFd, attempt |-> 0, inLoop |-> FALSE]

Init ==
    /\ made = [p \in Peers |-> 0] /\ link = [p \in Peers |-> 0]
    /\ phase = [c \in Conns |-> "new"]
    /\ ended = {}
    /\ inbox = [c \in Conns |-> <<>>] /\ req = [c \in Conns |-> <<>>]
    /\ rerun = {}
    /\ table = [f \in Fds |-> Free]
    /\ peer_clients = [f \in Fds |-> Untracked]
    /\ m_peers = [p \in Peers |-> NoFd]
    /\ rows = {} /\ online = {} /\ fresh = {} /\ apps = {}
    /\ job = Idle /\ ready = {} /\ execs = 0
    /\ ran = {}

Owner(c) == c[1]
Open(f) == f \in Fds /\ table[f] # Free
FreeFds == {f \in Fds : table[f] = Free}
MayConnect(p) == made[p] < MaxLinks /\ MapThenSumSet(LAMBDA q : made[q], Peers) < MaxTotal
Tracked == {f \in Fds : peer_clients[f] # Untracked}

-----------------------------------------------------------------------------
(* The workers. *)

\* connectToLeader: the registration is the first message
WorkerConnect(p) ==
    /\ link[p] = 0 /\ MayConnect(p)
    /\ made' = [made EXCEPT ![p] = @ + 1]
    /\ link' = [link EXCEPT ![p] = made[p] + 1]
    /\ phase' = [phase EXCEPT ![<<p, made[p] + 1>>] = "backlog"]
    /\ inbox' = [inbox EXCEPT ![<<p, made[p] + 1>>] = <<"register">>]
    /\ UNCHANGED <<ended, req, rerun, table, peer_clients, m_peers, rowVars, apps,
                   job, ready, execs, ran>>

\* reconnectLoop's heartbeat, and updatePeerMac
WorkerSend(p, m) ==
    /\ link[p] # 0
    /\ Len(inbox[<<p, link[p]>>]) < MaxInbox
    /\ inbox' = [inbox EXCEPT ![<<p, link[p]>>] = Append(@, m)]
    /\ UNCHANGED <<made, link, phase, ended, req, rerun, table, peer_clients, m_peers,
                   rowVars, apps, job, ready, execs, ran>>

\* The worker stops or loses the link; the leader sees the end of the
\* connection, or does not when the network is cut
WorkerDrop(p) ==
    /\ link[p] # 0
    /\ link' = [link EXCEPT ![p] = 0]
    /\ ended' \in {ended, ended \cup {<<p, link[p]>>}}
    /\ UNCHANGED <<made, phase, inbox, req, rerun, table, peer_clients, m_peers,
                   rowVars, apps, job, ready, execs, ran>>

-----------------------------------------------------------------------------
(* The event loop of the leader *)

\* select is called again unless a handler of the last round is not done, and
\* it fails when a tracked number is not open
LoopRuns == ~job.inLoop /\ ready = {} /\ \A f \in Tracked : Open(f)

AcceptNewPeer(c) ==
    /\ LoopRuns
    /\ phase[c] = "backlog" /\ FreeFds # {}
    /\ phase' = [phase EXCEPT ![c] = "open"]
    /\ table' = [table EXCEPT ![Min(FreeFds)] = c]
    /\ peer_clients' = [peer_clients EXCEPT ![Min(FreeFds)] = Unknown]
    /\ UNCHANGED <<made, link, ended, inbox, req, rerun, m_peers, rowVars, apps, job,
                   ready, execs, ran>>

\* PeerTable::upsertPeer with is_online true
UpsertPeer(p) ==
    /\ rows' = rows \cup {p} /\ online' = online \cup {p} /\ fresh' = fresh \cup {p}

\* Mutant: a heartbeat does not set is_online
TouchOnlyLastSeen(p) ==
    /\ fresh' = fresh \cup ({p} \cap rows)
    /\ UNCHANGED <<rows, online>>

\* Mutant: a heartbeat marks a peer online whose row was deleted
TouchAnyPeer(p) ==
    /\ online' = online \cup {p}
    /\ fresh' = fresh \cup {p}
    /\ UNCHANGED rows

\* PeerTable::touchLastSeen, which updates a row if there is one
TouchLastSeen(p) ==
    /\ online' = online \cup ({p} \cap rows)
    /\ fresh' = fresh \cup ({p} \cap rows)
    /\ UNCHANGED rows

\* PeerTable::updateOnlineStatus(p, false)
UpdateOffline(p) ==
    /\ online' = online \ {p}
    /\ fresh' = fresh \cup ({p} \cap rows)
    /\ UNCHANGED rows

\* handleUpdatePeerMacInternal writes the row back, with last_seen = NOW()
UpdateMac(p) ==
    /\ fresh' = fresh \cup ({p} \cap rows)
    /\ UNCHANGED <<rows, online>>

CloseFd(f) ==
    IF Open(f)
    THEN /\ phase' = [phase EXCEPT ![table[f]] = "closed"]
         /\ table' = [table EXCEPT ![f] = Free]
    ELSE UNCHANGED <<phase, table>>

\* Mutant: the entry of the map is left behind
PeerGoneKeepsEntry(f) ==
    /\ IF peer_clients[f] \in Peers
       THEN UpdateOffline(peer_clients[f]) /\ apps' = apps \ {peer_clients[f]}
       ELSE UNCHANGED <<rowVars, apps>>
    /\ CloseFd(f)
    /\ UNCHANGED <<inbox, peer_clients, m_peers>>

\* handle_peer_data: end of file
PeerGone(f) ==
    /\ IF peer_clients[f] \in Peers
       THEN UpdateOffline(peer_clients[f]) /\ apps' = apps \ {peer_clients[f]}
       ELSE UNCHANGED <<rowVars, apps>>
    /\ CloseFd(f)
    /\ peer_clients' = [peer_clients EXCEPT ![f] = Untracked]
    /\ UNCHANGED <<inbox, m_peers>>

\* handle_peer_data: one message of worker p; a line that is not JSON, like the
\* output of a command, is only answered with an error
PeerMessage(f, p, m) ==
    \/ /\ m = "register"
       /\ peer_clients' = [peer_clients EXCEPT ![f] = p]
       /\ apps' = apps \cup {p}
       /\ UpsertPeer(p)
       /\ m_peers' = [m_peers EXCEPT ![p] = f]
    \/ /\ m = "heartbeat"
       /\ TouchLastSeen(p)
       /\ apps' \in {apps, apps \cup {p}}   \* every sixth one has the status
       /\ peer_clients' = [peer_clients EXCEPT ![f] = IF @ = Unknown THEN p ELSE @]
       /\ UNCHANGED m_peers
    \/ /\ m = "mac"
       /\ UpdateMac(p)
       /\ UNCHANGED <<apps, peer_clients, m_peers>>
    \/ /\ m = "output"
       /\ UNCHANGED <<rowVars, apps, peer_clients, m_peers>>

\* The next message of the connection
PeerReads(f) ==
    LET c == table[f]
    IN  /\ inbox[c] # <<>>
        /\ PeerMessage(f, Owner(c), Head(inbox[c]))
        /\ inbox' = [inbox EXCEPT ![c] = Tail(@)]
        /\ UNCHANGED <<table, phase>>

HandlePeerData(f) ==
    /\ LoopRuns /\ f \in Tracked
    /\ \/ PeerReads(f)
       \/ inbox[table[f]] = <<>> /\ table[f] \in ended /\ PeerGone(f)
    /\ UNCHANGED <<made, link, ended, req, rerun, job, ready, execs, ran>>

\* The rest of the round in which execOnPeer was handled: read() fails when the
\* number was closed meanwhile, and times out when its data were taken
HandleReady(f) ==
    /\ ~job.inLoop /\ f \in ready
    /\ \/ Open(f) /\ PeerReads(f)
       \/ (Open(f) => inbox[table[f]] = <<>>) /\ PeerGone(f)
    /\ ready' = ready \ {f}
    /\ UNCHANGED <<made, link, ended, req, rerun, job, execs, ran>>

\* handleDeletePeer removes the row and nothing else
DeletePeer(p) ==
    /\ LoopRuns /\ p \in rows
    /\ rows' = rows \ {p} /\ online' = online \ {p} /\ fresh' = fresh \ {p}
    /\ UNCHANGED <<wireVars, table, peer_clients, m_peers, apps, job, ready, execs, ran>>

\* 20 seconds pass without a message.  Ten-second heartbeats on a link the
\* leader has accepted are assumed to arrive in time.
Expire(p) ==
    /\ p \in fresh
    /\ link[p] # 0 => phase[<<p, link[p]>>] # "open"
    /\ fresh' = fresh \ {p}
    /\ UNCHANGED <<wireVars, table, peer_clients, m_peers, rows, online, apps, job,
                   ready, execs, ran>>

\* The leader's daemon stops and starts again; the rows are in the database
RestartLeader ==
    /\ phase' = [c \in Conns |-> IF phase[c] = "new" THEN "new" ELSE "closed"]
    /\ table' = [f \in Fds |-> Free]
    /\ peer_clients' = [f \in Fds |-> Untracked]
    /\ m_peers' = [p \in Peers |-> NoFd]
    /\ link' = [p \in Peers |-> 0]
    /\ inbox' = [c \in Conns |-> <<>>] /\ req' = [c \in Conns |-> <<>>]
    /\ ended' = {} /\ rerun' = {} /\ apps' = {} /\ job' = Idle /\ ready' = {}
    /\ UNCHANGED <<made, rowVars, execs, ran>>

-----------------------------------------------------------------------------
(* handleExecOnPeer on the leader: in the loop, then again in a thread *)

ExecStart(p) ==
    /\ LoopRuns /\ job = Idle /\ execs < MaxExecs
    /\ job' = [stage |-> "pick", peer |-> p, fd |-> NoFd, attempt |-> 1, inLoop |-> TRUE]
    /\ ready' = {f \in Tracked : inbox[table[f]] # <<>> \/ table[f] \in ended}
    /\ execs' = execs + 1
    /\ UNCHANGED <<wireVars, table, peer_clients, m_peers, rowVars, apps, ran>>

\* The handler returns; after the loop's execution comes the thread's
Finished ==
    IF job.inLoop THEN [job EXCEPT !.stage = "pick", !.attempt = 1, !.inLoop = FALSE]
    ELSE Idle

\* The first failure is followed by a second attempt
Retry == IF job.attempt = 1 THEN [job EXCEPT !.stage = "pick", !.attempt = 2] ELSE Finished

\* The peer is in m_peers, or is not in the database, or a connection to it is
\* opened, or that fails
ExecPick ==
    /\ job.stage = "pick"
    /\ LET p == job.peer
           c == <<p, made[p] + 1>>
           f == Min(FreeFds)
       IN  \/ /\ m_peers[p] # NoFd
              /\ job' = [job EXCEPT !.stage = "send", !.fd = m_peers[p]]
              /\ UNCHANGED <<made, phase, table, m_peers>>
           \/ /\ m_peers[p] = NoFd /\ p \notin rows
              /\ job' = Finished
              /\ UNCHANGED <<made, phase, table, m_peers>>
           \/ /\ m_peers[p] = NoFd /\ p \in rows /\ MayConnect(p) /\ FreeFds # {}
              /\ made' = [made EXCEPT ![p] = @ + 1]
              /\ phase' = [phase EXCEPT ![c] = "open"]
              /\ table' = [table EXCEPT ![f] = c]
              /\ m_peers' = [m_peers EXCEPT ![p] = f]
              /\ job' = [job EXCEPT !.stage = "send", !.fd = f]
           \/ /\ m_peers[p] = NoFd /\ p \in rows
              /\ job' = Retry
              /\ UNCHANGED <<made, phase, table, m_peers>>
    /\ UNCHANGED <<link, ended, inbox, req, rerun, peer_clients, rowVars, apps, ready,
                   execs, ran>>

\* sendToPeer writes to the number m_peers holds now.  A write to a connection
\* the other side has closed may still succeed, and is lost.
ExecSend ==
    /\ job.stage = "send"
    /\ LET p == job.peer
           f == m_peers[p]
       IN  \/ /\ f = NoFd
              /\ job' = Retry
              /\ UNCHANGED <<phase, table, m_peers, req>>
           \/ /\ Open(f)
              /\ req' = IF table[f] \in ended THEN req
                        ELSE [req EXCEPT ![table[f]] = Append(@, p)]
              /\ job' = [job EXCEPT !.stage = "read"]
              /\ UNCHANGED <<phase, table, m_peers>>
           \/ /\ f # NoFd /\ (Open(f) => table[f] \in ended)
              /\ CloseFd(f)
              /\ m_peers' = [m_peers EXCEPT ![p] = NoFd]
              /\ job' = Retry
              /\ UNCHANGED req
    /\ UNCHANGED <<made, link, ended, inbox, rerun, peer_clients, rowVars, apps, ready,
                   execs, ran>>

\* Mutant: no SO_RCVTIMEO
ReadWaitsForever == FALSE

\* read() returns after 120 seconds without data
ReadTimesOut == Open(job.fd) /\ inbox[table[job.fd]] = <<>>

\* read() on the number picked before: all that is there, or the timeout, or an
\* error, after which unregisterPeer closes the number m_peers holds now
ExecRead ==
    /\ job.stage = "read"
    /\ \/ /\ Open(job.fd) /\ inbox[table[job.fd]] # <<>>
          /\ inbox' = [inbox EXCEPT ![table[job.fd]] = <<>>]
          /\ job' = Finished
          /\ UNCHANGED <<phase, table, m_peers>>
       \/ /\ ReadTimesOut
          /\ job' = Finished
          /\ UNCHANGED <<phase, table, m_peers, inbox>>
       \/ /\ Open(job.fd) => inbox[table[job.fd]] = <<>> /\ table[job.fd] \in ended
          /\ CloseFd(m_peers[job.peer])
          /\ m_peers' = [m_peers EXCEPT ![job.peer] = NoFd]
          /\ job' = Retry
          /\ UNCHANGED inbox
    /\ UNCHANGED <<made, link, ended, req, rerun, peer_clients, rowVars, apps, ready,
                   execs, ran>>

-----------------------------------------------------------------------------
(* A worker executes a command it received on a connection: in its loop, then
   in a thread, which also closes the connection.                            *)

WorkerExec(c) ==
    /\ req[c] # <<>> /\ c \notin ended
    /\ ran' = ran \cup {<<Head(req[c]), Owner(c)>>}
    /\ req' = [req EXCEPT ![c] = Tail(@)]
    /\ inbox' = [inbox EXCEPT ![c] = Append(@, "output")]
    /\ rerun' = rerun \cup {c}
    /\ UNCHANGED <<made, link, phase, ended, table, peer_clients, m_peers, rowVars, apps,
                   job, ready, execs>>

WorkerThread(c) ==
    /\ c \in rerun
    /\ rerun' = rerun \ {c}
    /\ inbox' = IF c \in ended THEN inbox ELSE [inbox EXCEPT ![c] = Append(@, "output")]
    /\ ended' = ended \cup {c}
    /\ link' = [p \in Peers |-> IF c = <<p, link[p]>> THEN 0 ELSE link[p]]
    /\ UNCHANGED <<made, phase, req, table, peer_clients, m_peers, rowVars, apps, job,
                   ready, execs, ran>>

-----------------------------------------------------------------------------
\* Mutant: last_seen is not looked at
ListedByFlag(p) == p \in rows \cap online

\* listPeers: the row says online and was touched in the last 20 seconds
Listed(p) == p \in rows \cap online \cap fresh

Loop ==
    \/ \E c \in Conns : AcceptNewPeer(c)
    \/ \E f \in Fds : HandlePeerData(f) \/ HandleReady(f)

ExecStep == ExecPick \/ ExecSend \/ ExecRead

Next ==
    \/ Loop
    \/ ExecStep
    \/ \E p \in Peers :
          \/ WorkerConnect(p) \/ WorkerDrop(p)
          \/ \E m \in {"heartbeat", "mac"} : WorkerSend(p, m)
          \/ DeletePeer(p) \/ Expire(p) \/ ExecStart(p)
    \/ \E c \in Conns : WorkerExec(c) \/ WorkerThread(c)
    \/ RestartLeader

Spec == Init /\ [][Next]_vars

\* The loop and the handler are scheduled, time passes, and a worker that has a
\* link sends heartbeats: strongly fair, since its other messages may fill the
\* bound of the inbox each time there is room.
FairSpec ==
    /\ Spec
    /\ WF_vars(ExecStep)
    /\ \A c \in Conns : WF_vars(AcceptNewPeer(c))
    /\ \A f \in Fds : WF_vars(HandlePeerData(f)) /\ WF_vars(HandleReady(f))
    /\ \A p \in Peers : SF_vars(WorkerSend(p, "heartbeat")) /\ WF_vars(Expire(p))

-----------------------------------------------------------------------------
(* Properties. *)

\* Every variable has its type.
TypeOK ==
    /\ made \in [Peers -> 0 .. MaxLinks] /\ link \in [Peers -> 0 .. MaxLinks]
    /\ phase \in [Conns -> {"new", "backlog", "open", "closed"}]
    /\ ended \subseteq Conns /\ rerun \subseteq Conns
    /\ inbox \in [Conns -> Seq({"register", "heartbeat", "mac", "output"})]
    /\ req \in [Conns -> Seq(Peers)]
    /\ table \in [Fds -> Conns \cup {Free}]
    /\ peer_clients \in [Fds -> Peers \cup {Unknown, Untracked}]
    /\ m_peers \in [Peers -> {NoFd} \cup Fds]
    /\ rows \subseteq Peers /\ online \subseteq rows /\ fresh \subseteq rows
    /\ apps \subseteq Peers
    /\ job \in [stage : {"idle", "pick", "send", "read"}, peer : Peers \cup {Unknown},
                fd : {NoFd} \cup Fds, attempt : 0 .. 2, inLoop : BOOLEAN]
    /\ ready \subseteq Fds /\ execs \in 0 .. MaxExecs
    /\ ran \subseteq Peers \X Peers

\* Without execOnPeer, an identity in peer_clients is the one of the worker at
\* the other end although numbers are reused, so that the end of a connection
\* marks the right worker offline.
IdentityKept ==
    \A f \in Tracked :
        Open(f) /\ (peer_clients[f] \in Peers => peer_clients[f] = Owner(table[f]))

\* A worker that keeps its link and its row is listed online from some time on:
\* the late end of an earlier connection, which marks it offline, is repaired by
\* a later heartbeat.
ConnectedIsListed ==
    \A p \in Peers : <>[](link[p] # 0 /\ p \in rows) => <>[]Listed(p)

\* A worker that is gone is listed offline from some time on, even when the
\* leader never sees the end of its connection or was restarted.
GoneIsUnlisted ==
    \A p \in Peers : <>[](link[p] = 0) => <>[]~Listed(p)

\* handleExecOnPeer returns, whatever happens to the connections, and the loop
\* goes on.
ExecReturns == (job.stage # "idle") ~> (job = Idle)

\* execOnPeer: "Local daemon connects to target peer": a command is executed by
\* the worker it was meant for.
ExecutedOnTarget == \A r \in ran : r[1] = r[2]
=============================================================================
