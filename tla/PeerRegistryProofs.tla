------------------------- MODULE PeerRegistryProofs -------------------------
(***************************************************************************)
(* The leader keeps the right identity for every connection, for any       *)
(* number of workers, connections, messages and descriptors, as long as    *)
(* execOnPeer, which closes numbers that others still have, is not used;   *)
(* with it, the types of the registry.                                     *)
(***************************************************************************)
EXTENDS PeerRegistry, TLAPS, WellFoundedInduction

\* A set of naturals that is not empty has a least member, and Min is it.
LEMMA MinIsLeast ==
    ASSUME NEW S, S \subseteq Nat, S # {}
    PROVE  Min(S) \in S /\ \A y \in S : Min(S) <= y
<1>1. PICK x \in S : \A y \in S : ~(<<y, x>> \in OpToRel(<, Nat))
  BY NatLessThanWellFounded, WFMin
<1>2. ASSUME NEW y \in S PROVE x <= y
  <2>1. ~(y < x)
    BY <1>1 DEF OpToRel
  <2> QED
    BY <2>1, SMT
<1> QED
  BY <1>2 DEF Min

\* What a step needs to know to keep IdentityKept: the types of the two maps, and
\* that no handler is in the middle of a round of the loop.
IdentityInv ==
    /\ table \in [Fds -> Conns \cup {Free}]
    /\ peer_clients \in [Fds -> Peers \cup {Unknown, Untracked}]
    /\ job = Idle /\ ready = {} /\ execs = 0
    /\ IdentityKept

\* accept returns a number that is not open.
LEMMA FreeNumber ==
    ASSUME FreeFds # {}
    PROVE  Min(FreeFds) \in Fds /\ table[Min(FreeFds)] = Free
<1>1. FreeFds \subseteq Nat
  BY ConstantsAssumption DEF FreeFds, Fds
<1>2. Min(FreeFds) \in FreeFds
  BY <1>1, MinIsLeast
<1> QED
  BY <1>2 DEF FreeFds

\* A new connection gets a number that was not tracked and is of nobody known.
LEMMA AcceptKeeps ==
    ASSUME IdentityInv, NEW c \in Conns, AcceptNewPeer(c)
    PROVE  IdentityInv'
<1> DEFINE f == Min(FreeFds)
<1>1. f \in Fds /\ table[f] = Free
  BY FreeNumber DEF AcceptNewPeer
<1>2. /\ table' = [table EXCEPT ![f] = c]
      /\ peer_clients' = [peer_clients EXCEPT ![f] = Unknown]
      /\ UNCHANGED <<job, ready, execs>>
  BY DEF AcceptNewPeer
<1> HIDE DEF f
<1>3. Unknown \notin Peers /\ Unknown # Untracked /\ Free \notin Conns
  BY ConstantsAssumption DEF Unknown, Untracked
<1>4. IdentityKept'
  BY <1>1, <1>2, <1>3 DEF IdentityInv, IdentityKept, Tracked, Open, Owner
<1> QED
  BY <1>1, <1>2, <1>4 DEF IdentityInv, Idle

\* The end of a connection removes the number from both maps at once.
LEMMA GoneKeeps ==
    ASSUME IdentityInv, NEW f \in Fds, PeerGone(f), UNCHANGED <<job, ready, execs>>
    PROVE  IdentityInv'
<1>1. peer_clients' = [peer_clients EXCEPT ![f] = Untracked]
  BY DEF PeerGone
<1>2. table' = [table EXCEPT ![f] = Free] \/ (~Open(f) /\ table' = table)
  BY DEF PeerGone, CloseFd
<1>3. \A g \in Fds : g # f => table'[g] = table[g] /\ peer_clients'[g] = peer_clients[g]
  BY <1>1, <1>2 DEF IdentityInv
<1>4. IdentityKept'
  BY <1>1, <1>2, <1>3 DEF IdentityInv, IdentityKept, Tracked, Open, Owner
<1> QED
  BY <1>1, <1>2, <1>4 DEF IdentityInv, Idle

\* A message changes at most the identity of its own connection, and to the
\* worker that sent it.
LEMMA ReadKeeps ==
    ASSUME IdentityInv, NEW f \in Tracked, PeerReads(f), UNCHANGED <<job, ready, execs>>
    PROVE  IdentityInv'
<1>1. f \in Fds /\ table[f] \in Conns
  BY DEF Tracked, IdentityInv, IdentityKept, Open
<1>2. Owner(table[f]) \in Peers
  BY <1>1 DEF Owner, Conns
<1>3. table' = table
  BY DEF PeerReads
<1>4. peer_clients' = peer_clients
      \/ peer_clients' = [peer_clients EXCEPT ![f] = Owner(table[f])]
  BY <1>1 DEF PeerReads, PeerMessage, IdentityInv
<1>5. IdentityKept'
  BY <1>1, <1>2, <1>3, <1>4, ConstantsAssumption
     DEF IdentityInv, IdentityKept, Tracked, Open, Owner
<1> QED
  BY <1>1, <1>2, <1>3, <1>4, <1>5 DEF IdentityInv, Idle

\* A step that leaves the two maps and the handlers alone.
LEMMA OthersKeep ==
    ASSUME IdentityInv, UNCHANGED <<table, peer_clients, job, ready, execs>>
    PROVE  IdentityInv'
BY DEF IdentityInv, IdentityKept, Tracked, Open, Owner, Idle

\* Every step keeps the invariant when there is no execOnPeer.
LEMMA StepKeeps ==
    ASSUME MaxExecs = 0, IdentityInv, [Next]_vars
    PROVE  IdentityInv'
<1>1. CASE \E c \in Conns : AcceptNewPeer(c)
  BY <1>1, AcceptKeeps
<1>2. ASSUME NEW f \in Fds, HandlePeerData(f) PROVE IdentityInv'
  BY <1>2, GoneKeeps, ReadKeeps DEF HandlePeerData
<1>3. ASSUME NEW f \in Fds, HandleReady(f) PROVE IdentityInv'
  BY <1>3 DEF HandleReady, IdentityInv
<1>4. CASE ExecStep
  BY <1>4 DEF ExecStep, ExecPick, ExecSend, ExecRead, IdentityInv, Idle
<1>5. ASSUME NEW p \in Peers,
             \/ WorkerConnect(p) \/ WorkerDrop(p)
             \/ \E m \in {"heartbeat", "mac"} : WorkerSend(p, m)
             \/ DeletePeer(p) \/ Expire(p)
      PROVE  IdentityInv'
  BY <1>5, OthersKeep DEF WorkerConnect, WorkerDrop, WorkerSend, DeletePeer, Expire
<1>6. ASSUME NEW p \in Peers, ExecStart(p) PROVE IdentityInv'
  BY <1>6 DEF ExecStart, IdentityInv
<1>7. ASSUME NEW c \in Conns, WorkerExec(c) \/ WorkerThread(c) PROVE IdentityInv'
  BY <1>7, OthersKeep DEF WorkerExec, WorkerThread
<1>8. CASE RestartLeader
  BY <1>8 DEF RestartLeader, IdentityInv, IdentityKept, Tracked, Open, Idle
<1>9. CASE UNCHANGED vars
  BY <1>9, OthersKeep DEF vars
<1> QED
  BY <1>1, <1>2, <1>3, <1>4, <1>5, <1>6, <1>7, <1>8, <1>9 DEF Next, Loop

\* Without execOnPeer every number in peer_clients is open, and its identity is
\* that of the worker at the other end, however numbers are reused, connections
\* end and the leader restarts: the end of a connection marks the right worker
\* offline (handle_peer_data).
THEOREM IdentityHeld ==
    ASSUME MaxExecs = 0
    PROVE  Spec => []IdentityKept
<1>1. Init => IdentityInv
  BY DEF Init, IdentityInv, IdentityKept, Tracked, Open, Idle
<1>2. IdentityInv /\ [Next]_vars => IdentityInv'
  BY StepKeeps
<1>3. IdentityInv => IdentityKept
  BY DEF IdentityInv
<1> QED
  BY <1>1, <1>2, <1>3, PTL DEF Spec

-----------------------------------------------------------------------------
(* The types, with execOnPeer *)

\* A handler that is not idle is for a worker: execOnPeer looks its number up and
\* sends it a command.
ExecHasPeer == job.stage # "idle" => job.peer \in Peers

RegistryInv == TypeOK /\ ExecHasPeer

\* The parts of TypeOK that the handlers of the loop change.
WireTypes ==
    /\ made \in [Peers -> 0 .. MaxLinks] /\ link \in [Peers -> 0 .. MaxLinks]
    /\ phase \in [Conns -> {"new", "backlog", "open", "closed"}]
    /\ ended \subseteq Conns /\ rerun \subseteq Conns
    /\ inbox \in [Conns -> Seq({"register", "heartbeat", "mac", "output"})]
    /\ req \in [Conns -> Seq(Peers)]

MapTypes ==
    /\ table \in [Fds -> Conns \cup {Free}]
    /\ peer_clients \in [Fds -> Peers \cup {Unknown, Untracked}]
    /\ m_peers \in [Peers -> {NoFd} \cup Fds]

RowTypes ==
    /\ rows \subseteq Peers /\ online \subseteq rows /\ fresh \subseteq rows
    /\ apps \subseteq Peers

JobTypes ==
    /\ job \in [stage : {"idle", "pick", "send", "read"}, peer : Peers \cup {Unknown},
                fd : {NoFd} \cup Fds, attempt : 0 .. 2, inLoop : BOOLEAN]
    /\ ready \subseteq Fds /\ execs \in 0 .. MaxExecs
    /\ ran \subseteq Peers \X Peers

LEMMA InParts ==
    TypeOK <=> WireTypes /\ MapTypes /\ RowTypes /\ JobTypes
BY DEF TypeOK, WireTypes, MapTypes, RowTypes, JobTypes

LEMMA InPartsNext ==
    TypeOK' <=> WireTypes' /\ MapTypes' /\ RowTypes' /\ JobTypes'
BY DEF TypeOK, WireTypes, MapTypes, RowTypes, JobTypes

LEMMA WireSame ==
    ASSUME WireTypes, UNCHANGED wireVars
    PROVE  WireTypes'
BY DEF WireTypes, wireVars

LEMMA MapsSame ==
    ASSUME MapTypes, UNCHANGED <<table, peer_clients, m_peers>>
    PROVE  MapTypes'
BY DEF MapTypes

LEMMA RowsSame ==
    ASSUME RowTypes, UNCHANGED <<rowVars, apps>>
    PROVE  RowTypes'
BY DEF RowTypes, rowVars

LEMMA JobSame ==
    ASSUME JobTypes, ExecHasPeer, UNCHANGED <<job, ready, execs, ran>>
    PROVE  JobTypes' /\ ExecHasPeer'
BY DEF JobTypes, ExecHasPeer

\* A closed number is free, and its connection closed.
LEMMA CloseTypes ==
    ASSUME WireTypes, MapTypes, NEW f, CloseFd(f)
    PROVE  /\ phase' \in [Conns -> {"new", "backlog", "open", "closed"}]
           /\ table' \in [Fds -> Conns \cup {Free}]
BY DEF CloseFd, WireTypes, MapTypes, Open

LEMMA GoneTypes ==
    ASSUME WireTypes, MapTypes, RowTypes, NEW f \in Fds, PeerGone(f),
           UNCHANGED <<made, link, ended, req, rerun>>
    PROVE  WireTypes' /\ MapTypes' /\ RowTypes'
<1>1. WireTypes'
  BY CloseTypes DEF PeerGone, WireTypes
<1>2. MapTypes'
  BY CloseTypes DEF PeerGone, MapTypes
<1>3. RowTypes'
  BY DEF PeerGone, RowTypes, UpdateOffline, rowVars
<1> QED
  BY <1>1, <1>2, <1>3

LEMMA MessageTypes ==
    ASSUME MapTypes, RowTypes, NEW f \in Fds, NEW p \in Peers, NEW m, PeerMessage(f, p, m),
           table' = table
    PROVE  MapTypes' /\ RowTypes'
<1>1. CASE m = "register" /\ UpsertPeer(p) /\ apps' = apps \cup {p}
           /\ peer_clients' = [peer_clients EXCEPT ![f] = p]
           /\ m_peers' = [m_peers EXCEPT ![p] = f]
  BY <1>1 DEF MapTypes, RowTypes, UpsertPeer
<1>2. CASE m = "heartbeat" /\ TouchLastSeen(p) /\ apps' \in {apps, apps \cup {p}}
           /\ peer_clients' = [peer_clients EXCEPT ![f] = IF @ = Unknown THEN p ELSE @]
           /\ UNCHANGED m_peers
  BY <1>2 DEF MapTypes, RowTypes, TouchLastSeen
<1>3. CASE m = "mac" /\ UpdateMac(p) /\ UNCHANGED <<apps, peer_clients, m_peers>>
  BY <1>3 DEF MapTypes, RowTypes, UpdateMac
<1>4. CASE m = "output" /\ UNCHANGED <<rowVars, apps, peer_clients, m_peers>>
  BY <1>4 DEF MapTypes, RowTypes, rowVars
<1> QED
  BY <1>1, <1>2, <1>3, <1>4 DEF PeerMessage

LEMMA ReadTypes ==
    ASSUME WireTypes, MapTypes, RowTypes, NEW f \in Fds, Open(f), PeerReads(f),
           UNCHANGED <<made, link, ended, req, rerun>>
    PROVE  WireTypes' /\ MapTypes' /\ RowTypes'
<1>1. table[f] \in Conns /\ Owner(table[f]) \in Peers
  BY DEF Open, MapTypes, Owner, Conns
<1>2. WireTypes'
  <2>1. inbox[table[f]] \in Seq({"register", "heartbeat", "mac", "output"}) /\ inbox[table[f]] # <<>>
    BY <1>1 DEF WireTypes, PeerReads
  <2>2. Tail(inbox[table[f]]) \in Seq({"register", "heartbeat", "mac", "output"})
    BY <2>1
  <2>3. inbox' = [inbox EXCEPT ![table[f]] = Tail(inbox[table[f]])] /\ UNCHANGED phase
    BY DEF PeerReads
  <2> QED
    BY <1>1, <2>2, <2>3 DEF WireTypes
<1>3. MapTypes' /\ RowTypes'
  BY <1>1, MessageTypes DEF PeerReads
<1> QED
  BY <1>2, <1>3

\* What the handlers of execOnPeer leave in job.
LEMMA FinishedTypes ==
    ASSUME JobTypes, ExecHasPeer, job.stage # "idle"
    PROVE  \A j \in {Finished, Retry} :
             /\ j \in [stage : {"idle", "pick", "send", "read"}, peer : Peers \cup {Unknown},
                       fd : {NoFd} \cup Fds, attempt : 0 .. 2, inLoop : BOOLEAN]
             /\ j.stage # "idle" => j.peer \in Peers
<1> DEFINE Job == [stage : {"idle", "pick", "send", "read"}, peer : Peers \cup {Unknown},
                   fd : {NoFd} \cup Fds, attempt : 0 .. 2, inLoop : BOOLEAN]
           Good(j) == j \in Job /\ (j.stage # "idle" => j.peer \in Peers)
<1>1. job \in Job /\ job.peer \in Peers
  BY DEF JobTypes, ExecHasPeer
<1>2. Good(Idle)
  BY DEF Idle
<1> DEFINE i == [job EXCEPT !.stage = "pick", !.attempt = 1, !.inLoop = FALSE]
           k == [job EXCEPT !.stage = "pick", !.attempt = 2]
<1>3. Good(i)
  <2>1. i.stage = "pick" /\ i.peer \in Peers
    BY <1>1
  <2>2. ASSUME NEW n \in 0 .. 2, NEW b \in BOOLEAN
        PROVE  [job EXCEPT !.stage = "pick", !.attempt = n, !.inLoop = b] \in Job
    BY <1>1
  <2>3. 1 \in 0 .. 2 /\ FALSE \in BOOLEAN
    OBVIOUS
  <2>4. i \in Job
    BY <2>2, <2>3, Zenon
  <2> QED
    BY <2>1, <2>4
<1>4. Good(k)
  <2>1. k.stage = "pick" /\ k.peer \in Peers
    BY <1>1
  <2>2. ASSUME NEW n \in 0 .. 2
        PROVE  [job EXCEPT !.stage = "pick", !.attempt = n] \in Job
    BY <1>1
  <2>3. 2 \in 0 .. 2
    OBVIOUS
  <2>4. k \in Job
    BY <2>2, <2>3, Zenon
  <2> QED
    BY <2>1, <2>4
<1>5. Good(Finished)
  BY <1>2, <1>3 DEF Finished
<1>6. Good(Retry)
  BY <1>4, <1>5 DEF Retry
<1> QED
  BY <1>5, <1>6

LEMMA PickTypes ==
    ASSUME RegistryInv, ExecPick
    PROVE  RegistryInv'
<1> USE InParts DEF RegistryInv
<1> DEFINE p == job.peer
           c == <<p, made[p] + 1>>
           f == Min(FreeFds)
<1>1. job.stage # "idle" /\ p \in Peers
  BY DEF ExecPick, ExecHasPeer
<1>2. RowTypes'
  BY DEF ExecPick, RowTypes, rowVars
<1>3. CASE /\ m_peers[p] # NoFd
           /\ job' = [job EXCEPT !.stage = "send", !.fd = m_peers[p]]
           /\ UNCHANGED <<made, phase, table, m_peers>>
  <2>1. WireTypes' /\ MapTypes'
    BY <1>3 DEF ExecPick, WireTypes, MapTypes
  <2>2. m_peers[p] \in Fds
    BY <1>1, <1>3 DEF MapTypes
  <2>3. JobTypes' /\ ExecHasPeer'
    BY <1>1, <1>3, <2>2 DEF ExecPick, JobTypes, ExecHasPeer
  <2> QED
    BY <1>2, <2>1, <2>3, InPartsNext
<1>4. CASE /\ job' \in {Finished, Retry}
           /\ UNCHANGED <<made, phase, table, m_peers>>
  <2>1. WireTypes' /\ MapTypes'
    BY <1>4 DEF ExecPick, WireTypes, MapTypes
  <2>2. JobTypes' /\ ExecHasPeer'
    BY <1>1, <1>4, FinishedTypes DEF ExecPick, JobTypes, ExecHasPeer
  <2> QED
    BY <1>2, <2>1, <2>2, InPartsNext
<1>5. CASE /\ MayConnect(p) /\ FreeFds # {}
           /\ made' = [made EXCEPT ![p] = @ + 1]
           /\ phase' = [phase EXCEPT ![c] = "open"]
           /\ table' = [table EXCEPT ![f] = c]
           /\ m_peers' = [m_peers EXCEPT ![p] = f]
           /\ job' = [job EXCEPT !.stage = "send", !.fd = f]
  <2>1. made[p] + 1 \in 1 .. MaxLinks /\ c \in Conns
    BY <1>1, <1>5, ConstantsAssumption DEF MayConnect, WireTypes, Conns
  <2>2. f \in Fds
    BY <1>5, FreeNumber
  <2> HIDE DEF f, c
  <2>3. WireTypes'
    BY <1>1, <1>5, <2>1 DEF ExecPick, WireTypes
  <2>4. MapTypes'
    BY <1>1, <1>5, <2>1, <2>2 DEF ExecPick, MapTypes
  <2>5. JobTypes' /\ ExecHasPeer'
    BY <1>1, <1>5, <2>2 DEF ExecPick, JobTypes, ExecHasPeer
  <2> QED
    BY <1>2, <2>3, <2>4, <2>5, InPartsNext
<1> QED
  BY <1>3, <1>4, <1>5 DEF ExecPick

LEMMA SendTypes ==
    ASSUME RegistryInv, ExecSend
    PROVE  RegistryInv'
<1> USE InParts DEF RegistryInv
<1> DEFINE p == job.peer
           f == m_peers[p]
<1>1. job.stage # "idle" /\ p \in Peers /\ f \in {NoFd} \cup Fds
  BY DEF ExecSend, ExecHasPeer, MapTypes
<1>2. RowTypes'
  BY DEF ExecSend, RowTypes, rowVars
<1>3. CASE job' = Retry /\ UNCHANGED <<phase, table, m_peers, req>>
  <2>1. WireTypes' /\ MapTypes'
    BY <1>3 DEF ExecSend, WireTypes, MapTypes
  <2>2. JobTypes' /\ ExecHasPeer'
    BY <1>1, <1>3, FinishedTypes DEF ExecSend, JobTypes, ExecHasPeer
  <2> QED
    BY <1>2, <2>1, <2>2, InPartsNext
<1>4. CASE /\ Open(f)
           /\ req' = IF table[f] \in ended THEN req ELSE [req EXCEPT ![table[f]] = Append(@, p)]
           /\ job' = [job EXCEPT !.stage = "read"]
           /\ UNCHANGED <<phase, table, m_peers>>
  <2>1. table[f] \in Conns
    BY <1>4 DEF Open, MapTypes
  <2>2. req[table[f]] \in Seq(Peers)
    BY <2>1 DEF WireTypes
  <2>3. Append(req[table[f]], p) \in Seq(Peers)
    BY <1>1, <2>2
  <2>4. req' \in [Conns -> Seq(Peers)]
    BY <1>4, <2>1, <2>3 DEF WireTypes
  <2>5. WireTypes' /\ MapTypes'
    BY <1>4, <2>4 DEF ExecSend, WireTypes, MapTypes
  <2>6. JobTypes' /\ ExecHasPeer'
    BY <1>1, <1>4 DEF ExecSend, JobTypes, ExecHasPeer
  <2> QED
    BY <1>2, <2>5, <2>6, InPartsNext
<1>5. CASE /\ CloseFd(f)
           /\ m_peers' = [m_peers EXCEPT ![p] = NoFd]
           /\ job' = Retry /\ UNCHANGED req
  <2>1. WireTypes'
    BY <1>5, CloseTypes DEF ExecSend, WireTypes
  <2>2. MapTypes'
    BY <1>1, <1>5, CloseTypes DEF ExecSend, MapTypes
  <2>3. JobTypes' /\ ExecHasPeer'
    BY <1>1, <1>5, FinishedTypes DEF ExecSend, JobTypes, ExecHasPeer
  <2> QED
    BY <1>2, <2>1, <2>2, <2>3, InPartsNext
<1> QED
  BY <1>3, <1>4, <1>5 DEF ExecSend

LEMMA ExecReadTypes ==
    ASSUME RegistryInv, ExecRead
    PROVE  RegistryInv'
<1> USE InParts DEF RegistryInv
<1>1. job.stage # "idle" /\ job.peer \in Peers
  BY DEF ExecRead, ExecHasPeer
<1>2. RowTypes'
  BY DEF ExecRead, RowTypes, rowVars
<1>3. JobTypes' /\ ExecHasPeer'
  <2>1. job' \in {Finished, Retry} /\ UNCHANGED <<ready, execs, ran>>
    BY DEF ExecRead
  <2> QED
    BY <1>1, <2>1, FinishedTypes DEF JobTypes, ExecHasPeer
<1>4. WireTypes' /\ MapTypes'
  <2>1. CASE /\ inbox' = [inbox EXCEPT ![table[job.fd]] = <<>>]
             /\ UNCHANGED <<phase, table, m_peers>>
    <3>1. <<>> \in Seq({"register", "heartbeat", "mac", "output"})
      OBVIOUS
    <3>2. inbox' \in [Conns -> Seq({"register", "heartbeat", "mac", "output"})]
      BY <2>1, <3>1 DEF WireTypes
    <3> QED
      BY <2>1, <3>2 DEF ExecRead, WireTypes, MapTypes
  <2>2. CASE UNCHANGED <<phase, table, m_peers, inbox>>
    BY <2>2 DEF ExecRead, WireTypes, MapTypes
  <2>3. CASE /\ CloseFd(m_peers[job.peer])
             /\ m_peers' = [m_peers EXCEPT ![job.peer] = NoFd]
             /\ UNCHANGED inbox
    BY <1>1, <2>3, CloseTypes DEF ExecRead, WireTypes, MapTypes
  <2> QED
    BY <2>1, <2>2, <2>3 DEF ExecRead
<1> QED
  BY <1>2, <1>3, <1>4, InPartsNext

LEMMA WorkerTypes ==
    ASSUME RegistryInv, NEW p \in Peers,
           \/ WorkerConnect(p) \/ WorkerDrop(p)
           \/ \E m \in {"heartbeat", "mac"} : WorkerSend(p, m)
    PROVE  RegistryInv'
<1> USE InParts DEF RegistryInv
<1>1. RowTypes' /\ JobTypes' /\ ExecHasPeer' /\ MapTypes'
  BY RowsSame, JobSame, MapsSame DEF WorkerConnect, WorkerDrop, WorkerSend
<1>2. CASE WorkerConnect(p)
  <2>1. made[p] + 1 \in 0 .. MaxLinks /\ <<p, made[p] + 1>> \in Conns
    BY <1>2, ConstantsAssumption DEF WorkerConnect, MayConnect, WireTypes, Conns
  <2>2. <<"register">> \in Seq({"register", "heartbeat", "mac", "output"})
    OBVIOUS
  <2>3. inbox' \in [Conns -> Seq({"register", "heartbeat", "mac", "output"})]
    BY <1>2, <2>1, <2>2 DEF WorkerConnect, WireTypes
  <2>4. WireTypes'
    BY <1>2, <2>1, <2>3 DEF WorkerConnect, WireTypes
  <2> QED
    BY <1>1, <2>4, InPartsNext
<1>3. CASE WorkerDrop(p)
  <2>1. <<p, link[p]>> \in Conns
    BY <1>3, ConstantsAssumption DEF WorkerDrop, WireTypes, Conns
  <2>2. 0 \in 0 .. MaxLinks
    BY ConstantsAssumption
  <2>3. link' \in [Peers -> 0 .. MaxLinks] /\ ended' \subseteq Conns
    BY <1>3, <2>1, <2>2 DEF WorkerDrop, WireTypes
  <2>4. WireTypes'
    BY <1>3, <2>3 DEF WorkerDrop, WireTypes
  <2> QED
    BY <1>1, <2>4, InPartsNext
<1>4. ASSUME NEW m \in {"heartbeat", "mac"}, WorkerSend(p, m) PROVE RegistryInv'
  <2>1. <<p, link[p]>> \in Conns
    BY <1>4, ConstantsAssumption DEF WorkerSend, WireTypes, Conns
  <2>2. inbox[<<p, link[p]>>] \in Seq({"register", "heartbeat", "mac", "output"})
    BY <2>1 DEF WireTypes
  <2>3. Append(inbox[<<p, link[p]>>], m) \in Seq({"register", "heartbeat", "mac", "output"})
    BY <2>2
  <2>4. inbox' \in [Conns -> Seq({"register", "heartbeat", "mac", "output"})]
    BY <1>4, <2>1, <2>3 DEF WorkerSend, WireTypes
  <2>5. WireTypes'
    BY <1>4, <2>4 DEF WorkerSend, WireTypes
  <2> QED
    BY <1>1, <2>5, InPartsNext
<1> QED
  BY <1>2, <1>3, <1>4

LEMMA WorkerRunsTypes ==
    ASSUME RegistryInv, NEW c \in Conns, WorkerExec(c) \/ WorkerThread(c)
    PROVE  RegistryInv'
<1> USE InParts DEF RegistryInv
<1>1. RowTypes' /\ MapTypes'
  BY RowsSame, MapsSame DEF WorkerExec, WorkerThread
<1>2. inbox[c] \in Seq({"register", "heartbeat", "mac", "output"})
  BY DEF WireTypes
<1>3. Append(inbox[c], "output") \in Seq({"register", "heartbeat", "mac", "output"})
  BY <1>2
<1>4. inbox' \in [Conns -> Seq({"register", "heartbeat", "mac", "output"})]
  BY <1>3 DEF WorkerExec, WorkerThread, WireTypes
<1>5. CASE WorkerExec(c)
  <2>1. req[c] \in Seq(Peers) /\ req[c] # <<>>
    BY <1>5 DEF WorkerExec, WireTypes
  <2>2. Head(req[c]) \in Peers /\ Tail(req[c]) \in Seq(Peers)
    BY <2>1
  <2>3. req' \in [Conns -> Seq(Peers)]
    BY <1>5, <2>2 DEF WorkerExec, WireTypes
  <2>4. WireTypes'
    BY <1>4, <1>5, <2>3 DEF WorkerExec, WireTypes
  <2>5. JobTypes' /\ ExecHasPeer'
    BY <1>5, <2>2 DEF WorkerExec, JobTypes, ExecHasPeer, Owner, Conns
  <2> QED
    BY <1>1, <2>4, <2>5, InPartsNext
<1>6. CASE WorkerThread(c)
  <2>1. WireTypes'
    BY <1>4, <1>6, ConstantsAssumption DEF WorkerThread, WireTypes
  <2>2. JobTypes' /\ ExecHasPeer'
    BY <1>6, JobSame DEF WorkerThread
  <2> QED
    BY <1>1, <2>1, <2>2, InPartsNext
<1> QED
  BY <1>5, <1>6

\* Every step keeps the types, execOnPeer included.
LEMMA RegistryStep ==
    ASSUME RegistryInv, [Next]_vars
    PROVE  RegistryInv'
<1> USE InParts DEF RegistryInv
<1>1. ASSUME NEW c \in Conns, AcceptNewPeer(c) PROVE RegistryInv'
  <2>1. RowTypes' /\ JobTypes' /\ ExecHasPeer'
    BY <1>1, RowsSame, JobSame DEF AcceptNewPeer
  <2>2. Min(FreeFds) \in Fds
    BY <1>1, FreeNumber DEF AcceptNewPeer
  <2>3. WireTypes'
    BY <1>1 DEF AcceptNewPeer, WireTypes
  <2>4. MapTypes'
    BY <1>1, <2>2 DEF AcceptNewPeer, MapTypes
  <2> QED
    BY <2>1, <2>3, <2>4, InPartsNext
<1>2. ASSUME NEW f \in Fds, HandlePeerData(f) PROVE RegistryInv'
  <2>1. JobTypes' /\ ExecHasPeer'
    BY <1>2, JobSame DEF HandlePeerData
  <2>2. Open(f) /\ (PeerReads(f) \/ PeerGone(f)) /\ UNCHANGED <<made, link, ended, req, rerun>>
    BY <1>2 DEF HandlePeerData, LoopRuns
  <2>3. WireTypes' /\ MapTypes' /\ RowTypes'
    BY <2>2, ReadTypes, GoneTypes
  <2> QED
    BY <2>1, <2>3, InPartsNext
<1>3. ASSUME NEW f \in Fds, HandleReady(f) PROVE RegistryInv'
  <2>1. JobTypes' /\ ExecHasPeer'
    BY <1>3 DEF HandleReady, JobTypes, ExecHasPeer
  <2>2. ((Open(f) /\ PeerReads(f)) \/ PeerGone(f)) /\ UNCHANGED <<made, link, ended, req, rerun>>
    BY <1>3 DEF HandleReady
  <2>3. WireTypes' /\ MapTypes' /\ RowTypes'
    BY <2>2, ReadTypes, GoneTypes
  <2> QED
    BY <2>1, <2>3, InPartsNext
<1>4. ASSUME NEW p \in Peers, DeletePeer(p) \/ Expire(p) PROVE RegistryInv'
  <2>1. WireTypes' /\ MapTypes' /\ JobTypes' /\ ExecHasPeer'
    BY <1>4, WireSame, MapsSame, JobSame DEF DeletePeer, Expire
  <2>2. RowTypes'
    BY <1>4 DEF DeletePeer, Expire, RowTypes
  <2> QED
    BY <2>1, <2>2, InPartsNext
<1>5. ASSUME NEW p \in Peers, ExecStart(p) PROVE RegistryInv'
  <2>1. WireTypes' /\ MapTypes' /\ RowTypes'
    BY <1>5, WireSame, MapsSame, RowsSame DEF ExecStart
  <2>2. execs' \in 0 .. MaxExecs
    BY <1>5, ConstantsAssumption DEF ExecStart, JobTypes
  <2>3. JobTypes' /\ ExecHasPeer'
    BY <1>5, <2>2 DEF ExecStart, JobTypes, ExecHasPeer, Tracked
  <2> QED
    BY <2>1, <2>3, InPartsNext
<1>6. CASE RestartLeader
  <2>1. WireTypes'
    BY <1>6, ConstantsAssumption DEF RestartLeader, WireTypes
  <2>2. MapTypes' /\ RowTypes'
    BY <1>6 DEF RestartLeader, MapTypes, RowTypes, rowVars
  <2>3. JobTypes' /\ ExecHasPeer'
    BY <1>6 DEF RestartLeader, JobTypes, ExecHasPeer, Idle
  <2> QED
    BY <2>1, <2>2, <2>3, InPartsNext
<1>7. CASE UNCHANGED vars
  <2>1. WireTypes' /\ MapTypes' /\ RowTypes' /\ JobTypes' /\ ExecHasPeer'
    BY <1>7, WireSame, MapsSame, RowsSame, JobSame DEF vars
  <2> QED
    BY <2>1, InPartsNext
<1>8. CASE ExecStep
  BY <1>8, PickTypes, SendTypes, ExecReadTypes DEF ExecStep
<1> QED
  BY <1>1, <1>2, <1>3, <1>4, <1>5, <1>6, <1>7, <1>8, WorkerTypes, WorkerRunsTypes
     DEF Next, Loop

\* The registry, the maps and the handler of execOnPeer keep their types for any
\* number of workers, connections and commands: a peer that is online or was seen
\* lately has a row, a command waits only for a worker, and the output that is
\* read is that of an open connection.
THEOREM RegistryTypes == Spec => []TypeOK
<1>1. Init => RegistryInv
  BY ConstantsAssumption DEF Init, RegistryInv, TypeOK, ExecHasPeer, Idle
<1>2. RegistryInv /\ [Next]_vars => RegistryInv'
  BY RegistryStep
<1>3. RegistryInv => TypeOK
  BY DEF RegistryInv
<1> QED
  BY <1>1, <1>2, <1>3, PTL DEF Spec
=============================================================================
