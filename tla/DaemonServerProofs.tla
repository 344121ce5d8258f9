------------------------- MODULE DaemonServerProofs -------------------------
(***************************************************************************)
(* Theorems about the event loop, for any number of connections, commands  *)
(* and descriptors.                                                        *)
(***************************************************************************)
EXTENDS DaemonServer, TLAPS, WellFoundedInduction, SequenceTheorems

\* A set of naturals that is not empty has a least member, and Min is it.
LEMMA MinIsLeast ==
    ASSUME NEW S, S \subseteq Nat, S # {}
    PROVE  Min(S) \in S /\ \A y \in S : Min(S) <= y
<1>1. PICK x \in S : \A y \in S : ~(<<y, x>> \in OpToRel(<, Nat))
  BY NatLessThanWellFounded, WFMin
<1>2. ASSUME NEW y \in S PROVE x <= y
  <2>1. ~(y < x)
    BY <1>1 DEF OpToRel
  <2> QED
    BY <2>1, SMT
<1> QED
  BY <1>2 DEF Min

Msgs == [kind : Kinds, n : 1 .. MaxSends]

\* accept returns a number that is free.
LEMMA FreeNumber ==
    ASSUME FreeFds # {}
    PROVE  Min(FreeFds) \in Fds /\ ~Open(Min(FreeFds))
<1>1. FreeFds \subseteq Nat
  BY ConstantsAssumption DEF FreeFds, Fds
<1>2. Min(FreeFds) \in FreeFds
  BY <1>1, MinIsLeast
<1> QED
  BY <1>2 DEF FreeFds

\* A write changes what one connection received.
LEMMA DeliverType ==
    ASSUME TypeOK, NEW f \in Fds, NEW w \in Conns
    PROVE  Deliver(f, w, got) \in [Conns -> SUBSET (Conns \cup {LogLine})]
BY DEF TypeOK, Deliver, Open

\* A close changes the table and the phases, and keeps their types.
LEMMA CloseType ==
    ASSUME TypeOK, NEW f \in Fds, Close(f)
    PROVE  /\ table' \in [Fds -> Conns \cup {Free}]
           /\ phase' \in [Conns -> {"new", "backlog", "open", "closed"}]
BY DEF TypeOK, Close

\* The command read from a connection, and what is left of the inbox.
LEMMA ReadType ==
    ASSUME TypeOK, NEW c \in Conns, inbox[c] # <<>>
    PROVE  Head(inbox[c]) \in Msgs /\ Tail(inbox[c]) \in Seq(Msgs)
<1>1. inbox[c] \in Seq(Msgs)
  BY DEF TypeOK, Msgs
<1> QED
  BY <1>1, HeadTailProperties

\* Counting one more run of a command.
LEMMA CountType ==
    ASSUME TypeOK, NEW c \in Conns, NEW n \in 1 .. MaxSends
    PROVE  [ran EXCEPT ![c][n] = @ + 1] \in [Conns -> [1 .. MaxSends -> Nat]]
<1>1. ran \in [Conns -> [1 .. MaxSends -> Nat]]
  BY DEF TypeOK
<1>2. ran[c] \in [1 .. MaxSends -> Nat]
  BY <1>1
<1>3. ran[c][n] + 1 \in Nat
  BY <1>2, ConstantsAssumption
<1> QED
  BY <1>1, <1>2, <1>3

\* A handler keeps the types of the two ghosts.
LEMMA RunHandlerType ==
    ASSUME TypeOK, NEW f \in Fds, NEW c \in Conns, NEW m \in Msgs, RunHandler(f, c, m)
    PROVE  /\ ran' \in [Conns -> [1 .. MaxSends -> Nat]]
           /\ got' \in [Conns -> SUBSET (Conns \cup {LogLine})]
<1>1. got' \in [Conns -> SUBSET (Conns \cup {LogLine})]
  BY DeliverType DEF RunHandler
<1>2. m.n \in 1 .. MaxSends
  BY DEF Msgs
<1>3. ran' \in [Conns -> [1 .. MaxSends -> Nat]]
  BY <1>2, CountType DEF RunHandler, TypeOK
<1> QED
  BY <1>1, <1>3

ThreadRecs == [fd : Fds, conn : Conns, n : 1 .. MaxSends, stage : {"handler", "close"}]

\* The thread of a slow command is well formed.
LEMMA SpawnType ==
    ASSUME NEW f \in Fds, NEW c \in Conns, NEW m \in Msgs
    PROVE  Spawn(f, c, m) \in ThreadRecs
BY DEF Spawn, Msgs, ThreadRecs

\* A line of a local program keeps every type.
LEMMA ClientType ==
    ASSUME TypeOK, NEW f \in Fds, HandleClientData(f)
    PROVE  TypeOK'
<1>1. CASE EndOfFile(f) /\ ClientGone(f)
  BY <1>1, CloseType DEF TypeOK, HandleClientData, ClientGone, Untrack
<1>2. CASE /\ Open(f) /\ inbox[table[f]] # <<>>
           /\ ClientCommand(f, table[f], Head(inbox[table[f]]))
  <2> DEFINE c == table[f]
             m == Head(inbox[c])
  <2>1. c \in Conns
    BY <1>2 DEF TypeOK, Open
  <2>2. m \in Msgs /\ Tail(inbox[c]) \in Seq(Msgs)
    BY <1>2, <2>1, ReadType
  <2>3. /\ ran' \in [Conns -> [1 .. MaxSends -> Nat]]
        /\ got' \in [Conns -> SUBSET (Conns \cup {LogLine})]
    BY <1>2, <2>1, <2>2, RunHandlerType DEF ClientCommand
  <2>4. inbox' \in [Conns -> Seq(Msgs)]
    BY <1>2, <2>1, <2>2 DEF ClientCommand, TypeOK, Msgs
  <2>5. /\ table' \in [Fds -> Conns \cup {Free}]
        /\ phase' \in [Conns -> {"new", "backlog", "open", "closed"}]
    BY <1>2, CloseType DEF ClientCommand, Untrack, TypeOK
  <2>6. clients' \subseteq Fds /\ subscribers' \subseteq Fds /\ ready' \subseteq Fds
    BY <1>2 DEF ClientCommand, Untrack, TypeOK
  <2>7. threads' \subseteq ThreadRecs
    <3>1. threads \subseteq ThreadRecs
      BY DEF TypeOK, ThreadRecs
    <3>2. Spawn(f, c, m) \in ThreadRecs
      BY <2>1, <2>2, SpawnType
    <3>3. threads' \subseteq threads \cup {Spawn(f, c, m)}
      BY <1>2 DEF ClientCommand
    <3> QED
      BY <3>1, <3>2, <3>3
  <2> QED
    BY <2>3, <2>4, <2>5, <2>6, <2>7 DEF HandleClientData, TypeOK, Msgs, ThreadRecs
<1> QED
  BY <1>1, <1>2 DEF HandleClientData

\* A line of another daemon keeps every type.
LEMMA PeerType ==
    ASSUME TypeOK, NEW f \in Fds, HandlePeerData(f)
    PROVE  TypeOK'
<1>1. CASE EndOfFile(f) /\ PeerGone(f)
  BY <1>1, CloseType DEF TypeOK, HandlePeerData, PeerGone
<1>2. CASE /\ Open(f) /\ inbox[table[f]] # <<>>
           /\ PeerCommand(f, table[f], Head(inbox[table[f]]))
  <2> DEFINE c == table[f]
             m == Head(inbox[c])
  <2>1. c \in Conns
    BY <1>2 DEF TypeOK, Open
  <2>2. m \in Msgs /\ Tail(inbox[c]) \in Seq(Msgs)
    BY <1>2, <2>1, ReadType
  <2>3. /\ ran' \in [Conns -> [1 .. MaxSends -> Nat]]
        /\ got' \in [Conns -> SUBSET (Conns \cup {LogLine})]
    BY <1>2, <2>1, <2>2, RunHandlerType DEF PeerCommand
  <2>4. inbox' \in [Conns -> Seq(Msgs)]
    BY <1>2, <2>1, <2>2 DEF PeerCommand, TypeOK, Msgs
  <2>5. subscribers' \subseteq Fds /\ ready' \subseteq Fds
    BY <1>2 DEF PeerCommand, TypeOK
  <2>6. threads' \subseteq ThreadRecs
    <3>1. threads \subseteq ThreadRecs
      BY DEF TypeOK, ThreadRecs
    <3>2. Spawn(f, c, m) \in ThreadRecs
      BY <2>1, <2>2, SpawnType
    <3>3. threads' \subseteq threads \cup {Spawn(f, c, m)}
      BY <1>2 DEF PeerCommand
    <3> QED
      BY <3>1, <3>2, <3>3
  <2> QED
    BY <1>2, <2>3, <2>4, <2>5, <2>6
    DEF HandlePeerData, PeerCommand, TypeOK, Msgs, ThreadRecs
<1> QED
  BY <1>1, <1>2 DEF HandlePeerData

\* The type invariant of the event loop (TypeOK) holds whatever the programs,
\* the other daemons and the threads do.
THEOREM TypeCorrect == Spec => []TypeOK
<1>1. Init => TypeOK
  BY ConstantsAssumption DEF Init, TypeOK
<1>2. TypeOK /\ [Next]_vars => TypeOK'
  <2> SUFFICES ASSUME TypeOK, [Next]_vars PROVE TypeOK'
    OBVIOUS
  <2> USE DEF loopVars, connVars, mapVars, ghosts
  <2>1. ASSUME NEW c \in Conns, Connect(c) PROVE TypeOK'
    BY <2>1 DEF Connect, TypeOK
  <2>2. ASSUME NEW c \in Conns, HangUp(c) PROVE TypeOK'
    BY <2>2 DEF HangUp, TypeOK
  <2>3. ASSUME NEW c \in Conns, NEW k \in Kinds, Send(c, k) PROVE TypeOK'
    <3>1. sent[c] + 1 \in 1 .. MaxSends /\ sent[c] + 1 \in 0 .. MaxSends
      BY <2>3, ConstantsAssumption DEF Send, TypeOK
    <3>2. [kind |-> k, n |-> sent[c] + 1] \in Msgs
      BY <3>1 DEF Msgs
    <3>3. inbox \in [Conns -> Seq(Msgs)]
      BY DEF TypeOK, Msgs
    <3>4. Append(inbox[c], [kind |-> k, n |-> sent[c] + 1]) \in Seq(Msgs)
      BY <3>2, <3>3, AppendProperties
    <3>5. inbox' \in [Conns -> Seq(Msgs)]
      BY <2>3, <3>3, <3>4 DEF Send
    <3> QED
      BY <2>3, <3>1, <3>5 DEF Send, TypeOK, Msgs
  <2>4. CASE Select
    BY <2>4 DEF Select, TypeOK
  <2>6. ASSUME NEW c \in Locals, AcceptNewClient(c) PROVE TypeOK'
    BY <2>6, FreeNumber DEF AcceptNewClient, AcceptOne, TypeOK, Conns
  <2>7. ASSUME NEW c \in Remotes, AcceptNewPeer(c) PROVE TypeOK'
    BY <2>7, FreeNumber DEF AcceptNewPeer, AcceptOne, TypeOK, Conns
  <2>8. ASSUME NEW f \in Fds, HandleClientData(f) PROVE TypeOK'
    BY <2>8, ClientType
  <2>9. ASSUME NEW f \in Fds, HandlePeerData(f) PROVE TypeOK'
    BY <2>9, PeerType
  <2>10. ASSUME NEW th \in threads, ThreadHandler(th) PROVE TypeOK'
    <3>1. th \in ThreadRecs
      BY DEF TypeOK, ThreadRecs
    <3>2. ran' \in [Conns -> [1 .. MaxSends -> Nat]]
      BY <2>10, <3>1, CountType DEF ThreadHandler, ThreadRecs
    <3>3. got' \in [Conns -> SUBSET (Conns \cup {LogLine})]
      BY <2>10, <3>1, DeliverType DEF ThreadHandler, ThreadRecs
    <3>4. [th EXCEPT !.stage = "close"] \in ThreadRecs
      BY <3>1 DEF ThreadRecs
    <3>5. threads' \subseteq ThreadRecs
      BY <2>10, <3>4 DEF ThreadHandler, TypeOK, ThreadRecs
    <3> QED
      BY <2>10, <3>2, <3>3, <3>5 DEF ThreadHandler, TypeOK, ThreadRecs
  <2>11. ASSUME NEW th \in threads, ThreadClose(th) PROVE TypeOK'
    <3>1. th.fd \in Fds
      BY DEF TypeOK
    <3> QED
      BY <2>11, <3>1, CloseType DEF ThreadClose, TypeOK
  <2>12. CASE StreamLog
    BY <2>12 DEF StreamLog, TypeOK
  <2>13. CASE Stop
    BY <2>13 DEF Stop, TypeOK
  <2>14. CASE UNCHANGED vars
    BY <2>14 DEF vars, TypeOK
  <2>15. ASSUME NEW f \in Fds, AskExtension(f) PROVE TypeOK'
    BY <2>15 DEF AskExtension, TypeOK
  <2>16. CASE ExtensionAnswers
    BY <2>16 DEF ExtensionAnswers, TypeOK
  <2>17. ASSUME NEW f \in Fds, ReadsCommands(f) PROVE TypeOK'
    <3>1. table[f] \in Conns /\ <<>> \in Seq(Msgs)
      BY <2>17 DEF ReadsCommands, Open, TypeOK
    <3> QED
      BY <2>17, <3>1 DEF ReadsCommands, TypeOK, Msgs
  <2> QED
    BY <2>1, <2>2, <2>3, <2>4, <2>6, <2>7, <2>8, <2>9, <2>10, <2>11, <2>12,
       <2>13, <2>14, <2>15, <2>16, <2>17 DEF Next, Loop, ThreadStep
<1> QED
  BY <1>1, <1>2, PTL DEF Spec

-----------------------------------------------------------------------------
(* One holder for each open descriptor.  The invariant is inductive with two
   more facts: what peer_clients tracks are connections of other daemons, and
   only commands other daemons send wait on those.                           *)

PeersAreRemote == \A f \in peer_clients : table[f] \in Remotes

RemoteInboxes ==
    \A c \in Remotes : inbox[c] \in Seq([kind : RemoteKinds, n : 1 .. MaxSends])

HolderInv == TypeOK /\ OneHolder /\ PeersAreRemote /\ RemoteInboxes

\* Accepting gives a free number to one holder.
LEMMA AcceptHolder ==
    ASSUME HolderInv, NEW c \in Conns, FreeFds # {},
           table' = [table EXCEPT ![Min(FreeFds)] = c], UNCHANGED threads,
           \/ /\ clients' = clients \cup {Min(FreeFds)}
              /\ UNCHANGED peer_clients
           \/ /\ peer_clients' = peer_clients \cup {Min(FreeFds)}
              /\ UNCHANGED clients
    PROVE  OneHolder'
<1> DEFINE g == Min(FreeFds)
<1>1. g \in Fds /\ ~Open(g)
  BY FreeNumber
<1>2. g \notin clients \cup peer_clients \cup ThreadFds
  BY <1>1 DEF HolderInv, OneHolder
<1>3. ThreadFds' = ThreadFds
  BY DEF ThreadFds
<1>4. \A f \in Fds : Open(f)' <=> Open(f) \/ f = g
  <2>1. c # Free
    BY ConstantsAssumption
  <2>2. table' = [table EXCEPT ![g] = c]
    OBVIOUS
  <2> HIDE DEF g
  <2> QED
    BY <1>1, <2>1, <2>2 DEF Open, HolderInv, TypeOK
<1> HIDE DEF g
<1>5. clients' \cup peer_clients' = (clients \cup peer_clients) \cup {g}
  BY DEF g
<1>6. clients' \cap peer_clients' = {}
  BY <1>2 DEF g, HolderInv, OneHolder
<1> QED
  BY <1>1, <1>2, <1>3, <1>4, <1>5, <1>6 DEF HolderInv, OneHolder

\* Closing takes a number away from its one holder.
LEMMA CloseHolder ==
    ASSUME HolderInv, NEW f \in Fds, Close(f),
           clients' \cup peer_clients' \cup ThreadFds' =
               (clients \cup peer_clients \cup ThreadFds) \ {f},
           clients' \subseteq clients, peer_clients' \subseteq peer_clients,
           threads' \subseteq threads
    PROVE  OneHolder'
<1>1. \A g \in Fds : Open(g)' <=> Open(g) /\ g # f
  BY DEF Close, Open, HolderInv, TypeOK
<1>2. ThreadFds' \subseteq ThreadFds
  BY DEF ThreadFds
<1> QED
  BY <1>1, <1>2 DEF HolderInv, OneHolder

\* A slow command of a local program moves its number from clients to a thread.
LEMMA HandOverHolder ==
    ASSUME HolderInv, NEW f \in clients, NEW th, th.fd = f,
           clients' = clients \ {f}, threads' = threads \cup {th},
           UNCHANGED <<table, peer_clients>>
    PROVE  OneHolder'
<1>1. ThreadFds' = ThreadFds \cup {f}
  BY DEF ThreadFds
<1>2. f \in Fds /\ f \notin ThreadFds /\ f \notin peer_clients
  BY DEF HolderInv, OneHolder, TypeOK
<1>3. \A ti \in threads : ti.fd # f
  BY <1>2 DEF ThreadFds
<1>4. \A t1, t2 \in threads' : t1.fd = t2.fd => t1 = t2
  BY <1>3 DEF HolderInv, OneHolder
<1> QED
  BY <1>1, <1>2, <1>4 DEF HolderInv, OneHolder, Open

\* Reading a line leaves commands of the same senders.
LEMMA ReadRemote ==
    ASSUME HolderInv, NEW d \in Conns, inbox[d] # <<>>,
           inbox' = [inbox EXCEPT ![d] = Tail(@)]
    PROVE  RemoteInboxes'
<1> DEFINE S == [kind : RemoteKinds, n : 1 .. MaxSends]
<1> SUFFICES ASSUME NEW c \in Remotes PROVE inbox'[c] \in Seq(S)
  BY DEF RemoteInboxes
<1> HIDE DEF S
<1>1. inbox[c] \in Seq(S)
  BY DEF HolderInv, RemoteInboxes, S
<1>2. c \in Conns
  BY DEF Conns
<1>3. CASE c # d
  BY <1>1, <1>2, <1>3 DEF HolderInv, TypeOK
<1>4. CASE c = d
  <2>1. Tail(inbox[c]) \in Seq(S)
    BY <1>1, <1>4, HeadTailProperties
  <2> QED
    BY <1>2, <1>4, <2>1 DEF HolderInv, TypeOK
<1> QED
  BY <1>3, <1>4

\* A handled line of a local program.
LEMMA ClientHolder ==
    ASSUME HolderInv, NEW f \in Fds, HandleClientData(f)
    PROVE  OneHolder' /\ PeersAreRemote' /\ RemoteInboxes'
<1>1. f \in clients /\ UNCHANGED peer_clients
  BY DEF HandleClientData, ClientInTurn
<1>2. f \notin peer_clients /\ f \notin ThreadFds /\ Open(f)
  BY <1>1 DEF HolderInv, OneHolder
<1>3. table[f] \in Conns
  BY <1>2 DEF HolderInv, TypeOK, Open
<1>4. OneHolder'
  <2>1. CASE Close(f) /\ clients' = clients \ {f} /\ UNCHANGED threads
    <3>1. ThreadFds' = ThreadFds
      BY <2>1 DEF ThreadFds
    <3>2. clients' \cup peer_clients' \cup ThreadFds' =
            (clients \cup peer_clients \cup ThreadFds) \ {f}
      BY <1>1, <1>2, <2>1, <3>1
    <3> QED
      BY <1>1, <2>1, <3>2, CloseHolder
  <2>2. CASE UNCHANGED <<table, phase, clients, threads>>
    BY <1>1, <2>2 DEF HolderInv, OneHolder, ThreadFds, Open
  <2>3. CASE /\ clients' = clients \ {f}
             /\ threads' = threads \cup {Spawn(f, table[f], Head(inbox[table[f]]))}
             /\ UNCHANGED <<table, phase>>
    <3>1. Spawn(f, table[f], Head(inbox[table[f]])).fd = f
      BY DEF Spawn
    <3> QED
      BY <1>1, <2>3, <3>1, HandOverHolder
  <2> QED
    BY <2>1, <2>2, <2>3 DEF HandleClientData, ClientGone, ClientCommand, Untrack
<1>5. PeersAreRemote'
  <2>1. \A g \in Fds : g # f => table'[g] = table[g]
    BY DEF HandleClientData, ClientGone, ClientCommand, Close, HolderInv, TypeOK
  <2> QED
    BY <1>1, <1>2, <2>1 DEF HolderInv, PeersAreRemote, TypeOK
<1>6. RemoteInboxes'
  <2>1. CASE UNCHANGED inbox
    BY <2>1 DEF HolderInv, RemoteInboxes
  <2>2. CASE /\ inbox[table[f]] # <<>>
             /\ inbox' = [inbox EXCEPT ![table[f]] = Tail(@)]
    BY <1>3, <2>2, ReadRemote
  <2> QED
    BY <2>1, <2>2 DEF HandleClientData, ClientGone, ClientCommand, Untrack
<1> QED
  BY <1>4, <1>5, <1>6

\* A handled line of another daemon, when other daemons send no slow command.
LEMMA PeerHolder ==
    ASSUME HolderInv, "slow" \notin RemoteKinds, NEW f \in Fds, HandlePeerData(f)
    PROVE  OneHolder' /\ PeersAreRemote' /\ RemoteInboxes'
<1>1. f \in peer_clients /\ UNCHANGED clients
  BY DEF HandlePeerData, PeerInTurn
<1>2. f \notin clients /\ f \notin ThreadFds /\ Open(f)
  BY <1>1 DEF HolderInv, OneHolder, TypeOK
<1>3. table[f] \in Remotes /\ table[f] \in Conns
  BY <1>1 DEF HolderInv, PeersAreRemote, Conns
<1>4. CASE EndOfFile(f) /\ PeerGone(f)
  <2>1. ThreadFds' = ThreadFds
    BY <1>4 DEF PeerGone, ThreadFds
  <2>2. clients' \cup peer_clients' \cup ThreadFds' =
          (clients \cup peer_clients \cup ThreadFds) \ {f}
    BY <1>1, <1>2, <1>4, <2>1 DEF PeerGone
  <2>3. OneHolder'
    BY <1>1, <1>4, <2>2, CloseHolder DEF PeerGone
  <2>4. PeersAreRemote'
    BY <1>4 DEF PeerGone, Close, HolderInv, PeersAreRemote, TypeOK
  <2>5. RemoteInboxes'
    BY <1>4 DEF PeerGone, HolderInv, RemoteInboxes
  <2> QED
    BY <2>3, <2>4, <2>5
<1>5. CASE /\ inbox[table[f]] # <<>>
           /\ PeerCommand(f, table[f], Head(inbox[table[f]]))
  <2>1. Head(inbox[table[f]]).kind # "slow"
    <3>1. Head(inbox[table[f]]) \in [kind : RemoteKinds, n : 1 .. MaxSends]
      BY <1>3, <1>5, HeadTailProperties DEF HolderInv, RemoteInboxes
    <3> QED
      BY <3>1
  <2>2. UNCHANGED <<table, threads, peer_clients>>
    BY <1>5, <2>1 DEF PeerCommand
  <2>3. OneHolder'
    BY <1>1, <2>2 DEF HolderInv, OneHolder, ThreadFds, Open
  <2>4. PeersAreRemote'
    BY <2>2 DEF HolderInv, PeersAreRemote
  <2>5. RemoteInboxes'
    BY <1>3, <1>5, ReadRemote DEF PeerCommand
  <2> QED
    BY <2>3, <2>4, <2>5
<1> QED
  BY <1>4, <1>5 DEF HandlePeerData

\* Each step keeps the three facts.
LEMMA HolderStep ==
    ASSUME HolderInv, "slow" \notin RemoteKinds, Next
    PROVE  OneHolder' /\ PeersAreRemote' /\ RemoteInboxes'
<1> USE DEF loopVars, connVars, mapVars, ghosts
<1> DEFINE Goal == OneHolder' /\ PeersAreRemote' /\ RemoteInboxes'
<1>1. ASSUME UNCHANGED <<table, inbox, clients, peer_clients, threads>> PROVE Goal
  BY <1>1 DEF HolderInv, OneHolder, PeersAreRemote, RemoteInboxes, ThreadFds, Open
<1>2. ASSUME NEW c \in Conns, Connect(c) \/ HangUp(c) PROVE Goal
  BY <1>1, <1>2 DEF Connect, HangUp
<1>3. ASSUME NEW c \in Conns, NEW k \in Kinds, Send(c, k) PROVE Goal
  <2>1. OneHolder' /\ PeersAreRemote'
    BY <1>3 DEF Send, HolderInv, OneHolder, PeersAreRemote, ThreadFds, Open
  <2>2. RemoteInboxes'
    <3> DEFINE S == [kind : RemoteKinds, n : 1 .. MaxSends]
    <3> SUFFICES ASSUME NEW d \in Remotes PROVE inbox'[d] \in Seq(S)
      BY DEF RemoteInboxes
    <3>1. inbox[d] \in Seq(S) /\ d \in Conns
      BY DEF HolderInv, RemoteInboxes, Conns
    <3>2. CASE d # c
      BY <1>3, <3>1, <3>2 DEF Send, HolderInv, TypeOK
    <3>3. CASE d = c
      <4>1. k \in RemoteKinds
        BY <1>3, <3>3, ConstantsAssumption DEF Send
      <4>2. sent[c] + 1 \in 1 .. MaxSends
        BY <1>3, ConstantsAssumption DEF Send, HolderInv, TypeOK
      <4>3. [kind |-> k, n |-> sent[c] + 1] \in S
        BY <4>1, <4>2
      <4> HIDE DEF S
      <4>4. Append(inbox[d], [kind |-> k, n |-> sent[c] + 1]) \in Seq(S)
        BY <3>1, <4>3, AppendProperties
      <4> QED
        BY <1>3, <3>1, <3>3, <4>4 DEF Send, HolderInv, TypeOK
    <3> QED
      BY <3>2, <3>3
  <2> QED
    BY <2>1, <2>2
<1>4. CASE Select \/ StreamLog
  BY <1>1, <1>4 DEF Select, StreamLog
<1>5. ASSUME NEW c \in Locals, AcceptNewClient(c) PROVE Goal
  <2>1. OneHolder'
    BY <1>5, AcceptHolder DEF AcceptNewClient, AcceptOne, Conns
  <2>2. PeersAreRemote'
    <3>1. Min(FreeFds) \in Fds /\ Min(FreeFds) \notin peer_clients
      BY <1>5, FreeNumber DEF AcceptNewClient, HolderInv, OneHolder
    <3> QED
      BY <1>5, <3>1 DEF AcceptNewClient, AcceptOne, HolderInv, PeersAreRemote, TypeOK
  <2> QED
    BY <1>5, <2>1, <2>2 DEF AcceptNewClient, HolderInv, RemoteInboxes
<1>6. ASSUME NEW c \in Remotes, AcceptNewPeer(c) PROVE Goal
  <2>1. OneHolder'
    BY <1>6, AcceptHolder DEF AcceptNewPeer, AcceptOne, Conns
  <2>2. PeersAreRemote'
    <3>1. Min(FreeFds) \in Fds
      BY <1>6, FreeNumber DEF AcceptNewPeer
    <3> QED
      BY <1>6, <3>1 DEF AcceptNewPeer, AcceptOne, HolderInv, PeersAreRemote, TypeOK
  <2> QED
    BY <1>6, <2>1, <2>2 DEF AcceptNewPeer, HolderInv, RemoteInboxes
<1>7. ASSUME NEW f \in Fds, HandleClientData(f) PROVE Goal
  BY <1>7, ClientHolder
<1>8. ASSUME NEW f \in Fds, HandlePeerData(f) PROVE Goal
  BY <1>8, PeerHolder
<1>9. ASSUME NEW th \in threads, ThreadHandler(th) PROVE Goal
  <2> DEFINE ti == [th EXCEPT !.stage = "close"]
  <2>1. th \in ThreadRecs
    BY DEF HolderInv, TypeOK, ThreadRecs
  <2>2. ti.fd = th.fd
    BY <2>1 DEF ThreadRecs
  <2> HIDE DEF ti
  <2>3. threads' = (threads \ {th}) \cup {ti}
    BY <1>9 DEF ThreadHandler, ti
  <2>4. ThreadFds' = ThreadFds
    BY <2>2, <2>3 DEF ThreadFds
  <2>5. \A t1, t2 \in threads' : t1.fd = t2.fd => t1 = t2
    BY <2>2, <2>3 DEF HolderInv, OneHolder
  <2>6. OneHolder'
    BY <1>9, <2>4, <2>5 DEF ThreadHandler, HolderInv, OneHolder, Open
  <2> QED
    BY <1>9, <2>6 DEF ThreadHandler, HolderInv, PeersAreRemote, RemoteInboxes
<1>10. ASSUME NEW th \in threads, ThreadClose(th) PROVE Goal
  <2>1. th.fd \in Fds /\ th.fd \in ThreadFds
    BY DEF HolderInv, TypeOK, ThreadFds
  <2>2. ThreadFds' = ThreadFds \ {th.fd}
    BY <1>10 DEF ThreadClose, ThreadFds, HolderInv, OneHolder
  <2>3. th.fd \notin clients \cup peer_clients
    BY <2>1 DEF HolderInv, OneHolder
  <2>4. OneHolder'
    BY <1>10, <2>1, <2>2, <2>3, CloseHolder DEF ThreadClose
  <2>5. PeersAreRemote'
    BY <1>10, <2>1, <2>3 DEF ThreadClose, Close, HolderInv, PeersAreRemote, TypeOK
  <2> QED
    BY <1>10, <2>4, <2>5 DEF ThreadClose, HolderInv, RemoteInboxes
<1>11. CASE Stop
  BY <1>11 DEF Stop, HolderInv, OneHolder, PeersAreRemote, RemoteInboxes, ThreadFds, Open
<1>12. ASSUME NEW f \in Fds, AskExtension(f) PROVE Goal
  BY <1>1, <1>12 DEF AskExtension
<1>13. CASE ExtensionAnswers
  BY <1>1, <1>13 DEF ExtensionAnswers
<1>14. ASSUME NEW f \in Fds, ReadsCommands(f) PROVE Goal
  <2>1. OneHolder' /\ PeersAreRemote'
    BY <1>14 DEF ReadsCommands, HolderInv, OneHolder, PeersAreRemote, ThreadFds, Open
  <2>2. ASSUME NEW d \in Remotes
        PROVE  inbox'[d] \in Seq([kind : RemoteKinds, n : 1 .. MaxSends])
    <3> DEFINE S == [kind : RemoteKinds, n : 1 .. MaxSends]
    <3>1. inbox'[d] = inbox[d] \/ inbox'[d] = <<>>
      BY <1>14 DEF ReadsCommands, HolderInv, TypeOK, Conns
    <3>2. inbox[d] \in Seq(S)
      BY DEF HolderInv, RemoteInboxes
    <3> HIDE DEF S
    <3>3. inbox'[d] \in Seq(S)
      BY <3>1, <3>2, EmptySeq
    <3> QED
      BY <3>3 DEF S
  <2> QED
    BY <2>1, <2>2 DEF RemoteInboxes
<1> QED
  BY <1>2, <1>3, <1>4, <1>5, <1>6, <1>7, <1>8, <1>9, <1>10, <1>11, <1>12, <1>13,
     <1>14 DEF Next, Loop, ThreadStep

\* The invariant of the holders, from which the next theorems follow.
LEMMA HolderInvariant ==
    ASSUME "slow" \notin RemoteKinds
    PROVE  Spec => []HolderInv
<1>1. Init => OneHolder /\ PeersAreRemote /\ RemoteInboxes
  BY DEF Init, OneHolder, PeersAreRemote, RemoteInboxes, ThreadFds, Open, Conns
<1>2. HolderInv /\ TypeOK' /\ [Next]_vars => HolderInv'
  <2> SUFFICES ASSUME HolderInv, TypeOK', [Next]_vars PROVE HolderInv'
    OBVIOUS
  <2>1. CASE Next
    BY <2>1, HolderStep DEF HolderInv
  <2>2. CASE UNCHANGED vars
    BY <2>2 DEF vars, loopVars, connVars, mapVars, ghosts, HolderInv, OneHolder,
                PeersAreRemote, RemoteInboxes, ThreadFds, Open
  <2> QED
    BY <2>1, <2>2
<1>3. Init /\ TypeOK => HolderInv
  BY <1>1 DEF HolderInv
<1> QED
  BY <1>2, <1>3, TypeCorrect, PTL DEF Spec

\* As long as other daemons send no slow command, every open descriptor is held
\* exactly once, by clients, by peer_clients or by the thread of a slow command,
\* and nothing else is held: no leak, no double close, no failing select.
THEOREM HeldOnce ==
    ASSUME "slow" \notin RemoteKinds
    PROVE  Spec => []OneHolder
<1>1. HolderInv => OneHolder
  BY DEF HolderInv
<1> QED
  BY <1>1, HolderInvariant, PTL

-----------------------------------------------------------------------------
(* Who receives what.  Besides the holders, the invariant has to know that the
   number a thread was given still denotes the connection of its command, and
   that a number among the log subscribers is a tracked one on which a command
   was executed.                                                             *)

Asked(c) == \E n \in 1 .. MaxSends : ran[c][n] > 0

ThreadsOwn == \A th \in threads : table[th.fd] = th.conn

SubscribersAsked == subscribers \subseteq clients /\ \A f \in subscribers : Asked(table[f])

AnswerInv == OwnAnswersOnly /\ ThreadsOwn /\ SubscribersAsked

\* A reply is written to the connection of its command.
LEMMA ReplyReaches ==
    ASSUME HolderInv, OwnAnswersOnly, NEW f \in Fds, Open(f),
           got' = Deliver(f, table[f], got), \A c \in Conns : Asked(c) => Asked(c)'
    PROVE  OwnAnswersOnly'
<1>1. table[f] \in Conns /\ table[f] # LogLine
  BY ConstantsAssumption DEF HolderInv, TypeOK, Open
<1>2. \A c \in Conns : got'[c] = got[c] \/ (c = table[f] /\ got'[c] = got[c] \cup {c})
  BY <1>1 DEF Deliver, HolderInv, TypeOK
<1>3. LogLine \notin Conns
  BY ConstantsAssumption
<1>4. ASSUME NEW c \in Conns
      PROVE  got'[c] \subseteq {c, LogLine} /\ (LogLine \in got'[c] => LogLine \in got[c])
  BY <1>2, <1>3, <1>4 DEF OwnAnswersOnly
<1>5. \A c \in Conns : LogLine \in got[c] => Asked(c)
  BY DEF OwnAnswersOnly, Asked
<1> QED
  BY <1>4, <1>5 DEF OwnAnswersOnly, Asked

\* Who has asked has asked for good.
LEMMA AskedGrows ==
    ASSUME TypeOK, NEW d \in Conns, NEW i \in 1 .. MaxSends,
           ran' = ran \/ ran' = [ran EXCEPT ![d][i] = @ + 1]
    PROVE  \A c \in Conns : Asked(c) => Asked(c)'
<1>1. \A c \in Conns, n \in 1 .. MaxSends : ran[c][n] \in Nat
  <2>1. ASSUME NEW c \in Conns PROVE ran[c] \in [1 .. MaxSends -> Nat]
    BY DEF TypeOK
  <2> QED
    BY <2>1
<1>2. CASE ran' = ran
  BY <1>2 DEF Asked
<1>3. CASE ran' = [ran EXCEPT ![d][i] = @ + 1]
  <2>1. \A c \in Conns, n \in 1 .. MaxSends :
           ran'[c][n] = IF c = d /\ n = i THEN ran[c][n] + 1 ELSE ran[c][n]
    BY <1>3 DEF TypeOK
  <2>2. \A c \in Conns, n \in 1 .. MaxSends : ran[c][n] > 0 => ran'[c][n] > 0
    BY <1>1, <2>1
  <2> QED
    BY <2>2 DEF Asked
<1> QED
  BY <1>2, <1>3

\* What a handler run by the loop does for the answers.
LEMMA HandlerAnswers ==
    ASSUME HolderInv, OwnAnswersOnly, NEW f \in Fds, Open(f), inbox[table[f]] # <<>>,
           RunHandler(f, table[f], Head(inbox[table[f]]))
    PROVE  /\ OwnAnswersOnly'
           /\ \A c \in Conns : Asked(c) => Asked(c)'
           /\ Head(inbox[table[f]]).kind = "keep" =>
                 \E n \in 1 .. MaxSends : ran'[table[f]][n] > 0
<1> DEFINE c == table[f]
           m == Head(inbox[c])
<1>1. c \in Conns
  BY DEF HolderInv, TypeOK, Open
<1>2. m \in Msgs
  BY <1>1, ReadType DEF HolderInv
<1>3. m.n \in 1 .. MaxSends
  BY <1>2 DEF Msgs
<1>4. ran' = IF m.kind = "invalid" THEN ran ELSE [ran EXCEPT ![c][m.n] = @ + 1]
  BY DEF RunHandler
<1>5. got' = Deliver(f, c, got)
  BY DEF RunHandler
<1>6. TypeOK
  BY DEF HolderInv
<1> HIDE DEF m, c
<1>7. \A d \in Conns : Asked(d) => Asked(d)'
  BY <1>1, <1>3, <1>4, <1>6, AskedGrows
<1>8. ASSUME m.kind = "keep" PROVE \E n \in 1 .. MaxSends : ran'[c][n] > 0
  <2>1. ran' = [ran EXCEPT ![c][m.n] = @ + 1]
    BY <1>4, <1>8
  <2>2. ran'[c][m.n] = ran[c][m.n] + 1 /\ ran[c][m.n] \in Nat
    BY <1>1, <1>3, <1>6, <2>1 DEF TypeOK
  <2>3. ran'[c][m.n] > 0
    BY <2>2
  <2> QED
    BY <1>3, <2>3
<1>9. OwnAnswersOnly'
  BY <1>5, <1>7, ReplyReaches DEF c
<1> QED
  BY <1>7, <1>8, <1>9 DEF m, c

\* Steps that leave alone what the invariant is about.
LEMMA AnswersUntouched ==
    ASSUME AnswerInv, UNCHANGED <<table, clients, subscribers, threads, ran, got>>
    PROVE  AnswerInv'
BY DEF AnswerInv, OwnAnswersOnly, ThreadsOwn, SubscribersAsked, Asked

\* A number that changes its meaning is neither a thread's nor a subscriber's.
LEMMA NumberChanges ==
    ASSUME HolderInv, AnswerInv, NEW f \in Fds,
           \A th \in threads' : th \in threads /\ th.fd # f,
           subscribers' \subseteq subscribers \ {f}, subscribers' \subseteq clients',
           \A g \in Fds : g # f => table'[g] = table[g],
           \A c \in Conns : Asked(c) => Asked(c)'
    PROVE  ThreadsOwn' /\ SubscribersAsked'
<1>1. ThreadsOwn'
  BY DEF AnswerInv, ThreadsOwn, HolderInv, TypeOK
<1>2. ASSUME NEW g \in subscribers' PROVE Asked(table[g])'
  <2>1. g \in subscribers /\ g \in Fds /\ g # f /\ table'[g] = table[g]
    BY <1>2 DEF HolderInv, TypeOK
  <2>2. table[g] \in Conns
    BY <2>1 DEF AnswerInv, SubscribersAsked, HolderInv, OneHolder, TypeOK, Open
  <2>3. Asked(table[g])
    BY <2>1 DEF AnswerInv, SubscribersAsked
  <2>4. PICK c \in Conns : c = table[g]
    BY <2>2
  <2>5. Asked(c)'
    BY <2>3, <2>4
  <2> QED
    BY <2>1, <2>4, <2>5 DEF Asked
<1> QED
  BY <1>1, <1>2 DEF SubscribersAsked

\* A line of a local program.
LEMMA ClientAnswers ==
    ASSUME HolderInv, AnswerInv, NEW f \in Fds, HandleClientData(f)
    PROVE  AnswerInv'
<1>1. f \in clients /\ f \notin ThreadFds /\ Open(f)
  BY DEF HandleClientData, ClientInTurn, HolderInv, OneHolder
<1>2. \A th \in threads : th.fd # f
  BY <1>1 DEF ThreadFds
<1>3. table[f] \in Conns
  BY <1>1 DEF HolderInv, TypeOK, Open
<1>4. CASE ClientGone(f)
  <2>1. UNCHANGED <<ran, got, threads>> /\ Close(f) /\ Untrack(f)
    BY <1>4 DEF ClientGone
  <2>2. \A c \in Conns : Asked(c) => Asked(c)'
    BY <2>1 DEF Asked
  <2>3. ThreadsOwn' /\ SubscribersAsked'
    BY <1>2, <2>1, <2>2, NumberChanges
    DEF Close, Untrack, HolderInv, TypeOK, AnswerInv, SubscribersAsked
  <2>4. OwnAnswersOnly'
    BY <2>1 DEF AnswerInv, OwnAnswersOnly
  <2> QED
    BY <2>3, <2>4 DEF AnswerInv
<1>5. CASE inbox[table[f]] # <<>> /\ ClientCommand(f, table[f], Head(inbox[table[f]]))
  <2> DEFINE m == Head(inbox[table[f]])
  <2>1. /\ OwnAnswersOnly'
        /\ \A c \in Conns : Asked(c) => Asked(c)'
        /\ m.kind = "keep" => \E n \in 1 .. MaxSends : ran'[table[f]][n] > 0
    BY <1>1, <1>5, HandlerAnswers DEF ClientCommand, AnswerInv
  <2>2. CASE m.kind \in {"plain", "ask"}
    <3>1. Close(f) /\ Untrack(f) /\ UNCHANGED threads
      BY <1>5, <2>2 DEF ClientCommand
    <3> QED
      BY <1>2, <2>1, <3>1, NumberChanges
      DEF Close, Untrack, HolderInv, TypeOK, AnswerInv, SubscribersAsked
  <2>3. CASE m.kind \in {"keep", "invalid"}
    <3>1. /\ UNCHANGED <<table, clients, threads>>
          /\ subscribers' = subscribers \cup (IF m.kind = "keep" THEN {f} ELSE {})
      BY <1>5, <2>3 DEF ClientCommand
    <3>2. ThreadsOwn'
      BY <3>1 DEF AnswerInv, ThreadsOwn
    <3>3. ASSUME NEW g \in subscribers, g \in Fds PROVE Asked(table[g])'
      <4>1. PICK c \in Conns : c = table[g]
        BY <3>3 DEF AnswerInv, SubscribersAsked, HolderInv, OneHolder, TypeOK, Open
      <4>2. Asked(c)'
        BY <2>1, <4>1 DEF AnswerInv, SubscribersAsked
      <4> QED
        BY <3>1, <4>1, <4>2 DEF Asked
    <3>4. m.kind = "keep" => Asked(table[f])'
      BY <2>1, <3>1 DEF Asked
    <3>5. SubscribersAsked'
      BY <1>1, <3>1, <3>3, <3>4 DEF AnswerInv, SubscribersAsked, HolderInv, TypeOK
    <3> QED
      BY <2>1, <3>2, <3>5 DEF AnswerInv
  <2>4. CASE m.kind = "slow"
    <3>1. /\ Untrack(f) /\ UNCHANGED table
          /\ threads' = threads \cup {Spawn(f, table[f], m)}
      BY <1>5, <2>4 DEF ClientCommand
    <3>2. Spawn(f, table[f], m).fd = f /\ Spawn(f, table[f], m).conn = table[f]
      BY DEF Spawn
    <3>3. ThreadsOwn'
      BY <3>1, <3>2 DEF AnswerInv, ThreadsOwn
    <3>4. ASSUME NEW g \in subscribers' PROVE Asked(table[g])'
      <4>1. g \in subscribers
        BY <3>1 DEF Untrack
      <4>2. PICK c \in Conns : c = table[g]
        BY <4>1 DEF AnswerInv, SubscribersAsked, HolderInv, OneHolder, TypeOK, Open
      <4>3. Asked(c)'
        BY <2>1, <4>1, <4>2 DEF AnswerInv, SubscribersAsked
      <4> QED
        BY <3>1, <4>2, <4>3 DEF Asked
    <3>5. SubscribersAsked'
      BY <3>1, <3>4 DEF AnswerInv, SubscribersAsked, Untrack
    <3> QED
      BY <2>1, <3>3, <3>5 DEF AnswerInv
  <2> QED
    BY <1>5, <2>2, <2>3, <2>4 DEF ClientCommand
<1> QED
  BY <1>4, <1>5 DEF HandleClientData

\* A line of another daemon, which is neither slow nor a subscription.
LEMMA PeerAnswers ==
    ASSUME HolderInv, AnswerInv, RemoteKinds \cap {"slow", "keep"} = {},
           NEW f \in Fds, HandlePeerData(f)
    PROVE  AnswerInv'
<1>1. f \in peer_clients /\ f \notin clients /\ f \notin ThreadFds /\ Open(f)
  BY DEF HandlePeerData, PeerInTurn, HolderInv, OneHolder
<1>2. \A th \in threads : th.fd # f
  BY <1>1 DEF ThreadFds
<1>3. UNCHANGED clients /\ f \notin subscribers
  BY <1>1 DEF HandlePeerData, AnswerInv, SubscribersAsked
<1>4. CASE PeerGone(f)
  <2>1. UNCHANGED <<ran, got, threads, subscribers>> /\ Close(f)
    BY <1>4 DEF PeerGone
  <2>2. \A c \in Conns : Asked(c) => Asked(c)'
    BY <2>1 DEF Asked
  <2>3. subscribers' \subseteq subscribers \ {f} /\ subscribers' \subseteq clients'
    BY <1>3, <2>1 DEF AnswerInv, SubscribersAsked
  <2>4. \A g \in Fds : g # f => table'[g] = table[g]
    BY <2>1 DEF Close, HolderInv, TypeOK
  <2>5. \A th \in threads' : th \in threads /\ th.fd # f
    BY <1>2, <2>1
  <2>6. ThreadsOwn' /\ SubscribersAsked'
    BY <2>2, <2>3, <2>4, <2>5, NumberChanges
  <2>7. OwnAnswersOnly'
    BY <2>1 DEF AnswerInv, OwnAnswersOnly
  <2> QED
    BY <2>6, <2>7 DEF AnswerInv
<1>5. CASE inbox[table[f]] # <<>> /\ PeerCommand(f, table[f], Head(inbox[table[f]]))
  <2>1. OwnAnswersOnly' /\ \A c \in Conns : Asked(c) => Asked(c)'
    BY <1>1, <1>5, HandlerAnswers DEF PeerCommand, AnswerInv
  <2>2. table[f] \in Remotes
    BY <1>1 DEF HolderInv, PeersAreRemote
  <2>3. Head(inbox[table[f]]) \in [kind : RemoteKinds, n : 1 .. MaxSends]
    BY <1>5, <2>2, HeadTailProperties DEF HolderInv, RemoteInboxes
  <2>4. Head(inbox[table[f]]).kind \notin {"slow", "keep"}
    BY <2>3
  <2>5. UNCHANGED <<table, threads, subscribers>>
    BY <1>5, <2>4 DEF PeerCommand
  <2>6. subscribers' \subseteq subscribers \ {f} /\ subscribers' \subseteq clients'
    BY <1>3, <2>5 DEF AnswerInv, SubscribersAsked
  <2>7. \A th \in threads' : th \in threads /\ th.fd # f
    BY <1>2, <2>5
  <2>8. ThreadsOwn' /\ SubscribersAsked'
    BY <2>1, <2>5, <2>6, <2>7, NumberChanges
  <2> QED
    BY <2>1, <2>8 DEF AnswerInv
<1> QED
  BY <1>4, <1>5 DEF HandlePeerData

\* A new connection gets a number nobody holds.
LEMMA AcceptAnswers ==
    ASSUME HolderInv, AnswerInv, FreeFds # {}, NEW c \in Conns,
           table' = [table EXCEPT ![Min(FreeFds)] = c], clients \subseteq clients',
           UNCHANGED <<threads, subscribers, ran, got>>
    PROVE  AnswerInv'
<1> DEFINE g == Min(FreeFds)
<1>1. g \in Fds /\ ~Open(g)
  BY FreeNumber
<1>2. g \notin clients \cup ThreadFds
  BY <1>1 DEF HolderInv, OneHolder
<1>3. table' = [table EXCEPT ![g] = c]
  OBVIOUS
<1> HIDE DEF g
<1>4. \A th \in threads : th.fd # g
  BY <1>2 DEF ThreadFds
<1>5. \A d \in Conns : Asked(d) => Asked(d)'
  BY DEF Asked
<1>6. \A h \in Fds : h # g => table'[h] = table[h]
  BY <1>3 DEF HolderInv, TypeOK
<1>7. subscribers' \subseteq subscribers \ {g} /\ subscribers' \subseteq clients'
  BY <1>2 DEF AnswerInv, SubscribersAsked
<1>8. ThreadsOwn' /\ SubscribersAsked'
  BY <1>1, <1>4, <1>5, <1>6, <1>7, NumberChanges
<1> QED
  BY <1>8 DEF AnswerInv, OwnAnswersOnly

\* The thread of a slow command answers on the number it was given, which is
\* still the one of its connection.
LEMMA ThreadAnswers ==
    ASSUME HolderInv, AnswerInv, NEW th \in threads, ThreadHandler(th) \/ ThreadClose(th)
    PROVE  AnswerInv'
<1>1. th \in ThreadRecs
  BY DEF HolderInv, TypeOK, ThreadRecs
<1>2. /\ th.fd \in Fds /\ th.conn \in Conns /\ th.n \in 1 .. MaxSends
      /\ th.fd \in ThreadFds
  BY <1>1 DEF ThreadRecs, ThreadFds
<1>3. Open(th.fd) /\ th.fd \notin clients /\ table[th.fd] = th.conn
  BY <1>2 DEF HolderInv, OneHolder, AnswerInv, ThreadsOwn
<1>4. CASE ThreadHandler(th)
  <2> DEFINE ti == [th EXCEPT !.stage = "close"]
  <2>1. /\ ran' = [ran EXCEPT ![th.conn][th.n] = @ + 1]
        /\ got' = Deliver(th.fd, table[th.fd], got)
        /\ threads' = (threads \ {th}) \cup {ti}
        /\ UNCHANGED <<table, clients, subscribers>>
    BY <1>3, <1>4 DEF ThreadHandler, connVars, mapVars
  <2>2. ti.fd = th.fd /\ ti.conn = th.conn
    BY <1>1 DEF ThreadRecs
  <2> HIDE DEF ti
  <2>3. \A c \in Conns : Asked(c) => Asked(c)'
    BY <1>2, <2>1, AskedGrows DEF HolderInv
  <2>4. OwnAnswersOnly'
    BY <1>2, <1>3, <2>1, <2>3, ReplyReaches DEF AnswerInv
  <2>5. ThreadsOwn'
    BY <1>3, <2>1, <2>2 DEF AnswerInv, ThreadsOwn
  <2>6. ASSUME NEW g \in subscribers PROVE Asked(table[g])'
    <3>1. PICK c \in Conns : c = table[g]
      BY DEF AnswerInv, SubscribersAsked, HolderInv, OneHolder, TypeOK, Open
    <3>2. Asked(c)'
      BY <2>3, <3>1 DEF AnswerInv, SubscribersAsked
    <3> QED
      BY <2>1, <3>1, <3>2 DEF Asked
  <2>7. SubscribersAsked'
    BY <2>1, <2>6 DEF AnswerInv, SubscribersAsked
  <2> QED
    BY <2>4, <2>5, <2>7 DEF AnswerInv
<1>5. CASE ThreadClose(th)
  <2>1. Close(th.fd) /\ threads' = threads \ {th} /\ UNCHANGED <<clients, subscribers, ran, got>>
    BY <1>5 DEF ThreadClose, mapVars, ghosts
  <2>2. \A c \in Conns : Asked(c) => Asked(c)'
    BY <2>1 DEF Asked
  <2>3. \A ti \in threads' : ti \in threads /\ ti.fd # th.fd
    BY <2>1 DEF HolderInv, OneHolder
  <2>4. subscribers' \subseteq subscribers \ {th.fd} /\ subscribers' \subseteq clients'
    BY <1>3, <2>1 DEF AnswerInv, SubscribersAsked
  <2>5. \A g \in Fds : g # th.fd => table'[g] = table[g]
    BY <2>1 DEF Close, HolderInv, TypeOK
  <2>6. ThreadsOwn' /\ SubscribersAsked'
    BY <1>2, <2>2, <2>3, <2>4, <2>5, NumberChanges
  <2> QED
    BY <2>1, <2>6 DEF AnswerInv, OwnAnswersOnly
<1> QED
  BY <1>4, <1>5

\* A log line goes to connections that asked for something.
LEMMA LogAnswers ==
    ASSUME HolderInv, AnswerInv, StreamLog
    PROVE  AnswerInv'
<1>1. /\ UNCHANGED <<table, clients, subscribers, threads, ran>>
      /\ got' = [c \in Conns |->
                   IF c \notin hung /\ \E f \in subscribers : table[f] = c
                   THEN got[c] \cup {LogLine} ELSE got[c]]
  BY DEF StreamLog, connVars, mapVars
<1>2. ASSUME NEW c \in Conns
      PROVE  /\ got'[c] \subseteq {c, LogLine}
             /\ LogLine \in got'[c] => Asked(c)
  BY <1>1 DEF AnswerInv, OwnAnswersOnly, SubscribersAsked, Asked
<1>3. OwnAnswersOnly'
  BY <1>1, <1>2 DEF OwnAnswersOnly, Asked
<1> QED
  BY <1>1, <1>3 DEF AnswerInv, ThreadsOwn, SubscribersAsked, Asked

\* If other daemons send neither slow commands nor log subscriptions, a reply
\* reaches the connection its command came on and a log line only one that had a
\* command executed, although handlers, threads and the log keep bare numbers and
\* the kernel reuses them, for any number of connections and descriptors.
THEOREM AnswersReachWhoAsked ==
    ASSUME RemoteKinds \cap {"slow", "keep"} = {}
    PROVE  Spec => []OwnAnswersOnly
<1>1. Init => AnswerInv
  BY DEF Init, AnswerInv, OwnAnswersOnly, ThreadsOwn, SubscribersAsked
<1>2. HolderInv /\ AnswerInv /\ [Next]_vars => AnswerInv'
  <2> SUFFICES ASSUME HolderInv, AnswerInv, [Next]_vars PROVE AnswerInv'
    OBVIOUS
  <2> USE DEF loopVars, connVars, mapVars, ghosts
  <2>1. ASSUME NEW c \in Conns, Connect(c) \/ HangUp(c) \/ \E k \in Kinds : Send(c, k)
        PROVE  AnswerInv'
    BY <2>1, AnswersUntouched DEF Connect, HangUp, Send
  <2>2. CASE Select \/ UNCHANGED vars
    BY <2>2, AnswersUntouched DEF Select, vars
  <2>3. ASSUME NEW c \in Conns, AcceptNewClient(c) \/ AcceptNewPeer(c) PROVE AnswerInv'
    BY <2>3, AcceptAnswers DEF AcceptNewClient, AcceptNewPeer, AcceptOne
  <2>4. ASSUME NEW f \in Fds, HandleClientData(f) \/ HandlePeerData(f) PROVE AnswerInv'
    BY <2>4, ClientAnswers, PeerAnswers
  <2>5. CASE ThreadStep
    BY <2>5, ThreadAnswers DEF ThreadStep
  <2>6. CASE StreamLog
    BY <2>6, LogAnswers
  <2>7. CASE Stop
    BY <2>7 DEF Stop, AnswerInv, OwnAnswersOnly, ThreadsOwn, SubscribersAsked
  <2>8. ASSUME NEW f \in Fds, AskExtension(f) \/ ReadsCommands(f) PROVE AnswerInv'
    BY <2>8, AnswersUntouched DEF AskExtension, ReadsCommands
  <2>9. CASE ExtensionAnswers
    BY <2>9, AnswersUntouched DEF ExtensionAnswers
  <2> QED
    BY <2>1, <2>2, <2>3, <2>4, <2>5, <2>6, <2>7, <2>8, <2>9
    DEF Next, Loop, Conns
<1>3. AnswerInv => OwnAnswersOnly
  BY DEF AnswerInv
<1>4. "slow" \notin RemoteKinds
  OBVIOUS
<1>5. Spec => []HolderInv
  BY <1>4, HolderInvariant
<1> QED
  BY <1>1, <1>2, <1>3, <1>5, PTL DEF Spec

-----------------------------------------------------------------------------
(* Nobody is closed without an answer.  The loop runs a slow command itself before
   it hands the connection to a thread, so that whom a thread closes has been
   answered or has gone; that it closes nobody else needs the holders.        *)

Answered(c) == c \in got[c] \/ c \in hung

ThreadsAnswered == \A th \in threads : table[th.fd] = th.conn /\ Answered(th.conn)

\* What NoSilentClose says of one step.
AnsweredBeforeClose ==
    \A c \in Conns :
        phase[c] = "open" /\ phase'[c] = "closed" /\ running' =>
            c \in got[c] \/ c \in got'[c] \/ c \in hung

\* A step that takes nothing back and changes no thread's number.
LEMMA ThreadsStayAnswered ==
    ASSUME TypeOK, ThreadsAnswered, hung \subseteq hung',
           \A c \in Conns : got[c] \subseteq got'[c],
           \A th \in threads' : th \in threads /\ table'[th.fd] = table[th.fd]
    PROVE  ThreadsAnswered'
<1> SUFFICES ASSUME NEW th \in threads'
             PROVE  table'[th.fd] = th.conn /\ (th.conn \in got'[th.conn] \/ th.conn \in hung')
  BY DEF ThreadsAnswered, Answered
<1>1. th \in threads /\ table'[th.fd] = table[th.fd]
  OBVIOUS
<1>2. th.conn \in Conns
  BY <1>1 DEF TypeOK
<1>3. table[th.fd] = th.conn /\ (th.conn \in got[th.conn] \/ th.conn \in hung)
  BY <1>1 DEF ThreadsAnswered, Answered
<1> QED
  BY <1>1, <1>2, <1>3

\* A reply adds to what a connection got; its own connection is then answered.
LEMMA DeliverAnswers ==
    ASSUME TypeOK, NEW f \in Fds, Open(f), got' = Deliver(f, table[f], got)
    PROVE  /\ table[f] \in Conns
           /\ \A c \in Conns : got[c] \subseteq got'[c]
           /\ table[f] \in got'[table[f]] \/ table[f] \in hung
<1>1. table[f] \in Conns
  BY DEF TypeOK, Open
<1>2. \A c \in Conns : got'[c] = got[c] \/ got'[c] = got[c] \cup {table[f]}
  BY <1>1 DEF Deliver, TypeOK
<1>3. table[f] \notin hung => got'[table[f]] = got[table[f]] \cup {table[f]}
  BY <1>1 DEF Deliver, TypeOK
<1> QED
  BY <1>1, <1>2, <1>3

\* close() ends the connection that the number denotes, and no other.
LEMMA CloseEnds ==
    ASSUME TypeOK, NEW f \in Fds, Close(f), table[f] \in got'[table[f]] \/ table[f] \in hung
    PROVE  AnsweredBeforeClose /\ \A g \in Fds : g # f => table'[g] = table[g]
<1>1. \A c \in Conns : phase[c] = "open" /\ phase'[c] = "closed" => c = table[f]
  BY DEF Close, TypeOK
<1> QED
  BY <1>1 DEF Close, TypeOK, AnsweredBeforeClose

\* handle_client_data: a connection is closed at its end or after its answer.
LEMMA ClientEnds ==
    ASSUME HolderInv, ThreadsAnswered, NEW f \in Fds, HandleClientData(f)
    PROVE  ThreadsAnswered' /\ AnsweredBeforeClose
<1>1. f \in clients /\ f \notin ThreadFds /\ Open(f) /\ hung' = hung
  BY DEF HandleClientData, ClientInTurn, HolderInv, OneHolder
<1>2. \A th \in threads : th.fd \in Fds /\ th.fd # f
  BY <1>1 DEF ThreadFds, HolderInv, TypeOK
<1>3. TypeOK
  BY DEF HolderInv
<1>4. CASE EndOfFile(f) /\ ClientGone(f)
  <2>1. Close(f) /\ UNCHANGED <<threads, got>> /\ table[f] \in hung
    BY <1>1, <1>4 DEF ClientGone, EndOfFile
  <2>2. AnsweredBeforeClose /\ \A g \in Fds : g # f => table'[g] = table[g]
    BY <1>3, <2>1, CloseEnds
  <2> QED
    BY <1>1, <1>2, <1>3, <2>1, <2>2, ThreadsStayAnswered
<1>5. CASE inbox[table[f]] # <<>> /\ ClientCommand(f, table[f], Head(inbox[table[f]]))
  <2> DEFINE m == Head(inbox[table[f]])
  <2>1. got' = Deliver(f, table[f], got)
    BY <1>5 DEF ClientCommand, RunHandler
  <2>2. /\ table[f] \in Conns
        /\ \A c \in Conns : got[c] \subseteq got'[c]
        /\ table[f] \in got'[table[f]] \/ table[f] \in hung
    BY <1>1, <1>3, <2>1, DeliverAnswers
  <2>3. CASE m.kind \in {"plain", "ask"}
    <3>1. Close(f) /\ UNCHANGED threads
      BY <1>5, <2>3 DEF ClientCommand
    <3>2. AnsweredBeforeClose /\ \A g \in Fds : g # f => table'[g] = table[g]
      BY <1>3, <2>2, <3>1, CloseEnds
    <3> QED
      BY <1>1, <1>2, <1>3, <2>2, <3>1, <3>2, ThreadsStayAnswered
  <2>4. CASE m.kind \in {"keep", "invalid"}
    <3>1. UNCHANGED <<table, phase, threads>>
      BY <1>5, <2>4 DEF ClientCommand
    <3>2. ThreadsAnswered'
      BY <1>1, <1>3, <2>2, <3>1, ThreadsStayAnswered
    <3> QED
      BY <3>1, <3>2 DEF AnsweredBeforeClose
  <2>5. CASE m.kind = "slow"
    <3>1. UNCHANGED <<table, phase>> /\ threads' = threads \cup {Spawn(f, table[f], m)}
      BY <1>5, <2>5 DEF ClientCommand
    <3>2. Spawn(f, table[f], m).fd = f /\ Spawn(f, table[f], m).conn = table[f]
      BY DEF Spawn
    <3>3. ASSUME NEW th \in threads
          PROVE  table'[th.fd] = th.conn /\ (th.conn \in got'[th.conn] \/ th.conn \in hung')
      <4>1. th.conn \in Conns
        BY <1>3 DEF TypeOK
      <4>2. table[th.fd] = th.conn /\ (th.conn \in got[th.conn] \/ th.conn \in hung)
        BY DEF ThreadsAnswered, Answered
      <4> QED
        BY <1>1, <2>2, <3>1, <4>1, <4>2
    <3>4. ThreadsAnswered'
      BY <1>1, <2>2, <3>1, <3>2, <3>3 DEF ThreadsAnswered, Answered
    <3> QED
      BY <3>1, <3>4 DEF AnsweredBeforeClose
  <2> QED
    BY <1>5, <2>3, <2>4, <2>5 DEF ClientCommand
<1> QED
  BY <1>4, <1>5 DEF HandleClientData

\* handle_peer_data closes a connection only at its end.
LEMMA PeerEnds ==
    ASSUME HolderInv, ThreadsAnswered, "slow" \notin RemoteKinds,
           NEW f \in Fds, HandlePeerData(f)
    PROVE  ThreadsAnswered' /\ AnsweredBeforeClose
<1>1. f \in peer_clients /\ f \notin ThreadFds /\ Open(f) /\ hung' = hung
  BY DEF HandlePeerData, PeerInTurn, HolderInv, OneHolder
<1>2. \A th \in threads : th.fd \in Fds /\ th.fd # f
  BY <1>1 DEF ThreadFds, HolderInv, TypeOK
<1>3. TypeOK
  BY DEF HolderInv
<1>4. CASE EndOfFile(f) /\ PeerGone(f)
  <2>1. Close(f) /\ UNCHANGED <<threads, got>> /\ table[f] \in hung
    BY <1>1, <1>4 DEF PeerGone, EndOfFile
  <2>2. AnsweredBeforeClose /\ \A g \in Fds : g # f => table'[g] = table[g]
    BY <1>3, <2>1, CloseEnds
  <2> QED
    BY <1>1, <1>2, <1>3, <2>1, <2>2, ThreadsStayAnswered
<1>5. CASE inbox[table[f]] # <<>> /\ PeerCommand(f, table[f], Head(inbox[table[f]]))
  <2>1. got' = Deliver(f, table[f], got)
    BY <1>5 DEF PeerCommand, RunHandler
  <2>2. \A c \in Conns : got[c] \subseteq got'[c]
    BY <1>1, <1>3, <2>1, DeliverAnswers
  <2>3. table[f] \in Remotes
    BY <1>1 DEF HolderInv, PeersAreRemote
  <2>4. Head(inbox[table[f]]) \in [kind : RemoteKinds, n : 1 .. MaxSends]
    BY <1>5, <2>3, HeadTailProperties DEF HolderInv, RemoteInboxes
  <2>5. Head(inbox[table[f]]).kind # "slow"
    BY <2>4
  <2>6. UNCHANGED <<table, phase, threads>>
    BY <1>5, <2>5 DEF PeerCommand
  <2>7. ThreadsAnswered'
    BY <1>1, <1>3, <2>2, <2>6, ThreadsStayAnswered
  <2> QED
    BY <2>6, <2>7 DEF AnsweredBeforeClose
<1> QED
  BY <1>4, <1>5 DEF HandlePeerData

\* A new connection gets a number that no thread has.
LEMMA AcceptEnds ==
    ASSUME HolderInv, ThreadsAnswered, NEW c \in Conns, AcceptNewClient(c) \/ AcceptNewPeer(c)
    PROVE  ThreadsAnswered' /\ AnsweredBeforeClose
<1>1. /\ FreeFds # {} /\ UNCHANGED <<hung, threads, got>>
      /\ table' = [table EXCEPT ![Min(FreeFds)] = c]
      /\ phase' = [phase EXCEPT ![c] = "open"]
  BY DEF AcceptNewClient, AcceptNewPeer, AcceptOne, ghosts
<1>2. PICK g \in Fds : g = Min(FreeFds) /\ ~Open(g)
  BY <1>1, FreeNumber
<1>3. g \notin ThreadFds
  BY <1>2 DEF HolderInv, OneHolder
<1>4. TypeOK
  BY DEF HolderInv
<1>5. \A h \in Fds : h # g => table'[h] = table[h]
  BY <1>1, <1>2, <1>4 DEF TypeOK
<1>6. \A th \in threads : th.fd \in Fds /\ th.fd # g
  BY <1>3, <1>4 DEF ThreadFds, TypeOK
<1>7. ThreadsAnswered'
  BY <1>1, <1>4, <1>5, <1>6, ThreadsStayAnswered
<1>8. AnsweredBeforeClose
  BY <1>1, <1>4 DEF TypeOK, AnsweredBeforeClose
<1> QED
  BY <1>7, <1>8

\* A thread closes the connection of its command, which has been answered.
LEMMA ThreadEnds ==
    ASSUME HolderInv, ThreadsAnswered, NEW th \in threads, ThreadHandler(th) \/ ThreadClose(th)
    PROVE  ThreadsAnswered' /\ AnsweredBeforeClose
<1>1. TypeOK
  BY DEF HolderInv
<1>2. th \in ThreadRecs
  BY <1>1 DEF TypeOK, ThreadRecs
<1>3. th.fd \in Fds /\ th.conn \in Conns /\ th.fd \in ThreadFds
  BY <1>2 DEF ThreadRecs, ThreadFds
<1>4. Open(th.fd)
  BY <1>3 DEF HolderInv, OneHolder
<1>5. table[th.fd] = th.conn /\ (th.conn \in got[th.conn] \/ th.conn \in hung)
  BY DEF ThreadsAnswered, Answered
<1>6. CASE ThreadHandler(th)
  <2> DEFINE ti == [th EXCEPT !.stage = "close"]
  <2>1. /\ got' = Deliver(th.fd, table[th.fd], got)
        /\ threads' = (threads \ {th}) \cup {ti}
        /\ UNCHANGED <<table, phase, hung>>
    BY <1>5, <1>6 DEF ThreadHandler, connVars
  <2>2. ti.fd = th.fd /\ ti.conn = th.conn
    BY <1>2 DEF ThreadRecs
  <2> HIDE DEF ti
  <2>3. \A c \in Conns : got[c] \subseteq got'[c]
    BY <1>1, <1>3, <1>4, <2>1, DeliverAnswers
  <2>4. ASSUME NEW tj \in threads
        PROVE  table'[tj.fd] = tj.conn /\ (tj.conn \in got'[tj.conn] \/ tj.conn \in hung')
    <3>1. tj.conn \in Conns
      BY <1>1 DEF TypeOK
    <3>2. table[tj.fd] = tj.conn /\ (tj.conn \in got[tj.conn] \/ tj.conn \in hung)
      BY DEF ThreadsAnswered, Answered
    <3> QED
      BY <2>1, <2>3, <3>1, <3>2
  <2>5. ThreadsAnswered'
    BY <2>1, <2>2, <2>4 DEF ThreadsAnswered, Answered
  <2> QED
    BY <2>1, <2>5 DEF AnsweredBeforeClose
<1>7. CASE ThreadClose(th)
  <2>1. Close(th.fd) /\ threads' = threads \ {th} /\ UNCHANGED <<hung, got>>
    BY <1>7 DEF ThreadClose, ghosts
  <2>2. AnsweredBeforeClose /\ \A g \in Fds : g # th.fd => table'[g] = table[g]
    BY <1>1, <1>3, <1>5, <2>1, CloseEnds
  <2>3. \A tj \in threads' : tj \in threads /\ tj.fd \in Fds /\ tj.fd # th.fd
    BY <1>1, <2>1 DEF HolderInv, OneHolder, TypeOK
  <2> QED
    BY <1>1, <2>1, <2>2, <2>3, ThreadsStayAnswered
<1> QED
  BY <1>6, <1>7

\* If other daemons send no slow command, the loop and the threads close a
\* connection only after a command on it was answered or its other end has gone,
\* however the numbers are reused, for any number of connections, commands and
\* descriptors.
THEOREM ClosedAfterAnswer ==
    ASSUME "slow" \notin RemoteKinds
    PROVE  Spec => NoSilentClose
<1>1. Init => ThreadsAnswered
  BY DEF Init, ThreadsAnswered
<1>2. HolderInv /\ ThreadsAnswered /\ [Next]_vars => ThreadsAnswered' /\ (AnsweredBeforeClose \/ UNCHANGED vars)
  <2> SUFFICES ASSUME HolderInv, ThreadsAnswered, [Next]_vars
               PROVE  ThreadsAnswered' /\ (AnsweredBeforeClose \/ UNCHANGED vars)
    OBVIOUS
  <2>1. TypeOK
    BY DEF HolderInv
  <2>2. ASSUME NEW c \in Conns, Connect(c) \/ HangUp(c) \/ \E k \in Kinds : Send(c, k)
        PROVE  ThreadsAnswered' /\ AnsweredBeforeClose
    <3>1. UNCHANGED <<table, threads, got>> /\ hung \subseteq hung'
      BY <2>2 DEF Connect, HangUp, Send, ghosts, connVars
    <3>2. \A d \in Conns : phase[d] = "open" => phase'[d] = "open"
      BY <2>1, <2>2 DEF Connect, HangUp, Send, TypeOK
    <3>3. ThreadsAnswered'
      BY <2>1, <3>1, ThreadsStayAnswered
    <3> QED
      BY <3>2, <3>3 DEF AnsweredBeforeClose
  <2>3. CASE Select \/ UNCHANGED vars
    <3>1. UNCHANGED <<table, threads, got, hung, phase>>
      BY <2>3 DEF Select, vars, ghosts, connVars
    <3>2. ThreadsAnswered'
      BY <2>1, <3>1, ThreadsStayAnswered
    <3> QED
      BY <3>1, <3>2 DEF AnsweredBeforeClose
  <2>4. ASSUME NEW c \in Conns, AcceptNewClient(c) \/ AcceptNewPeer(c)
        PROVE  ThreadsAnswered' /\ AnsweredBeforeClose
    BY <2>4, AcceptEnds
  <2>5. ASSUME NEW f \in Fds, HandleClientData(f) \/ HandlePeerData(f)
        PROVE  ThreadsAnswered' /\ AnsweredBeforeClose
    BY <2>5, ClientEnds, PeerEnds
  <2>6. CASE ThreadStep
    BY <2>6, ThreadEnds DEF ThreadStep
  <2>7. CASE StreamLog
    <3>1. UNCHANGED <<table, threads, hung, phase>> /\ \A c \in Conns : got[c] \subseteq got'[c]
      BY <2>1, <2>7 DEF StreamLog, connVars, TypeOK
    <3>2. ThreadsAnswered'
      BY <2>1, <3>1, ThreadsStayAnswered
    <3> QED
      BY <3>1, <3>2 DEF AnsweredBeforeClose
  <2>8. CASE Stop
    <3>1. threads' = {} /\ ~running'
      BY <2>8 DEF Stop
    <3> QED
      BY <3>1 DEF ThreadsAnswered, AnsweredBeforeClose
  <2>9. ASSUME NEW f \in Fds, AskExtension(f) \/ ReadsCommands(f)
        PROVE  ThreadsAnswered' /\ AnsweredBeforeClose
    <3>1. UNCHANGED <<table, threads, got, hung, phase>>
      BY <2>9 DEF AskExtension, ReadsCommands, ghosts, connVars
    <3>2. ThreadsAnswered'
      BY <2>1, <3>1, ThreadsStayAnswered
    <3> QED
      BY <3>1, <3>2 DEF AnsweredBeforeClose
  <2>10. CASE ExtensionAnswers
    <3>1. UNCHANGED <<table, threads, got, hung, phase>>
      BY <2>10 DEF ExtensionAnswers, ghosts, connVars
    <3>2. ThreadsAnswered'
      BY <2>1, <3>1, ThreadsStayAnswered
    <3> QED
      BY <3>1, <3>2 DEF AnsweredBeforeClose
  <2> QED
    BY <2>2, <2>3, <2>4, <2>5, <2>6, <2>7, <2>8, <2>9, <2>10 DEF Next, Loop, Conns
<1>3. Spec => []HolderInv
  BY HolderInvariant
<1>4. (AnsweredBeforeClose \/ UNCHANGED vars) <=>
        [\A c \in Conns :
            phase[c] = "open" /\ phase'[c] = "closed" /\ running' =>
               c \in got[c] \/ c \in got'[c] \/ c \in hung]_vars
  BY DEF AnsweredBeforeClose
<1> QED
  BY <1>1, <1>2, <1>3, <1>4, PTL DEF Spec, NoSilentClose
=============================================================================
