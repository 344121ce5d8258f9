-------------------------- MODULE LeaderLinkProofs --------------------------
(***************************************************************************)
(* The types of the link to the leader, and the pairing of forwarded       *)
(* commands with their answers by m_leaderCommMutex, for any number of     *)
(* threads, sockets, commands, reconfigurations and outages.               *)
(***************************************************************************)
EXTENDS LeaderLink, TLAPS, WellFoundedInduction, FiniteSetTheorems, SequenceTheorems

\* A set of naturals that is not empty has a least member, and Min is it.
LEMMA MinIsLeast ==
    ASSUME NEW S, S \subseteq Nat, S # {}
    PROVE  Min(S) \in S /\ \A y \in S : Min(S) <= y
<1>1. PICK x \in S : \A y \in S : ~(<<y, x>> \in OpToRel(<, Nat))
  BY NatLessThanWellFounded, WFMin
<1>2. ASSUME NEW y \in S PROVE x <= y
  <2>1. ~(y < x)
    BY <1>1 DEF OpToRel
  <2> QED
    BY <2>1, SMT
<1> QED
  BY <1>2 DEF Min

\* socket() returns a number that is not open.
LEMMA ClosedNumber ==
    ASSUME ClosedSocks # {}
    PROVE  Min(ClosedSocks) \in Socks /\ wire[Min(ClosedSocks)] = "closed"
<1>1. ClosedSocks \subseteq Nat
  BY ConstantsAssumption DEF ClosedSocks, Socks
<1>2. Min(ClosedSocks) \in ClosedSocks
  BY <1>1, MinIsLeast
<1> QED
  BY <1>2 DEF ClosedSocks

-----------------------------------------------------------------------------
(* Types *)

PcValues == {"idle", "sleep", "socket", "connect", "flag", "register",
             "response", "wait", "write", "read", "ready", "execute", "lost"}

\* What an action leaves alone keeps its type.
BudgetType ==
    /\ reach \in BOOLEAN
    /\ asked \in 0 .. MaxCalls /\ admin \in 0 .. MaxCalls
    /\ commands \in 0 .. MaxCommands /\ outages \in 0 .. MaxOutages

LinkType ==
    /\ sock \in {NoSock} \cup Socks /\ connected \in BOOLEAN
    /\ wire \in [Socks -> {"closed", "fresh", "up", "cut"}]
    /\ req \in [Socks -> Seq(Requests)] /\ resp \in [Socks -> Seq(Answers)]
    /\ waits \in [Socks -> BOOLEAN]
    /\ owed \in [Socks -> BOOLEAN]

ThreadType ==
    /\ mutex \in Threads \cup {NoThread}
    /\ pc \in [Threads -> PcValues]
    /\ query \in [Threads -> Asks]
    /\ returned \subseteq Queries

ExecType == fd \in {NoSock} \cup Socks /\ todo \in Nat /\ again \in [Socks -> Nat]

LEMMA TypeParts ==
    /\ TypeOK => BudgetType /\ LinkType /\ ThreadType /\ ExecType
    /\ BudgetType' /\ LinkType' /\ ThreadType' /\ ExecType' => TypeOK'
BY DEF TypeOK, BudgetType, LinkType, ThreadType, ExecType, PcValues

\* What the threads write and read.
LEMMA MessageSeqs ==
    /\ <<>> \in Seq(Requests) /\ <<>> \in Seq(Answers)
    /\ \A m \in Requests : <<m>> \in Seq(Requests)
    /\ Asks \subseteq Requests /\ Asks \subseteq Answers
    /\ Reg \in Asks /\ Queries \subseteq Asks
    /\ Reply \in Requests /\ Cmd \in Answers /\ Error \in Answers
BY DEF Requests, Answers, Asks

\* Closing the socket keeps the types of the link.
LEMMA CloseType ==
    ASSUME LinkType, CloseLeaderSocket, connected' \in BOOLEAN
    PROVE  LinkType'
BY MessageSeqs DEF LinkType, CloseLeaderSocket, CloseNumber

LEMMA DisconnectType ==
    ASSUME LinkType, DisconnectFromLeader
    PROVE  LinkType'
BY CloseType DEF DisconnectFromLeader, KeepLeaderSocket, LinkType, wireVars

\* So does a write.
LEMMA WriteType ==
    ASSUME LinkType, NEW m \in Seq(Requests), sock # NoSock, WriteToLeader(m)
    PROVE  LinkType'
<1>1. sock \in Socks
  BY DEF LinkType
<1>2. req[sock] \o m \in Seq(Requests)
  BY <1>1, ConcatProperties DEF LinkType
<1> QED
  BY <1>1, <1>2 DEF LinkType, WriteToLeader, linkVars, wireVars

LEMMA SendType ==
    ASSUME LinkType, NEW m \in Seq(Requests), SendToLeader(m)
    PROVE  LinkType'
BY WriteType, DisconnectType
   DEF SendToLeader, CanSend, WriteFails, LinkType, linkVars, wireVars

\* A thread moves and the rest of the threads' state stays.
LEMMA GotoType ==
    ASSUME ThreadType, NEW t \in Threads, NEW l \in PcValues, Goto(t, l),
           UNCHANGED <<mutex, query, returned>>
    PROVE  ThreadType'
BY DEF ThreadType, Goto

LEMMA ReturnType ==
    ASSUME ThreadType, NEW t \in Threads, Return(t), UNCHANGED <<mutex, query, returned>>
    PROVE  ThreadType'
BY GotoType DEF Return, PcValues

\* A thread moves, and its client has the answer.
LEMMA AnsweredType ==
    ASSUME ThreadType, NEW t \in Threads, query[t] # Reg, NEW l \in PcValues, Goto(t, l),
           Answered(t), mutex' \in Threads \cup {NoThread}
    PROVE  ThreadType'
<1>1. query[t] \in Queries /\ Reg \in Asks
  BY DEF ThreadType, Asks
<1> QED
  BY <1>1 DEF ThreadType, Goto, Answered

LEMMA ReturnFailedType ==
    ASSUME ThreadType, NEW t \in Threads, ReturnFailed(t), UNCHANGED mutex
    PROVE  ThreadType'
<1>1. PICK l \in {"sleep", "idle"} : Goto(t, l)
  BY DEF ReturnFailed
<1>2. CASE Forwarding(t)
  BY <1>1, <1>2, AnsweredType DEF ReturnFailed, Forwarding, ThreadType, PcValues
<1>3. CASE ~Forwarding(t)
  BY <1>1, <1>3, GotoType DEF ReturnFailed, PcValues
<1> QED
  BY <1>2, <1>3

LEMMA ConnectStepType ==
    ASSUME TypeOK, NEW t \in Threads, ConnectStep(t)
    PROVE  TypeOK'
<1> USE TypeParts
<1>0. UNCHANGED <<execVars, reach, budget>> => BudgetType' /\ ExecType'
  BY DEF BudgetType, ExecType, execVars, budget
<1>1. CASE ConnectSocket(t)
  <2>1. CASE ClosedSocks = {}
    <3>1. LinkType'
      BY <1>1, <2>1 DEF ConnectSocket, LinkType
    <3>2. ThreadType'
      BY <1>1, <2>1, ReturnFailedType DEF ConnectSocket
    <3> QED
      BY <1>0, <1>1, <3>1, <3>2 DEF ConnectSocket
  <2>2. CASE ClosedSocks # {}
    <3> DEFINE s == Min(ClosedSocks)
    <3>1. s \in Socks
      BY <2>2, ClosedNumber
    <3>2. LinkType'
      <4> HIDE DEF s
      <4>1. /\ sock' = s /\ wire' = [wire EXCEPT ![s] = "fresh"]
            /\ UNCHANGED <<connected, req, resp, waits, owed>>
        BY <1>1, <2>2 DEF ConnectSocket, s
      <4> QED
        BY <3>1, <4>1 DEF LinkType
    <3>3. ThreadType'
      BY <1>1, <2>2, GotoType DEF ConnectSocket, PcValues
    <3> QED
      BY <1>0, <1>1, <3>2, <3>3 DEF ConnectSocket
  <2> QED
    BY <2>1, <2>2
<1>2. CASE ConnectCall(t)
  <2>1. LinkType'
    BY <1>2, CloseType DEF ConnectCall, KeepLeaderSocket, LinkType, wireVars
  <2>2. ThreadType'
    BY <1>2, GotoType, ReturnFailedType DEF ConnectCall, PcValues
  <2> QED
    BY <1>0, <1>2, <2>1, <2>2 DEF ConnectCall
<1>3. CASE ConnectFlag(t)
  <2>1. ThreadType'
    BY <1>3, GotoType DEF ConnectFlag, PcValues
  <2> QED
    BY <1>0, <1>3, <2>1 DEF ConnectFlag, LinkType, wireVars
<1>4. CASE ConnectRegister(t)
  <2>1. LinkType'
    BY <1>4, SendType, MessageSeqs DEF ConnectRegister
  <2>2. ThreadType'
    BY <1>4, GotoType DEF ConnectRegister, PcValues
  <2> QED
    BY <1>0, <1>4, <2>1, <2>2 DEF ConnectRegister
<1>5. CASE ConnectResponse(t)
  <2>1. LinkType'
    BY <1>5, MessageSeqs DEF ConnectResponse, IsOpen, LinkType, linkVars
  <2>2. ThreadType'
    BY <1>5, ReturnType DEF ConnectResponse
  <2> QED
    BY <1>0, <1>5, <2>1, <2>2 DEF ConnectResponse
<1> QED
  BY <1>1, <1>2, <1>3, <1>4, <1>5 DEF ConnectStep

\* The next query has a number in the bound.
LEMMA NextQuery ==
    ASSUME TypeOK, asked + admin < MaxCalls
    PROVE  /\ asked + 1 \in Queries /\ asked + 1 \in Asks /\ asked + 1 # Reg
           /\ asked + 1 \in 0 .. MaxCalls /\ admin + 1 \in 0 .. MaxCalls
           /\ <<asked + 1>> \in Seq(Requests)
<1>1. asked \in Nat /\ admin \in Nat /\ MaxCalls \in Nat
  BY ConstantsAssumption DEF TypeOK
<1>2. /\ asked + 1 \in 1 .. MaxCalls /\ asked + 1 # 0
      /\ asked + 1 \in 0 .. MaxCalls /\ admin + 1 \in 0 .. MaxCalls
  BY <1>1
<1> QED
  BY <1>2, MessageSeqs DEF Queries, Asks, Reg

LEMMA ForwardType ==
    ASSUME TypeOK, NEW t \in Threads, ForwardSend(t) \/ ForwardReturn(t),
           pc[t] = "wait" => query[t] # Reg
    PROVE  TypeOK'
<1> USE TypeParts
<1>1. ASSUME ForwardSend(t) PROVE TypeOK'
  <2>1. /\ asked + 1 \in Queries /\ asked + 1 \in Asks /\ asked + 1 \in 0 .. MaxCalls
        /\ <<asked + 1>> \in Seq(Requests)
    BY <1>1, NextQuery DEF ForwardSend
  <2>2. LinkType'
    BY <1>1, <2>1, WriteType, DisconnectType
       DEF ForwardSend, CanSend, WriteFails, LinkType, linkVars, wireVars
  <2>3. ThreadType'
    BY <1>1, <2>1 DEF ForwardSend, Goto, ThreadType, PcValues
  <2>4. BudgetType' /\ ExecType'
    BY <1>1, <2>1 DEF ForwardSend, BudgetType, ExecType, execVars
  <2> QED
    BY <2>2, <2>3, <2>4
<1>2. ASSUME ForwardReturn(t) PROVE TypeOK'
  <2>1. LinkType'
    BY <1>2, MessageSeqs DEF ForwardReturn, PollTimesOut, IsOpen, LinkType, linkVars
  <2>2. ThreadType'
    BY <1>2, AnsweredType DEF ForwardReturn, ThreadType, PcValues
  <2> QED
    BY <1>2, <2>1, <2>2 DEF ForwardReturn, BudgetType, ExecType, execVars, budget
<1> QED
  BY <1>1, <1>2

\* How many commands there are among what was read is a number.
LEMMA CommandsType ==
    ASSUME NEW o \in Seq(Answers)
    PROVE  Commands(o) \in Nat
<1>1. Len(o) \in Nat /\ DOMAIN o = 1 .. Len(o)
  BY LenProperties
<1>2. IsFiniteSet(1 .. Len(o))
  BY <1>1, FS_Interval
<1>3. IsFiniteSet({i \in DOMAIN o : o[i] = Cmd})
  BY <1>1, <1>2, FS_Subset
<1> QED
  BY <1>3, FS_CardinalityType DEF Commands

\* The event loop and the reconnect loop.
LEMMA LoopType ==
    ASSUME TypeOK,
           \/ RecConnect \/ RecConnected \/ RecHeartbeat \/ AdminConnect
           \/ SelectLeader \/ HandleLeaderData \/ LostConnection
    PROVE  TypeOK'
<1> USE TypeParts
<1>0. "main" \in Threads /\ "rec" \in Threads
  BY DEF Threads
<1>1. CASE RecConnect \/ AdminConnect
  <2>1. LinkType'
    BY <1>1, CloseType
       DEF RecConnect, AdminConnect, ConnectClose, KeepLeaderSocket, LinkType, wireVars
  <2>2. ThreadType'
    BY <1>0, <1>1, GotoType DEF RecConnect, AdminConnect, ConnectClose, PcValues
  <2>3. BudgetType' /\ ExecType'
    BY <1>1, NextQuery
       DEF RecConnect, AdminConnect, BudgetType, ExecType, execVars, budget
  <2> QED
    BY <2>1, <2>2, <2>3
<1>2. CASE RecConnected \/ SelectLeader
  <2>1. ThreadType'
    BY <1>0, <1>2, GotoType DEF RecConnected, SelectLeader, PcValues
  <2> QED
    BY <1>2, <2>1
       DEF RecConnected, SelectLeader, LinkType, BudgetType, ExecType, linkVars, wireVars,
           execVars, budget
<1>3. CASE RecHeartbeat
  <2>1. LinkType'
    BY <1>3, SendType, MessageSeqs DEF RecHeartbeat, LinkType, linkVars, wireVars
  <2>2. ThreadType'
    BY <1>0, <1>3, GotoType DEF RecHeartbeat, PcValues
  <2> QED
    BY <1>3, <2>1, <2>2 DEF RecHeartbeat, BudgetType, ExecType, execVars, budget
<1>4. CASE HandleLeaderData
  <2>1. LinkType'
    BY <1>4, MessageSeqs DEF HandleLeaderData, LinkType, linkVars
  <2>2. PICK l \in {"idle", "execute", "lost"} : Goto("main", l)
    BY <1>4 DEF HandleLeaderData
  <2>3. ThreadType'
    BY <1>0, <1>4, <2>2, GotoType DEF HandleLeaderData, PcValues
  <2>4. sock # NoSock => Commands(resp[sock]) \in Nat
    BY CommandsType DEF LinkType
  <2>5. ExecType'
    BY <1>4, <2>4 DEF HandleLeaderData, ExecType, LinkType
  <2> QED
    BY <1>4, <2>1, <2>3, <2>5 DEF HandleLeaderData, BudgetType, budget
<1>5. CASE LostConnection
  <2>1. LinkType'
    BY <1>5, DisconnectType DEF LostConnection
  <2>2. ThreadType'
    BY <1>0, <1>5, GotoType DEF LostConnection, PcValues
  <2> QED
    BY <1>5, <2>1, <2>2 DEF LostConnection, BudgetType, ExecType, execVars, budget
<1> QED
  BY <1>1, <1>2, <1>3, <1>4, <1>5

\* The commands that use the socket without the mutex.
LEMMA UnlockedType ==
    ASSUME TypeOK, UnlockedForward \/ UnlockedWrite \/ UnlockedRead,
           pc["main"] \in {"write", "read"} => query["main"] # Reg,
           pc["main"] = "read" => fd \in Socks
    PROVE  TypeOK'
<1> USE TypeParts
<1>0. "main" \in Threads /\ Reg \in Asks /\ query["main"] \in Asks
  BY MessageSeqs DEF Threads, ThreadType
<1>1. CASE UnlockedForward
  <2>1. /\ asked + 1 \in Asks /\ asked + 1 \in 0 .. MaxCalls
    BY <1>1, NextQuery DEF UnlockedForward
  <2>2. LinkType'
    BY <1>1, CloseType
       DEF UnlockedForward, ConnectClose, KeepLeaderSocket, LinkType, wireVars
  <2>3. ThreadType'
    BY <1>0, <1>1, <2>1
       DEF UnlockedForward, ConnectClose, Goto, ThreadType, PcValues
  <2> QED
    BY <1>1, <2>1, <2>2, <2>3 DEF UnlockedForward, BudgetType, ExecType, execVars
<1>2. CASE UnlockedWrite
  <2>1. <<query["main"]>> \in Seq(Requests)
    BY <1>0, MessageSeqs
  <2>2. LinkType'
    BY <1>2, <2>1, WriteType DEF UnlockedWrite, LinkType, linkVars, wireVars
  <2>3. ThreadType'
    BY <1>0, <1>2, AnsweredType, GotoType DEF UnlockedWrite, ThreadType, PcValues
  <2>4. ExecType'
    BY <1>2 DEF UnlockedWrite, ExecType, LinkType
  <2> QED
    BY <1>2, <2>2, <2>3, <2>4 DEF UnlockedWrite, BudgetType, budget
<1>3. CASE UnlockedRead
  <2>1. fd \in Socks
    BY <1>3 DEF UnlockedRead
  <2>2. LinkType'
    BY <1>3, <2>1, MessageSeqs DEF UnlockedRead, LinkType, linkVars
  <2>3. ThreadType'
    BY <1>0, <1>3, AnsweredType DEF UnlockedRead, ThreadType, PcValues
  <2> QED
    BY <1>3, <2>2, <2>3 DEF UnlockedRead, BudgetType, ExecType, budget
<1> QED
  BY <1>1, <1>2, <1>3

\* The execution of the leader's commands.
LEMMA CommandType ==
    ASSUME TypeOK, ExecuteCommand \/ \E s \in Socks : ExecutedAgain(s),
           pc["main"] = "execute" => fd \in Socks /\ todo > 0
    PROVE  TypeOK'
<1> USE TypeParts
<1>1. CASE ExecuteCommand
  <2>1. fd \in Socks /\ todo - 1 \in Nat /\ "main" \in Threads
    BY <1>1 DEF ExecuteCommand, ExecType, Threads
  <2>2. Append(req[fd], Reply) \in Seq(Requests)
    BY <2>1, MessageSeqs, AppendProperties DEF LinkType
  <2>3. LinkType'
    BY <1>1, <2>1, <2>2 DEF ExecuteCommand, LinkType, linkVars
  <2>4. ThreadType'
    BY <1>1, <2>1, GotoType DEF ExecuteCommand, ThreadType, PcValues
  <2>5. ExecType'
    BY <1>1, <2>1 DEF ExecuteCommand, ExecType
  <2> QED
    BY <1>1, <2>3, <2>4, <2>5 DEF ExecuteCommand, BudgetType, budget
<1>2. ASSUME NEW s \in Socks, ExecutedAgain(s) PROVE TypeOK'
  <2>1. LinkType'
    BY <1>2, MessageSeqs DEF ExecutedAgain, CloseNumber, LinkType, linkVars
  <2>2. ExecType'
    BY <1>2 DEF ExecutedAgain, ExecType
  <2> QED
    BY <1>2, <2>1, <2>2 DEF ExecutedAgain, ThreadType, BudgetType, budget
<1> QED
  BY <1>1, <1>2

\* The leader and the network.
LEMMA LeaderType ==
    ASSUME TypeOK,
           \/ \E s \in Socks : LeaderAnswers(s) \/ LeaderCommands(s) \/ LeaderTakes(s)
           \/ Outage \/ Recover
    PROVE  TypeOK'
<1> USE TypeParts
<1>1. ASSUME NEW s \in Socks, LeaderAnswers(s) PROVE TypeOK'
  <2>1. /\ req[s] \in Seq(Requests) /\ req[s] # <<>>
        /\ resp[s] \in Seq(Answers)
    BY <1>1 DEF LeaderAnswers, LinkType
  <2>2. Head(req[s]) \in Requests /\ Tail(req[s]) \in Seq(Requests)
    BY <2>1, HeadTailProperties
  <2>3. AnswerTo(Head(req[s])) \in Answers
    BY <2>2 DEF AnswerTo, Requests, Answers
  <2>4. Append(resp[s], AnswerTo(Head(req[s]))) \in Seq(Answers)
    BY <2>1, <2>3, AppendProperties
  <2>5. LinkType'
    BY <1>1, <2>2, <2>4 DEF LeaderAnswers, LinkType, linkVars
  <2> QED
    BY <1>1, <2>5
       DEF LeaderAnswers, ThreadType, BudgetType, ExecType, execVars, budget
<1>2. ASSUME NEW s \in Socks, LeaderCommands(s) PROVE TypeOK'
  <2>1. Append(resp[s], Cmd) \in Seq(Answers)
    BY MessageSeqs, AppendProperties DEF LinkType
  <2>2. LinkType'
    BY <1>2, <2>1 DEF LeaderCommands, LinkType, linkVars
  <2>3. commands' \in 0 .. MaxCommands
    BY <1>2, ConstantsAssumption DEF LeaderCommands, BudgetType
  <2> QED
    BY <1>2, <2>2, <2>3 DEF LeaderCommands, ThreadType, BudgetType, ExecType, budget
<1>3. ASSUME NEW s \in Socks, LeaderTakes(s) PROVE TypeOK'
  BY <1>3, MessageSeqs
     DEF LeaderTakes, LinkType, ThreadType, BudgetType, ExecType, linkVars, execVars, budget
<1>4. CASE Outage
  <2>1. LinkType'
    BY <1>4, MessageSeqs DEF Outage, LinkType, linkVars
  <2>2. ThreadType' /\ ExecType'
    BY <1>4 DEF Outage, ThreadType, ExecType, execVars
  <2>3. outages' \in 0 .. MaxOutages
    BY <1>4, ConstantsAssumption DEF Outage, BudgetType
  <2>4. BudgetType'
    BY <1>4, <2>3 DEF Outage, BudgetType, execVars
  <2> QED
    BY <2>1, <2>2, <2>4
<1>5. CASE Recover
  BY <1>5
     DEF Recover, LinkType, ThreadType, BudgetType, ExecType, linkVars, wireVars, execVars, budget
<1> QED
  BY <1>1, <1>2, <1>3, <1>4, <1>5

LEMMA InitType == Init => TypeOK
<1> SUFFICES ASSUME Init PROVE TypeOK
  OBVIOUS
<1>1. 1 \in Socks /\ 0 \in 0 .. MaxCalls /\ 0 \in 0 .. MaxCommands /\ 0 \in 0 .. MaxOutages
  BY ConstantsAssumption DEF Socks
<1> QED
  BY <1>1, MessageSeqs DEF Init, TypeOK

-----------------------------------------------------------------------------
(* Sequences of messages: how often members of a set of messages occur in
   what is on its way *)

Messages == Requests \cup Answers

None(o, S) == \A i \in 1 .. Len(o) : o[i] \notin S
Once(o, S) == \A i, j \in 1 .. Len(o) : o[i] \in S /\ o[j] \in S => i = j
Twice(o, S) ==
    \A i, j, k \in 1 .. Len(o) :
        o[i] \in S /\ o[j] \in S /\ o[k] \in S => i = j \/ j = k \/ i = k

LEMMA NoneOnceTwice ==
    ASSUME NEW o \in Seq(Messages), NEW S
    PROVE  /\ None(o, S) => Once(o, S)
           /\ Once(o, S) => Twice(o, S)
BY DEF None, Once, Twice

LEMMA NothingOccurs == \A S : None(<<>>, S) /\ Once(<<>>, S) /\ Twice(<<>>, S)
BY DEF None, Once, Twice

\* Members of S occur in u at most as often as in e, when each of u's has a place
\* of its own in e.
LEMMA Embedded ==
    ASSUME NEW e, NEW u, NEW S, NEW g,
           \A i \in 1 .. Len(u) : u[i] \in S => g[i] \in 1 .. Len(e) /\ e[g[i]] \in S,
           \A i, j \in 1 .. Len(u) : u[i] \in S /\ u[j] \in S /\ g[i] = g[j] => i = j
    PROVE  /\ None(e, S) => None(u, S)
           /\ Once(e, S) => Once(u, S)
           /\ Twice(e, S) => Twice(u, S)
<1>1. None(e, S) => None(u, S)
  BY DEF None
<1>2. Once(e, S) => Once(u, S)
  BY DEF Once
<1>3. ASSUME Twice(e, S), NEW i \in 1 .. Len(u), NEW j \in 1 .. Len(u),
             NEW k \in 1 .. Len(u), u[i] \in S, u[j] \in S, u[k] \in S
      PROVE  i = j \/ j = k \/ i = k
  <2>1. g[i] = g[j] \/ g[j] = g[k] \/ g[i] = g[k]
    BY <1>3 DEF Twice
  <2> QED
    BY <1>3, <2>1
<1> QED
  BY <1>1, <1>2, <1>3 DEF Twice

\* One more message at the end.
LEMMA AddLast ==
    ASSUME NEW o \in Seq(Messages), NEW m \in Messages, NEW S
    PROVE  /\ o \o <<m>> \in Seq(Messages)
           /\ None(o, S) => Once(o \o <<m>>, S)
           /\ Once(o, S) => Twice(o \o <<m>>, S)
           /\ m \notin S => /\ None(o, S) => None(o \o <<m>>, S)
                            /\ Once(o, S) => Once(o \o <<m>>, S)
                            /\ Twice(o, S) => Twice(o \o <<m>>, S)
<1> DEFINE e == o \o <<m>>
<1>1. Append(o, m) = e
  BY AppendIsConcat
<1>2. /\ e \in Seq(Messages) /\ Len(e) = Len(o) + 1 /\ Len(o) \in Nat
      /\ \A i \in 1 .. Len(o) : e[i] = o[i]
      /\ e[Len(o) + 1] = m
  BY <1>1, AppendProperties, LenProperties
<1> HIDE DEF e
<1>3. \A i \in 1 .. Len(e) : i \in 1 .. Len(o) \/ i = Len(o) + 1
  BY <1>2
<1>4. None(o, S) => Once(e, S)
  BY <1>2, <1>3 DEF None, Once
<1>5. Once(o, S) => Twice(e, S)
  BY <1>2, <1>3 DEF Once, Twice
<1>6. ASSUME m \notin S
      PROVE  /\ None(o, S) => None(e, S)
             /\ Once(o, S) => Once(e, S)
             /\ Twice(o, S) => Twice(e, S)
  BY <1>2, <1>3, <1>6 DEF None, Once, Twice
<1> QED
  BY <1>2, <1>4, <1>5, <1>6 DEF e

\* What the members of a concatenation are.
LEMMA Concatenated ==
    ASSUME NEW r \in Seq(Messages), NEW u \in Seq(Messages)
    PROVE  /\ r \o u \in Seq(Messages)
           /\ Len(r \o u) = Len(r) + Len(u) /\ Len(r) \in Nat /\ Len(u) \in Nat
           /\ \A i \in 1 .. Len(r) : (r \o u)[i] = r[i]
           /\ \A i \in 1 .. Len(u) : (r \o u)[Len(r) + i] = u[i]
<1> DEFINE e == r \o u
<1>1. Len(e) = Len(r) + Len(u) /\ Len(u) \in Nat /\ Len(r) \in Nat /\ e \in Seq(Messages)
  BY ConcatProperties, LenProperties
<1>2. \A i \in 1 .. Len(r) + Len(u) : e[i] = IF i <= Len(r) THEN r[i] ELSE u[i - Len(r)]
  BY ConcatProperties
<1> HIDE DEF e
<1>3. \A i \in 1 .. Len(r) : e[i] = r[i]
  BY <1>1, <1>2
<1>4. ASSUME NEW i \in 1 .. Len(u) PROVE e[Len(r) + i] = u[i]
  <2>1. /\ Len(r) + i \in 1 .. Len(r) + Len(u) /\ ~(Len(r) + i <= Len(r))
        /\ (Len(r) + i) - Len(r) = i
    BY <1>1
  <2> QED
    BY <1>2, <2>1
<1> QED
  BY <1>1, <1>3, <1>4 DEF e

\* The messages at the beginning are read.
LEMMA DropBefore ==
    ASSUME NEW r \in Seq(Messages), NEW u \in Seq(Messages), NEW S
    PROVE  /\ None(r \o u, S) => None(u, S)
           /\ Once(r \o u, S) => Once(u, S)
           /\ Twice(r \o u, S) => Twice(u, S)
<1> DEFINE e == r \o u
           g == [i \in 1 .. Len(u) |-> Len(r) + i]
<1>1. /\ Len(e) = Len(r) + Len(u) /\ Len(r) \in Nat /\ Len(u) \in Nat
      /\ \A i \in 1 .. Len(u) : e[Len(r) + i] = u[i]
  BY Concatenated
<1> HIDE DEF e
<1>2. \A i \in 1 .. Len(u) : u[i] \in S => g[i] \in 1 .. Len(e) /\ e[g[i]] \in S
  BY <1>1
<1>3. \A i, j \in 1 .. Len(u) : u[i] \in S /\ u[j] \in S /\ g[i] = g[j] => i = j
  BY <1>1
<1> HIDE DEF g
<1>4. /\ None(e, S) => None(u, S)
      /\ Once(e, S) => Once(u, S)
      /\ Twice(e, S) => Twice(u, S)
  BY <1>2, <1>3, Embedded
<1> QED
  BY <1>4 DEF e

\* A member of S was the first message, which is read.
LEMMA ReadFirst ==
    ASSUME NEW u \in Seq(Messages), NEW m \in Messages, NEW S, m \in S
    PROVE  /\ Once(<<m>> \o u, S) => None(u, S)
           /\ Twice(<<m>> \o u, S) => Once(u, S)
<1> DEFINE e == <<m>> \o u
<1>1. <<m>> \in Seq(Messages) /\ Len(<<m>>) = 1 /\ <<m>>[1] = m
  OBVIOUS
<1>2. /\ Len(e) = 1 + Len(u) /\ Len(u) \in Nat
      /\ e[1] = m /\ \A i \in 1 .. Len(u) : e[1 + i] = u[i]
  BY <1>1, Concatenated
<1> HIDE DEF e
<1>3. \A i \in 1 .. Len(u) : 1 + i \in 1 .. Len(e) /\ 1 + i # 1
  BY <1>2
<1>4. 1 \in 1 .. Len(e) /\ \A i, j \in 1 .. Len(u) : 1 + i = 1 + j => i = j
  BY <1>2
<1>5. /\ Once(e, S) => None(u, S)
      /\ Twice(e, S) => Once(u, S)
  BY <1>2, <1>3, <1>4 DEF None, Once, Twice
<1> QED
  BY <1>5 DEF e

\* The messages at the end are lost.
LEMMA DropRest ==
    ASSUME NEW r \in Seq(Messages), NEW u \in Seq(Messages), NEW S
    PROVE  /\ None(r \o u, S) => None(r, S)
           /\ Once(r \o u, S) => Once(r, S)
           /\ Twice(r \o u, S) => Twice(r, S)
<1> DEFINE e == r \o u
<1>1. /\ Len(e) = Len(r) + Len(u) /\ Len(r) \in Nat /\ Len(u) \in Nat
      /\ \A i \in 1 .. Len(r) : e[i] = r[i]
  BY Concatenated
<1> HIDE DEF e
<1>2. \A i \in 1 .. Len(r) : i \in 1 .. Len(e) /\ e[i] = r[i]
  BY <1>1
<1>3. /\ None(e, S) => None(r, S)
      /\ Once(e, S) => Once(r, S)
      /\ Twice(e, S) => Twice(r, S)
  BY <1>2 DEF None, Once, Twice
<1> QED
  BY <1>3 DEF e

\* A message that is not in S is inserted.
LEMMA Inserted ==
    ASSUME NEW r \in Seq(Messages), NEW u \in Seq(Messages), NEW m \in Messages, NEW S,
           m \notin S
    PROVE  /\ None(r \o u, S) => None(Append(r, m) \o u, S)
           /\ Once(r \o u, S) => Once(Append(r, m) \o u, S)
           /\ Twice(r \o u, S) => Twice(Append(r, m) \o u, S)
<1> DEFINE a == Append(r, m)
           e == r \o u
           w == a \o u
           g == [i \in 1 .. Len(w) |-> IF i <= Len(r) THEN i ELSE i - 1]
<1>1. /\ a \in Seq(Messages) /\ Len(a) = Len(r) + 1
      /\ \A i \in 1 .. Len(r) : a[i] = r[i]
      /\ a[Len(r) + 1] = m
  BY AppendProperties
<1>2. /\ Len(e) = Len(r) + Len(u) /\ Len(r) \in Nat /\ Len(u) \in Nat
      /\ \A i \in 1 .. Len(r) : e[i] = r[i]
      /\ \A i \in 1 .. Len(u) : e[Len(r) + i] = u[i]
  BY Concatenated
<1> HIDE DEF a, e
<1>3. /\ Len(w) = Len(a) + Len(u)
      /\ \A i \in 1 .. Len(a) : w[i] = a[i]
      /\ \A i \in 1 .. Len(u) : w[Len(a) + i] = u[i]
  BY <1>1, Concatenated
<1> HIDE DEF w
<1>4. ASSUME NEW i \in 1 .. Len(w), w[i] \in S
      PROVE  i # Len(r) + 1 /\ g[i] \in 1 .. Len(e) /\ e[g[i]] = w[i]
  <2>1. CASE i <= Len(r)
    BY <1>1, <1>2, <1>3, <2>1
  <2>2. CASE i = Len(r) + 1
    <3>1. w[i] = m
      BY <1>1, <1>2, <1>3, <2>2
    <3> QED
      BY <1>4, <3>1
  <2>3. CASE i > Len(r) + 1
    <3> DEFINE j == i - (Len(r) + 1)
    <3>1. j \in 1 .. Len(u) /\ i = Len(a) + j /\ i - 1 = Len(r) + j
      BY <1>1, <1>2, <1>3, <2>3
    <3>2. w[i] = u[j] /\ e[i - 1] = u[j]
      BY <1>2, <1>3, <3>1
    <3> QED
      BY <1>1, <1>2, <1>3, <2>3, <3>2
  <2> QED
    BY <1>2, <1>3, <2>1, <2>2, <2>3
<1>5. ASSUME NEW i \in 1 .. Len(w), NEW j \in 1 .. Len(w), w[i] \in S, w[j] \in S, g[i] = g[j]
      PROVE  i = j
  <2>1. i # Len(r) + 1 /\ j # Len(r) + 1
    BY <1>4, <1>5
  <2> QED
    BY <1>2, <1>5, <2>1
<1> HIDE DEF g
<1>6. /\ None(e, S) => None(w, S)
      /\ Once(e, S) => Once(w, S)
      /\ Twice(e, S) => Twice(w, S)
  BY <1>4, <1>5, Embedded
<1> QED
  BY <1>6 DEF a, e, w

\* A message is replaced by one that is not in S.
LEMMA Replaced ==
    ASSUME NEW r \in Seq(Messages), NEW u \in Seq(Messages), NEW k \in Messages,
           NEW m \in Messages, NEW S, m \notin S
    PROVE  /\ None(Append(r, k) \o u, S) => None(Append(r, m) \o u, S)
           /\ Once(Append(r, k) \o u, S) => Once(Append(r, m) \o u, S)
           /\ Twice(Append(r, k) \o u, S) => Twice(Append(r, m) \o u, S)
<1> DEFINE a == Append(r, k)
           c == Append(r, m)
           e == a \o u
           w == c \o u
           g == [i \in 1 .. Len(w) |-> i]
<1>1. /\ a \in Seq(Messages) /\ Len(a) = Len(r) + 1 /\ c \in Seq(Messages) /\ Len(c) = Len(r) + 1
      /\ \A i \in 1 .. Len(r) : a[i] = r[i] /\ c[i] = r[i]
      /\ c[Len(r) + 1] = m /\ Len(r) \in Nat
  BY AppendProperties, LenProperties
<1> HIDE DEF a, c
<1>2. /\ Len(e) = Len(a) + Len(u) /\ Len(u) \in Nat
      /\ \A i \in 1 .. Len(a) : e[i] = a[i]
      /\ \A i \in 1 .. Len(u) : e[Len(a) + i] = u[i]
  BY <1>1, Concatenated
<1> HIDE DEF e
<1>3. /\ Len(w) = Len(c) + Len(u)
      /\ \A i \in 1 .. Len(c) : w[i] = c[i]
      /\ \A i \in 1 .. Len(u) : w[Len(c) + i] = u[i]
  BY <1>1, Concatenated
<1> HIDE DEF w
<1>4. ASSUME NEW i \in 1 .. Len(w), w[i] \in S PROVE i \in 1 .. Len(e) /\ e[i] = w[i]
  <2>1. CASE i <= Len(r)
    BY <1>1, <1>2, <1>3, <2>1
  <2>2. CASE i = Len(r) + 1
    BY <1>1, <1>2, <1>3, <1>4, <2>2
  <2>3. CASE i > Len(r) + 1
    <3> DEFINE j == i - (Len(r) + 1)
    <3>1. j \in 1 .. Len(u) /\ i = Len(a) + j /\ i = Len(c) + j
      BY <1>1, <1>2, <1>3, <2>3
    <3> HIDE DEF j
    <3> QED
      BY <1>1, <1>2, <1>3, <3>1
  <2> QED
    BY <1>1, <1>2, <1>3, <2>1, <2>2, <2>3
<1>5. \A i \in 1 .. Len(w) : w[i] \in S => g[i] \in 1 .. Len(e) /\ e[g[i]] \in S
  BY <1>4
<1>6. \A i, j \in 1 .. Len(w) : w[i] \in S /\ w[j] \in S /\ g[i] = g[j] => i = j
  OBVIOUS
<1> HIDE DEF g
<1>7. /\ None(e, S) => None(w, S)
      /\ Once(e, S) => Once(w, S)
      /\ Twice(e, S) => Twice(w, S)
  BY <1>5, <1>6, Embedded
<1> QED
  BY <1>7 DEF a, c, e, w

-----------------------------------------------------------------------------
(* The pairing *)

\* m_leaderCommMutex is held exactly by the thread that waits for an answer
Locked ==
    /\ \A t \in Threads : pc[t] = "wait" => mutex = t /\ query[t] \in Queries
    /\ mutex # NoThread => mutex \in Threads /\ pc[mutex] = "wait"

\* On a socket that is not connected nothing is on its way, and nothing is owed on
\* a number that is free
FreshWhenClosed ==
    \A s \in Socks :
        /\ wire[s] \in {"closed", "fresh"} => req[s] = <<>> /\ resp[s] = <<>>
        /\ wire[s] = "closed" => ~owed[s]

\* A query's number is not given twice, and the event loop's handler has what it
\* works with
Numbered ==
    /\ \A t \in Threads : query[t] <= asked
    /\ pc["main"] \in {"write", "read"} => query["main"] \in Queries
    /\ pc["main"] = "read" => fd \in Socks
    /\ pc["main"] = "execute" => fd \in Socks /\ todo > 0
    /\ mutex \notin {NoThread, "main"} => query[mutex] # query["main"]

\* The queries whose answers are waited for on m_leaderSocket
Held == IF mutex = NoThread THEN {} ELSE {query[mutex]}
Awaited == Held \cup (IF UnlockedWaits THEN {query["main"]} ELSE {})

\* How many threads have written a registration and not read the response
One(t) == IF pc[t] = "response" THEN 1 ELSE 0
Registrations == One("main") + One("rec")

\* What may be on its way when queries W are waited for and n registrations
Fits(o, W, n) ==
    /\ Twice(o, {Reg}) /\ (n < 2 => Once(o, {Reg})) /\ (n < 1 => None(o, {Reg}))
    /\ \A q \in Queries : Once(o, {q}) /\ (q \notin W => None(o, {q}))

OnItsWay(s) == resp[s] \o req[s]

Paired == sock # NoSock /\ ~owed[sock] => Fits(OnItsWay(sock), Awaited, Registrations)

Pairing == Locked /\ FreshWhenClosed /\ Numbered /\ Paired

PairInv == TypeOK /\ Pairing

LEMMA RegistrationsRange ==
    /\ One("main") \in {0, 1} /\ One("rec") \in {0, 1}
    /\ Registrations \in 0 .. 2
    /\ (~Registering) => Registrations = 0
BY DEF One, Registrations, Registering

LEMMA FitsEmpty == \A W, n : Fits(<<>>, W, n)
BY NothingOccurs DEF Fits

\* More may be on its way when more is waited for.
LEMMA FitsMore ==
    ASSUME NEW o \in Seq(Messages), NEW W, NEW V, W \subseteq V,
           NEW n \in 0 .. 2, NEW k \in 0 .. 2, n <= k, Fits(o, W, n)
    PROVE  Fits(o, V, k)
<1>1. (k < 2 => n < 2) /\ (k < 1 => n < 1)
  OBVIOUS
<1> QED
  BY <1>1 DEF Fits

LEMMA FitsQuery ==
    ASSUME NEW o \in Seq(Messages), NEW q \in Queries, NEW W, q \notin W,
           NEW n \in 0 .. 2, Fits(o, W, n)
    PROVE  Fits(o \o <<q>>, W \cup {q}, n)
<1>1. q \in Messages /\ q \notin {Reg}
  BY ConstantsAssumption DEF Messages, Requests, Answers, Asks, Queries, Reg
<1>2. Once(o \o <<q>>, {q})
  BY <1>1, AddLast DEF Fits
<1>3. ASSUME NEW p \in Queries, p # q
      PROVE  Once(o \o <<q>>, {p}) /\ (p \notin W \cup {q} => None(o \o <<q>>, {p}))
  BY <1>1, <1>3, AddLast DEF Fits
<1>4. /\ Twice(o \o <<q>>, {Reg}) /\ (n < 2 => Once(o \o <<q>>, {Reg}))
      /\ (n < 1 => None(o \o <<q>>, {Reg}))
  BY <1>1, AddLast DEF Fits
<1> QED
  BY <1>2, <1>3, <1>4 DEF Fits

LEMMA FitsRegistration ==
    ASSUME NEW o \in Seq(Messages), NEW W, NEW n \in 0 .. 1, Fits(o, W, n)
    PROVE  Fits(o \o <<Reg>>, W, n + 1)
<1>1. Reg \in Messages /\ \A q \in Queries : Reg \notin {q}
  BY ConstantsAssumption DEF Messages, Requests, Answers, Asks, Queries, Reg
<1>2. \A q \in Queries : /\ Once(o \o <<Reg>>, {q})
                         /\ q \notin W => None(o \o <<Reg>>, {q})
  BY <1>1, AddLast DEF Fits
<1>3. n < 2 /\ (n + 1 < 2 => n < 1) /\ ~(n + 1 < 1)
  OBVIOUS
<1>4. Twice(o \o <<Reg>>, {Reg}) /\ (n < 1 => Once(o \o <<Reg>>, {Reg}))
  BY <1>1, <1>3, AddLast DEF Fits
<1> QED
  BY <1>2, <1>3, <1>4 DEF Fits

\* What is neither a query nor a registration is written between others, takes
\* the place of one, or is written last.
LEMMA FitsOther ==
    ASSUME NEW r \in Seq(Messages), NEW u \in Seq(Messages), NEW m \in Messages \ Asks,
           NEW W, NEW n
    PROVE  /\ Fits(r \o u, W, n) => Fits(Append(r, m) \o u, W, n)
           /\ \A k \in Messages : Fits(Append(r, k) \o u, W, n) => Fits(Append(r, m) \o u, W, n)
<1>1. m \notin {Reg} /\ \A q \in Queries : m \notin {q}
  BY DEF Asks
<1> QED
  BY <1>1, Inserted, Replaced DEF Fits

LEMMA FitsLast ==
    ASSUME NEW o \in Seq(Messages), NEW m \in Messages \ Asks, NEW W, NEW n, Fits(o, W, n)
    PROVE  Fits(o \o <<m>>, W, n)
<1>1. m \notin {Reg} /\ \A q \in Queries : m \notin {q}
  BY DEF Asks
<1> QED
  BY <1>1, AddLast DEF Fits

\* An answer that was waited for is read.
LEMMA FitsAnswered ==
    ASSUME NEW u \in Seq(Messages), NEW q \in Queries, NEW W, NEW n \in 0 .. 2,
           Fits(<<q>> \o u, W, n)
    PROVE  Fits(u, W \ {q}, n)
<1>1. q \in Messages /\ <<q>> \in Seq(Messages)
  BY DEF Messages, Requests, Asks
<1>2. None(u, {q})
  BY <1>1, ReadFirst DEF Fits
<1>3. \A p \in Queries : Once(u, {p}) /\ (p \notin W => None(u, {p}))
  BY <1>1, DropBefore DEF Fits
<1>4. /\ Twice(u, {Reg}) /\ (n < 2 => Once(u, {Reg})) /\ (n < 1 => None(u, {Reg}))
  BY <1>1, DropBefore DEF Fits
<1> QED
  BY <1>2, <1>3, <1>4 DEF Fits

\* The response to a registration is read.
LEMMA FitsRegistered ==
    ASSUME NEW u \in Seq(Messages), NEW W, NEW n \in 1 .. 2, Fits(<<Reg>> \o u, W, n)
    PROVE  Fits(u, W, n - 1)
<1>1. Reg \in Messages /\ <<Reg>> \in Seq(Messages)
  BY DEF Messages, Requests, Asks
<1>2. \A p \in Queries : Once(u, {p}) /\ (p \notin W => None(u, {p}))
  BY <1>1, DropBefore DEF Fits
<1>3. Twice(u, {Reg}) /\ Once(u, {Reg}) /\ (n < 2 => None(u, {Reg}))
  BY <1>1, DropBefore, ReadFirst DEF Fits
<1>4. n - 1 < 1 => n < 2
  OBVIOUS
<1> QED
  BY <1>2, <1>3, <1>4 DEF Fits

LEMMA FitsCut ==
    ASSUME NEW r \in Seq(Messages), NEW u \in Seq(Messages), NEW W, NEW n, Fits(r \o u, W, n)
    PROVE  Fits(r, W, n) /\ Fits(u, W, n)
BY DropRest, DropBefore DEF Fits

-----------------------------------------------------------------------------
(* One step keeps the types *)

LEMMA StepType == PairInv /\ [Next]_vars => TypeOK'
<1> SUFFICES ASSUME PairInv, [Next]_vars PROVE TypeOK'
  OBVIOUS
<1>0. /\ TypeOK /\ "main" \in Threads /\ "rec" \in Threads
      /\ \A q \in Queries : q # Reg
  BY ConstantsAssumption DEF PairInv, Threads, Queries, Reg
<1>1. /\ \A t \in Threads : pc[t] = "wait" => query[t] # Reg
      /\ pc["main"] \in {"write", "read"} => query["main"] # Reg
      /\ pc["main"] = "read" => fd \in Socks
      /\ pc["main"] = "execute" => fd \in Socks /\ todo > 0
  BY <1>0 DEF PairInv, Pairing, Locked, Numbered
<1>2. CASE UNCHANGED vars
  BY <1>0, <1>2 DEF vars, TypeOK, linkVars, wireVars, execVars, budget
<1>3. CASE RecStep \/ MainStep \/ AdminConnect \/ UnlockedForward
  BY <1>0, <1>1, <1>3, ConnectStepType, LoopType, UnlockedType, CommandType DEF RecStep, MainStep
<1>4. ASSUME NEW t \in Threads \ {"rec"}, ForwardSend(t) \/ ForwardReturn(t)
      PROVE  TypeOK'
  BY <1>0, <1>1, <1>4, ForwardType
<1>5. CASE \E s \in Socks : ExecutedAgain(s)
  BY <1>0, <1>1, <1>5, CommandType
<1>6. CASE \/ \E s \in Socks : LeaderAnswers(s) \/ LeaderCommands(s) \/ LeaderTakes(s)
           \/ Outage \/ Recover
  BY <1>0, <1>6, LeaderType
<1> QED
  BY <1>2, <1>3, <1>4, <1>5, <1>6 DEF Next

-----------------------------------------------------------------------------
(* The invariant of the pairing is kept *)

\* Where a thread neither waits nor works with what it has read.
Quiet == PcValues \ {"wait", "response", "write", "read", "execute"}

\* A thread that neither begins nor ends to wait, for an answer or for the
\* response to a registration, changes nothing of what is waited for.
LEMMA QuietGoto ==
    ASSUME TypeOK, Locked, Numbered, NEW t \in Threads, NEW l \in Quiet, pc[t] \in Quiet,
           Goto(t, l), UNCHANGED <<mutex, query, fd, todo>>, asked' \in Nat, asked <= asked'
    PROVE  /\ Locked' /\ Numbered' /\ Registrations' = Registrations
           /\ sock' = sock => Awaited' = Awaited
<1>1. pc' = [pc EXCEPT ![t] = l] /\ pc \in [Threads -> PcValues]
  BY DEF Goto, TypeOK, PcValues
<1>2. \A u \in Threads : \A k \in {"wait", "response", "write", "read", "execute"} :
          pc'[u] = k <=> pc[u] = k
  BY <1>1 DEF Quiet
<1>3. "main" \in Threads /\ "rec" \in Threads
  BY DEF Threads
<1>4. Locked'
  BY <1>2 DEF Locked
<1>5. ASSUME NEW u \in Threads PROVE query[u] <= asked'
  <2>1. query[u] \in Asks /\ query[u] <= asked /\ asked \in Nat
    BY DEF Numbered, TypeOK
  <2>2. query[u] \in Nat
    BY <2>1, ConstantsAssumption DEF Asks, Queries, Reg
  <2> QED
    BY <2>1, <2>2
<1>6. Numbered'
  BY <1>2, <1>3, <1>5 DEF Numbered
<1>7. Registrations' = Registrations
  BY <1>2, <1>3 DEF Registrations, One
<1> QED
  BY <1>2, <1>3, <1>4, <1>6, <1>7 DEF Awaited, Held, UnlockedWaits

\* No thread moves.
LEMMA ThreadsStay ==
    ASSUME Locked, Numbered, UNCHANGED <<pc, mutex, query, sock, fd, todo, asked>>
    PROVE  Locked' /\ Numbered' /\ Registrations' = Registrations /\ Awaited' = Awaited
BY DEF Locked, Numbered, Registrations, One, Awaited, Held, UnlockedWaits

\* The client of a command that uses the socket without the mutex has its answer.
LEMMA AnsweredGoto ==
    ASSUME TypeOK, Locked, Numbered, NEW l \in Quiet, pc["main"] \in Quiet \cup {"write", "read"},
           Goto("main", l), Answered("main"), UNCHANGED <<mutex, asked>>
    PROVE  /\ Locked' /\ Numbered' /\ Registrations' = Registrations
           /\ Awaited' = Held
           /\ pc["main"] # "read" => Awaited = Held
<1>1. /\ pc' = [pc EXCEPT !["main"] = l] /\ pc \in [Threads -> PcValues]
      /\ query' = [query EXCEPT !["main"] = Reg] /\ query \in [Threads -> Asks]
      /\ "main" \in Threads /\ "rec" \in Threads
  BY DEF Goto, TypeOK, PcValues, Answered, Threads
<1>2. /\ pc["main"] \notin {"wait", "response", "execute"}
      /\ pc'["main"] \notin {"wait", "response", "write", "read", "execute"}
      /\ query'["main"] = Reg
      /\ \A u \in Threads \ {"main"} : pc'[u] = pc[u] /\ query'[u] = query[u]
  BY <1>1 DEF Quiet
<1>3. mutex # "main"
  BY <1>2 DEF Locked, NoThread
<1>4. Locked'
  BY <1>2, <1>3 DEF Locked
<1>5. Numbered'
  <2>1. ASSUME NEW u \in Threads PROVE query'[u] <= asked
    <3>1. asked \in Nat /\ 0 <= asked
      BY DEF TypeOK
    <3> QED
      BY <1>2, <3>1 DEF Numbered, Reg
  <2>2. mutex # NoThread => query'[mutex] # Reg
    BY <1>2, <1>3, ConstantsAssumption DEF Locked, Queries, Reg
  <2> QED
    BY <1>2, <2>1, <2>2 DEF Numbered
<1>6. Registrations' = Registrations
  BY <1>1, <1>2 DEF Registrations, One
<1>7. Held' = Held
  BY <1>2, <1>3 DEF Held, Locked
<1> QED
  BY <1>2, <1>4, <1>5, <1>6, <1>7 DEF Awaited, UnlockedWaits

\* A thread that could not connect goes on.
LEMMA ReturnFailedGoto ==
    ASSUME TypeOK, Locked, Numbered, NEW t \in {"main", "rec"}, pc[t] \in Quiet,
           ReturnFailed(t), UNCHANGED <<mutex, fd, todo, asked>>
    PROVE  /\ Locked' /\ Numbered' /\ Registrations' = Registrations
           /\ sock' = sock => Awaited' = Awaited
<1>1. PICK l \in {"sleep", "idle"} : Goto(t, l)
  BY DEF ReturnFailed
<1>2. l \in Quiet /\ t \in Threads /\ asked \in Nat /\ asked <= asked
  BY DEF Quiet, PcValues, Threads, TypeOK
<1>3. CASE Forwarding(t)
  BY <1>1, <1>2, <1>3, AnsweredGoto DEF ReturnFailed, Forwarding, Quiet
<1>4. CASE ~Forwarding(t)
  BY <1>1, <1>2, <1>4, QuietGoto DEF ReturnFailed
<1> QED
  BY <1>3, <1>4

\* Closing a number leaves nothing on its way there.
LEMMA CloseFresh ==
    ASSUME TypeOK, FreshWhenClosed, NEW s \in Socks, CloseNumber(s)
    PROVE  /\ FreshWhenClosed'
           /\ req'[s] = <<>> /\ resp'[s] = <<>>
           /\ \A z \in Socks \ {s} : req'[z] = req[z] /\ resp'[z] = resp[z] /\ owed'[z] = owed[z]
BY DEF FreshWhenClosed, CloseNumber, TypeOK

\* Closing the socket leaves nothing to pair.
LEMMA ClosePaired ==
    ASSUME TypeOK, FreshWhenClosed, CloseLeaderSocket, sock # NoSock
    PROVE  FreshWhenClosed' /\ Paired'
<1>1. sock' = NoSock /\ sock \in Socks
  BY DEF CloseLeaderSocket, TypeOK
<1>2. FreshWhenClosed'
  BY <1>1, CloseFresh DEF CloseLeaderSocket
<1> QED
  BY <1>1, <1>2 DEF Paired

\* A step that leaves the sockets and what is waited for alone.
LEMMA KeptPaired ==
    ASSUME FreshWhenClosed, Paired, UNCHANGED <<sock, wire, req, resp, owed>>,
           Awaited' = Awaited, Registrations' = Registrations
    PROVE  FreshWhenClosed' /\ Paired'
BY DEF FreshWhenClosed, Paired, OnItsWay

LEMMA DisconnectPaired ==
    ASSUME TypeOK, FreshWhenClosed, Paired, DisconnectFromLeader,
           sock' = sock => Awaited' = Awaited, Registrations' = Registrations
    PROVE  FreshWhenClosed' /\ Paired'
BY ClosePaired, KeptPaired DEF DisconnectFromLeader, KeepLeaderSocket, wireVars

\* What is on its way on a socket is a sequence of messages.
LEMMA OnItsWayType ==
    ASSUME TypeOK, NEW s \in Socks
    PROVE  OnItsWay(s) \in Seq(Messages) /\ resp[s] \in Seq(Messages) /\ req[s] \in Seq(Messages)
<1>1. resp[s] \in Seq(Messages) /\ req[s] \in Seq(Messages)
  BY DEF TypeOK, Messages
<1> QED
  BY <1>1, Concatenated DEF OnItsWay

\* The parts of the invariant, and a few facts that every step uses.
LEMMA PairParts ==
    ASSUME PairInv
    PROVE  /\ TypeOK /\ Locked /\ FreshWhenClosed /\ Numbered /\ Paired
           /\ "main" \in Threads /\ "rec" \in Threads /\ NoThread \notin Threads
           /\ asked \in Nat /\ asked <= asked
           /\ <<>> \o <<>> = <<>>
BY ConcatEmptySeq, ConstantsAssumption DEF PairInv, Pairing, Threads, NoThread, TypeOK

\* A new socket starts with nothing on its way.
LEMMA SocketPaired ==
    ASSUME PairInv, NEW t \in {"main", "rec"}, ConnectSocket(t)
    PROVE  Pairing'
<1> USE PairParts
<1>1. pc[t] \in Quiet /\ t \in Threads
  BY DEF ConnectSocket, Quiet, PcValues
<1>2. CASE ClosedSocks # {}
  <2> DEFINE s == Min(ClosedSocks)
  <2>1. s \in Socks /\ wire[s] = "closed"
    BY <1>2, ClosedNumber
  <2>2. /\ sock' = s /\ wire' = [wire EXCEPT ![s] = "fresh"]
        /\ UNCHANGED <<mutex, query, fd, todo, asked, req, resp, owed>> /\ Goto(t, "connect")
    BY <1>2 DEF ConnectSocket, execVars, budget
  <2> HIDE DEF s
  <2>3. Locked' /\ Numbered'
    BY <1>1, <2>2, QuietGoto DEF Quiet, PcValues
  <2>4. FreshWhenClosed'
    BY <2>1, <2>2 DEF FreshWhenClosed, TypeOK
  <2>5. req[s] = <<>> /\ resp[s] = <<>>
    BY <2>1 DEF FreshWhenClosed
  <2>6. Paired'
    BY <2>2, <2>5, FitsEmpty DEF Paired, OnItsWay
  <2> QED
    BY <2>3, <2>4, <2>6 DEF Pairing
<1>3. CASE ClosedSocks = {}
  <2>1. /\ sock' = NoSock /\ ReturnFailed(t)
        /\ UNCHANGED <<mutex, fd, todo, asked, wire, req, resp, owed>>
    BY <1>3 DEF ConnectSocket, execVars, budget
  <2>2. Locked' /\ Numbered'
    BY <1>1, <2>1, ReturnFailedGoto
  <2> QED
    BY <2>1, <2>2 DEF Pairing, FreshWhenClosed, Paired
<1> QED
  BY <1>2, <1>3

\* connect() on the socket.
LEMMA CallPaired ==
    ASSUME PairInv, NEW t \in {"main", "rec"}, ConnectCall(t)
    PROVE  Pairing'
<1> USE PairParts
<1>1. /\ pc[t] \in Quiet /\ t \in Threads
      /\ UNCHANGED <<mutex, fd, todo, asked>>
  BY DEF ConnectCall, Quiet, PcValues, execVars, budget
<1>2. CASE sock # NoSock /\ wire[sock] = "fresh" /\ reach
  <2>1. /\ wire' = [wire EXCEPT ![sock] = "up"] /\ UNCHANGED <<sock, query, req, resp, owed>>
        /\ sock \in Socks /\ Goto(t, "flag")
    BY <1>2 DEF ConnectCall, TypeOK
  <2>2. Locked' /\ Numbered' /\ Registrations' = Registrations /\ Awaited' = Awaited
    BY <1>1, <2>1, QuietGoto DEF Quiet, PcValues
  <2>3. FreshWhenClosed'
    BY <2>1 DEF FreshWhenClosed, TypeOK
  <2> QED
    BY <2>1, <2>2, <2>3 DEF Pairing, Paired, OnItsWay
<1>3. CASE ~(sock # NoSock /\ wire[sock] = "fresh" /\ reach)
  <2>1. /\ Locked' /\ Numbered' /\ Registrations' = Registrations
        /\ sock' = sock => Awaited' = Awaited
    BY <1>1, <1>3, ReturnFailedGoto DEF ConnectCall
  <2>2. FreshWhenClosed' /\ Paired'
    BY <1>3, <2>1, ClosePaired, KeptPaired DEF ConnectCall, KeepLeaderSocket, wireVars
  <2> QED
    BY <2>1, <2>2 DEF Pairing
<1> QED
  BY <1>2, <1>3

\* Steps of the loops and of connectToLeader that close the socket or leave
\* what is on its way alone.
LEMMA QuietPaired ==
    ASSUME PairInv, TypeOK', NEW t \in {"main", "rec"},
           \/ ConnectFlag(t)
           \/ RecConnect \/ AdminConnect \/ RecConnected \/ SelectLeader \/ LostConnection
    PROVE  Pairing'
<1> USE PairParts
<1>1. t \in Threads /\ UNCHANGED <<mutex, query, fd, todo, asked>>
  BY DEF ConnectFlag, RecConnect, AdminConnect, RecConnected, SelectLeader, LostConnection,
         execVars, budget
<1>2. /\ Locked' /\ Numbered' /\ Registrations' = Registrations
      /\ sock' = sock => Awaited' = Awaited
  <2>1. CASE ConnectFlag(t)
    BY <1>1, <2>1, QuietGoto DEF ConnectFlag, Quiet, PcValues
  <2>2. CASE RecConnect \/ AdminConnect
    BY <1>1, <2>2, QuietGoto DEF RecConnect, AdminConnect, ConnectClose, Quiet, PcValues
  <2>3. CASE RecConnected \/ SelectLeader \/ LostConnection
    BY <1>1, <2>3, QuietGoto DEF RecConnected, SelectLeader, LostConnection, Quiet, PcValues
  <2> QED
    BY <2>1, <2>2, <2>3
<1>3. FreshWhenClosed' /\ Paired'
  <2>1. CASE ConnectFlag(t)
    BY <1>2, <2>1, KeptPaired DEF ConnectFlag, wireVars
  <2>2. CASE RecConnect \/ AdminConnect
    BY <1>2, <2>2, ClosePaired, KeptPaired
       DEF RecConnect, AdminConnect, ConnectClose, KeepLeaderSocket, wireVars
  <2>3. CASE RecConnected \/ SelectLeader
    BY <1>2, <2>3, KeptPaired DEF RecConnected, SelectLeader, linkVars, wireVars
  <2>4. CASE LostConnection
    BY <1>2, <2>4, DisconnectPaired DEF LostConnection
  <2> QED
    BY <2>1, <2>2, <2>3, <2>4
<1> QED
  BY <1>2, <1>3 DEF Pairing

LEMMA WrittenLast ==
    ASSUME NEW r \in Seq(Messages), NEW u \in Seq(Messages), NEW m \in Messages
    PROVE  r \o (u \o <<m>>) = (r \o u) \o <<m>>
<1>1. <<m>> \in Seq(Messages)
  OBVIOUS
<1>2. \A a, b, c \in Seq(Messages) : (a \o b) \o c = a \o (b \o c)
  BY ConcatAssociative
<1> QED
  BY <1>1, <1>2

LEMMA Between ==
    ASSUME NEW r \in Seq(Messages), NEW m \in Messages, NEW u \in Seq(Messages)
    PROVE  (r \o <<m>>) \o u = r \o (<<m>> \o u)
<1>1. <<m>> \in Seq(Messages)
  OBVIOUS
<1>2. \A a, b, c \in Seq(Messages) : (a \o b) \o c = a \o (b \o c)
  BY ConcatAssociative
<1> QED
  BY <1>1, <1>2

\* What a write of one message puts on its way.
LEMMA WriteOnItsWay ==
    ASSUME TypeOK, FreshWhenClosed, sock # NoSock, NEW m \in Requests, WriteToLeader(<<m>>)
    PROVE  /\ FreshWhenClosed'
           /\ sock \in Socks /\ sock' = sock /\ owed' = owed
           /\ \/ OnItsWay(sock)' = OnItsWay(sock) \o <<m>>
              \/ OnItsWay(sock)' = OnItsWay(sock)
<1>1. sock \in Socks /\ sock' = sock /\ owed' = owed /\ wire' = wire /\ resp' = resp
  BY DEF TypeOK, WriteToLeader, linkVars, wireVars
<1>2. CASE wire[sock] = "up" /\ req' = [req EXCEPT ![sock] = @ \o <<m>>]
  <2>1. req'[sock] = req[sock] \o <<m>>
    BY <1>1, <1>2 DEF TypeOK
  <2>2. FreshWhenClosed'
    BY <1>1, <1>2 DEF FreshWhenClosed, TypeOK
  <2>3. resp[sock] \o (req[sock] \o <<m>>) = (resp[sock] \o req[sock]) \o <<m>>
    <3>1. resp[sock] \in Seq(Messages) /\ req[sock] \in Seq(Messages) /\ m \in Messages
      BY <1>1, OnItsWayType DEF Messages
    <3> QED
      BY <3>1, WrittenLast
  <2> QED
    BY <1>1, <2>1, <2>2, <2>3 DEF OnItsWay
<1>3. CASE req' = req
  BY <1>1, <1>3 DEF FreshWhenClosed, OnItsWay
<1> QED
  BY <1>2, <1>3 DEF WriteToLeader, wireVars

\* What may be on its way on m_leaderSocket now.
LEMMA FitsNow ==
    ASSUME PairInv, sock # NoSock, ~owed[sock]
    PROVE  /\ sock \in Socks /\ OnItsWay(sock) \in Seq(Messages)
           /\ Fits(OnItsWay(sock), Awaited, Registrations)
           /\ Registrations \in 0 .. 2 /\ Registrations <= Registrations
<1>1. sock \in Socks
  BY PairParts DEF TypeOK
<1> QED
  BY <1>1, PairParts, OnItsWayType, RegistrationsRange DEF Paired

\* A registration is written, or the write fails: the thread then waits for the
\* response in both cases.
LEMMA RegisterPaired ==
    ASSUME PairInv, NEW t \in {"main", "rec"}, ConnectRegister(t)
    PROVE  Pairing'
<1> USE PairParts
<1>1. /\ pc' = [pc EXCEPT ![t] = "response"] /\ pc[t] = "register" /\ t \in Threads
      /\ UNCHANGED <<mutex, query, fd, todo, asked>>
  BY DEF ConnectRegister, Goto, execVars, budget
<1>2. \A u \in Threads : \A k \in {"wait", "write", "read", "execute"} :
          pc'[u] = k <=> pc[u] = k
  BY <1>1 DEF TypeOK
<1>3. /\ Locked' /\ Numbered'
      /\ sock' = sock => Awaited' = Awaited
  BY <1>1, <1>2 DEF Locked, Numbered, Awaited, Held, UnlockedWaits
<1>4. Registrations \in 0 .. 1 /\ Registrations' = Registrations + 1
  <2>1. /\ \A u \in {"main", "rec"} \ {t} : One(u)' = One(u)
        /\ One(t) = 0 /\ One(t)' = 1
    BY <1>1 DEF One, TypeOK
  <2> QED
    BY <2>1, RegistrationsRange DEF Registrations
<1>5. Registrations + 1 \in 0 .. 2 /\ Registrations <= Registrations + 1
  BY <1>4
<1>6. ASSUME sock # NoSock, ~owed[sock]
      PROVE  /\ Fits(OnItsWay(sock), Awaited, Registrations + 1)
             /\ Fits(OnItsWay(sock) \o <<Reg>>, Awaited, Registrations + 1)
  BY <1>4, <1>5, <1>6, FitsNow, FitsMore, FitsRegistration
<1>7. FreshWhenClosed' /\ Paired'
  <2>1. CASE CanSend /\ WriteToLeader(<<Reg>>)
    <3>1. /\ FreshWhenClosed' /\ sock \in Socks /\ sock' = sock /\ owed' = owed
          /\ \/ OnItsWay(sock)' = OnItsWay(sock) \o <<Reg>>
             \/ OnItsWay(sock)' = OnItsWay(sock)
      BY <2>1, MessageSeqs, WriteOnItsWay DEF CanSend
    <3> QED
      BY <1>3, <1>4, <1>6, <2>1, <3>1 DEF Paired, OnItsWay, CanSend
  <2>2. CASE UNCHANGED <<linkVars, wireVars, owed>>
    <3>1. FreshWhenClosed' /\ sock' = sock /\ owed' = owed
          /\ resp' = resp /\ req' = req
      BY <2>2 DEF FreshWhenClosed, linkVars, wireVars
    <3> QED
      BY <1>3, <1>4, <1>6, <3>1 DEF Paired, OnItsWay
  <2>3. CASE WriteFails /\ CanSend
    BY <2>3, ClosePaired DEF WriteFails, CanSend, DisconnectFromLeader
  <2> QED
    BY <2>1, <2>2, <2>3 DEF ConnectRegister, SendToLeader
<1> QED
  BY <1>3, <1>7 DEF Pairing

\* A read empties a socket, and marks it when it should.
LEMMA ReadFresh ==
    ASSUME TypeOK, FreshWhenClosed, NEW s \in Socks, UNCHANGED <<wire, req>>,
           \/ resp' = resp
           \/ resp' = [resp EXCEPT ![s] = <<>>],
           NEW b \in BOOLEAN, owed' = [owed EXCEPT ![s] = b], wire[s] = "closed" => ~b
    PROVE  FreshWhenClosed' /\ owed'[s] = b
<1>1. \A z \in Socks : z # s => resp'[z] = resp[z] /\ owed'[z] = owed[z]
  BY DEF TypeOK
<1>2. owed'[s] = b /\ resp'[s] \in {resp[s], <<>>}
  BY DEF TypeOK
<1> QED
  BY <1>1, <1>2 DEF FreshWhenClosed

\* What is left on its way when all the answers there are have been read.
LEMMA LeftOnItsWay ==
    ASSUME TypeOK, NEW s \in Socks, resp' = [resp EXCEPT ![s] = <<>>], req' = req
    PROVE  OnItsWay(s)' = req[s] /\ req[s] \in Seq(Messages)
<1>1. req[s] \in Seq(Messages) /\ resp'[s] = <<>>
  BY OnItsWayType DEF TypeOK
<1>2. <<>> \o req[s] = req[s]
  BY <1>1, ConcatEmptySeq
<1> QED
  BY <1>1, <1>2 DEF OnItsWay

\* The response to a registration is read, or something else is and the socket
\* is marked as one with a reader that gave up.
LEMMA ResponsePaired ==
    ASSUME PairInv, NEW t \in {"main", "rec"}, ConnectResponse(t)
    PROVE  Pairing'
<1> USE PairParts
<1>1. PICK l \in {"sleep", "idle", "write"} :
          pc' = [pc EXCEPT ![t] = l] /\ (l = "write" => Forwarding(t))
  BY DEF ConnectResponse, Return, Goto
<1>2. /\ pc[t] = "response" /\ t \in Threads
      /\ UNCHANGED <<mutex, query, sock, wire, req, fd, todo, asked>>
  BY DEF ConnectResponse, linkVars, execVars, budget
<1>3. /\ \A u \in Threads : \A k \in {"wait", "read", "execute"} : pc'[u] = k <=> pc[u] = k
      /\ pc'["main"] = "write" => pc["main"] = "write" \/ Forwarding("main")
  BY <1>1, <1>2 DEF TypeOK, Forwarding
<1>4. Forwarding("main") => query["main"] \in Queries
  BY DEF Forwarding, TypeOK, Asks
<1>5. Locked' /\ Numbered' /\ Awaited' = Awaited
  BY <1>2, <1>3, <1>4 DEF Locked, Numbered, Awaited, Held, UnlockedWaits
<1>6. Registrations \in 1 .. 2 /\ Registrations' = Registrations - 1
  <2>1. /\ \A u \in {"main", "rec"} \ {t} : One(u)' = One(u)
        /\ One(t) = 1 /\ One(t)' = 0
    BY <1>1, <1>2 DEF One, TypeOK
  <2> QED
    BY <2>1, RegistrationsRange DEF Registrations
<1>7. CASE ~IsOpen
  <2>1. resp' = resp /\ owed' = owed
    BY <1>7 DEF ConnectResponse
  <2>2. FreshWhenClosed'
    BY <1>2, <2>1 DEF FreshWhenClosed
  <2>3. sock # NoSock => sock \in Socks /\ OnItsWay(sock)' = <<>>
    BY <1>2, <1>7, <2>1 DEF IsOpen, FreshWhenClosed, OnItsWay, TypeOK
  <2> QED
    BY <1>2, <1>5, <2>2, <2>3, FitsEmpty DEF Pairing, Paired, OnItsWay
<1>8. CASE IsOpen
  <2> DEFINE b == owed[sock] \/ resp[sock] # <<Reg>>
  <2>1. /\ sock \in Socks /\ sock # NoSock /\ wire[sock] # "closed"
        /\ resp' = [resp EXCEPT ![sock] = <<>>]
        /\ b \in BOOLEAN /\ owed' = [owed EXCEPT ![sock] = b]
    BY <1>8 DEF ConnectResponse, IsOpen, TypeOK
  <2>2. FreshWhenClosed' /\ owed'[sock] = b
    <3> HIDE DEF b
    <3> QED
      BY <1>2, <2>1, ReadFresh
  <2>3. ASSUME ~b PROVE Fits(OnItsWay(sock)', Awaited', Registrations')
    <3>1. ~owed[sock] /\ resp[sock] = <<Reg>>
      BY <2>3
    <3>2. Fits(<<Reg>> \o req[sock], Awaited, Registrations)
      BY <2>1, <3>1, FitsNow DEF OnItsWay
    <3>3. OnItsWay(sock)' = req[sock] /\ req[sock] \in Seq(Messages)
      BY <1>2, <2>1, LeftOnItsWay
    <3>4. Fits(req[sock], Awaited, Registrations - 1)
      BY <1>6, <3>2, <3>3, FitsRegistered
    <3> QED
      BY <1>5, <1>6, <3>3, <3>4
  <2> QED
    BY <1>2, <1>5, <2>2, <2>3 DEF Pairing, Paired, OnItsWay
<1> QED
  BY <1>7, <1>8

\* The heartbeat adds nothing the leader answers.
LEMMA HeartbeatPaired ==
    ASSUME PairInv, RecHeartbeat
    PROVE  Pairing'
<1> USE PairParts
<1>1. /\ Locked' /\ Numbered' /\ Registrations' = Registrations
      /\ sock' = sock => Awaited' = Awaited
  <2>1. UNCHANGED <<mutex, query, fd, todo, asked>>
    BY DEF RecHeartbeat, execVars, budget
  <2> QED
    BY <2>1, QuietGoto DEF RecHeartbeat, Quiet, PcValues
<1>2. CASE CanSend /\ WriteToLeader(<<>>)
  <2>1. sock \in Socks /\ sock' = sock /\ owed' = owed /\ wire' = wire /\ resp' = resp
    BY <1>2 DEF CanSend, TypeOK, WriteToLeader, linkVars, wireVars
  <2>2. req[sock] \o <<>> = req[sock] /\ req \in [Socks -> Seq(Requests)]
    BY <2>1, OnItsWayType, ConcatEmptySeq DEF TypeOK
  <2>3. req' = req
    BY <1>2, <2>1, <2>2 DEF WriteToLeader, wireVars
  <2> QED
    BY <1>1, <2>1, <2>3, KeptPaired DEF Pairing
<1>3. CASE UNCHANGED <<linkVars, wireVars, owed>>
  BY <1>1, <1>3, KeptPaired DEF Pairing, linkVars, wireVars
<1>4. CASE CanSend /\ WriteFails
  BY <1>1, <1>4, DisconnectPaired DEF Pairing, WriteFails
<1> QED
  BY <1>2, <1>3, <1>4 DEF RecHeartbeat, SendToLeader

\* A command is forwarded under the mutex only when nobody else waits there; a
\* command of the event loop may wait without it.
LEMMA ForwardSendPaired ==
    ASSUME PairInv, NEW t \in Threads \ {"rec"}, ForwardSend(t)
    PROVE  Pairing'
<1> USE PairParts
<1> DEFINE q == asked + 1
           U == IF UnlockedWaits THEN {query["main"]} ELSE {}
<1>1. /\ q \in Queries /\ q \in Asks /\ q \in Requests
  BY NextQuery, MessageSeqs DEF ForwardSend
<1>2. /\ pc[t] = "idle" /\ mutex = NoThread /\ asked' = q /\ Awaited = U
      /\ UNCHANGED <<fd, todo>>
  BY DEF ForwardSend, MutexFree, Awaited, Held, execVars
<1>3. \A u \in Threads : query[u] \in Nat /\ query[u] <= asked
  BY ConstantsAssumption DEF Numbered, TypeOK, Asks, Queries, Reg
<1>4. \A u \in Threads : query[u] <= asked + 1 /\ query[u] # asked + 1
  BY <1>3
<1>5. CASE UNCHANGED <<mutex, pc, query>>
  <2>1. Locked' /\ Registrations' = Registrations
    BY <1>5 DEF Locked, Registrations, One
  <2>2. Numbered'
    BY <1>2, <1>4, <1>5 DEF Numbered
  <2>3. sock' = sock => Awaited' = Awaited
    BY <1>2, <1>5 DEF Awaited, Held, UnlockedWaits
  <2>4. \/ UNCHANGED <<linkVars, wireVars, owed>>
        \/ WriteFails
    BY <1>2, <1>5 DEF ForwardSend
  <2> QED
    BY <2>1, <2>2, <2>3, <2>4, KeptPaired, DisconnectPaired
       DEF Pairing, WriteFails, linkVars, wireVars
<1>6. CASE /\ CanSend /\ WriteToLeader(<<q>>)
           /\ mutex' = t /\ query' = [query EXCEPT ![t] = q] /\ Goto(t, "wait")
  <2>1. /\ pc' = [pc EXCEPT ![t] = "wait"] /\ query'[t] = q
        /\ \A u \in Threads \ {t} : pc'[u] = pc[u] /\ query'[u] = query[u]
        /\ pc'[t] = "wait" /\ sock # NoSock
    BY <1>6 DEF Goto, TypeOK, CanSend
  <2>2. \A u \in Threads : pc[u] # "wait"
    BY <1>2 DEF Locked
  <2>3. Locked'
    BY <1>1, <1>6, <2>1, <2>2 DEF Locked
  <2>4. Numbered'
    BY <1>2, <1>4, <1>6, <2>1 DEF Numbered
  <2>5. Registrations' = Registrations
    BY <1>2, <2>1 DEF Registrations, One
  <2>6. /\ FreshWhenClosed' /\ sock \in Socks /\ sock' = sock /\ owed' = owed
        /\ \/ OnItsWay(sock)' = OnItsWay(sock) \o <<q>>
           \/ OnItsWay(sock)' = OnItsWay(sock)
    BY <1>1, <1>6, <2>1, WriteOnItsWay
  <2>7. Awaited' = U \cup {q}
    BY <1>2, <1>6, <2>1, <2>6 DEF Awaited, Held, UnlockedWaits
  <2>8. q \notin U
    BY <1>4
  <2>9. ASSUME ~owed[sock] PROVE Fits(OnItsWay(sock)', U \cup {q}, Registrations)
    <3>1. /\ Fits(OnItsWay(sock), U, Registrations) /\ OnItsWay(sock) \in Seq(Messages)
          /\ Registrations \in 0 .. 2 /\ Registrations <= Registrations
      BY <1>2, <2>1, <2>9, FitsNow
    <3>2. Fits(OnItsWay(sock), U \cup {q}, Registrations)
      <4> HIDE DEF q, U
      <4> QED
        BY <3>1, FitsMore
    <3>3. Fits(OnItsWay(sock) \o <<q>>, U \cup {q}, Registrations)
      <4> HIDE DEF q, U
      <4> QED
        BY <1>1, <2>8, <3>1, FitsQuery
    <3> QED
      BY <2>6, <3>2, <3>3
  <2> HIDE DEF q, U
  <2> QED
    BY <2>3, <2>4, <2>5, <2>6, <2>7, <2>9 DEF Pairing, Paired, OnItsWay
<1> QED
  BY <1>5, <1>6 DEF ForwardSend

\* forwardToLeader returns: with its own answer, or the socket is marked.
LEMMA ForwardReturnPaired ==
    ASSUME PairInv, NEW t \in Threads \ {"rec"}, ForwardReturn(t)
    PROVE  Pairing'
<1> USE PairParts
<1> DEFINE U == IF UnlockedWaits THEN {query["main"]} ELSE {}
<1>1. /\ pc[t] = "wait" /\ mutex = t /\ mutex' = NoThread /\ query[t] \in Queries
      /\ pc' = [pc EXCEPT ![t] = "idle"] /\ query' = [query EXCEPT ![t] = Reg]
      /\ UNCHANGED <<sock, wire, req, fd, todo, asked>>
  BY DEF ForwardReturn, Answered, Goto, Locked, linkVars, execVars, budget
<1>2. /\ \A u \in Threads \ {t} : pc'[u] = pc[u] /\ query'[u] = query[u] /\ pc[u] # "wait"
      /\ pc'[t] = "idle" /\ query'[t] = Reg
  BY <1>1 DEF Locked, TypeOK
<1>3. Locked'
  BY <1>1, <1>2 DEF Locked
<1>4. Numbered'
  <2>1. ASSUME NEW u \in Threads PROVE query'[u] <= asked
    BY <1>2 DEF Numbered, Reg
  <2> QED
    BY <1>1, <1>2, <2>1 DEF Numbered
<1>5. Registrations' = Registrations
  BY <1>1, <1>2 DEF Registrations, One
<1>6. Awaited = U \cup {query[t]} /\ Awaited' = U
  BY <1>1, <1>2 DEF Awaited, Held, UnlockedWaits
<1>7. U = Awaited \ {query[t]}
  BY <1>1, <1>6 DEF Numbered, UnlockedWaits
<1> HIDE DEF U
<1>8. CASE /\ IsOpen /\ resp' = [resp EXCEPT ![sock] = <<>>]
           /\ owed' = [owed EXCEPT ![sock] = @ \/ resp[sock] # <<query[t]>>]
  <2> DEFINE b == owed[sock] \/ resp[sock] # <<query[t]>>
  <2>1. /\ sock \in Socks /\ sock # NoSock /\ wire[sock] # "closed"
        /\ b \in BOOLEAN /\ owed' = [owed EXCEPT ![sock] = b]
    BY <1>8 DEF IsOpen, TypeOK
  <2>2. FreshWhenClosed' /\ owed'[sock] = b
    <3> HIDE DEF b
    <3> QED
      BY <1>1, <1>8, <2>1, ReadFresh
  <2>3. ASSUME ~b PROVE Fits(OnItsWay(sock)', U, Registrations)
    <3>1. ~owed[sock] /\ resp[sock] = <<query[t]>>
      BY <2>3
    <3>2. Fits(<<query[t]>> \o req[sock], Awaited, Registrations)
      BY <2>1, <3>1, FitsNow DEF OnItsWay
    <3>3. OnItsWay(sock)' = req[sock] /\ req[sock] \in Seq(Messages)
      BY <1>1, <1>8, <2>1, LeftOnItsWay
    <3>4. Fits(req[sock], Awaited \ {query[t]}, Registrations)
      BY <1>1, <3>2, <3>3, RegistrationsRange, FitsAnswered
    <3> QED
      BY <1>7, <3>3, <3>4
  <2> QED
    BY <1>1, <1>3, <1>4, <1>5, <1>6, <2>2, <2>3 DEF Pairing, Paired, OnItsWay
<1>9. CASE IsOpen /\ owed' = [owed EXCEPT ![sock] = TRUE] /\ UNCHANGED resp
  <2>1. sock \in Socks /\ wire[sock] # "closed" /\ TRUE \in BOOLEAN
    BY <1>9 DEF IsOpen, TypeOK
  <2>2. FreshWhenClosed' /\ owed'[sock] = TRUE
    BY <1>1, <1>9, <2>1, ReadFresh
  <2> QED
    BY <1>1, <1>3, <1>4, <2>2 DEF Pairing, Paired
<1>10. CASE ~IsOpen /\ UNCHANGED <<resp, owed>>
  <2>1. FreshWhenClosed'
    BY <1>1, <1>10 DEF FreshWhenClosed
  <2>2. sock # NoSock => sock \in Socks /\ OnItsWay(sock)' = <<>>
    BY <1>1, <1>10 DEF IsOpen, FreshWhenClosed, OnItsWay, TypeOK
  <2> QED
    BY <1>1, <1>3, <1>4, <2>1, <2>2, FitsEmpty DEF Pairing, Paired, OnItsWay
<1> QED
  BY <1>8, <1>9, <1>10 DEF ForwardReturn, PollTimesOut

\* A command that uses the socket without the mutex begins: it connects first, or
\* takes the connection there is.
LEMMA UnlockedForwardPaired ==
    ASSUME PairInv, UnlockedForward
    PROVE  Pairing'
<1> USE PairParts
<1>1. PICK l \in {"write", "socket"} : pc' = [pc EXCEPT !["main"] = l]
  BY DEF UnlockedForward, ConnectClose, Goto
<1>2. /\ pc["main"] = "idle" /\ asked' = asked + 1 /\ asked + 1 \in Queries
      /\ query' = [query EXCEPT !["main"] = asked + 1]
      /\ UNCHANGED <<mutex, fd, todo>>
  BY NextQuery DEF UnlockedForward, execVars
<1>3. /\ \A u \in Threads \ {"main"} : pc'[u] = pc[u] /\ query'[u] = query[u]
      /\ pc'["main"] \in {"write", "socket"} /\ query'["main"] = asked + 1
  BY <1>1, <1>2 DEF TypeOK
<1>4. \A u \in Threads : query[u] <= asked + 1 /\ query[u] # asked + 1
  <2>1. \A u \in Threads : query[u] \in Nat /\ query[u] <= asked
    BY ConstantsAssumption DEF Numbered, TypeOK, Asks, Queries, Reg
  <2> QED
    BY <2>1
<1>5. mutex # "main"
  BY <1>2 DEF Locked
<1>6. Locked'
  BY <1>2, <1>3, <1>5 DEF Locked
<1>7. Numbered'
  BY <1>2, <1>3, <1>4, <1>5 DEF Numbered, Locked
<1>8. Registrations' = Registrations /\ Awaited' = Awaited
  BY <1>2, <1>3, <1>5 DEF Registrations, One, Awaited, Held, UnlockedWaits, Locked
<1>9. FreshWhenClosed' /\ Paired'
  BY <1>8, ClosePaired, KeptPaired
     DEF UnlockedForward, ConnectClose, KeepLeaderSocket, wireVars
<1> QED
  BY <1>6, <1>7, <1>9 DEF Pairing

\* It writes its query: the answer is waited for on the same socket.
LEMMA UnlockedWritePaired ==
    ASSUME PairInv, UnlockedWrite
    PROVE  Pairing'
<1> USE PairParts
<1> DEFINE q == query["main"]
<1>1. /\ pc["main"] = "write" /\ q \in Queries /\ q \in Requests
      /\ UNCHANGED <<mutex, todo, asked>>
  BY MessageSeqs DEF UnlockedWrite, Numbered, budget
<1>2. CASE /\ sock # NoSock /\ WriteToLeader(<<q>>)
           /\ fd' = sock /\ Goto("main", "read") /\ UNCHANGED query
  <2>1. /\ pc' = [pc EXCEPT !["main"] = "read"] /\ pc'["main"] = "read"
        /\ \A u \in Threads \ {"main"} : pc'[u] = pc[u]
    BY <1>2 DEF Goto, TypeOK
  <2>2. mutex # "main" /\ q \notin Held
    BY <1>1 DEF Locked, Numbered, Held
  <2>3. /\ FreshWhenClosed' /\ sock \in Socks /\ sock' = sock /\ owed' = owed
        /\ \/ OnItsWay(sock)' = OnItsWay(sock) \o <<q>>
           \/ OnItsWay(sock)' = OnItsWay(sock)
    BY <1>1, <1>2, WriteOnItsWay
  <2>4. Locked' /\ Numbered'
    BY <1>1, <1>2, <2>1, <2>2, <2>3 DEF Locked, Numbered
  <2>5. Registrations' = Registrations
    BY <1>1, <2>1 DEF Registrations, One
  <2>6. Awaited = Held /\ Awaited' = Held \cup {q}
    BY <1>1, <1>2, <2>1, <2>3 DEF Awaited, Held, UnlockedWaits
  <2>7. ASSUME ~owed[sock] PROVE Fits(OnItsWay(sock)', Held \cup {q}, Registrations)
    <3>1. /\ Fits(OnItsWay(sock), Held, Registrations) /\ OnItsWay(sock) \in Seq(Messages)
          /\ Registrations \in 0 .. 2 /\ Registrations <= Registrations
      BY <1>2, <2>6, <2>7, FitsNow
    <3>2. Fits(OnItsWay(sock), Held \cup {q}, Registrations)
      <4> HIDE DEF q
      <4> QED
        BY <3>1, FitsMore
    <3>3. Fits(OnItsWay(sock) \o <<q>>, Held \cup {q}, Registrations)
      <4> HIDE DEF q
      <4> QED
        BY <1>1, <2>2, <3>1, FitsQuery
    <3> QED
      BY <2>3, <3>2, <3>3
  <2> HIDE DEF q
  <2> QED
    BY <2>3, <2>4, <2>5, <2>6, <2>7 DEF Pairing, Paired, OnItsWay
<1>3. CASE /\ Answered("main") /\ Goto("main", "idle")
           /\ UNCHANGED <<linkVars, wireVars, owed>>
  <2>1. Locked' /\ Numbered' /\ Registrations' = Registrations /\ Awaited' = Awaited
    BY <1>1, <1>3, AnsweredGoto DEF Quiet, PcValues
  <2> QED
    BY <1>3, <2>1, KeptPaired DEF Pairing, linkVars, wireVars
<1> QED
  BY <1>2, <1>3 DEF UnlockedWrite

\* It reads all there is on the number it wrote to: its own answer, or the socket
\* is marked.
LEMMA UnlockedReadPaired ==
    ASSUME PairInv, UnlockedRead
    PROVE  Pairing'
<1> USE PairParts
<1> DEFINE q == query["main"]
           b == owed[fd] \/ (wire[fd] \in {"up", "cut"} /\ resp[fd] # <<q>>)
<1>1. /\ pc["main"] = "read" /\ q \in Queries /\ fd \in Socks
      /\ resp' = [resp EXCEPT ![fd] = <<>>]
      /\ b \in BOOLEAN /\ owed' = [owed EXCEPT ![fd] = b] /\ (wire[fd] = "closed" => ~b)
      /\ UNCHANGED <<sock, wire, req, mutex, asked>>
  BY DEF UnlockedRead, Numbered, FreshWhenClosed, TypeOK, linkVars, budget
<1>2. Locked' /\ Numbered' /\ Registrations' = Registrations /\ Awaited' = Held
  BY <1>1, AnsweredGoto DEF UnlockedRead, Quiet, PcValues
<1>3. FreshWhenClosed' /\ owed'[fd] = b
  <2> HIDE DEF b
  <2> QED
    BY <1>1, ReadFresh
<1>4. q \notin Held
  BY <1>1 DEF Numbered, Held, Locked
<1>5. CASE sock # fd
  <2>1. sock # NoSock => resp'[sock] = resp[sock] /\ owed'[sock] = owed[sock]
    BY <1>1, <1>5 DEF TypeOK
  <2>2. Awaited = Held
    BY <1>5 DEF Awaited, UnlockedWaits
  <2> QED
    BY <1>1, <1>2, <1>3, <2>1, <2>2 DEF Pairing, Paired, OnItsWay
<1>6. CASE sock = fd
  <2>1. Awaited = Held \cup {q} /\ Held = Awaited \ {q} /\ sock # NoSock
    BY <1>1, <1>4, <1>6 DEF Awaited, UnlockedWaits, Socks, NoSock
  <2>2. OnItsWay(sock)' = req[sock] /\ req[sock] \in Seq(Messages)
    BY <1>1, <1>6, LeftOnItsWay
  <2>3. ASSUME ~b PROVE Fits(OnItsWay(sock)', Held, Registrations)
    <3>1. CASE wire[fd] \in {"up", "cut"}
      <4>1. ~owed[sock] /\ resp[sock] = <<q>>
        BY <1>6, <2>3, <3>1
      <4>2. Fits(<<q>> \o req[sock], Awaited, Registrations)
        BY <2>1, <4>1, FitsNow DEF OnItsWay
      <4>3. Fits(req[sock], Awaited \ {q}, Registrations)
        <5> HIDE DEF q
        <5> QED
          BY <1>1, <2>2, <4>2, RegistrationsRange, FitsAnswered
      <4> QED
        BY <2>1, <2>2, <4>3
    <3>2. CASE wire[fd] \notin {"up", "cut"}
      BY <1>1, <1>6, <2>2, <3>2, FitsEmpty DEF FreshWhenClosed, TypeOK
    <3> QED
      BY <3>1, <3>2
  <2> HIDE DEF b
  <2> QED
    BY <1>1, <1>2, <1>3, <1>6, <2>3 DEF Pairing, Paired, OnItsWay
<1> QED
  BY <1>5, <1>6

\* The event loop reads what is there; the socket is marked when an answer was
\* among it.
LEMMA LoopReadPaired ==
    ASSUME PairInv, TypeOK', HandleLeaderData
    PROVE  Pairing'
<1> USE PairParts
<1>1. /\ pc["main"] = "ready" /\ UNCHANGED <<mutex, query, sock, wire, req, asked>>
  BY DEF HandleLeaderData, linkVars, budget
<1>2. CASE \E l \in {"idle", "lost"} : Goto("main", l) /\ UNCHANGED <<resp, owed, fd, todo>>
  <2>1. PICK l \in {"idle", "lost"} : Goto("main", l) /\ UNCHANGED <<resp, owed, fd, todo>>
    BY <1>2
  <2>2. Locked' /\ Numbered' /\ Registrations' = Registrations /\ Awaited' = Awaited
    BY <1>1, <2>1, QuietGoto DEF Quiet, PcValues
  <2> QED
    BY <1>1, <2>1, <2>2, KeptPaired DEF Pairing
<1>3. CASE /\ sock # NoSock /\ resp[sock] # <<>>
           /\ resp' = [resp EXCEPT ![sock] = <<>>]
           /\ owed' = [owed EXCEPT ![sock] = @ \/ HoldsAnswer(resp[sock])]
           /\ IF todo' = 0
              THEN Goto("main", "idle") /\ UNCHANGED fd
              ELSE Goto("main", "execute") /\ fd' = sock
  <2> DEFINE b == owed[sock] \/ HoldsAnswer(resp[sock])
  <2>1. /\ sock \in Socks /\ wire[sock] # "closed"
        /\ b \in BOOLEAN /\ owed' = [owed EXCEPT ![sock] = b]
    BY <1>3 DEF TypeOK, FreshWhenClosed, HoldsAnswer
  <2>2. FreshWhenClosed' /\ owed'[sock] = b
    <3> HIDE DEF b
    <3> QED
      BY <1>1, <1>3, <2>1, ReadFresh
  <2>3. PICK l \in {"idle", "execute"} :
            /\ pc' = [pc EXCEPT !["main"] = l]
            /\ l = "execute" => todo' # 0 /\ fd' = sock
    BY <1>3 DEF Goto
  <2>4. /\ \A u \in Threads \ {"main"} : pc'[u] = pc[u]
        /\ pc'["main"] = l
    BY <2>3 DEF TypeOK
  <2>5. Locked' /\ Registrations' = Registrations /\ Awaited' = Awaited
    BY <1>1, <2>4 DEF Locked, Registrations, One, Awaited, Held, UnlockedWaits
  <2>6. Numbered'
    <3>1. l = "execute" => fd' \in Socks /\ todo' > 0
      BY <2>1, <2>3 DEF TypeOK
    <3> QED
      BY <1>1, <2>4, <3>1 DEF Numbered
  <2>7. ASSUME ~owed[sock] PROVE Fits(OnItsWay(sock)', Awaited, Registrations)
    <3>1. Fits(resp[sock] \o req[sock], Awaited, Registrations)
      BY <1>3, <2>7, FitsNow DEF OnItsWay
    <3>2. OnItsWay(sock)' = req[sock]
      BY <1>1, <1>3, <2>1, LeftOnItsWay
    <3> QED
      BY <2>1, <3>1, <3>2, OnItsWayType, FitsCut
  <2> QED
    BY <1>1, <2>2, <2>5, <2>6, <2>7 DEF Pairing, Paired, OnItsWay
<1> QED
  BY <1>2, <1>3 DEF HandleLeaderData

\* The output of a command of the leader is nobody's answer.
LEMMA ExecutePaired ==
    ASSUME PairInv, ExecuteCommand
    PROVE  Pairing'
<1> USE PairParts
<1>1. /\ pc["main"] = "execute" /\ fd \in Socks /\ todo \in Nat /\ todo > 0
      /\ todo' = todo - 1
      /\ UNCHANGED <<mutex, query, sock, wire, resp, owed, asked>>
  BY DEF ExecuteCommand, Numbered, TypeOK, linkVars, budget
<1>2. \/ todo = 1 /\ pc' = [pc EXCEPT !["main"] = "idle"]
      \/ todo # 1 /\ pc' = pc /\ fd' = fd
  BY DEF ExecuteCommand, Goto
<1>3. /\ \A u \in Threads \ {"main"} : pc'[u] = pc[u]
      /\ pc'["main"] \in {"idle", "execute"}
      /\ pc'["main"] = "execute" => todo # 1 /\ fd' = fd
  BY <1>1, <1>2 DEF TypeOK
<1>4. Locked' /\ Registrations' = Registrations /\ Awaited' = Awaited
  BY <1>1, <1>3 DEF Locked, Registrations, One, Awaited, Held, UnlockedWaits
<1>5. Numbered'
  <2>1. pc'["main"] = "execute" => fd' \in Socks /\ todo' > 0
    BY <1>1, <1>3
  <2> QED
    BY <1>1, <1>3, <2>1 DEF Numbered
<1>6. CASE req' = req
  BY <1>1, <1>4, <1>5, <1>6, KeptPaired DEF Pairing
<1>7. CASE wire[fd] = "up" /\ req' = [req EXCEPT ![fd] = Append(@, Reply)]
  <2>1. FreshWhenClosed'
    BY <1>1, <1>7 DEF FreshWhenClosed, TypeOK
  <2>2. CASE sock # fd
    <3>1. sock # NoSock => req'[sock] = req[sock]
      BY <1>1, <1>7, <2>2 DEF TypeOK
    <3> QED
      BY <1>1, <1>4, <1>5, <2>1, <3>1 DEF Pairing, Paired, OnItsWay
  <2>3. CASE sock = fd
    <3>1. Reply \in Messages \ Asks
      BY ConstantsAssumption DEF Messages, Requests, Asks, Queries, Reg, Reply
    <3>2. OnItsWay(sock)' = OnItsWay(sock) \o <<Reply>>
      <4>1. /\ resp[sock] \in Seq(Messages) /\ req[sock] \in Seq(Messages)
            /\ <<Reply>> \in Seq(Messages)
        BY <1>1, <2>3, <3>1, OnItsWayType
      <4>2. req'[sock] = req[sock] \o <<Reply>>
        BY <1>1, <1>7, <2>3, <3>1, <4>1, AppendIsConcat DEF TypeOK
      <4>3. resp[sock] \o (req[sock] \o <<Reply>>) = (resp[sock] \o req[sock]) \o <<Reply>>
        BY <3>1, <4>1, WrittenLast
      <4> QED
        BY <1>1, <4>2, <4>3 DEF OnItsWay
    <3>3. ASSUME sock # NoSock, ~owed[sock]
          PROVE  Fits(OnItsWay(sock) \o <<Reply>>, Awaited, Registrations)
      BY <3>1, <3>3, FitsNow, FitsLast
    <3> QED
      BY <1>1, <1>4, <1>5, <2>1, <3>2, <3>3 DEF Pairing, Paired, OnItsWay
  <2> QED
    BY <2>2, <2>3
<1>8. CASE wire[fd] # "up" /\ req' = [req EXCEPT ![fd] = @]
  <2>1. req' = req
    BY <1>1, <1>8 DEF TypeOK
  <2> QED
    BY <1>6, <2>1
<1> QED
  BY <1>6, <1>7, <1>8 DEF ExecuteCommand

\* A thread closes the number on which a command of the leader came.
LEMMA AgainPaired ==
    ASSUME PairInv, NEW s \in Socks, ExecutedAgain(s)
    PROVE  Pairing'
<1> USE PairParts
<1>1. /\ CloseNumber(s) /\ UNCHANGED <<sock, pc, mutex, query, fd, todo, asked>>
  BY DEF ExecutedAgain, linkVars, budget
<1>2. Locked' /\ Numbered' /\ Registrations' = Registrations /\ Awaited' = Awaited
  BY <1>1, ThreadsStay
<1>3. /\ FreshWhenClosed'
      /\ req'[s] = <<>> /\ resp'[s] = <<>>
      /\ \A z \in Socks \ {s} : req'[z] = req[z] /\ resp'[z] = resp[z] /\ owed'[z] = owed[z]
  BY <1>1, CloseFresh
<1>4. Paired'
  <2>1. CASE sock = s
    BY <1>1, <1>3, <2>1, FitsEmpty DEF Paired, OnItsWay
  <2>2. CASE sock # s
    BY <1>1, <1>2, <1>3, <2>2 DEF Paired, OnItsWay, TypeOK
  <2> QED
    BY <2>1, <2>2
<1> QED
  BY <1>2, <1>3, <1>4 DEF Pairing

\* The leader moves the oldest request to the end of the answers, which leaves
\* what is on its way as it is, or turns an output it cannot read into an error;
\* commands of its own it writes between, and an outage loses the requests.
LEMMA LeaderPaired ==
    ASSUME PairInv,
           \/ \E s \in Socks : LeaderAnswers(s) \/ LeaderCommands(s) \/ LeaderTakes(s)
           \/ Outage \/ Recover
    PROVE  Pairing'
<1> USE PairParts
<1>1. UNCHANGED <<pc, mutex, query, sock, owed, fd, todo, asked>>
  BY DEF LeaderAnswers, LeaderCommands, LeaderTakes, Outage, Recover, linkVars, execVars, budget
<1>2. Locked' /\ Numbered' /\ Registrations' = Registrations /\ Awaited' = Awaited
  BY <1>1, ThreadsStay
<1>3. Cmd \in Messages \ Asks /\ Error \in Messages \ Asks
  BY ConstantsAssumption DEF Messages, Answers, Asks, Queries, Reg, Cmd, Error
<1>4. \A s \in Socks : resp[s] \in Seq(Messages) /\ req[s] \in Seq(Messages)
  BY OnItsWayType
<1>5. ASSUME NEW s \in Socks, FreshWhenClosed',
             \A z \in Socks \ {s} : resp'[z] = resp[z] /\ req'[z] = req[z],
             Fits(resp[s] \o req[s], Awaited, Registrations)
                 => Fits(resp'[s] \o req'[s], Awaited, Registrations)
      PROVE  Pairing'
  <2>1. CASE sock = s
    BY <1>1, <1>2, <1>5, <2>1 DEF Pairing, Paired, OnItsWay
  <2>2. CASE sock # s
    <3>1. sock # NoSock => OnItsWay(sock)' = OnItsWay(sock)
      BY <1>1, <1>5, <2>2 DEF OnItsWay, TypeOK
    <3> QED
      BY <1>1, <1>2, <1>5, <3>1 DEF Pairing, Paired, OnItsWay
  <2> QED
    BY <2>1, <2>2
<1>6. ASSUME NEW s \in Socks, LeaderAnswers(s) PROVE Pairing'
  <2> DEFINE h == Head(req[s])
  <2>1. /\ wire[s] = "up" /\ req[s] # <<>> /\ wire' = wire
        /\ resp' = [resp EXCEPT ![s] = Append(resp[s], AnswerTo(h))]
        /\ req' = [req EXCEPT ![s] = Tail(req[s])]
    BY <1>6 DEF LeaderAnswers
  <2>2. FreshWhenClosed'
    BY <1>1, <2>1 DEF FreshWhenClosed, TypeOK
  <2>3. /\ resp'[s] = Append(resp[s], AnswerTo(h)) /\ req'[s] = Tail(req[s])
        /\ \A z \in Socks \ {s} : resp'[z] = resp[z] /\ req'[z] = req[z]
    BY <2>1 DEF TypeOK
  <2>4. h \in Messages /\ Tail(req[s]) \in Seq(Messages)
    BY <1>4, <2>1, HeadTailProperties
  <2>5. Append(resp[s], h) \o Tail(req[s]) = resp[s] \o req[s]
    <3> HIDE DEF h
    <3>1. <<h>> \in Seq(Messages) /\ Append(resp[s], h) = resp[s] \o <<h>>
      BY <1>4, <2>4, AppendIsConcat
    <3>2. req[s] = <<h>> \o Tail(req[s])
      BY <1>4, <2>1, <2>4 DEF h
    <3>3. (resp[s] \o <<h>>) \o Tail(req[s]) = resp[s] \o (<<h>> \o Tail(req[s]))
      BY <1>4, <2>4, <3>1, Between
    <3> QED
      BY <3>1, <3>2, <3>3
  <2>6. Fits(resp[s] \o req[s], Awaited, Registrations)
            => Fits(Append(resp[s], AnswerTo(h)) \o Tail(req[s]), Awaited, Registrations)
    BY <1>3, <1>4, <2>4, <2>5, FitsOther DEF AnswerTo
  <2> QED
    BY <1>5, <2>2, <2>3, <2>6
<1>7. ASSUME NEW s \in Socks, LeaderCommands(s) PROVE Pairing'
  <2>1. /\ wire[s] = "up" /\ wire' = wire /\ req' = req
        /\ resp' = [resp EXCEPT ![s] = Append(resp[s], Cmd)]
    BY <1>7 DEF LeaderCommands
  <2>2. FreshWhenClosed'
    BY <1>1, <2>1 DEF FreshWhenClosed, TypeOK
  <2>3. /\ resp'[s] = Append(resp[s], Cmd) /\ req'[s] = req[s]
        /\ \A z \in Socks \ {s} : resp'[z] = resp[z] /\ req'[z] = req[z]
    BY <2>1 DEF TypeOK
  <2>4. Fits(resp[s] \o req[s], Awaited, Registrations)
            => Fits(Append(resp[s], Cmd) \o req[s], Awaited, Registrations)
    BY <1>3, <1>4, FitsOther
  <2> QED
    BY <1>5, <2>2, <2>3, <2>4
<1>8. ASSUME NEW s \in Socks, resp' = resp, req'[s] = <<>>, FreshWhenClosed',
             \A z \in Socks \ {s} : req'[z] = req[z]
      PROVE  Pairing'
  <2>1. resp[s] \o <<>> = resp[s] /\ resp[s] \in Seq(Messages) /\ req[s] \in Seq(Messages)
    BY <1>4, ConcatEmptySeq
  <2>2. Fits(resp[s] \o req[s], Awaited, Registrations)
            => Fits(resp'[s] \o req'[s], Awaited, Registrations)
    BY <1>8, <2>1, FitsCut
  <2> QED
    BY <1>5, <1>8, <2>2
<1>9. ASSUME NEW s \in Socks, LeaderTakes(s) PROVE Pairing'
  <2>1. /\ resp' = resp /\ wire' = wire /\ req'[s] = <<>>
        /\ \A z \in Socks \ {s} : req'[z] = req[z]
    BY <1>9 DEF LeaderTakes, TypeOK
  <2>2. FreshWhenClosed'
    BY <1>1, <2>1 DEF FreshWhenClosed
  <2> QED
    BY <1>8, <2>1, <2>2
<1>10. CASE Outage
  <2>1. /\ resp' = resp /\ \A s \in Socks : req'[s] = <<>>
        /\ \A s \in Socks : /\ wire'[s] = "closed" <=> wire[s] = "closed"
                            /\ wire'[s] = "fresh" <=> wire[s] = "fresh"
    BY <1>10 DEF Outage, TypeOK
  <2>2. FreshWhenClosed'
    BY <1>1, <2>1 DEF FreshWhenClosed
  <2>3. ASSUME sock # NoSock, ~owed[sock]
        PROVE  Fits(OnItsWay(sock)', Awaited, Registrations)
    <3>1. sock \in Socks /\ Fits(resp[sock] \o req[sock], Awaited, Registrations)
      BY <2>3, FitsNow DEF OnItsWay
    <3>2. Fits(resp[sock], Awaited, Registrations)
      BY <1>4, <3>1, FitsCut
    <3>3. resp[sock] \o <<>> = resp[sock]
      BY <1>4, <3>1, ConcatEmptySeq
    <3> QED
      BY <1>1, <2>1, <3>1, <3>2, <3>3 DEF OnItsWay
  <2> QED
    BY <1>1, <1>2, <2>2, <2>3 DEF Pairing, Paired, OnItsWay
<1>11. CASE Recover
  BY <1>2, <1>11, KeptPaired DEF Pairing, Recover, linkVars, wireVars
<1> QED
  BY <1>6, <1>7, <1>9, <1>10, <1>11

LEMMA InitPaired == Init => PairInv
<1> SUFFICES ASSUME Init PROVE PairInv
  OBVIOUS
<1>1. <<>> \o <<>> = <<>>
  BY ConcatEmptySeq
<1>2. 1 \in Socks /\ "main" \in Threads
  BY ConstantsAssumption DEF Socks, Threads
<1>3. Locked
  BY DEF Init, Locked
<1>4. FreshWhenClosed
  BY <1>2 DEF Init, FreshWhenClosed
<1>5. Numbered
  BY <1>2 DEF Init, Numbered, Reg
<1>6. Paired
  BY <1>1, <1>2, FitsEmpty DEF Init, Paired, OnItsWay
<1> QED
  BY <1>3, <1>4, <1>5, <1>6, InitType DEF PairInv, Pairing

LEMMA StepPaired == PairInv /\ [Next]_vars => PairInv'
<1> SUFFICES ASSUME PairInv, [Next]_vars PROVE Pairing'
  BY StepType DEF PairInv
<1>0. TypeOK'
  BY StepType
<1>1. CASE UNCHANGED vars
  <2>1. UNCHANGED <<sock, wire, req, resp, owed, mutex, pc, query, fd, todo, asked>>
    BY <1>1 DEF vars, linkVars, wireVars, execVars, budget
  <2> QED
    BY <2>1, ThreadsStay, KeptPaired DEF PairInv, Pairing
<1>2. ASSUME NEW t \in {"main", "rec"}, ConnectStep(t) PROVE Pairing'
  BY <1>0, <1>2, SocketPaired, CallPaired, QuietPaired, RegisterPaired, ResponsePaired
     DEF ConnectStep
<1>3. CASE RecStep
  BY <1>0, <1>2, <1>3, QuietPaired, HeartbeatPaired DEF RecStep
<1>4. CASE MainStep
  BY <1>0, <1>2, <1>4, QuietPaired, LoopReadPaired, ExecutePaired, UnlockedWritePaired,
     UnlockedReadPaired DEF MainStep
<1>5. CASE AdminConnect \/ UnlockedForward
  BY <1>0, <1>5, QuietPaired, UnlockedForwardPaired
<1>6. ASSUME NEW t \in Threads \ {"rec"}, ForwardSend(t) \/ ForwardReturn(t) PROVE Pairing'
  BY <1>6, ForwardSendPaired, ForwardReturnPaired
<1>7. CASE \E s \in Socks : ExecutedAgain(s)
  BY <1>7, AgainPaired
<1>8. CASE \/ \E s \in Socks : LeaderAnswers(s) \/ LeaderCommands(s) \/ LeaderTakes(s)
           \/ Outage \/ Recover
  BY <1>8, LeaderPaired
<1> QED
  BY <1>1, <1>3, <1>4, <1>5, <1>6, <1>7, <1>8 DEF Next

\* What the invariant says of the answer that is read.
LEMMA PairInvPairs == PairInv => PairedUnlessGivenUp
<1> SUFFICES ASSUME PairInv, sock # NoSock, ~owed[sock], ~Registering, ~UnlockedWaits,
                    ~Commanded, NEW t \in Threads, pc[t] = "wait"
             PROVE  resp[sock] = <<>> \/ resp[sock] = <<query[t]>>
  BY DEF PairedUnlessGivenUp
<1> USE PairParts
<1> DEFINE r == resp[sock]
           q == query[t]
<1>1. sock \in Socks /\ r \in Seq(Answers) /\ r \in Seq(Messages) /\ req[sock] \in Seq(Messages)
  BY OnItsWayType DEF TypeOK
<1>2. Awaited = {q} /\ q \in Queries
  BY DEF Locked, Awaited, Held
<1>3. Fits(r, {q}, 0)
  BY <1>1, <1>2, FitsNow, FitsCut, RegistrationsRange DEF OnItsWay
<1> HIDE DEF q
<1>4. /\ Len(r) \in Nat /\ DOMAIN r = 1 .. Len(r)
      /\ \A i \in 1 .. Len(r) : r[i] \in Answers
  BY <1>1, LenProperties, ElementOfSeq
<1>5. \A i \in 1 .. Len(r) : r[i] \notin {Cmd, Error}
  BY <1>4 DEF Commanded
<1>6. None(r, {Reg}) /\ Once(r, {q}) /\ \A p \in Queries : p # q => None(r, {p})
  BY <1>2, <1>3 DEF Fits
<1> HIDE DEF r
<1>7. ASSUME NEW i \in 1 .. Len(r) PROVE r[i] = q
  BY <1>4, <1>5, <1>6, <1>7 DEF None, Answers, Asks
<1>8. \A i, j \in 1 .. Len(r) : i = j
  BY <1>6, <1>7 DEF Once
<1>9. Len(r) < 2
  <2>1. SUFFICES ASSUME Len(r) >= 2 PROVE FALSE
    BY <1>4
  <2>2. 1 \in 1 .. Len(r) /\ 2 \in 1 .. Len(r) /\ 1 # 2
    BY <1>4, <2>1
  <2> QED
    BY <1>8, <2>2
<1>10. CASE Len(r) = 0
  BY <1>1, <1>10, EmptySeq DEF r
<1>11. CASE Len(r) = 1
  <2>1. r[1] = q /\ q \in Messages
    BY <1>2, <1>7, <1>11 DEF Messages, Requests, Asks
  <2>2. <<q>> \in Seq(Messages) /\ Len(<<q>>) = 1 /\ <<q>>[1] = q
    BY <2>1
  <2>3. \A i \in 1 .. Len(r) : r[i] = <<q>>[i]
    BY <1>11, <2>1, <2>2
  <2>4. r = <<q>>
    BY <1>1, <1>11, <2>2, <2>3, SeqEqual DEF r
  <2> QED
    BY <2>4 DEF r, q
<1>12. Len(r) = 0 \/ Len(r) = 1
  <2> DEFINE n == Len(r)
  <2>1. n \in Nat /\ n < 2
    BY <1>4, <1>9
  <2> HIDE DEF n
  <2>2. n = 0 \/ n = 1
    BY <2>1
  <2> QED
    BY <2>2 DEF n
<1> QED
  BY <1>10, <1>11, <1>12

\* Every variable of the link keeps its type: what is written to a socket are
\* registrations, queries and outputs of commands, what is read from it are
\* answers and commands, and m_leaderSocket is -1 or one of the sockets.  The
\* types need the invariant of the pairing: that a client gets an answer to a
\* query and not to a registration, and that the handler's leader_fd is a socket.
THEOREM LinkTypes == Spec => []TypeOK
<1>1. Spec => []PairInv
  BY InitPaired, StepPaired, PTL DEF Spec
<1>2. PairInv => TypeOK
  BY DEF PairInv
<1> QED
  BY <1>1, <1>2, PTL

\* A thread that waits in PeerManager::forwardToLeader finds nothing on the socket
\* but the answer to its own command, for any number of threads, commands, commands
\* of the leader, reconnections and outages, unless on this socket a reader gave up
\* on an answer or took another's, a registration is under way, a command that
\* ignores m_leaderCommMutex waits there too, or a command of the leader or its
\* error about an output is there to be read.
THEOREM AnswersArePaired == Spec => []PairedUnlessGivenUp
<1>1. Spec => []PairInv
  BY InitPaired, StepPaired, PTL DEF Spec
<1> QED
  BY <1>1, PairInvPairs, PTL
=============================================================================
