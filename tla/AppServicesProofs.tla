------------------------- MODULE AppServicesProofs -------------------------
(***************************************************************************)
(* The services of the applications, for every set of applications, every  *)
(* number of ports and commits and every budget of what the outside does:  *)
(* the types, the services that stopApp stopped, the commits that run in   *)
(* prod and the processes that a command kills.                            *)
(***************************************************************************)
EXTENDS AppServices, TLAPS, WellFoundedInduction, SequenceTheorems

\* A set of naturals that is not empty has a least member, and Min is it.
LEMMA MinIsLeast ==
    ASSUME NEW S, S \subseteq Nat, S # {}
    PROVE  Min(S) \in S /\ \A y \in S : Min(S) <= y
<1>1. PICK x \in S : \A y \in S : ~(<<y, x>> \in OpToRel(<, Nat))
  BY NatLessThanWellFounded, WFMin
<1>2. ASSUME NEW y \in S PROVE x <= y
  <2>1. ~(y < x)
    BY <1>1 DEF OpToRel
  <2> QED
    BY <2>1, SMT
<1> QED
  BY <1>2 DEF Min

-----------------------------------------------------------------------------
(* The inductive invariant, by the variables its parts are about *)

BudgetInv == IsBudget(budget)

\* What managers sent: commands that the daemon executes once more, and the
\* ports and the removals of installations.
AgainInv ==
    \A c \in again :
        /\ c.cmd \in {"startApp", "stopApp"} => IsCommand(c)
        /\ c.cmd = "make" => c.app \in Apps /\ IsInstall(c.of) /\ c.of.app = c.app
        /\ c.cmd = "setPort" => c.key \in Keys /\ c.port \in Ports \cup {None}
        /\ c.cmd = "remove" => c.app \in Apps

\* Two keys have the same port only if setPort did that.
SettingsInv ==
    /\ rows \subseteq Extra /\ settings \in [Keys -> Ports \cup {None}] /\ forced \subseteq Keys
    /\ \A k, j \in Keys : k # j /\ settings[k] = settings[j] /\ settings[k] # None => k \in forced

UnitInv ==
    /\ handFiles \subseteq DOMAIN HandPort /\ enabled \subseteq Services
    /\ unit \in [Services -> [file : {"none", "hand", "generated", "dangling"},
                              port : Ports \cup {None}]]
    /\ \A s \in Services : unit[s].file = "hand" => s \in handFiles

\* A program that is up was there when it started, and has its port to itself.
ProcInv ==
    /\ proc \in [Services -> [st : {"off", "starting", "up", "waiting"},
                              port : Ports \cup {None}, commit : 0 .. MaxCommit]]
    /\ foreign \subseteq Ports
    /\ \A s \in Services : proc[s].st = "up" =>
          /\ proc[s].commit # 0
          /\ proc[s].port # None => proc[s].port \notin foreign
          /\ \A t \in Services :
                proc[t].st = "up" /\ proc[t].port = proc[s].port /\ proc[s].port # None => t = s

\* A server of both modes may come back with a client of the other mode, and is
\* not counted as stopped.
StoppedInv ==
    /\ stopped \subseteq Services
    /\ \A s \in stopped : proc[s].st = "off" /\ s[3] # "both"

Trees == [commit : 0 .. MaxCommit, edited : BOOLEAN, built : 0 .. MaxCommit \cup {Mixed}]

TreeTypes ==
    /\ head \in [Apps -> 0 .. MaxCommit]
    /\ prod \in [Apps -> Trees]
    /\ unfinished \subseteq Apps
    /\ \A a \in Apps \ Buildable : prod[a].built = 0

ProdServices(a) == {s \in ServicesOf(a) : s[3] = "prod"}

\* What runs, or is about to, is of the commit that is checked out; a service
\* started without a tree fails.
Fresh(s) ==
    /\ proc[s].st = "up" => proc[s].commit = prod[s[1]].commit
    /\ proc[s].st = "starting" => proc[s].commit \in {0, prod[s[1]].commit}

Built(a) == prod[a].built \in {0, prod[a].commit, Mixed}

TreeInv ==
    /\ TreeTypes
    /\ \A a \in Apps \ unfinished : Built(a) /\ \A s \in ProdServices(a) : Fresh(s)

\* The steps that a command for application a may have: the ports in them are
\* ports of a, since no setting changes while a command is executed.
Possible(a) ==
    {Step(op, s) : op \in {"start", "stop", "restart", "enable", "disable", "install"},
                   s \in ServicesOf(a)}
    \cup {Step(op, p) : op \in {"kill", "wait"},
                        p \in {settings[k] : k \in {j \in Keys : j[1] = a}} \ {None}}
    \cup {Step("checkout", c) : c \in Commits}
    \cup {Step("build", m) : m \in {x \in Modes : a \in Buildable}}

JobInv ==
    /\ job = [app |-> job.app, cmd |-> job.cmd, steps |-> job.steps]
    /\ job # NoJob =>
          job.app \in Apps /\ job.steps \in Seq(Possible(job.app)) /\ job.steps # <<>>

Occurs(q, x) == \E i \in 1 .. Len(q) : q[i] = x

\* Only the first step, if any, checks a commit out.
Tidy(q) == \A i \in 2 .. Len(q) : q[i].op # "checkout"

Pending(x) == Occurs(job.steps, x)

\* A deploy: what is not stopped or built any more is of the new commit, and all
\* of it is still ahead when the commit is checked out, which is done once.
DeployInv ==
    job.cmd = "deployToProd" =>
        /\ \A s \in ProdServices(job.app) : Pending(Step("stop", s)) \/ Fresh(s)
        /\ Pending(Step("build", "prod")) \/ Built(job.app)
        /\ job.steps[1].op = "checkout" =>
              /\ \A s \in ProdServices(job.app) : Pending(Step("stop", s))
              /\ job.app \in Buildable => Pending(Step("build", "prod"))
        /\ Tidy(job.steps)

ServicesInv ==
    /\ BudgetInv /\ AgainInv /\ SettingsInv /\ UnitInv /\ ProcInv /\ StoppedInv /\ TreeInv
    /\ JobInv /\ DeployInv

-----------------------------------------------------------------------------
(* Services and steps *)

LEMMA ServiceFacts ==
    /\ \A a \in Apps : ServicesOf(a) \subseteq Services /\ \A s \in ServicesOf(a) : s[1] = a
    /\ \A s \in Services : s[1] \in Apps /\ s \in ServicesOf(s[1])
<1>1. \A a \in Apps : \A s \in ServicesOf(a) : s[1] = a
  BY DEF ServicesOf, Service
<1>2. \A a \in Apps : ServicesOf(a) \subseteq Services
  BY DEF Services
<1> QED
  BY <1>1, <1>2 DEF Services

\* The service of a part in a mode that the application has.
LEMMA ServiceIn ==
    ASSUME NEW a \in Apps, NEW p \in PartsOf(a), NEW m \in ModesOf(a)
    PROVE  Service(a, p, m) \in ServicesOf(a)
BY DEF ServicesOf

LEMMA WantedFacts ==
    ASSUME NEW s \in Services, NEW t \in Wanted(s)
    PROVE  t \in Services /\ (t = s \/ t[3] = "both")
BY DEF Wanted, Service

LEMMA PossibleService ==
    ASSUME NEW a, NEW s \in ServicesOf(a),
           NEW op \in {"start", "stop", "restart", "enable", "disable", "install"}
    PROVE  Step(op, s) \in Possible(a)
BY DEF Possible

LEMMA PossiblePort ==
    ASSUME NEW a, NEW k \in Keys, k[1] = a, settings[k] # None, NEW op \in {"kill", "wait"}
    PROVE  Step(op, settings[k]) \in Possible(a)
BY DEF Possible

LEMMA OnServicesIn ==
    ASSUME NEW a \in Apps, NEW m \in ModesOf(a),
           NEW op \in {"start", "stop", "restart", "enable", "disable", "install"},
           NEW order \in {ClientThenServer, ServerThenClient}
    PROVE  OnServices(op, a, m, order) \in Seq(Possible(a))
<1> DEFINE ps == PartsInOrder(a, order)
<1>1. ps \in Seq(PartsOf(a))
  <2>1. CASE a \in HasServer
    <3>1. ClientThenServer \in Seq({"client", "server"})
      BY DEF ClientThenServer
    <3>2. ServerThenClient \in Seq({"client", "server"})
      BY DEF ServerThenClient
    <3> QED
      BY <2>1, <3>1, <3>2 DEF PartsInOrder, PartsOf, Parts
  <2>2. CASE a \notin HasServer
    <3>1. <<"client">> \in Seq({"client"})
      OBVIOUS
    <3> QED
      BY <2>2, <3>1 DEF PartsInOrder, PartsOf
  <2> QED
    BY <2>1, <2>2
<1> HIDE DEF ps
<1>2. Len(ps) \in Nat /\ DOMAIN ps = 1 .. Len(ps)
  BY <1>1
<1>3. ASSUME NEW i \in 1 .. Len(ps) PROVE Step(op, Service(a, ps[i], m)) \in Possible(a)
  <2>1. ps[i] \in PartsOf(a)
    BY <1>1, <1>2
  <2> QED
    BY <2>1, ServiceIn, PossibleService
<1>4. [i \in 1 .. Len(ps) |-> Step(op, Service(a, ps[i], m))] \in Seq(Possible(a))
  BY <1>2, <1>3, IsASeq
<1>5. OnServices(op, a, m, order) = [i \in 1 .. Len(ps) |-> Step(op, Service(a, ps[i], m))]
  BY <1>2 DEF OnServices, ps
<1> QED
  BY <1>4, <1>5

LEMMA OnPortIn ==
    ASSUME NEW a \in Apps, NEW m \in Modes, NEW p \in Parts, NEW op \in {"kill", "wait"}
    PROVE  OnPort(op, a, p, m) \in Seq(Possible(a))
<1>1. <<a, p, m>> \in Keys /\ <<a, p, m>>[1] = a
  BY DEF Keys
<1>2. CASE settings[<<a, p, m>>] = None
  BY <1>2 DEF OnPort
<1>3. CASE settings[<<a, p, m>>] # None
  <2>1. Step(op, settings[<<a, p, m>>]) \in Possible(a)
    BY <1>1, <1>3, PossiblePort
  <2> QED
    BY <1>3, <2>1 DEF OnPort
<1> QED
  BY <1>2, <1>3

LEMMA OnPortsIn ==
    ASSUME NEW a \in Apps, NEW m \in Modes, NEW op \in {"kill", "wait"}
    PROVE  OnPorts(op, a, m) \in Seq(Possible(a))
<1>1. OnPort(op, a, "client", m) \in Seq(Possible(a)) /\ OnPort(op, a, "server", m) \in Seq(Possible(a))
  BY OnPortIn DEF Parts
<1>2. <<>> \in Seq(Possible(a))
  OBVIOUS
<1> QED
  BY <1>1, <1>2, ConcatProperties DEF OnPorts

\* Lists of possible steps one after the other.
LEMMA Joined ==
    ASSUME NEW S, NEW x \in Seq(S), NEW y \in Seq(S)
    PROVE  x \o y \in Seq(S)
BY ConcatProperties

LEMMA BuildStepsIn ==
    ASSUME NEW a \in Apps, NEW m \in Modes
    PROVE  BuildSteps(a, m) \in Seq(Possible(a))
<1>1. CASE a \in Buildable
  <2>1. Step("build", m) \in Possible(a)
    BY <1>1 DEF Possible
  <2> QED
    BY <1>1, <2>1 DEF BuildSteps
<1>2. CASE a \notin Buildable
  BY <1>2 DEF BuildSteps
<1> QED
  BY <1>1, <1>2

LEMMA ModeFacts ==
    ASSUME NEW a \in Apps
    PROVE  /\ ModesOf(a) \subseteq Modes /\ "dev" \in ModesOf(a)
           /\ a \notin DevOnly => ModesOf(a) = Modes /\ "prod" \in ModesOf(a)
BY DEF ModesOf, Modes

LEMMA StopStepsIn ==
    ASSUME NEW a \in Apps, NEW m \in ModesOf(a) \cup {"all"}
    PROVE  StopSteps(a, m) \in Seq(Possible(a))
<1> DEFINE In(x) == OnServices("stop", a, x, ClientThenServer) \o OnPorts("kill", a, x)
<1>1. ASSUME NEW x \in ModesOf(a) PROVE In(x) \in Seq(Possible(a))
  <2>1. OnServices("stop", a, x, ClientThenServer) \in Seq(Possible(a))
    BY OnServicesIn
  <2>2. OnPorts("kill", a, x) \in Seq(Possible(a))
    BY OnPortsIn, ModeFacts
  <2> QED
    BY <2>1, <2>2, Joined
<1>2. StopSteps(a, m) = IF m # "all" THEN In(m)
                        ELSE IF a \in DevOnly THEN In("dev") ELSE In("prod") \o In("dev")
  BY DEF StopSteps, InModes
<1> HIDE DEF In
<1>3. CASE m # "all"
  BY <1>1, <1>2, <1>3
<1>4. CASE m = "all" /\ a \in DevOnly
  BY <1>1, <1>2, <1>4, ModeFacts
<1>5. CASE m = "all" /\ a \notin DevOnly
  <2>1. In("prod") \in Seq(Possible(a)) /\ In("dev") \in Seq(Possible(a))
    BY <1>1, <1>5, ModeFacts
  <2> QED
    BY <1>2, <1>5, <2>1, Joined
<1> QED
  BY <1>3, <1>4, <1>5

LEMMA DisableStepsIn ==
    ASSUME NEW a \in Apps, NEW m \in ModesOf(a) \cup {"all"}
    PROVE  DisableSteps(a, m) \in Seq(Possible(a))
<1> DEFINE In(x) == OnServices("disable", a, x, ClientThenServer)
<1>1. ASSUME NEW x \in ModesOf(a) PROVE In(x) \in Seq(Possible(a))
  BY OnServicesIn
<1>2. DisableSteps(a, m) = IF m # "all" THEN In(m)
                           ELSE IF a \in DevOnly THEN In("dev") ELSE In("prod") \o In("dev")
  BY DEF DisableSteps, InModes
<1> HIDE DEF In
<1>3. CASE m # "all"
  BY <1>1, <1>2, <1>3
<1>4. CASE m = "all" /\ a \in DevOnly
  BY <1>1, <1>2, <1>4, ModeFacts
<1>5. CASE m = "all" /\ a \notin DevOnly
  <2>1. In("prod") \in Seq(Possible(a)) /\ In("dev") \in Seq(Possible(a))
    BY <1>1, <1>5, ModeFacts
  <2> QED
    BY <1>2, <1>5, <2>1, Joined
<1> QED
  BY <1>3, <1>4, <1>5

LEMMA RestartStepsIn ==
    ASSUME NEW a \in Apps, NEW m \in ModesOf(a)
    PROVE  RestartSteps(a, m) \in Seq(Possible(a))
<1>1. OnServices("stop", a, m, ClientThenServer) \in Seq(Possible(a))
  BY OnServicesIn
<1>2. OnPorts("wait", a, m) \in Seq(Possible(a))
  BY OnPortsIn, ModeFacts
<1>3. OnServices("restart", a, m, ServerThenClient) \in Seq(Possible(a))
  BY OnServicesIn
<1>4. OnServices("stop", a, m, ClientThenServer) \o OnPorts("wait", a, m) \in Seq(Possible(a))
  BY <1>1, <1>2, Joined
<1> QED
  BY <1>3, <1>4, Joined DEF RestartSteps

LEMMA InstallStepsIn ==
    ASSUME NEW a \in Apps
    PROVE  InstallSteps(a) \in Seq(Possible(a))
<1> DEFINE ms == IF a \in DevOnly THEN <<"dev">> ELSE <<"dev", "prod">>
           ps == PartsInOrder(a, ClientThenServer)
           Of(p) == [i \in DOMAIN ms |-> Step("install", Service(a, p, ms[i]))]
<1>1. ms \in Seq(ModesOf(a))
  <2>1. CASE a \in DevOnly
    <3>1. <<"dev">> \in Seq({"dev"})
      OBVIOUS
    <3> QED
      BY <2>1, <3>1 DEF ModesOf
  <2>2. CASE a \notin DevOnly
    <3>1. <<"dev", "prod">> \in Seq({"dev", "prod"})
      OBVIOUS
    <3> QED
      BY <2>2, <3>1 DEF ModesOf, Modes
  <2> QED
    BY <2>1, <2>2
<1>2. ASSUME NEW p \in PartsOf(a) PROVE Of(p) \in Seq(Possible(a))
  <2> HIDE DEF ms
  <2>1. Len(ms) \in Nat /\ DOMAIN ms = 1 .. Len(ms)
    BY <1>1
  <2>2. ASSUME NEW i \in 1 .. Len(ms) PROVE Step("install", Service(a, p, ms[i])) \in Possible(a)
    <3>1. ms[i] \in ModesOf(a)
      BY <1>1, <2>1
    <3> QED
      BY <3>1, ServiceIn, PossibleService
  <2>3. [i \in 1 .. Len(ms) |-> Step("install", Service(a, p, ms[i]))] \in Seq(Possible(a))
    BY <2>1, <2>2, IsASeq
  <2> QED
    BY <2>1, <2>3
<1>3. "client" \in PartsOf(a)
  BY DEF PartsOf, Parts
<1>4. InstallSteps(a) = IF Len(ps) = 1 THEN Of("client") ELSE Of("client") \o Of("server")
  BY DEF InstallSteps
<1> HIDE DEF Of
<1>5. CASE Len(ps) = 1
  BY <1>2, <1>3, <1>4, <1>5
<1>6. CASE Len(ps) # 1
  <2>1. "server" \in PartsOf(a)
    BY <1>6 DEF PartsInOrder, PartsOf, Parts
  <2>2. Of("client") \in Seq(Possible(a)) /\ Of("server") \in Seq(Possible(a))
    BY <1>2, <1>3, <2>1
  <2> QED
    BY <1>4, <1>6, <2>2, Joined
<1> QED
  BY <1>5, <1>6

\* The steps of every command that is not rejected are possible ones.
LEMMA StepsIn ==
    ASSUME NEW c, IsCommand(c), ~Rejected(c)
    PROVE  StepsOf(c) \in Seq(Possible(c.app))
<1>1. c.app \in Apps /\ c.mode \in ModesOf(c.app) \cup {"all"}
      /\ (c.mode = "all" => c.cmd \in {"stopApp", "disableApp", "installAppServices"})
  BY DEF IsCommand, Rejected, ModesOf, Modes
<1>2. CASE c.cmd = "startApp"
  BY <1>1, <1>2, OnServicesIn DEF StepsOf, StartSteps
<1>3. CASE c.cmd = "stopApp"
  BY <1>1, <1>3, StopStepsIn DEF StepsOf
<1>4. CASE c.cmd = "restartApp"
  BY <1>1, <1>4, RestartStepsIn DEF StepsOf
<1>5. CASE c.cmd = "enableApp"
  BY <1>1, <1>5, OnServicesIn DEF StepsOf, EnableSteps
<1>6. CASE c.cmd = "disableApp"
  BY <1>1, <1>6, DisableStepsIn DEF StepsOf
<1>7. CASE c.cmd = "buildApp"
  BY <1>1, <1>7, BuildStepsIn, ModeFacts DEF StepsOf
<1>8. CASE c.cmd = "installAppServices"
  BY <1>1, <1>8, InstallStepsIn DEF StepsOf
<1> QED
  BY <1>2, <1>3, <1>4, <1>5, <1>6, <1>7, <1>8 DEF IsCommand

-----------------------------------------------------------------------------
(* The steps of a deploy *)

Without(q) == \A i \in 1 .. Len(q) : q[i].op # "checkout"

LEMMA ConcatFacts ==
    ASSUME NEW S, NEW q \in Seq(S), NEW r \in Seq(S)
    PROVE  /\ Len(q) \in Nat /\ Len(r) \in Nat
           /\ q \o r \in Seq(S) /\ Len(q \o r) = Len(q) + Len(r)
           /\ \A i \in 1 .. Len(q) : (q \o r)[i] = q[i]
           /\ \A i \in 1 .. Len(r) : (q \o r)[Len(q) + i] = r[i]
OBVIOUS

LEMMA OccursIn ==
    ASSUME NEW S, NEW q \in Seq(S), NEW r \in Seq(S), NEW x, Occurs(q, x) \/ Occurs(r, x)
    PROVE  Occurs(q \o r, x)
<1>1. CASE Occurs(q, x)
  <2>1. PICK i \in 1 .. Len(q) : q[i] = x
    BY <1>1 DEF Occurs
  <2>2. i \in 1 .. Len(q \o r) /\ (q \o r)[i] = x
    BY <2>1, ConcatFacts
  <2> QED
    BY <2>2 DEF Occurs
<1>2. CASE Occurs(r, x)
  <2>1. PICK i \in 1 .. Len(r) : r[i] = x
    BY <1>2 DEF Occurs
  <2>2. Len(q) + i \in 1 .. Len(q \o r) /\ (q \o r)[Len(q) + i] = x
    BY <2>1, ConcatFacts
  <2> QED
    BY <2>2 DEF Occurs
<1> QED
  BY <1>1, <1>2

LEMMA TidyJoined ==
    ASSUME NEW S, NEW q \in Seq(S), NEW r \in Seq(S), q # <<>>, Tidy(q), Without(r)
    PROVE  q \o r # <<>> /\ Tidy(q \o r) /\ (q \o r)[1] = q[1]
<1>1. Len(q) \in Nat \ {0}
  OBVIOUS
<1>2. q \o r # <<>> /\ (q \o r)[1] = q[1]
  BY <1>1, ConcatFacts
<1>3. ASSUME NEW i \in 2 .. Len(q \o r) PROVE (q \o r)[i].op # "checkout"
  <2>1. CASE i <= Len(q)
    <3>1. i \in 2 .. Len(q) /\ i \in 1 .. Len(q)
      BY <1>1, <2>1
    <3> QED
      BY <3>1, ConcatFacts DEF Tidy
  <2>2. CASE ~(i <= Len(q))
    <3>1. i - Len(q) \in 1 .. Len(r) /\ Len(q) + (i - Len(q)) = i
      BY <1>1, <2>2, ConcatFacts
    <3>2. (q \o r)[i] = r[i - Len(q)]
      BY <3>1, ConcatFacts
    <3> QED
      BY <3>1, <3>2 DEF Without
  <2> QED
    BY <2>1, <2>2
<1> QED
  BY <1>2, <1>3 DEF Tidy

LEMMA OnServicesWithout ==
    ASSUME NEW a \in Apps, NEW m \in ModesOf(a), NEW op \in {"start", "stop"},
           NEW order \in {ClientThenServer, ServerThenClient}
    PROVE  Without(OnServices(op, a, m, order))
<1> DEFINE q == OnServices(op, a, m, order)
<1>1. q \in Seq(Possible(a))
  BY OnServicesIn
<1>2. \A i \in DOMAIN q : q[i].op = op
  BY DEF OnServices, Step
<1>3. DOMAIN q = 1 .. Len(q)
  BY <1>1
<1> HIDE DEF q
<1>4. Without(q)
  BY <1>2, <1>3 DEF Without
<1> QED
  BY <1>4 DEF q

LEMMA OnPortWithout ==
    ASSUME NEW a \in Apps
    PROVE  Without(OnPort("wait", a, "client", "prod"))
BY DEF OnPort, Without, Step

LEMMA BuildWithout ==
    ASSUME NEW a \in Apps
    PROVE  Without(BuildSteps(a, "prod"))
BY DEF BuildSteps, Without, Step

\* stopApp's order has every part.
LEMMA StopsAll ==
    ASSUME NEW a \in Apps, "prod" \in ModesOf(a), NEW s \in ProdServices(a)
    PROVE  Occurs(OnServices("stop", a, "prod", ClientThenServer), Step("stop", s))
<1> DEFINE ps == PartsInOrder(a, ClientThenServer)
           q == OnServices("stop", a, "prod", ClientThenServer)
<1>1. PICK p \in PartsOf(a), m \in ModesOf(a) : s = Service(a, p, m)
  BY DEF ProdServices, ServicesOf
<1>2. s = Service(a, p, "prod")
  BY <1>1 DEF ProdServices, Service
<1>3. \E i \in DOMAIN ps : ps[i] = p
  <2>1. CASE a \in HasServer
    <3>1. ps = <<"client", "server">> /\ p \in {"client", "server"}
      BY <2>1 DEF PartsInOrder, ClientThenServer, PartsOf, Parts
    <3>2. 1 \in DOMAIN ps /\ 2 \in DOMAIN ps /\ ps[1] = "client" /\ ps[2] = "server"
      BY <3>1
    <3> QED
      BY <3>1, <3>2
  <2>2. CASE a \notin HasServer
    <3>1. ps = <<"client">> /\ p = "client"
      BY <2>2 DEF PartsInOrder, PartsOf
    <3>2. 1 \in DOMAIN ps /\ ps[1] = "client"
      BY <3>1
    <3> QED
      BY <3>1, <3>2
  <2> QED
    BY <2>1, <2>2
<1>4. PICK i \in DOMAIN ps : ps[i] = p
  BY <1>3
<1>5. i \in DOMAIN q /\ q[i] = Step("stop", s)
  BY <1>2, <1>4 DEF OnServices
<1>6. q \in Seq(Possible(a))
  BY OnServicesIn
<1>7. DOMAIN q = 1 .. Len(q)
  BY <1>6
<1> QED
  BY <1>5, <1>7 DEF Occurs

LEMMA DeployStepsFacts ==
    ASSUME NEW a \in Apps \ DevOnly, NEW c \in Commits, NEW q, q = DeploySteps(a, c)
    PROVE  /\ q \in Seq(Possible(a)) /\ q # <<>> /\ Tidy(q)
           /\ \A s \in ProdServices(a) : Occurs(q, Step("stop", s))
           /\ a \in Buildable => Occurs(q, Step("build", "prod"))
<1> DEFINE S == Possible(a)
           q1 == <<Step("checkout", c)>>
           b == BuildSteps(a, "prod")
           q2 == q1 \o b
           x == OnServices("stop", a, "prod", ClientThenServer)
           q3 == q2 \o x
           w == OnPort("wait", a, "client", "prod")
           q4 == q3 \o w
           t == OnServices("start", a, "prod", ServerThenClient)
<1>1. "prod" \in ModesOf(a)
  BY ModeFacts
<1>2. q1 \in Seq(S) /\ q1 # <<>> /\ Tidy(q1)
  <2>1. Step("checkout", c) \in S
    BY DEF Possible
  <2> QED
    BY <2>1 DEF Tidy
<1>3. b \in Seq(S) /\ Without(b)
  BY BuildStepsIn, BuildWithout DEF Modes
<1>4. x \in Seq(S) /\ Without(x) /\ t \in Seq(S) /\ Without(t)
  BY <1>1, OnServicesIn, OnServicesWithout
<1>5. w \in Seq(S) /\ Without(w)
  BY OnPortIn, OnPortWithout DEF Modes, Parts
<1>6. q = q4 \o t
  BY DEF DeploySteps
<1>7. a \in Buildable => Occurs(b, Step("build", "prod"))
  BY DEF BuildSteps, Occurs
<1>8. \A s \in ProdServices(a) : Occurs(x, Step("stop", s))
  BY <1>1, StopsAll
<1> HIDE DEF S, q1, b, x, w, t
<1>9. q2 \in Seq(S) /\ q2 # <<>> /\ Tidy(q2)
  BY <1>2, <1>3, TidyJoined, Joined
<1>10. a \in Buildable => Occurs(q2, Step("build", "prod"))
  BY <1>2, <1>3, <1>7, OccursIn
<1> HIDE DEF q2
<1>11. q3 \in Seq(S) /\ q3 # <<>> /\ Tidy(q3)
  BY <1>4, <1>9, TidyJoined, Joined
<1>12. /\ a \in Buildable => Occurs(q3, Step("build", "prod"))
       /\ \A s \in ProdServices(a) : Occurs(q3, Step("stop", s))
  BY <1>4, <1>8, <1>9, <1>10, OccursIn
<1> HIDE DEF q3
<1>13. q4 \in Seq(S) /\ q4 # <<>> /\ Tidy(q4)
  BY <1>5, <1>11, TidyJoined, Joined
<1>14. /\ a \in Buildable => Occurs(q4, Step("build", "prod"))
       /\ \A s \in ProdServices(a) : Occurs(q4, Step("stop", s))
  BY <1>5, <1>11, <1>12, OccursIn
<1> HIDE DEF q4
<1>15. q \in Seq(S) /\ q # <<>> /\ Tidy(q)
  BY <1>4, <1>6, <1>13, TidyJoined, Joined
<1>16. /\ a \in Buildable => Occurs(q, Step("build", "prod"))
       /\ \A s \in ProdServices(a) : Occurs(q, Step("stop", s))
  BY <1>4, <1>6, <1>13, <1>14, OccursIn
<1> QED
  BY <1>15, <1>16 DEF S

-----------------------------------------------------------------------------
(* What a step leaves alone *)

LEMMA Frames ==
    ASSUME ServicesInv
    PROVE  /\ budget' = budget => BudgetInv'
           /\ again' = again => AgainInv'
           /\ UNCHANGED <<rows, settings, forced>> => SettingsInv'
           /\ UNCHANGED units => UnitInv'
           /\ UNCHANGED <<proc, foreign>> => ProcInv'
           /\ UNCHANGED <<proc, stopped>> => StoppedInv'
           /\ UNCHANGED <<trees, unfinished>> => TreeTypes'
           /\ UNCHANGED <<trees, unfinished, proc>> => TreeInv'
           /\ UNCHANGED <<job, settings>> => JobInv'
           /\ UNCHANGED <<job, proc, prod>> => DeployInv'
<1>1. budget' = budget => BudgetInv'
  BY DEF ServicesInv, BudgetInv
<1>2. again' = again => AgainInv'
  BY DEF ServicesInv, AgainInv
<1>3. UNCHANGED <<rows, settings, forced>> => SettingsInv'
  BY DEF ServicesInv, SettingsInv
<1>4. UNCHANGED units => UnitInv'
  BY DEF ServicesInv, UnitInv, units
<1>5. UNCHANGED <<proc, foreign>> => ProcInv'
  BY DEF ServicesInv, ProcInv
<1>6. UNCHANGED <<proc, stopped>> => StoppedInv'
  BY DEF ServicesInv, StoppedInv
<1>7. UNCHANGED <<trees, unfinished>> => TreeTypes'
  BY DEF ServicesInv, TreeInv, TreeTypes, trees
<1>8. UNCHANGED <<trees, unfinished, proc>> => TreeInv'
  BY <1>7 DEF ServicesInv, TreeInv, Built, Fresh, trees
<1>9. UNCHANGED <<job, settings>> => JobInv'
  BY DEF ServicesInv, JobInv, Possible
<1>10. UNCHANGED <<job, proc, prod>> => DeployInv'
  BY DEF ServicesInv, DeployInv, Pending, Fresh, Built
<1> QED
  BY <1>1, <1>2, <1>3, <1>4, <1>5, <1>6, <1>7, <1>8, <1>9, <1>10

\* A budget of which a part is spent.
LEMMA BudgetShrinks ==
    ASSUME NEW b, IsBudget(b), NEW d, d = [f \in BudgetFields |-> d[f]],
           {d.count, d.faults, d.edits, d.losses, d.reboots} \subseteq Nat,
           d.rows = b.rows, d.settings = b.settings, d.ports \subseteq b.ports,
           d.deploys = b.deploys, d.changes = b.changes, d.uninstalls \subseteq b.uninstalls,
           d.commands = b.commands, d.remote \subseteq b.remote, d.sets = b.sets,
           d.installs \subseteq b.installs, d.leaderApps = b.leaderApps
    PROVE  IsBudget(d)
BY DEF IsBudget

LEMMA SpendKeeps ==
    ASSUME BudgetInv, NEW f \in {"count", "faults", "edits", "losses", "reboots"}, Spend(f)
    PROVE  BudgetInv'
<1> DEFINE b == budget
           d == budget'
<1>1. IsBudget(b) /\ d = [b EXCEPT ![f] = b[f] - 1] /\ b[f] > 0
  BY DEF BudgetInv, Spend
<1>2. b = [g \in BudgetFields |-> b[g]]
  BY <1>1 DEF IsBudget
<1>3. DOMAIN b = BudgetFields
  BY <1>2
<1> HIDE DEF b, d
<1>4. \A g \in BudgetFields : d[g] = IF g = f THEN b[f] - 1 ELSE b[g]
  BY <1>1, <1>3
<1>5. d = [g \in BudgetFields |-> d[g]]
  BY <1>1, <1>3
<1>6. {b.count, b.faults, b.edits, b.losses, b.reboots} \subseteq Nat
  BY <1>1 DEF IsBudget
<1>7. b[f] \in Nat /\ b[f] - 1 \in Nat
  <2>1. b[f] \in Nat
    BY <1>6
  <2> QED
    BY <1>1, <2>1
<1>8. {d.count, d.faults, d.edits, d.losses, d.reboots} \subseteq Nat
  BY <1>4, <1>6, <1>7 DEF BudgetFields
<1>9. /\ d.rows = b.rows /\ d.settings = b.settings /\ d.ports = b.ports
      /\ d.deploys = b.deploys /\ d.changes = b.changes /\ d.uninstalls = b.uninstalls
      /\ d.commands = b.commands /\ d.remote = b.remote /\ d.sets = b.sets
      /\ d.installs = b.installs /\ d.leaderApps = b.leaderApps
  BY <1>4 DEF BudgetFields
<1>10. IsBudget(d)
  BY <1>1, <1>5, <1>8, <1>9, BudgetShrinks
<1> QED
  BY <1>10 DEF BudgetInv, d

LEMMA OnceKeeps ==
    ASSUME BudgetInv, NEW f \in {"ports", "remote", "installs", "uninstalls"}, NEW x,
           budget' = [budget EXCEPT ![f] = @ \ {x}]
    PROVE  BudgetInv'
<1> DEFINE b == budget
           d == budget'
<1>1. IsBudget(b) /\ d = [b EXCEPT ![f] = b[f] \ {x}]
  BY DEF BudgetInv
<1>2. b = [g \in BudgetFields |-> b[g]]
  BY <1>1 DEF IsBudget
<1>3. DOMAIN b = BudgetFields
  BY <1>2
<1> HIDE DEF b, d
<1>4. \A g \in BudgetFields : d[g] = IF g = f THEN b[f] \ {x} ELSE b[g]
  BY <1>1, <1>3
<1>5. d = [g \in BudgetFields |-> d[g]]
  BY <1>1, <1>3
<1>6. /\ d.count = b.count /\ d.faults = b.faults /\ d.edits = b.edits /\ d.losses = b.losses
      /\ d.reboots = b.reboots
  BY <1>4 DEF BudgetFields
<1>7. {d.count, d.faults, d.edits, d.losses, d.reboots} \subseteq Nat
  BY <1>1, <1>6 DEF IsBudget
<1>8. /\ d.rows = b.rows /\ d.settings = b.settings
      /\ d.deploys = b.deploys /\ d.changes = b.changes
      /\ d.commands = b.commands /\ d.sets = b.sets /\ d.leaderApps = b.leaderApps
  BY <1>4 DEF BudgetFields
<1>9. /\ d.ports \subseteq b.ports /\ d.uninstalls \subseteq b.uninstalls
      /\ d.remote \subseteq b.remote /\ d.installs \subseteq b.installs
  BY <1>4 DEF BudgetFields
<1>10. IsBudget(d)
  BY <1>1, <1>5, <1>7, <1>8, <1>9, BudgetShrinks
<1> QED
  BY <1>10 DEF BudgetInv, d

-----------------------------------------------------------------------------
(* A command goes on *)

LEMMA AdvanceFacts ==
    ASSUME JobInv, job # NoJob, Advance
    PROVE  /\ Next1 = job.steps[1] /\ Next1 \in Possible(job.app) /\ job.app \in Apps
           /\ Len(job.steps) \in Nat \ {0}
           /\ \/ Ended /\ job' = NoJob
              \/ /\ ~Ended /\ job' = [app |-> job.app, cmd |-> job.cmd, steps |-> Tail(job.steps)]
                 /\ Tail(job.steps) \in Seq(Possible(job.app)) /\ Tail(job.steps) # <<>>
                 /\ Len(Tail(job.steps)) = Len(job.steps) - 1
                 /\ \A i \in 1 .. Len(job.steps) - 1 : Tail(job.steps)[i] = job.steps[i + 1]
<1> DEFINE q == job.steps
           S == Possible(job.app)
<1>1. q \in Seq(S) /\ q # <<>> /\ job.app \in Apps
      /\ job = [app |-> job.app, cmd |-> job.cmd, steps |-> q]
  BY DEF JobInv
<1>2. job' = IF Len(q) = 1 THEN NoJob
             ELSE [app |-> job.app, cmd |-> job.cmd, steps |-> Tail(q)]
  BY DEF Advance
<1> HIDE DEF q, S
<1>4. Len(q) \in Nat \ {0} /\ Head(q) = q[1] /\ q[1] \in S
  BY <1>1
<1>5. ASSUME Len(q) # 1
      PROVE  /\ Tail(q) \in Seq(S) /\ Tail(q) # <<>> /\ Len(Tail(q)) = Len(q) - 1
             /\ \A i \in 1 .. Len(q) - 1 : Tail(q)[i] = q[i + 1]
  <2>1. Tail(q) \in Seq(S) /\ Len(Tail(q)) = Len(q) - 1
    BY <1>1, HeadTailProperties
  <2>2. \A i \in 1 .. Len(q) - 1 : Tail(q)[i] = q[i + 1]
    BY <1>1, <2>1, HeadTailProperties
  <2>3. Len(Tail(q)) # 0
    BY <1>4, <1>5, <2>1
  <2>4. Tail(q) # <<>>
    BY <2>1, <2>3, EmptySeq
  <2> QED
    BY <2>1, <2>2, <2>4
<1> QED
  BY <1>1, <1>2, <1>4, <1>5 DEF q, S, Next1, Ended

\* No setting changes while a command is executed.
LEMMA JobKeeps ==
    ASSUME JobInv, settings' = settings,
           job' = NoJob \/ job' = job \/ (job # NoJob /\ Advance)
    PROVE  JobInv'
<1>1. \A a : Possible(a)' = Possible(a)
  BY DEF Possible
<1>2. CASE job' = NoJob
  BY <1>2 DEF JobInv, NoJob
<1>3. CASE job' = job
  BY <1>1, <1>3 DEF JobInv
<1>4. CASE job # NoJob /\ Advance
  <2>1. CASE job' = NoJob
    BY <1>2, <2>1
  <2>2. CASE /\ job' = [app |-> job.app, cmd |-> job.cmd, steps |-> Tail(job.steps)]
             /\ Tail(job.steps) \in Seq(Possible(job.app)) /\ Tail(job.steps) # <<>>
    <3>1. job'.app = job.app /\ job'.cmd = job.cmd /\ job'.steps = Tail(job.steps)
      BY <2>2
    <3>2. Possible(job.app)' = Possible(job.app)
      BY <3>1 DEF Possible
    <3>3. job.app \in Apps
      BY <1>4 DEF JobInv
    <3> QED
      BY <2>2, <3>1, <3>2, <3>3 DEF JobInv
  <2> QED
    BY <1>4, <2>1, <2>2, AdvanceFacts
<1> QED
  BY <1>2, <1>3, <1>4

\* A step that stays pending when another one is taken.
LEMMA PendingStays ==
    ASSUME JobInv, job # NoJob, Advance, job' # NoJob, NEW x, Pending(x), Next1 # x
    PROVE  Pending(x)'
<1>1. PICK i \in 1 .. Len(job.steps) : job.steps[i] = x
  BY DEF Pending, Occurs
<1>2. i # 1 /\ Len(job.steps) \in Nat
  BY <1>1, AdvanceFacts
<1>3. i - 1 \in 1 .. Len(job.steps) - 1 /\ (i - 1) + 1 = i
  BY <1>2
<1>4. job'.steps = Tail(job.steps) /\ Len(Tail(job.steps)) = Len(job.steps) - 1
  <2>1. /\ job' = [app |-> job.app, cmd |-> job.cmd, steps |-> Tail(job.steps)]
        /\ Len(Tail(job.steps)) = Len(job.steps) - 1
    BY AdvanceFacts
  <2> QED
    BY <2>1
<1>5. Tail(job.steps)[i - 1] = job.steps[i]
  BY <1>3, AdvanceFacts
<1> QED
  BY <1>1, <1>3, <1>4, <1>5 DEF Pending, Occurs

LEMMA TidyStays ==
    ASSUME JobInv, job # NoJob, Advance, job' # NoJob, Tidy(job.steps)
    PROVE  Tidy(job.steps)' /\ job'.steps[1].op # "checkout"
<1>1. /\ Len(job'.steps) = Len(job.steps) - 1 /\ Len(job.steps) \in Nat \ {0}
      /\ \A i \in 1 .. Len(job.steps) - 1 : job'.steps[i] = job.steps[i + 1]
  BY AdvanceFacts
<1>2. Len(job.steps) # 1
  BY AdvanceFacts DEF Ended
<1>3. ASSUME NEW i \in 1 .. Len(job.steps) - 1 PROVE job'.steps[i].op # "checkout"
  <2>1. i + 1 \in 2 .. Len(job.steps)
    BY <1>1
  <2> QED
    BY <1>1, <2>1 DEF Tidy
<1>4. 1 \in 1 .. Len(job.steps) - 1
  <2>1. \A n \in Nat \ {0} : n # 1 => 1 \in 1 .. n - 1
    OBVIOUS
  <2> QED
    BY <1>1, <1>2, <2>1
<1>5. \A i \in 2 .. Len(job'.steps) : i \in 1 .. Len(job.steps) - 1
  BY <1>1
<1> QED
  BY <1>3, <1>4, <1>5 DEF Tidy

LEMMA JobNext ==
    ASSUME JobInv, job # NoJob, Advance, job' # NoJob
    PROVE  job'.app = job.app /\ job'.cmd = job.cmd /\ job.app \in Apps
<1>1. job' = [app |-> job.app, cmd |-> job.cmd, steps |-> Tail(job.steps)] /\ job.app \in Apps
  BY AdvanceFacts
<1> QED
  BY <1>1

LEMMA NoDeploy ==
    ASSUME job' = NoJob
    PROVE  DeployInv'
BY DEF DeployInv, NoJob

LEMMA DeployStays ==
    ASSUME DeployInv, job' = job, NEW a, a = job.app, Built(a) => Built(a)',
           \A s \in ProdServices(a) : Fresh(s) => Fresh(s)'
    PROVE  DeployInv'
<1>1. \A x : Pending(x)' = Pending(x)
  BY DEF Pending
<1> QED
  BY <1>1 DEF DeployInv, Built

\* A deploy goes on: what it stops or builds is of the commit.
LEMMA DeployAdvances ==
    ASSUME JobInv, DeployInv, job # NoJob, Advance, Next1.op # "checkout", NEW a, a = job.app,
           \A s \in ProdServices(a) : Fresh(s) \/ Next1 = Step("stop", s) => Fresh(s)',
           Built(a) \/ Next1 = Step("build", "prod") => Built(a)'
    PROVE  DeployInv'
<1>1. CASE job' = NoJob
  BY <1>1, NoDeploy
<1>2. CASE job' # NoJob /\ job.cmd = "deployToProd"
  <2>1. job'.app = a /\ job'.cmd = job.cmd
    BY <1>2, JobNext
  <2>2. /\ \A s \in ProdServices(a) : Pending(Step("stop", s)) \/ Fresh(s)
        /\ Pending(Step("build", "prod")) \/ Built(a)
        /\ Tidy(job.steps)
    BY <1>2 DEF DeployInv
  <2>3. Tidy(job.steps)' /\ job'.steps[1].op # "checkout"
    BY <1>2, <2>2, TidyStays
  <2>4. ASSUME NEW s \in ProdServices(a) PROVE Pending(Step("stop", s))' \/ Fresh(s)'
    BY <1>2, <2>2, PendingStays
  <2>5. Pending(Step("build", "prod"))' \/ Built(a)'
    BY <1>2, <2>2, PendingStays
  <2>6. Built(job.app)' = Built(a)'
    BY <2>1 DEF Built
  <2> QED
    BY <2>1, <2>3, <2>4, <2>5, <2>6 DEF DeployInv
<1>3. CASE job' # NoJob /\ job.cmd # "deployToProd"
  BY <1>3, JobNext DEF DeployInv
<1> QED
  BY <1>1, <1>2, <1>3

\* It begins with the checkout.
LEMMA DeployChecksOut ==
    ASSUME JobInv, DeployInv, job # NoJob, Advance, Next1.op = "checkout", TreeTypes'
    PROVE  DeployInv'
<1>1. CASE job' = NoJob
  BY <1>1, NoDeploy
<1>2. CASE job' # NoJob /\ job.cmd = "deployToProd"
  <2> DEFINE a == job.app
  <2>1. job'.app = a /\ job'.cmd = job.cmd /\ a \in Apps
    BY <1>2, JobNext
  <2>2. Next1 = job.steps[1]
    BY AdvanceFacts
  <2>3. /\ \A s \in ProdServices(a) : Pending(Step("stop", s))
        /\ a \in Buildable => Pending(Step("build", "prod"))
        /\ Tidy(job.steps)
    BY <1>2, <2>2 DEF DeployInv
  <2>4. Tidy(job.steps)' /\ job'.steps[1].op # "checkout"
    BY <1>2, <2>3, TidyStays
  <2>5. \A x : Step("stop", x) # Next1
    BY DEF Step
  <2>6. ASSUME NEW s \in ProdServices(a) PROVE Pending(Step("stop", s))'
    BY <1>2, <2>3, <2>5, PendingStays
  <2>7. Step("build", "prod") # Next1
    BY DEF Step
  <2>8. Pending(Step("build", "prod"))' \/ Built(job.app)'
    <3>1. CASE a \in Buildable
      BY <1>2, <2>3, <2>7, <3>1, PendingStays
    <3>2. CASE a \notin Buildable
      BY <2>1, <3>2 DEF TreeTypes, Trees, Built
    <3> QED
      BY <3>1, <3>2
  <2> QED
    BY <2>1, <2>4, <2>6, <2>8 DEF DeployInv
<1>3. CASE job' # NoJob /\ job.cmd # "deployToProd"
  BY <1>3, JobNext DEF DeployInv
<1> QED
  BY <1>1, <1>2, <1>3

-----------------------------------------------------------------------------
(* Processes *)

Waiting == [Off EXCEPT !.st = "waiting"]

ProcRecords == [st : {"off", "starting", "up", "waiting"}, port : Ports \cup {None},
                commit : 0 .. MaxCommit]

\* Services are left alone, stopped, killed or started: none takes a port.
Moves ==
    /\ proc' \in [Services -> ProcRecords]
    /\ \A s \in Services : proc'[s] \in {proc[s], Off, Waiting, Launched(s)}

LEMMA RecordFacts ==
    /\ Off \in ProcRecords /\ Off.st = "off"
    /\ Waiting \in ProcRecords /\ Waiting.st = "waiting"
<1>1. 0 \in 0 .. MaxCommit
  BY ConstantsAssumption
<1>2. Off \in ProcRecords /\ Off.st = "off"
  BY <1>1 DEF Off, ProcRecords
<1>3. Waiting \in ProcRecords /\ Waiting.st = "waiting"
  BY <1>1 DEF Waiting, Off, ProcRecords
<1> QED
  BY <1>2, <1>3

LEMMA LaunchedFacts ==
    ASSUME UnitInv, TreeTypes, NEW s \in Services
    PROVE  /\ Launched(s) \in ProcRecords /\ Launched(s).st = "starting"
           /\ s[3] = "prod" => Launched(s).commit = prod[s[1]].commit
<1>1. s[1] \in Apps
  BY ServiceFacts
<1>2. CommitOf(s) \in 0 .. MaxCommit
  BY <1>1 DEF CommitOf, TreeTypes, Trees
<1>3. unit[s].port \in Ports \cup {None}
  BY DEF UnitInv
<1>4. s[3] = "prod" => CommitOf(s) = prod[s[1]].commit
  BY DEF CommitOf
<1> QED
  BY <1>2, <1>3, <1>4 DEF Launched, ProcRecords

LEMMA MovesKeepProcs ==
    ASSUME ProcInv, UnitInv, TreeTypes, Moves, foreign' \subseteq foreign
    PROVE  ProcInv'
<1>1. ASSUME NEW s \in Services, proc'[s].st = "up" PROVE proc'[s] = proc[s]
  BY <1>1, RecordFacts, LaunchedFacts DEF Moves
<1>2. proc' \in [Services -> ProcRecords]
  BY DEF Moves
<1> QED
  BY <1>1, <1>2 DEF ProcInv, ProcRecords

LEMMA MovesKeepFresh ==
    ASSUME UnitInv, TreeTypes, Moves, prod' = prod, NEW s \in Services, s[3] = "prod", Fresh(s)
    PROVE  Fresh(s)'
<1>1. CASE proc'[s] = proc[s]
  BY <1>1 DEF Fresh
<1>2. CASE proc'[s] = Off \/ proc'[s] = Waiting
  BY <1>2, RecordFacts DEF Fresh
<1>3. CASE proc'[s] = Launched(s)
  BY <1>3, LaunchedFacts DEF Fresh
<1> QED
  BY <1>1, <1>2, <1>3 DEF Moves

LEMMA MovesKeepTrees ==
    ASSUME TreeInv, UnitInv, Moves, UNCHANGED <<trees, unfinished>>
    PROVE  TreeInv'
<1>1. TreeTypes'
  BY DEF TreeInv, TreeTypes, trees
<1>2. ASSUME NEW a \in Apps \ unfinished PROVE Built(a)' /\ \A s \in ProdServices(a) : Fresh(s)'
  <2>1. Built(a)'
    BY <1>2 DEF TreeInv, Built, trees
  <2>2. ASSUME NEW s \in ProdServices(a) PROVE Fresh(s)'
    <3>1. s \in Services /\ s[3] = "prod"
      BY ServiceFacts DEF ProdServices
    <3> QED
      BY <3>1, MovesKeepFresh DEF TreeInv, trees
  <2> QED
    BY <2>1, <2>2
<1> QED
  BY <1>1, <1>2 DEF TreeInv

\* A command that moves processes and neither checks out nor builds.
LEMMA MovesKeepDeploy ==
    ASSUME JobInv, DeployInv, TreeTypes, UnitInv, Moves, prod' = prod,
           \/ job' = job \/ job' = NoJob
           \/ /\ job # NoJob /\ Advance /\ Next1.op \notin {"checkout", "build"}
              /\ \A s \in Services : Next1 = Step("stop", s) => proc'[s] = Off
    PROVE  DeployInv'
<1> DEFINE a == job.app
<1>1. CASE job' = NoJob
  BY <1>1, NoDeploy
<1>3. ASSUME a \in Apps, NEW s \in ProdServices(a) PROVE s \in Services /\ (Fresh(s) => Fresh(s)')
  <2>1. s \in Services /\ s[3] = "prod"
    BY <1>3, ServiceFacts DEF ProdServices
  <2> QED
    BY <2>1, MovesKeepFresh
<1>4. CASE job' = job
  <2>1. CASE job = NoJob
    BY <1>1, <1>4, <2>1
  <2>2. CASE job # NoJob
    <3>1. a \in Apps
      BY <2>2 DEF JobInv
    <3>2. prod' = prod
      OBVIOUS
    <3> QED
      BY <1>3, <1>4, <3>1, <3>2, DeployStays DEF Built
  <2> QED
    BY <2>1, <2>2
<1>5. CASE /\ job # NoJob /\ Advance /\ Next1.op \notin {"checkout", "build"}
           /\ \A s \in Services : Next1 = Step("stop", s) => proc'[s] = Off
  <2>1. a \in Apps
    BY <1>5 DEF JobInv
  <2>2. ASSUME NEW s \in ProdServices(a), Fresh(s) \/ Next1 = Step("stop", s) PROVE Fresh(s)'
    <3>1. CASE Fresh(s)
      BY <1>3, <2>1, <3>1
    <3>2. CASE Next1 = Step("stop", s)
      BY <1>3, <1>5, <2>1, <3>2, RecordFacts DEF Fresh
    <3> QED
      BY <2>2, <3>1, <3>2
  <2>3. Next1 # Step("build", "prod")
    BY <1>5 DEF Step
  <2>4. ASSUME NEW b, b = job.app PROVE DeployInv'
    <3>1. Built(b) => Built(b)'
      BY DEF Built
    <3> QED
      BY <1>5, <2>2, <2>3, <2>4, <3>1, DeployAdvances
  <2> QED
    BY <2>4
<1> QED
  BY <1>1, <1>4, <1>5

-----------------------------------------------------------------------------
(* systemd and the programs *)

LEMMA StartedMoves ==
    ASSUME ServicesInv, NEW s \in Services, NEW ps,
           ps \in [Services -> ProcRecords], \A t \in Services : ps[t] \in {proc[t], Off},
           proc' = Started(ps, s)
    PROVE  Moves
<1>1. \A t \in Services : Launched(t) \in ProcRecords
  BY LaunchedFacts DEF ServicesInv, TreeInv
<1>2. \A t \in Services : proc'[t] \in {ps[t], Launched(t)}
  BY DEF Started
<1>3. proc' = [t \in Services |-> proc'[t]]
  BY DEF Started
<1> QED
  BY <1>1, <1>2, <1>3 DEF Moves

\* A service that stopApp stopped is not started by way of another one.
LEMMA StartedStopped ==
    ASSUME StoppedInv, NEW s \in Services, NEW ps,
           ps \in [Services -> ProcRecords], \A t \in Services : ps[t] \in {proc[t], Off},
           proc' = Started(ps, s), stopped' \subseteq stopped \ {s}
    PROVE  StoppedInv'
<1>1. ASSUME NEW t \in stopped' PROVE proc'[t].st = "off" /\ t[3] # "both"
  <2>1. t \in Services /\ t # s /\ proc[t].st = "off" /\ t[3] # "both"
    BY <1>1 DEF StoppedInv
  <2>2. t \notin Wanted(s)
    BY <2>1, WantedFacts
  <2>3. proc'[t] = ps[t]
    BY <2>1, <2>2 DEF Started
  <2> QED
    BY <2>1, <2>3, RecordFacts
<1> QED
  BY <1>1 DEF StoppedInv

LEMMA KilledMoves ==
    ASSUME ServicesInv, NEW ss, proc' = Killed(proc, ss)
    PROVE  Moves
<1>1. \A t \in Services : proc'[t] \in {proc[t], Waiting}
  BY DEF Killed, Waiting
<1>2. proc' = [t \in Services |-> proc'[t]]
  BY DEF Killed
<1>3. proc \in [Services -> ProcRecords]
  BY DEF ServicesInv, ProcInv, ProcRecords
<1> QED
  BY <1>1, <1>2, <1>3, RecordFacts DEF Moves

LEMMA KilledStopped ==
    ASSUME StoppedInv, NEW ss, proc' = Killed(proc, ss), \A s \in ss : proc[s].st # "off",
           stopped' = stopped
    PROVE  StoppedInv'
<1>1. \A s \in stopped : s \in Services /\ s \notin ss
  BY DEF StoppedInv
<1>2. \A s \in stopped : proc'[s] = proc[s]
  BY <1>1 DEF Killed
<1> QED
  BY <1>2 DEF StoppedInv

LEMMA BindKeeps ==
    ASSUME ServicesInv, NEW s \in Services, Bind(s)
    PROVE  ServicesInv'
<1>1. /\ UNCHANGED <<budget, rows, settings, foreign, job, again>>
      /\ UNCHANGED units /\ UNCHANGED trees /\ UNCHANGED ghosts
  BY DEF Bind
<1>2. UNCHANGED <<forced, unfinished, stopped>>
  BY <1>1 DEF ghosts
<1>3. BudgetInv' /\ AgainInv' /\ SettingsInv' /\ UnitInv' /\ JobInv'
  BY <1>1, <1>2, Frames
<1>4. CASE proc' = Killed(proc, {s})
  <2>1. Moves
    BY <1>4, KilledMoves
  <2>2. ProcInv' /\ TreeInv' /\ DeployInv'
    BY <1>1, <1>2, <2>1, MovesKeepProcs, MovesKeepTrees, MovesKeepDeploy
       DEF ServicesInv, TreeInv, trees
  <2>3. StoppedInv'
    BY <1>2, <1>4, KilledStopped DEF Bind, ServicesInv
  <2> QED
    BY <1>3, <2>2, <2>3 DEF ServicesInv
<1>5. CASE /\ proc' = [proc EXCEPT ![s].st = "up"]
           /\ Held(proc, proc[s].port) = {} /\ proc[s].port \notin foreign /\ proc[s].commit # 0
  <2>1. proc[s].st = "starting" /\ proc \in [Services -> ProcRecords]
    BY DEF Bind, ServicesInv, ProcInv, ProcRecords
  <2>2. /\ proc' \in [Services -> ProcRecords]
        /\ proc'[s].st = "up" /\ proc'[s].port = proc[s].port /\ proc'[s].commit = proc[s].commit
        /\ \A t \in Services \ {s} : proc'[t] = proc[t]
    BY <1>5, <2>1 DEF ProcRecords
  <2>3. ProcInv'
    <3>1. \A t \in Services : proc[t].st = "up" /\ proc[s].port # None => proc[t].port # proc[s].port
      BY <1>5 DEF Held
    <3>2. \A t \in Services : proc[t].st = "up" =>
          /\ proc[t].commit # 0
          /\ proc[t].port # None => proc[t].port \notin foreign
          /\ \A u \in Services :
                proc[u].st = "up" /\ proc[u].port = proc[t].port /\ proc[t].port # None => u = t
      BY DEF ServicesInv, ProcInv
    <3>3. ASSUME NEW t \in Services, proc'[t].st = "up"
          PROVE  /\ proc'[t].commit # 0
                 /\ proc'[t].port # None => proc'[t].port \notin foreign
                 /\ \A u \in Services :
                      proc'[u].st = "up" /\ proc'[u].port = proc'[t].port /\ proc'[t].port # None => u = t
      BY <1>5, <2>2, <3>1, <3>2, <3>3
    <3> QED
      BY <1>1, <2>2, <3>3 DEF ProcInv, ProcRecords, ServicesInv
  <2>4. StoppedInv'
    BY <1>2, <2>1, <2>2 DEF StoppedInv, ServicesInv
  <2>5. ASSUME NEW t \in Services, Fresh(t) PROVE Fresh(t)'
    BY <1>1, <1>5, <2>1, <2>2, <2>5 DEF Fresh, trees
  <2>6. TreeInv'
    <3>1. TreeTypes'
      BY <1>1, <1>2, Frames
    <3>2. ASSUME NEW a \in Apps \ unfinished PROVE Built(a)' /\ \A t \in ProdServices(a) : Fresh(t)'
      <4>1. Built(a)'
        BY <1>1, <3>2 DEF ServicesInv, TreeInv, Built, trees
      <4> QED
        BY <2>5, <3>2, <4>1, ServiceFacts DEF ServicesInv, TreeInv, ProdServices
    <3> QED
      BY <1>2, <3>1, <3>2 DEF TreeInv
  <2>7. DeployInv'
    <3>1. CASE job = NoJob
      BY <1>1, <3>1, NoDeploy
    <3>2. CASE job # NoJob
      <4>1. job.app \in Apps
        BY <3>2 DEF ServicesInv, JobInv
      <4>2. ASSUME NEW b, b = job.app PROVE DeployInv'
        <5>1. Built(b) => Built(b)'
          BY <1>1 DEF Built, trees
        <5>2. \A t \in ProdServices(b) : Fresh(t) => Fresh(t)'
          BY <2>5, <4>1, <4>2, ServiceFacts DEF ProdServices
        <5> QED
          BY <1>1, <4>2, <5>1, <5>2, DeployStays DEF ServicesInv
      <4> QED
        BY <4>2
    <3> QED
      BY <3>1, <3>2
  <2> QED
    BY <1>3, <2>3, <2>4, <2>6, <2>7 DEF ServicesInv
<1> QED
  BY <1>4, <1>5 DEF Bind

LEMMA RelaunchKeeps ==
    ASSUME ServicesInv, NEW s \in Services, Relaunch(s)
    PROVE  ServicesInv'
<1>1. /\ UNCHANGED <<budget, rows, settings, foreign, job, again>>
      /\ UNCHANGED units /\ UNCHANGED trees /\ UNCHANGED ghosts
  BY DEF Relaunch
<1>2. UNCHANGED <<forced, unfinished, stopped>>
  BY <1>1 DEF ghosts
<1>3. BudgetInv' /\ AgainInv' /\ SettingsInv' /\ UnitInv' /\ JobInv'
  BY <1>1, <1>2, Frames
<1>4. proc \in [Services -> ProcRecords] /\ s \notin stopped
  BY DEF ServicesInv, ProcInv, ProcRecords, StoppedInv, Relaunch
<1>5. Moves /\ StoppedInv'
  <2>1. CASE proc' = Started(proc, s)
    <3>1. Moves
      BY <1>4, <2>1, StartedMoves
    <3>2. stopped' \subseteq stopped \ {s}
      BY <1>2, <1>4
    <3> QED
      BY <1>4, <2>1, <3>1, <3>2, StartedStopped DEF ServicesInv
  <2>2. CASE proc' = [proc EXCEPT ![s] = Off]
    <3>1. Moves
      BY <1>4, <2>2, RecordFacts DEF Moves
    <3> QED
      BY <1>2, <1>4, <2>2, <3>1, RecordFacts DEF StoppedInv, ServicesInv
  <2> QED
    BY <2>1, <2>2 DEF Relaunch
<1>6. ProcInv' /\ TreeInv' /\ DeployInv'
  BY <1>1, <1>2, <1>5, MovesKeepProcs, MovesKeepTrees, MovesKeepDeploy
     DEF ServicesInv, TreeInv, trees
<1> QED
  BY <1>3, <1>5, <1>6 DEF ServicesInv

LEMMA FailsKeeps ==
    ASSUME ServicesInv, NEW s \in Services, Fails(s)
    PROVE  ServicesInv'
<1>1. /\ UNCHANGED <<rows, settings, foreign, job, again>>
      /\ UNCHANGED units /\ UNCHANGED trees /\ UNCHANGED ghosts
      /\ Spend("faults") /\ proc' = Killed(proc, {s}) /\ proc[s].st = "up"
  BY DEF Fails
<1>2. UNCHANGED <<forced, unfinished, stopped>>
  BY <1>1 DEF ghosts
<1>3. AgainInv' /\ SettingsInv' /\ UnitInv' /\ JobInv'
  BY <1>1, <1>2, Frames
<1>4. BudgetInv'
  BY <1>1, SpendKeeps DEF ServicesInv
<1>5. Moves
  BY <1>1, KilledMoves
<1>6. ProcInv' /\ TreeInv' /\ DeployInv'
  BY <1>1, <1>2, <1>5, MovesKeepProcs, MovesKeepTrees, MovesKeepDeploy
     DEF ServicesInv, TreeInv, trees
<1>7. StoppedInv'
  BY <1>1, <1>2, KilledStopped DEF ServicesInv
<1> QED
  BY <1>3, <1>4, <1>6, <1>7 DEF ServicesInv

LEMMA ForeignKeeps ==
    ASSUME ServicesInv, NEW p \in Ports, ForeignListens(p)
    PROVE  ServicesInv'
<1>1. /\ UNCHANGED <<rows, settings, proc, job, again>>
      /\ UNCHANGED units /\ UNCHANGED trees /\ UNCHANGED ghosts
      /\ foreign' = foreign \cup {p} /\ Held(proc, p) = {}
      /\ budget' = [budget EXCEPT !["ports"] = @ \ {p}]
  BY DEF ForeignListens
<1>2. UNCHANGED <<forced, unfinished, stopped, prod>>
  BY <1>1 DEF ghosts, trees
<1>3. AgainInv' /\ SettingsInv' /\ UnitInv' /\ JobInv' /\ StoppedInv' /\ TreeInv' /\ DeployInv'
  BY <1>1, <1>2, Frames
<1>4. BudgetInv'
  BY <1>1, OnceKeeps DEF ServicesInv
<1>5. ProcInv'
  BY <1>1 DEF ServicesInv, ProcInv, Held
<1> QED
  BY <1>3, <1>4, <1>5 DEF ServicesInv

-----------------------------------------------------------------------------
(* The steps of a command *)

LEMMA NextFacts ==
    ASSUME JobInv, job # NoJob
    PROVE  Next1 = job.steps[1] /\ Next1 \in Possible(job.app) /\ job.app \in Apps
<1>1. job.steps \in Seq(Possible(job.app)) /\ job.steps # <<>> /\ job.app \in Apps
  BY DEF JobInv
<1> QED
  BY <1>1 DEF Next1

LEMMA ServiceStep ==
    ASSUME JobInv, job # NoJob,
           Next1.op \in {"start", "stop", "restart", "enable", "disable", "install"}
    PROVE  Next1.on \in Services /\ Next1.on \in ServicesOf(job.app) /\ Next1 = Step(Next1.op, Next1.on)
<1>1. PICK op \in {"start", "stop", "restart", "enable", "disable", "install"},
           s \in ServicesOf(job.app) : Next1 = Step(op, s)
  BY NextFacts DEF Possible, Step
<1>2. Next1.op = op /\ Next1.on = s
  BY <1>1 DEF Step
<1> QED
  BY <1>1, <1>2, NextFacts, ServiceFacts

\* fuser kills what listens on a port that is a setting of the application.
LEMMA PortStep ==
    ASSUME JobInv, job # NoJob, Next1.op \in {"kill", "wait"}
    PROVE  \E k \in Keys : k[1] = job.app /\ settings[k] = Next1.on /\ Next1.on # None
<1>1. PICK op \in {"kill", "wait"},
           p \in {settings[k] : k \in {j \in Keys : j[1] = job.app}} \ {None} : Next1 = Step(op, p)
  BY NextFacts DEF Possible, Step
<1>2. Next1.on = p
  BY <1>1 DEF Step
<1> QED
  BY <1>1, <1>2

LEMMA CheckoutStep ==
    ASSUME JobInv, job # NoJob, Next1.op = "checkout"
    PROVE  Next1.on \in Commits
<1>1. PICK c \in Commits : Next1 = Step("checkout", c)
  BY NextFacts DEF Possible, Step
<1> QED
  BY <1>1 DEF Step

LEMMA BuildStep ==
    ASSUME JobInv, job # NoJob, Next1.op = "build"
    PROVE  job.app \in Buildable /\ Next1.on \in Modes /\ Next1 = Step("build", Next1.on)
<1>1. PICK m \in {x \in Modes : job.app \in Buildable} : Next1 = Step("build", m)
  BY NextFacts DEF Possible, Step
<1>2. Next1.on = m
  BY <1>1 DEF Step
<1> QED
  BY <1>1, <1>2

\* Processes move, and the command goes on or not.
LEMMA MovingStep ==
    ASSUME ServicesInv, Moves, foreign' \subseteq foreign, StoppedInv',
           UNCHANGED <<budget, rows, settings, again, forced, unfinished>>,
           UNCHANGED units, UNCHANGED trees,
           \/ job' = job \/ job' = NoJob
           \/ /\ job # NoJob /\ Advance /\ Next1.op \notin {"checkout", "build"}
              /\ \A s \in Services : Next1 = Step("stop", s) => proc'[s] = Off
    PROVE  ServicesInv'
<1>1. BudgetInv' /\ AgainInv' /\ SettingsInv' /\ UnitInv'
  BY Frames
<1>2. JobInv'
  BY JobKeeps DEF ServicesInv
<1>3. prod' = prod /\ UnitInv /\ ProcInv /\ TreeInv /\ TreeTypes /\ JobInv /\ DeployInv
  BY DEF trees, ServicesInv, TreeInv
<1>4. ProcInv'
  BY <1>3, MovesKeepProcs
<1>5. TreeInv'
  BY <1>3, MovesKeepTrees
<1>6. DeployInv'
  BY <1>3, MovesKeepDeploy
<1> QED
  BY <1>1, <1>2, <1>4, <1>5, <1>6 DEF ServicesInv

LEMMA StopKeeps ==
    ASSUME ServicesInv, StopService
    PROVE  ServicesInv'
<1> DEFINE s == Next1.on
<1>1. job # NoJob /\ Next1.op = "stop" /\ Advance
  BY DEF StopService, At
<1>2. s \in Services /\ Next1 = Step("stop", s) /\ JobInv
  BY <1>1, ServiceStep DEF ServicesInv
<1>3. proc' = [proc EXCEPT ![s] = Off] /\ proc \in [Services -> ProcRecords]
  BY DEF StopService, ServicesInv, ProcInv, ProcRecords
<1>4. stopped' = stopped \/ (s[3] # "both" /\ stopped' = stopped \cup {s})
  BY DEF StopService
<1>5. Moves
  BY <1>2, <1>3, RecordFacts DEF Moves
<1>6. StoppedInv'
  BY <1>2, <1>3, <1>4, RecordFacts DEF StoppedInv, ServicesInv
<1>7. \A t \in Services : Next1 = Step("stop", t) => proc'[t] = Off
  BY <1>2, <1>3 DEF Step
<1>8. /\ UNCHANGED <<budget, rows, settings, again, forced, unfinished, foreign>>
      /\ UNCHANGED units /\ UNCHANGED trees
  BY DEF StopService
<1> QED
  BY <1>1, <1>5, <1>6, <1>7, <1>8, MovingStep

LEMMA RestartKeeps ==
    ASSUME ServicesInv, RestartService
    PROVE  ServicesInv'
<1> DEFINE s == Next1.on
           ps == [proc EXCEPT ![s] = Off]
<1>1. job # NoJob /\ Next1.op = "restart" /\ Advance
  BY DEF RestartService, At
<1>2. s \in Services
  BY <1>1, ServiceStep DEF ServicesInv
<1>3. proc' = Started(ps, s) /\ stopped' = stopped \ {s} /\ proc \in [Services -> ProcRecords]
  BY DEF RestartService, ServicesInv, ProcInv, ProcRecords
<1>4. ps \in [Services -> ProcRecords] /\ \A t \in Services : ps[t] \in {proc[t], Off}
  BY <1>2, <1>3, RecordFacts
<1> HIDE DEF ps, s
<1>5. Moves /\ StoppedInv'
  BY <1>2, <1>3, <1>4, StartedMoves, StartedStopped DEF ServicesInv
<1>6. \A t \in Services : Next1 # Step("stop", t)
  BY <1>1 DEF Step
<1>7. /\ UNCHANGED <<budget, rows, settings, again, forced, unfinished, foreign>>
      /\ UNCHANGED units /\ UNCHANGED trees
  BY DEF RestartService
<1> QED
  BY <1>1, <1>5, <1>6, <1>7, MovingStep

LEMMA KillKeeps ==
    ASSUME ServicesInv, KillProcessOnPort \/ WaitKills
    PROVE  ServicesInv'
<1>1. job # NoJob /\ Next1.op \in {"kill", "wait"}
  BY DEF KillProcessOnPort, WaitKills, At
<1>2. proc' = Killed(proc, Held(proc, Next1.on)) /\ foreign' \subseteq foreign
  BY DEF KillProcessOnPort, WaitKills
<1>3. \A s \in Held(proc, Next1.on) : proc[s].st # "off"
  BY DEF Held
<1>4. /\ UNCHANGED <<budget, rows, settings, again>> /\ UNCHANGED ghosts
      /\ UNCHANGED units /\ UNCHANGED trees
  BY DEF KillProcessOnPort, WaitKills
<1>5. UNCHANGED <<forced, unfinished, stopped>>
  BY <1>4 DEF ghosts
<1>6. Moves /\ StoppedInv'
  BY <1>2, <1>3, <1>5, KilledMoves, KilledStopped DEF ServicesInv
<1>7. \A t \in Services : Next1 # Step("stop", t)
  BY <1>1 DEF Step
<1>8. job' = job \/ Advance
  BY DEF KillProcessOnPort, WaitKills
<1> QED
  BY <1>1, <1>2, <1>4, <1>5, <1>6, <1>7, <1>8, MovingStep

\* The last start of a deploy: all of prod was stopped and built since the checkout.
LEMMA StartKeeps ==
    ASSUME ServicesInv, StartService
    PROVE  ServicesInv'
<1> DEFINE s == Next1.on
<1>1. job # NoJob /\ Next1.op = "start" /\ Advance
  BY DEF StartService, At
<1>2. s \in Services
  BY <1>1, ServiceStep DEF ServicesInv
<1>3. proc' = Started(proc, s) /\ stopped' = stopped \ {s} /\ proc \in [Services -> ProcRecords]
  BY DEF StartService, ServicesInv, ProcInv, ProcRecords
<1> HIDE DEF s
<1>4. Moves /\ StoppedInv'
  BY <1>2, <1>3, StartedMoves, StartedStopped DEF ServicesInv
<1>5. \A t \in Services : Next1 # Step("stop", t)
  BY <1>1 DEF Step
<1>6. /\ UNCHANGED <<budget, rows, settings, again, forced, foreign>>
      /\ UNCHANGED units /\ UNCHANGED trees
  BY DEF StartService
<1>7. CASE unfinished' = unfinished
  BY <1>1, <1>4, <1>5, <1>6, <1>7, MovingStep
<1>8. CASE Ended /\ job.cmd = "deployToProd" /\ unfinished' = unfinished \ {job.app}
  <2>1. BudgetInv' /\ AgainInv' /\ SettingsInv' /\ UnitInv'
    BY <1>6, Frames
  <2>2. JobInv'
    BY <1>1, <1>6, JobKeeps DEF ServicesInv
  <2>3. prod' = prod /\ UnitInv /\ ProcInv /\ TreeInv /\ TreeTypes /\ JobInv /\ DeployInv
    BY <1>6 DEF trees, ServicesInv, TreeInv
  <2>4. ProcInv'
    BY <1>4, <1>6, <2>3, MovesKeepProcs
  <2>5. DeployInv'
    BY <1>1, <1>4, <1>5, <2>3, MovesKeepDeploy
  <2>6. Next1 = job.steps[1] /\ Len(job.steps) = 1 /\ job.app \in Apps
    BY <1>1, <1>8, <2>3, NextFacts DEF Ended
  <2>7. \A x : Pending(x) => x = Next1
    BY <2>6 DEF Pending, Occurs
  <2>8. (\A t \in ProdServices(job.app) : Fresh(t)) /\ Built(job.app)
    <3>1. Next1 # Step("build", "prod")
      BY <1>1 DEF Step
    <3>2. \A t \in ProdServices(job.app) : t \in Services
      BY <2>6, ServiceFacts DEF ProdServices
    <3> QED
      BY <1>5, <1>8, <2>3, <2>7, <3>1, <3>2 DEF DeployInv
  <2>9. TreeTypes'
    BY <1>6, <1>8, <2>3 DEF TreeTypes, Trees, trees
  <2>10. ASSUME NEW a \in Apps \ unfinished' PROVE Built(a)' /\ \A t \in ProdServices(a) : Fresh(t)'
    <3>1. a \notin unfinished \/ a = job.app
      BY <1>8, <2>10
    <3>2. Built(a) /\ \A t \in ProdServices(a) : Fresh(t)
      BY <2>3, <2>8, <3>1 DEF TreeInv
    <3>3. Built(a)'
      BY <2>3, <3>2 DEF Built
    <3>4. ASSUME NEW t \in ProdServices(a) PROVE Fresh(t)'
      <4>1. t \in Services /\ t[3] = "prod"
        BY ServiceFacts DEF ProdServices
      <4> QED
        BY <1>4, <2>3, <3>2, <4>1, MovesKeepFresh
    <3> QED
      BY <3>3, <3>4
  <2>11. TreeInv'
    BY <2>9, <2>10 DEF TreeInv
  <2> QED
    BY <1>4, <2>1, <2>2, <2>4, <2>5, <2>11 DEF ServicesInv
<1> QED
  BY <1>7, <1>8 DEF StartService

\* A step that leaves the processes and the trees alone.
LEMMA QuietStep ==
    ASSUME ServicesInv, UnitInv', job # NoJob, Advance, Next1.op \notin {"stop", "checkout", "build"},
           UNCHANGED <<budget, rows, settings, proc, foreign, again>>,
           UNCHANGED trees, UNCHANGED ghosts
    PROVE  ServicesInv'
<1>1. UNCHANGED <<forced, unfinished, stopped, prod>>
  BY DEF ghosts, trees
<1>2. BudgetInv' /\ AgainInv' /\ SettingsInv' /\ ProcInv' /\ StoppedInv' /\ TreeInv'
  BY <1>1, Frames
<1>3. JobInv'
  BY JobKeeps DEF ServicesInv
<1>4. Moves
  BY DEF Moves, ServicesInv, ProcInv, ProcRecords
<1>5. \A t \in Services : Next1 # Step("stop", t)
  BY DEF Step
<1>6. DeployInv'
  BY <1>1, <1>4, <1>5, MovesKeepDeploy DEF ServicesInv, TreeInv
<1> QED
  BY <1>2, <1>3, <1>6 DEF ServicesInv

LEMMA WaitKeeps ==
    ASSUME ServicesInv, WaitForPortRelease
    PROVE  ServicesInv'
<1>1. UNCHANGED units /\ job # NoJob /\ Advance /\ Next1.op = "wait"
  BY DEF WaitForPortRelease, At
<1>2. UnitInv'
  BY <1>1, Frames
<1> QED
  BY <1>1, <1>2, QuietStep DEF WaitForPortRelease

LEMMA EnableKeeps ==
    ASSUME ServicesInv, EnableService \/ DisableService
    PROVE  ServicesInv'
<1>1. job # NoJob /\ Advance /\ Next1.op \in {"enable", "disable"}
  BY DEF EnableService, DisableService, At
<1>2. Next1.on \in Services
  BY <1>1, ServiceStep DEF ServicesInv
<1>3. UnitInv'
  BY <1>2 DEF EnableService, DisableService, ServicesInv, UnitInv
<1> QED
  BY <1>1, <1>3, QuietStep DEF EnableService, DisableService

LEMMA InstallKeeps ==
    ASSUME ServicesInv, InstallService
    PROVE  ServicesInv'
<1> DEFINE s == Next1.on
           m == IF s[3] = "dev" THEN "dev" ELSE "prod"
           u == IF s \in handFiles THEN [file |-> "hand", port |-> HandPort[s]]
                ELSE [file |-> "generated", port |-> settings[<<s[1], "client", m>>]]
<1>1. job # NoJob /\ Advance /\ Next1.op = "install"
  BY DEF InstallService, At
<1>2. s \in Services /\ s[1] \in Apps
  BY <1>1, ServiceStep, ServiceFacts DEF ServicesInv
<1>3. unit' = [unit EXCEPT ![s] = u] /\ UNCHANGED <<handFiles, enabled>>
  BY DEF InstallService
<1>4. <<s[1], "client", m>> \in Keys
  BY <1>2 DEF Keys, Parts, Modes
<1>5. settings[<<s[1], "client", m>>] \in Ports \cup {None}
  BY <1>4 DEF ServicesInv, SettingsInv
<1>6. s \in handFiles => HandPort[s] \in Ports
  BY ConstantsAssumption DEF ServicesInv, UnitInv
<1>7. /\ u \in [file : {"none", "hand", "generated", "dangling"}, port : Ports \cup {None}]
      /\ u.file = "hand" => s \in handFiles
  BY <1>5, <1>6
<1> HIDE DEF u, s
<1>8. UnitInv'
  BY <1>2, <1>3, <1>7 DEF ServicesInv, UnitInv
<1> QED
  BY <1>1, <1>8, QuietStep DEF InstallService

-----------------------------------------------------------------------------
(* The trees *)

\* The trees change, and the rest does not.
LEMMA TreeStep ==
    ASSUME ServicesInv, TreeInv', JobInv', DeployInv', budget' = budget \/ BudgetInv',
           UNCHANGED <<rows, settings, proc, foreign, again, forced, stopped>>, UNCHANGED units
    PROVE  ServicesInv'
<1>1. BudgetInv' /\ AgainInv' /\ SettingsInv' /\ UnitInv' /\ ProcInv' /\ StoppedInv'
  BY Frames
<1> QED
  BY <1>1 DEF ServicesInv

\* One application's prod tree changes.
LEMMA ProdChanges ==
    ASSUME TreeTypes, NEW a \in Apps, NEW r,
           r \in Trees,
           a \notin Buildable => r.built = 0,
           prod' = [prod EXCEPT ![a] = r],
           head' \in [Apps -> 0 .. MaxCommit], unfinished' \subseteq Apps
    PROVE  /\ TreeTypes' /\ prod'[a] = r
           /\ \A b \in Apps \ {a} : prod'[b] = prod[b]
BY DEF TreeTypes, Trees

LEMMA OthersTrees ==
    ASSUME TreeInv, TreeTypes', NEW a \in Apps, proc' = proc,
           \A b \in Apps \ {a} : prod'[b] = prod[b], unfinished' \cup {a} = unfinished \cup {a},
           a \notin unfinished' => Built(a)' /\ \A s \in ProdServices(a) : Fresh(s)'
    PROVE  TreeInv'
<1>1. ASSUME NEW b \in Apps \ unfinished', b # a
      PROVE  Built(b)' /\ \A s \in ProdServices(b) : Fresh(s)'
  <2>1. b \notin unfinished /\ prod'[b] = prod[b]
    BY <1>1
  <2>2. \A s \in ProdServices(b) : s[1] = b
    BY ServiceFacts DEF ProdServices
  <2> QED
    BY <2>1, <2>2 DEF TreeInv, Built, Fresh
<1> QED
  BY <1>1 DEF TreeInv

LEMMA CheckoutKeeps ==
    ASSUME ServicesInv, Checkout \/ CheckoutFails
    PROVE  ServicesInv'
<1> DEFINE a == job.app
<1>1. job # NoJob /\ Next1.op = "checkout" /\ (Advance \/ job' = NoJob)
  BY DEF Checkout, CheckoutFails, At
<1>2. JobInv /\ DeployInv /\ TreeInv /\ TreeTypes
  BY DEF ServicesInv, TreeInv
<1>3. a \in Apps /\ Next1.on \in 0 .. MaxCommit
  BY <1>1, <1>2, NextFacts, CheckoutStep, ConstantsAssumption DEF Commits
<1>4. /\ UNCHANGED <<budget, rows, settings, proc, foreign, head, again, forced, stopped>>
      /\ UNCHANGED units
  BY DEF Checkout, CheckoutFails
<1>5. JobInv'
  BY <1>1, <1>2, <1>4, JobKeeps
<1>6. CASE prod' = prod /\ unfinished' = unfinished /\ job' = NoJob
  <2>1. TreeInv'
    BY <1>4, <1>6, Frames DEF trees
  <2> QED
    BY <1>4, <1>5, <1>6, <2>1, NoDeploy, TreeStep
<1>7. CASE prod' = [prod EXCEPT ![a].commit = Next1.on] /\ unfinished' = unfinished \cup {a}
  <2> DEFINE r == [prod[a] EXCEPT !.commit = Next1.on]
  <2>1. r \in Trees
        /\ r.built = prod[a].built
    BY <1>2, <1>3 DEF TreeTypes, Trees
  <2>2. prod' = [prod EXCEPT ![a] = r]
    BY <1>7
  <2> HIDE DEF r
  <2>3. a \notin Buildable => r.built = 0
    BY <1>2, <1>3, <2>1 DEF TreeTypes, Trees
  <2>4. head' \in [Apps -> 0 .. MaxCommit] /\ unfinished' \subseteq Apps
    BY <1>2, <1>3, <1>4, <1>7 DEF TreeTypes, Trees
  <2>5. TreeTypes' /\ \A b \in Apps \ {a} : prod'[b] = prod[b]
    BY <1>2, <1>3, <2>1, <2>2, <2>3, <2>4, ProdChanges
  <2>6. TreeInv'
    <3>1. \A b : b = a => b \in unfinished' /\ unfinished' \cup {b} = unfinished \cup {b}
      BY <1>7
    <3>2. \E b \in Apps : b = a /\ \A x \in Apps \ {b} : prod'[x] = prod[x]
      BY <1>3, <2>5
    <3> HIDE DEF a
    <3> QED
      BY <1>2, <1>4, <2>5, <3>1, <3>2, OthersTrees
  <2>7. DeployInv'
    BY <1>1, <1>2, <2>5, NoDeploy, DeployChecksOut
  <2> QED
    BY <1>4, <1>5, <2>6, <2>7, TreeStep
<1> QED
  BY <1>6, <1>7 DEF Checkout, CheckoutFails

LEMMA BuildKeeps ==
    ASSUME ServicesInv, Build
    PROVE  ServicesInv'
<1>1. job # NoJob /\ Next1.op = "build" /\ (Advance \/ job' = NoJob)
  BY DEF Build, At
<1>2. JobInv /\ DeployInv /\ TreeInv /\ TreeTypes
  BY DEF ServicesInv, TreeInv
<1>3. job.app \in Apps /\ job.app \in Buildable /\ Next1 = Step("build", Next1.on)
  BY <1>1, <1>2, NextFacts, BuildStep
<1>4. /\ UNCHANGED <<budget, rows, settings, proc, foreign, head, again>> /\ UNCHANGED ghosts
      /\ UNCHANGED units
  BY DEF Build
<1>5. UNCHANGED <<forced, stopped, unfinished>>
  BY <1>4 DEF ghosts
<1>6. JobInv'
  BY <1>1, <1>2, <1>4, JobKeeps
<1>7. CASE prod' = prod /\ (job' = NoJob \/ Next1.on # "prod")
  <2>1. TreeInv'
    BY <1>4, <1>5, <1>7, Frames DEF trees
  <2>2. DeployInv'
    <3>1. CASE job' = NoJob
      BY <3>1, NoDeploy
    <3>2. CASE Advance /\ Next1.on # "prod"
      <4>1. Next1 # Step("build", "prod") /\ \A s : Next1 # Step("stop", s)
        BY <1>1, <3>2 DEF Step
      <4>2. ASSUME NEW b, b = job.app PROVE DeployInv'
        <5>1. Built(b) => Built(b)'
          BY <1>7 DEF Built
        <5>2. \A s \in ProdServices(b) : Fresh(s) => Fresh(s)'
          BY <1>4, <1>7 DEF Fresh
        <5> QED
          BY <1>1, <1>2, <3>2, <4>1, <4>2, <5>1, <5>2, DeployAdvances
      <4> QED
        BY <4>2
    <3> QED
      BY <1>1, <1>7, <3>1, <3>2
  <2> QED
    BY <1>4, <1>5, <1>6, <2>1, <2>2, TreeStep
<1>8. ASSUME NEW a, a = job.app, NEW c \in {0, prod[a].commit},
             prod' = [prod EXCEPT ![a].built = c]
      PROVE  ServicesInv'
  <2> DEFINE r == [prod[a] EXCEPT !.built = c]
  <2>1. c \in 0 .. MaxCommit
    BY <1>2, <1>3, <1>8, ConstantsAssumption DEF TreeTypes, Trees
  <2>2. r \in Trees
        /\ r.built = c /\ r.commit = prod[a].commit
    BY <1>2, <1>3, <1>8, <2>1 DEF TreeTypes, Trees
  <2>3. prod' = [prod EXCEPT ![a] = r]
    BY <1>8
  <2> HIDE DEF r
  <2>4. TreeTypes' /\ prod'[a] = r /\ \A b \in Apps \ {a} : prod'[b] = prod[b]
    <3>1. head' \in [Apps -> 0 .. MaxCommit] /\ unfinished' \subseteq Apps
      BY <1>2, <1>4, <1>5 DEF TreeTypes, Trees
    <3> QED
      BY <1>2, <1>3, <1>8, <2>2, <2>3, <3>1, ProdChanges
  <2>5. Built(a)'
    BY <2>2, <2>4 DEF Built
  <2>6. \A s \in ProdServices(a) : Fresh(s) => Fresh(s)'
    <3>1. \A s \in ProdServices(a) : s[1] = a
      BY <1>3, <1>8, ServiceFacts DEF ProdServices
    <3> QED
      BY <1>4, <2>2, <2>4, <3>1 DEF Fresh
  <2>7. TreeInv'
    <3>1. a \notin unfinished' => \A s \in ProdServices(a) : Fresh(s)'
      BY <1>2, <1>3, <1>5, <1>8, <2>6 DEF TreeInv
    <3> QED
      BY <1>2, <1>3, <1>4, <1>5, <1>8, <2>4, <2>5, <3>1, OthersTrees
  <2>8. DeployInv'
    <3>1. CASE job' = NoJob
      BY <3>1, NoDeploy
    <3>2. CASE Advance
      <4>1. \A s : Next1 # Step("stop", s)
        BY <1>1 DEF Step
      <4> QED
        BY <1>1, <1>2, <1>8, <2>5, <2>6, <3>2, <4>1, DeployAdvances
    <3> QED
      BY <1>1, <3>1, <3>2
  <2> QED
    BY <1>4, <1>5, <1>6, <2>7, <2>8, TreeStep
<1>9. \/ prod' = prod /\ (job' = NoJob \/ Next1.on # "prod")
      \/ prod' = [prod EXCEPT ![job.app].built = prod[job.app].commit]
      \/ prod' = [prod EXCEPT ![job.app].built = 0]
  BY DEF Build
<1> QED
  BY <1>7, <1>8, <1>9

\* A change of the prod tree of a that is not a step of a command.
LEMMA ProdParts ==
    ASSUME ServicesInv, NEW a \in Apps, TreeTypes', Built(a) => Built(a)',
           \A s \in ProdServices(a) : Fresh(s) => Fresh(s)',
           \A b \in Apps \ {a} : prod'[b] = prod[b],
           UNCHANGED <<settings, proc, job, unfinished>>
    PROVE  JobInv' /\ TreeInv' /\ DeployInv'
<1>1. JobInv' /\ JobInv /\ DeployInv /\ TreeInv
  BY Frames DEF ServicesInv
<1>2. TreeInv'
  <2>1. a \notin unfinished' => Built(a)' /\ \A s \in ProdServices(a) : Fresh(s)'
    BY <1>1 DEF TreeInv
  <2> QED
    BY <1>1, <2>1, OthersTrees
<1>3. DeployInv'
  <2>1. CASE job = NoJob
    BY <2>1, NoDeploy
  <2>2. ASSUME job # NoJob, NEW b, b = job.app PROVE DeployInv'
    <3>1. b \in Apps
      BY <1>1, <2>2 DEF JobInv
    <3>2. CASE b = a
      BY <1>1, <2>2, <3>2, DeployStays
    <3>3. CASE b # a
      <4>1. prod'[b] = prod[b] /\ \A s \in ProdServices(b) : s[1] = b
        BY <3>1, <3>3, ServiceFacts DEF ProdServices
      <4>2. Built(b) => Built(b)'
        BY <4>1 DEF Built
      <4>3. \A s \in ProdServices(b) : Fresh(s) => Fresh(s)'
        BY <4>1 DEF Fresh
      <4> QED
        BY <1>1, <2>2, <4>2, <4>3, DeployStays
    <3> QED
      BY <3>2, <3>3
  <2> QED
    BY <2>1, <2>2
<1> QED
  BY <1>1, <1>2, <1>3

LEMMA ProdStep ==
    ASSUME ServicesInv, NEW a \in Apps, TreeTypes', Built(a) => Built(a)',
           \A s \in ProdServices(a) : Fresh(s) => Fresh(s)',
           \A b \in Apps \ {a} : prod'[b] = prod[b],
           budget' = budget \/ BudgetInv',
           UNCHANGED <<rows, settings, proc, foreign, job, again>>, UNCHANGED units, UNCHANGED ghosts
    PROVE  ServicesInv'
<1>1. UNCHANGED <<forced, stopped, unfinished>>
  BY DEF ghosts
<1>2. JobInv' /\ TreeInv' /\ DeployInv'
  BY <1>1, ProdParts
<1> QED
  BY <1>1, <1>2, TreeStep

LEMMA TreeActionsKeep ==
    ASSUME ServicesInv, NEW a \in Apps, Commit(a) \/ EditProd(a) \/ CleanProd(a)
    PROVE  ServicesInv'
<1>1. /\ UNCHANGED <<rows, settings, proc, foreign, job, again>>
      /\ UNCHANGED units /\ UNCHANGED ghosts
  BY DEF Commit, EditProd, CleanProd
<1>2. TreeTypes /\ unfinished' = unfinished
  BY <1>1 DEF ServicesInv, TreeInv, ghosts
<1>3. CASE Commit(a)
  <2>1. budget' = budget /\ prod' = prod /\ head' = [head EXCEPT ![a] = @ + 1]
        /\ head[a] \in 1 .. MaxCommit - 1
    BY <1>3 DEF Commit
  <2>2. head[a] + 1 \in 0 .. MaxCommit
    BY <2>1, ConstantsAssumption
  <2>3. TreeTypes'
    BY <1>2, <2>1, <2>2 DEF TreeTypes, Trees
  <2>4. Built(a) => Built(a)'
    BY <2>1 DEF Built
  <2>5. \A s \in ProdServices(a) : Fresh(s) => Fresh(s)'
    BY <1>1, <2>1 DEF Fresh
  <2> QED
    BY <1>1, <2>1, <2>3, <2>4, <2>5, ProdStep
<1>4. ASSUME NEW r, r \in Trees,
             r.commit = prod[a].commit, r.built \in {0, prod[a].built},
             prod' = [prod EXCEPT ![a] = r], head' = head, budget' = budget \/ BudgetInv'
      PROVE  ServicesInv'
  <2>1. a \notin Buildable => r.built = 0
    BY <1>2, <1>4 DEF TreeTypes, Trees
  <2>2. TreeTypes' /\ prod'[a] = r /\ \A b \in Apps \ {a} : prod'[b] = prod[b]
    <3>1. head' \in [Apps -> 0 .. MaxCommit] /\ unfinished' \subseteq Apps
      BY <1>2, <1>4 DEF TreeTypes, Trees
    <3> QED
      BY <1>2, <1>4, <2>1, <3>1, ProdChanges
  <2>3. Built(a) => Built(a)'
    BY <1>4, <2>2 DEF Built
  <2>4. \A s \in ProdServices(a) : Fresh(s) => Fresh(s)'
    <3>1. \A s \in ProdServices(a) : s[1] = a
      BY ServiceFacts DEF ProdServices
    <3> QED
      BY <1>1, <1>4, <2>2, <3>1 DEF Fresh
  <2> QED
    BY <1>1, <1>4, <2>2, <2>3, <2>4, ProdStep
<1>5. CASE EditProd(a)
  <2> DEFINE r == [prod[a] EXCEPT !.edited = TRUE]
  <2>1. prod' = [prod EXCEPT ![a] = r] /\ head' = head /\ Spend("edits")
    BY <1>5 DEF EditProd
  <2>2. r \in Trees
        /\ r.commit = prod[a].commit /\ r.built = prod[a].built
    BY <1>2 DEF TreeTypes, Trees
  <2>3. BudgetInv'
    BY <2>1, SpendKeeps DEF ServicesInv
  <2> QED
    BY <1>4, <2>1, <2>2, <2>3
<1>6. CASE CleanProd(a)
  <2> DEFINE r == [prod[a] EXCEPT !.edited = FALSE, !.built = IF a \in Ignored THEN @ ELSE 0]
  <2>1. prod' = [prod EXCEPT ![a] = r] /\ head' = head /\ budget' = budget
    BY <1>2, <1>6 DEF CleanProd, TreeTypes
  <2>2. 0 \in 0 .. MaxCommit
    BY ConstantsAssumption
  <2>3. r \in Trees
        /\ r.commit = prod[a].commit /\ r.built \in {0, prod[a].built}
    BY <1>2, <2>2 DEF TreeTypes, Trees
  <2> QED
    BY <1>4, <2>1, <2>3
<1> QED
  BY <1>3, <1>5, <1>6

-----------------------------------------------------------------------------
(* Commands begin *)

LEMMA TakeParts ==
    ASSUME ServicesInv, NEW c, IsCommand(c), Take(c), UNCHANGED settings
    PROVE  JobInv' /\ DeployInv'
<1> DEFINE q == StepsOf(c)
<1>1. q \in Seq(Possible(c.app)) /\ q # <<>> /\ c.app \in Apps
  BY StepsIn DEF Take, IsCommand
<1>2. job' = [app |-> c.app, cmd |-> c.cmd, steps |-> q]
  BY DEF Take
<1>3. c.cmd # "deployToProd"
  BY DEF IsCommand
<1> HIDE DEF q
<1>4. job'.app = c.app /\ job'.cmd = c.cmd /\ job'.steps = q
  BY <1>2
<1>5. Possible(job.app)' = Possible(c.app)
  BY <1>4 DEF Possible
<1>6. JobInv'
  BY <1>1, <1>2, <1>4, <1>5 DEF JobInv
<1>7. DeployInv'
  BY <1>3, <1>4 DEF DeployInv
<1> QED
  BY <1>6, <1>7

\* A command changes nothing when it begins.
LEMMA BeginStep ==
    ASSUME ServicesInv, BudgetInv', AgainInv', JobInv', DeployInv',
           UNCHANGED <<rows, settings, proc, foreign>>,
           UNCHANGED units, UNCHANGED trees, UNCHANGED ghosts
    PROVE  ServicesInv'
<1>1. UNCHANGED <<forced, unfinished, stopped>>
  BY DEF ghosts
<1>2. SettingsInv' /\ UnitInv' /\ ProcInv' /\ StoppedInv' /\ TreeInv'
  BY <1>1, Frames
<1> QED
  BY <1>2 DEF ServicesInv

LEMMA RunKeeps ==
    ASSUME ServicesInv, NEW c \in budget.commands, Run(c)
    PROVE  ServicesInv'
<1>1. IsCommand(c)
  BY DEF ServicesInv, BudgetInv, IsBudget
<1>2. BudgetInv' /\ AgainInv'
  BY SpendKeeps, Frames DEF Run, ServicesInv
<1>3. JobInv' /\ DeployInv'
  BY <1>1, TakeParts DEF Run
<1> QED
  BY <1>2, <1>3, BeginStep DEF Run

LEMMA RunFromPeerKeeps ==
    ASSUME ServicesInv, NEW c \in budget.remote, RunFromPeer(c)
    PROVE  ServicesInv'
<1>1. IsCommand(c)
  BY DEF ServicesInv, BudgetInv, IsBudget
<1>2. budget' = [budget EXCEPT !["remote"] = @ \ {c}] /\ again' = again \cup {c}
  BY DEF RunFromPeer
<1>3. BudgetInv'
  BY <1>2, OnceKeeps DEF ServicesInv
<1>4. AgainInv'
  BY <1>1, <1>2 DEF ServicesInv, AgainInv, IsCommand
<1>5. JobInv' /\ DeployInv'
  BY <1>1, TakeParts DEF RunFromPeer
<1> QED
  BY <1>3, <1>4, <1>5, BeginStep DEF RunFromPeer

LEMMA RunAgainKeeps ==
    ASSUME ServicesInv, NEW c \in again, c.cmd \in {"startApp", "stopApp"}, RunAgain(c)
    PROVE  ServicesInv'
<1>1. IsCommand(c)
  BY DEF ServicesInv, AgainInv
<1>2. BudgetInv'
  BY Frames DEF RunAgain
<1>3. AgainInv'
  BY DEF ServicesInv, AgainInv, RunAgain
<1>4. JobInv' /\ DeployInv'
  BY <1>1, TakeParts DEF RunAgain
<1> QED
  BY <1>2, <1>3, <1>4, BeginStep DEF RunAgain

LEMMA DeployKeeps ==
    ASSUME ServicesInv, NEW a \in Apps, NEW c \in Commits, Deploy(a, c)
    PROVE  ServicesInv'
<1> DEFINE q == DeploySteps(a, c)
<1>1. a \in Apps \ DevOnly /\ job' = [app |-> a, cmd |-> "deployToProd", steps |-> q]
      /\ settings' = settings
  BY DEF Deploy
<1>2. /\ q \in Seq(Possible(a)) /\ q # <<>> /\ Tidy(q)
      /\ \A s \in ProdServices(a) : Occurs(q, Step("stop", s))
      /\ a \in Buildable => Occurs(q, Step("build", "prod"))
  BY <1>1, DeployStepsFacts
<1> HIDE DEF q
<1>3. job'.app = a /\ job'.steps = q
  BY <1>1
<1>4. Possible(job.app)' = Possible(a)
  BY <1>1, <1>3 DEF Possible
<1>5. JobInv'
  BY <1>1, <1>2, <1>3, <1>4 DEF JobInv
<1>6. a \notin Buildable => Built(job.app)'
  BY <1>3 DEF Deploy, ServicesInv, TreeInv, TreeTypes, Built, trees
<1>7. DeployInv'
  BY <1>2, <1>3, <1>6 DEF DeployInv, Pending
<1>8. BudgetInv' /\ AgainInv'
  BY SpendKeeps, Frames DEF Deploy, ServicesInv
<1> QED
  BY <1>5, <1>7, <1>8, BeginStep DEF Deploy

-----------------------------------------------------------------------------
(* The registries *)

\* A change of the settings, between two commands.
LEMMA SettingsStep ==
    ASSUME ServicesInv, SettingsInv', BudgetInv', AgainInv', job = NoJob,
           UNCHANGED <<proc, foreign, job, unfinished, stopped>>, UNCHANGED units, UNCHANGED trees
    PROVE  ServicesInv'
<1>1. UnitInv' /\ ProcInv' /\ StoppedInv' /\ TreeInv'
  BY Frames
<1>2. JobInv'
  BY DEF JobInv, NoJob
<1>3. DeployInv'
  BY NoDeploy
<1> QED
  BY <1>1, <1>2, <1>3 DEF ServicesInv

LEMMA AddKeeps ==
    ASSUME ServicesInv, NEW a \in Apps, AddExtraApp(a)
    PROVE  ServicesInv'
<1> DEFINE free == (FirstServerPort .. MaxPort) \ Used
           m == Min(FreePairs)
           f == Min(free)
           kp == <<a, "client", "prod">>
           kd == <<a, "client", "dev">>
           ks == <<a, "server", "prod">>
<1>1. /\ FreePairs # {} /\ (a \in HasServer => free # {})
      /\ settings' = [k \in Keys |->
            CASE k = kp -> m [] k = kd -> m + 1 [] k = ks /\ a \in HasServer -> f
              [] OTHER -> settings[k]]
      /\ forced' = {k \in forced : settings'[k] = settings[k]}
      /\ rows' = rows \cup {a} /\ a \in Extra /\ job = NoJob /\ Spend("count")
  BY DEF AddExtraApp
<1>2. kp # kd /\ kp # ks /\ kd # ks
  OBVIOUS
<1>3. FreePairs \subseteq Nat /\ free \subseteq Nat
  BY ConstantsAssumption DEF FreePairs
<1>4. m \in FreePairs /\ (a \in HasServer => f \in free)
  BY <1>1, <1>3, MinIsLeast
<1>5. /\ m \in Ports /\ m + 1 \in Ports /\ m \notin Used /\ m + 1 \notin Used /\ m # m + 1
      /\ m + 1 < FirstServerPort /\ m \in Nat
  BY <1>4, ConstantsAssumption DEF FreePairs, Ports
<1>6. a \in HasServer => f \in Ports /\ f \notin Used /\ f # m /\ f # m + 1
  <2>1. a \in HasServer => f \in FirstServerPort .. MaxPort /\ f \notin Used
    BY <1>4
  <2> QED
    BY <1>5, <2>1, ConstantsAssumption DEF Ports
<1>7. \A k \in Keys :
          settings'[k] = IF k = kp THEN m ELSE IF k = kd THEN m + 1
                         ELSE IF k = ks /\ a \in HasServer THEN f ELSE settings[k]
  BY <1>1, <1>2
<1>8. \A k \in Keys : settings[k] # None => settings[k] \in Used
  BY DEF Used
<1>9. SettingsInv
  BY DEF ServicesInv
<1>10. settings' = [k \in Keys |-> settings'[k]]
  BY <1>1
<1> HIDE DEF m, f, free, kp, kd, ks
<1>11. settings' \in [Keys -> Ports \cup {None}]
  BY <1>5, <1>6, <1>7, <1>9, <1>10 DEF SettingsInv
<1>12. ASSUME NEW k \in Keys, NEW j \in Keys, k # j, settings'[k] = settings'[j], settings'[k] # None
       PROVE  k \in forced'
  <2>1. settings'[k] = settings[k] /\ settings'[j] = settings[j]
    BY <1>2, <1>5, <1>6, <1>7, <1>8, <1>12
  <2>2. k \in forced
    BY <1>9, <1>12, <2>1 DEF SettingsInv
  <2> QED
    BY <1>1, <2>1, <2>2
<1>13. SettingsInv'
  BY <1>1, <1>9, <1>11, <1>12 DEF SettingsInv
<1>14. BudgetInv' /\ AgainInv'
  BY <1>1, SpendKeeps, Frames DEF AddExtraApp, ServicesInv
<1> QED
  BY <1>1, <1>13, <1>14, SettingsStep DEF AddExtraApp

LEMMA RemovedKeeps ==
    ASSUME SettingsInv, NEW a, settings' = Removed(a), forced' = forced, rows' \subseteq rows
    PROVE  SettingsInv'
<1>1. \A k \in Keys : settings'[k] \in {None, settings[k]}
  BY DEF Removed
<1>2. settings' \in [Keys -> Ports \cup {None}]
  BY <1>1 DEF Removed, SettingsInv
<1> QED
  BY <1>1, <1>2 DEF SettingsInv

LEMMA SetKeeps ==
    ASSUME SettingsInv, NEW k \in Keys, NEW p \in Ports \cup {None},
           settings' = [settings EXCEPT ![k] = p], forced' = Forced(k, p), rows' = rows
    PROVE  SettingsInv'
<1> DEFINE others == {j \in Keys \ {k} : settings[j] = p /\ p # None}
<1>1. forced' = IF others = {} THEN forced \ {k} ELSE forced \cup {k} \cup others
  BY DEF Forced
<1>2. settings' \in [Keys -> Ports \cup {None}] /\ settings'[k] = p
      /\ \A j \in Keys \ {k} : settings'[j] = settings[j]
  BY DEF SettingsInv
<1>3. forced' \subseteq Keys
  BY <1>1 DEF SettingsInv
<1>4. ASSUME NEW i \in Keys, NEW j \in Keys, i # j, settings'[i] = settings'[j], settings'[i] # None
      PROVE  i \in forced'
  <2>1. CASE i = k
    <3>1. j \in others
      BY <1>2, <1>4, <2>1
    <3> QED
      BY <1>1, <2>1, <3>1
  <2>2. CASE j = k
    <3>1. i \in others
      BY <1>2, <1>4, <2>2
    <3> QED
      BY <1>1, <3>1
  <2>3. CASE i # k /\ j # k
    <3>1. i \in forced
      BY <1>2, <1>4, <2>3 DEF SettingsInv
    <3> QED
      BY <1>1, <2>3, <3>1
  <2> QED
    BY <2>1, <2>2, <2>3
<1> QED
  BY <1>2, <1>3, <1>4 DEF SettingsInv

LEMMA RegistriesKeep ==
    ASSUME ServicesInv,
           \/ \E a \in Apps : RemoveExtraApp(a)
           \/ \E x \in budget.sets : SetPort(x)
           \/ \E c \in again : ManagerSetsPort(c) \/ ManagerRemoves(c)
    PROVE  ServicesInv'
<1>1. SettingsInv /\ BudgetInv /\ AgainInv
  BY DEF ServicesInv
<1>2. ASSUME NEW a \in Apps, RemoveExtraApp(a) PROVE ServicesInv'
  <2>1. UNCHANGED <<forced, unfinished, stopped>>
    BY <1>2 DEF RemoveExtraApp, ghosts
  <2>2. SettingsInv'
    BY <1>1, <1>2, <2>1, RemovedKeeps DEF RemoveExtraApp
  <2>3. BudgetInv' /\ AgainInv'
    BY <1>1, <1>2, SpendKeeps, Frames DEF RemoveExtraApp
  <2> QED
    BY <1>2, <2>1, <2>2, <2>3, SettingsStep DEF RemoveExtraApp
<1>3. ASSUME NEW x \in budget.sets, SetPort(x) PROVE ServicesInv'
  <2>1. x.key \in Keys /\ x.port \in Ports \cup {None}
    BY <1>1, <1>3 DEF BudgetInv, IsBudget
  <2>2. SettingsInv'
    BY <1>1, <1>3, <2>1, SetKeeps DEF SetPort
  <2>3. BudgetInv' /\ AgainInv'
    BY <1>1, <1>3, SpendKeeps, Frames DEF SetPort
  <2> QED
    BY <1>3, <2>2, <2>3, SettingsStep DEF SetPort
<1>4. ASSUME NEW c \in again, ManagerSetsPort(c) PROVE ServicesInv'
  <2>1. c.key \in Keys /\ c.port \in Ports \cup {None}
    BY <1>1, <1>4 DEF AgainInv, ManagerSetsPort
  <2>2. SettingsInv'
    BY <1>1, <1>4, <2>1, SetKeeps DEF ManagerSetsPort
  <2>3. BudgetInv' /\ AgainInv'
    BY <1>1, <1>4, Frames DEF ManagerSetsPort, AgainInv
  <2> QED
    BY <1>4, <2>2, <2>3, SettingsStep DEF ManagerSetsPort
<1>5. ASSUME NEW c \in again, ManagerRemoves(c) PROVE ServicesInv'
  <2>1. UNCHANGED <<forced, unfinished, stopped>>
    BY <1>5 DEF ManagerRemoves, ghosts
  <2>2. SettingsInv'
    BY <1>1, <1>5, <2>1, RemovedKeeps DEF ManagerRemoves
  <2>3. BudgetInv' /\ AgainInv'
    BY <1>1, <1>5, Frames DEF ManagerRemoves, AgainInv
  <2> QED
    BY <1>5, <2>1, <2>2, <2>3, SettingsStep DEF ManagerRemoves
<1> QED
  BY <1>2, <1>3, <1>4, <1>5

-----------------------------------------------------------------------------
(* The manager, the leader and the machine *)

LEMMA ManagerUnitsKeep ==
    ASSUME ServicesInv, NEW x, IsInstall(x), unit' = ManagerUnits(x), enabled' = enabled,
           handFiles' = {s \in handFiles : s \notin ServicesOf(x.app) \/ Links(s)}
    PROVE  UnitInv'
<1> DEFINE U == [file : {"none", "hand", "generated", "dangling"}, port : Ports \cup {None}]
<1>1. UnitInv /\ UNCHANGED enabled /\ unit' = ManagerUnits(x)
      /\ handFiles' = {s \in handFiles : s \notin ServicesOf(x.app) \/ Links(s)}
  BY DEF ServicesInv
<1>2. \A k \in DOMAIN x.ports : x.ports[k] \in Ports
  BY DEF IsInstall
<1>3. unit' = [s \in Services |-> unit'[s]]
  BY <1>1 DEF ManagerUnits
<1>4. ASSUME NEW s \in Services
      PROVE  unit'[s] \in U /\ (unit'[s].file = "hand" => s \in handFiles')
  <2>1. CASE s \notin ServicesOf(x.app)
    <3>1. unit'[s] = unit[s]
      BY <1>1, <2>1 DEF ManagerUnits
    <3> QED
      BY <1>1, <2>1, <3>1 DEF UnitInv
  <2>2. CASE s \in ServicesOf(x.app) /\ s \in handFiles
    <3>1. HandPort[s] \in Ports
      BY <1>1, <2>2, ConstantsAssumption DEF UnitInv
    <3>2. unit'[s] = IF Links(s) THEN [file |-> "hand", port |-> HandPort[s]]
                     ELSE [file |-> "dangling", port |-> None]
      BY <1>1, <2>2 DEF ManagerUnits
    <3> QED
      BY <1>1, <2>2, <3>1, <3>2
  <2>3. CASE s \in ServicesOf(x.app) /\ s \notin handFiles
    <3> DEFINE key == IF s[2] = "server" THEN <<s[1], "server", "prod">> ELSE s
               q == IF key \in DOMAIN x.ports THEN x.ports[key] ELSE None
    <3>1. unit'[s] = [file |-> "generated", port |-> q]
      BY <1>1, <2>3 DEF ManagerUnits
    <3>2. q \in Ports \cup {None}
      BY <1>2
    <3> HIDE DEF q
    <3> QED
      BY <3>1, <3>2
  <2> QED
    BY <2>1, <2>2, <2>3
<1> QED
  BY <1>1, <1>3, <1>4 DEF UnitInv

\* A change of the trees of a by the manager, which leaves what runs fresh.
LEMMA ManagerTrees ==
    ASSUME ServicesInv, NEW a \in Apps, NEW r \in Trees, a \notin Buildable => r.built = 0,
           prod' = [prod EXCEPT ![a] = r], head' \in [Apps -> 0 .. MaxCommit],
           r.commit = prod[a].commit \/ prod[a].commit = 0,
           r.built \in {0, r.commit, Mixed} \/ r.built = prod[a].built,
           UNCHANGED <<settings, proc, job, unfinished>>
    PROVE  JobInv' /\ TreeInv' /\ DeployInv'
<1>1. TreeTypes /\ ProcInv
  BY DEF ServicesInv, TreeInv
<1>2. unfinished' \subseteq Apps
  BY <1>1 DEF TreeTypes
<1>3. TreeTypes' /\ prod'[a] = r /\ \A y \in Apps \ {a} : prod'[y] = prod[y]
  BY <1>1, <1>2, ProdChanges
<1>4. Built(a) => Built(a)'
  BY <1>3 DEF Built
<1>5. \A s \in ProdServices(a) : Fresh(s) => Fresh(s)'
  <2>1. \A s \in ProdServices(a) : s \in Services /\ s[1] = a
    BY ServiceFacts DEF ProdServices
  <2>2. \A s \in Services : proc[s].st = "up" => proc[s].commit # 0
    BY <1>1 DEF ProcInv
  <2> QED
    BY <1>3, <2>1, <2>2 DEF Fresh
<1> QED
  BY <1>3, <1>4, <1>5, ProdParts

LEMMA FetchesKeep ==
    ASSUME ServicesInv, NEW x \in budget.installs, ManagerFetches(x)
    PROVE  ServicesInv'
<1>1. IsInstall(x)
  BY DEF ServicesInv, BudgetInv, IsBudget
<1>2. BudgetInv'
  <2>1. budget' = [budget EXCEPT !["installs"] = @ \ {x}]
    BY DEF ManagerFetches
  <2> QED
    BY <2>1, OnceKeeps DEF ServicesInv
<1>3. AgainInv'
  <2>1. PICK y : again' = again \cup {[cmd |-> "make", app |-> x.app, of |-> x, commit |-> y]}
    BY DEF ManagerFetches
  <2>2. ASSUME NEW c \in again', c \notin again
        PROVE  c.cmd = "make" /\ c.app \in Apps /\ IsInstall(c.of) /\ c.of.app = c.app
    BY <1>1, <2>1, <2>2 DEF IsInstall
  <2> QED
    BY <2>2 DEF AgainInv, ServicesInv
<1>4. /\ UNCHANGED <<rows, settings, proc, foreign, job>> /\ UNCHANGED units
      /\ UNCHANGED ghosts
  BY DEF ManagerFetches
<1>5. UNCHANGED <<forced, unfinished, stopped>>
  BY <1>4 DEF ghosts
<1>6. SettingsInv' /\ UnitInv' /\ ProcInv' /\ StoppedInv'
  BY <1>4, <1>5, Frames
<1>7. PICK a \in Apps : a = x.app
  BY <1>1 DEF IsInstall
<1>8. PICK c \in {head[a], MaxCommit} \ {0} :
          /\ head' = [head EXCEPT ![a] = c]
          /\ prod' = [prod EXCEPT ![a].commit = IF @ = 0 THEN c ELSE @]
  BY <1>7 DEF ManagerFetches
<1> DEFINE r == [prod[a] EXCEPT !.commit = IF @ = 0 THEN c ELSE @]
<1>9. TreeTypes
  BY DEF ServicesInv, TreeInv
<1>10. c \in 0 .. MaxCommit
  BY <1>9, ConstantsAssumption DEF TreeTypes
<1>11. prod[a] \in Trees
  BY <1>9 DEF TreeTypes
<1>12. /\ r \in Trees /\ r.built = prod[a].built
       /\ r.commit = prod[a].commit \/ prod[a].commit = 0
  BY <1>10, <1>11 DEF Trees
<1>13. prod' = [prod EXCEPT ![a] = r]
  BY <1>8
<1> HIDE DEF r
<1>14. head' \in [Apps -> 0 .. MaxCommit] /\ (a \notin Buildable => r.built = 0)
  BY <1>8, <1>9, <1>10, <1>12 DEF TreeTypes
<1>15. JobInv' /\ TreeInv' /\ DeployInv'
  BY <1>4, <1>5, <1>12, <1>13, <1>14, ManagerTrees
<1> QED
  BY <1>2, <1>3, <1>6, <1>15 DEF ServicesInv

LEMMA InstallsKeep ==
    ASSUME ServicesInv, NEW c \in again, ManagerInstalls(c)
    PROVE  ServicesInv'
<1>1. IsInstall(c.of)
  BY DEF ServicesInv, AgainInv, ManagerInstalls
<1>2. PICK a \in Apps : a = c.app
  BY DEF ServicesInv, AgainInv, ManagerInstalls
<1>3. UnitInv'
  <2>1. c.of.app = a
    BY <1>2 DEF ServicesInv, AgainInv, ManagerInstalls
  <2> QED
    BY <1>1, <1>2, <2>1, ManagerUnitsKeep DEF ManagerInstalls
<1>4. AgainInv'
  <2>1. again' = (again \ {c}) \cup {[cmd |-> "setPort", app |-> a, key |-> k, port |-> c.of.ports[k]] :
                                     k \in DOMAIN c.of.ports}
    BY <1>2 DEF ManagerInstalls
  <2>2. ASSUME NEW d \in again', d \notin again
        PROVE  d.cmd = "setPort" /\ d.key \in Keys /\ d.port \in Ports \cup {None}
    BY <1>1, <2>1, <2>2 DEF IsInstall
  <2> QED
    BY <2>1, <2>2 DEF AgainInv, ServicesInv
<1>5. UNCHANGED <<budget, rows, settings, proc, foreign, head, job>> /\ UNCHANGED ghosts
  BY DEF ManagerInstalls
<1>6. UNCHANGED <<forced, unfinished, stopped>>
  BY <1>5 DEF ghosts
<1>7. BudgetInv' /\ SettingsInv' /\ ProcInv' /\ StoppedInv'
  BY <1>5, <1>6, Frames
<1>8. PICK b \in {prod[a].built, prod[a].commit, Mixed} :
          prod' = [prod EXCEPT ![a].built = IF a \in Buildable /\ prod[a].commit # 0 THEN b ELSE @]
  BY <1>2 DEF ManagerInstalls
<1> DEFINE r == [prod[a] EXCEPT !.built = IF a \in Buildable /\ prod[a].commit # 0 THEN b ELSE @]
<1>9. TreeTypes
  BY DEF ServicesInv, TreeInv
<1>10. prod[a] \in Trees /\ head \in [Apps -> 0 .. MaxCommit]
       /\ (a \notin Buildable => prod[a].built = 0)
  BY <1>9 DEF TreeTypes
<1>11. /\ r \in Trees /\ r.commit = prod[a].commit
       /\ r.built \in {r.commit, Mixed} \/ r.built = prod[a].built
       /\ a \notin Buildable => r.built = 0
  BY <1>10 DEF Trees
<1>12. prod' = [prod EXCEPT ![a] = r]
  BY <1>8
<1> HIDE DEF r
<1>13. JobInv' /\ TreeInv' /\ DeployInv'
  BY <1>5, <1>6, <1>10, <1>11, <1>12, ManagerTrees
<1> QED
  BY <1>3, <1>4, <1>7, <1>13 DEF ServicesInv

LEMMA UninstallsKeep ==
    ASSUME ServicesInv, NEW a \in Apps, ManagerUninstalls(a)
    PROVE  ServicesInv'
<1>1. /\ proc' = [s \in Services |-> IF s[1] = a THEN Off ELSE proc[s]]
      /\ enabled' = {s \in enabled : s[1] # a}
      /\ unit' = [s \in Services |-> IF s[1] = a /\ Usable(s) THEN NoUnit ELSE unit[s]]
      /\ head' = [head EXCEPT ![a] = 0]
      /\ prod' = [prod EXCEPT ![a] = [commit |-> 0, edited |-> FALSE, built |-> 0]]
      /\ unfinished' = unfinished \ {a}
      /\ again' = again \cup {[cmd |-> "remove", app |-> a]}
            \cup {[cmd |-> "setPort", app |-> a, key |-> k, port |-> None] : k \in KeysOf(a)}
      /\ UNCHANGED <<rows, settings, handFiles, foreign, job, forced, stopped>>
      /\ budget' = [budget EXCEPT !["uninstalls"] = @ \ {a}]
  BY DEF ManagerUninstalls
<1>2. BudgetInv'
  BY <1>1, OnceKeeps DEF ServicesInv
<1>3. AgainInv'
  <2>1. KeysOf(a) \subseteq Keys
    BY DEF KeysOf, Keys, Parts, Modes
  <2>2. ASSUME NEW c \in again', c \notin again
        PROVE  \/ c.cmd = "remove" /\ c.app \in Apps
               \/ c.cmd = "setPort" /\ c.key \in Keys /\ c.port \in Ports \cup {None}
    BY <1>1, <2>1, <2>2
  <2> QED
    BY <2>2 DEF ServicesInv, AgainInv
<1>4. SettingsInv' /\ JobInv'
  BY <1>1, Frames
<1>5. UnitInv'
  BY <1>1 DEF ServicesInv, UnitInv, NoUnit
<1>6. proc \in [Services -> ProcRecords] /\ TreeTypes /\ UnitInv /\ ProcInv /\ TreeInv /\ DeployInv /\ JobInv
  BY DEF ServicesInv, ProcInv, ProcRecords, TreeInv
<1>7. Moves
  BY <1>1, <1>6, RecordFacts DEF Moves
<1>8. ProcInv'
  BY <1>1, <1>6, <1>7, MovesKeepProcs
<1>9. StoppedInv'
  BY <1>1, RecordFacts DEF ServicesInv, StoppedInv
<1>10. TreeTypes' /\ \A b \in Apps \ {a} : prod'[b] = prod[b]
  <2>1. 0 \in 0 .. MaxCommit
    BY ConstantsAssumption
  <2> QED
    BY <1>1, <1>6, <2>1 DEF TreeTypes, Trees
<1>11. Built(a)' /\ \A s \in ProdServices(a) : Fresh(s)'
  <2>1. prod'[a] = [commit |-> 0, edited |-> FALSE, built |-> 0]
    BY <1>1, <1>6 DEF TreeTypes, Trees
  <2>2. \A s \in ProdServices(a) : s \in Services /\ s[1] = a
    BY ServiceFacts DEF ProdServices
  <2> QED
    BY <1>1, <2>1, <2>2, RecordFacts DEF Built, Fresh
<1>12. ASSUME NEW b \in Apps \ {a}
       PROVE  /\ Built(b) => Built(b)'
              /\ \A s \in ProdServices(b) : Fresh(s) => Fresh(s)'
  <2>1. \A s \in ProdServices(b) : s \in Services /\ s[1] = b
    BY ServiceFacts DEF ProdServices
  <2>2. \A s \in ProdServices(b) : proc'[s] = proc[s]
    BY <1>1, <2>1
  <2> QED
    BY <1>10, <2>1, <2>2 DEF Built, Fresh
<1>13. TreeInv'
  <2>1. ASSUME NEW b \in Apps \ unfinished' PROVE Built(b)' /\ \A s \in ProdServices(b) : Fresh(s)'
    BY <1>1, <1>6, <1>11, <1>12 DEF TreeInv
  <2> QED
    BY <1>10, <2>1 DEF TreeInv
<1>14. DeployInv'
  <2>1. CASE job = NoJob
    BY <1>1, <2>1, NoDeploy
  <2>2. ASSUME job # NoJob, NEW b, b = job.app PROVE DeployInv'
    <3>1. b \in Apps
      BY <1>6, <2>2 DEF JobInv
    <3>2. (Built(b) => Built(b)') /\ \A s \in ProdServices(b) : Fresh(s) => Fresh(s)'
      BY <1>11, <1>12, <3>1
    <3> QED
      BY <1>1, <1>6, <2>2, <3>2, DeployStays
  <2> QED
    BY <2>1, <2>2
<1> QED
  BY <1>2, <1>3, <1>4, <1>5, <1>8, <1>9, <1>13, <1>14 DEF ServicesInv

LEMMA LeaderLeaves ==
    ASSUME LeaderStep
    PROVE  /\ budget' = budget \/ Spend("losses")
           /\ UNCHANGED <<rows, settings, proc, foreign, job, again>>
           /\ UNCHANGED units /\ UNCHANGED trees /\ UNCHANGED ghosts
<1>1. CASE ConnectToLeader \/ SendStatus \/ Heartbeat \/ LinkBreaks \/ DisconnectFromLeader
  BY <1>1 DEF ConnectToLeader, SendStatus, Heartbeat, LinkBreaks, DisconnectFromLeader
<1>2. CASE UpdatePeerAppStatus \/ LastSeenLapses \/ LeaderRestarts
  BY <1>2 DEF UpdatePeerAppStatus, LastSeenLapses, LeaderRestarts
<1>3. ASSUME NEW i, LateAppStatus(i) \/ ClearPeerAppStatus(i) \/ LeaderChangesApps(i)
      PROVE  /\ budget' = budget
             /\ UNCHANGED <<rows, settings, proc, foreign, job, again>>
             /\ UNCHANGED units /\ UNCHANGED trees /\ UNCHANGED ghosts
  BY <1>3 DEF LateAppStatus, ClearPeerAppStatus, LeaderChangesApps
<1> QED
  BY <1>1, <1>2, <1>3 DEF LeaderStep

LEMMA LeaderKeeps ==
    ASSUME ServicesInv, LeaderStep
    PROVE  ServicesInv'
<1>1. BudgetInv'
  BY LeaderLeaves, SpendKeeps, Frames DEF ServicesInv
<1>2. prod' = prod
  BY LeaderLeaves DEF trees
<1>3. AgainInv' /\ JobInv' /\ DeployInv'
  BY <1>2, LeaderLeaves, Frames
<1> QED
  BY <1>1, <1>3, LeaderLeaves, BeginStep

LEMMA DiesKeeps ==
    ASSUME ServicesInv, DaemonDies
    PROVE  ServicesInv'
<1>1. BudgetInv' /\ AgainInv'
  BY SpendKeeps, Frames DEF DaemonDies, ServicesInv
<1>2. JobInv' /\ DeployInv'
  BY JobKeeps, NoDeploy DEF DaemonDies, ServicesInv
<1> QED
  BY <1>1, <1>2, BeginStep DEF DaemonDies

LEMMA RebootKeeps ==
    ASSUME ServicesInv, Reboot
    PROVE  ServicesInv'
<1> DEFINE up == {t \in UNION {Wanted(s) : s \in {x \in enabled : Usable(x)}} : Usable(t)}
<1>1. /\ proc' = [s \in Services |-> IF s \in up THEN Launched(s) ELSE Off]
      /\ stopped' = stopped \ up /\ job' = NoJob /\ foreign' = {} /\ Spend("reboots")
      /\ UNCHANGED <<rows, settings, again, forced, unfinished>>
      /\ UNCHANGED units /\ UNCHANGED trees
  BY DEF Reboot
<1> HIDE DEF up
<1>2. BudgetInv'
  BY <1>1, SpendKeeps DEF ServicesInv
<1>3. AgainInv' /\ SettingsInv' /\ UnitInv'
  BY <1>1, Frames
<1>4. UnitInv /\ TreeTypes /\ TreeInv /\ ProcInv
  BY DEF ServicesInv, TreeInv
<1>5. Moves
  BY <1>1, <1>4, LaunchedFacts, RecordFacts DEF Moves
<1>6. ProcInv' /\ TreeInv'
  BY <1>1, <1>4, <1>5, MovesKeepProcs, MovesKeepTrees
<1>7. StoppedInv'
  BY <1>1, RecordFacts DEF ServicesInv, StoppedInv
<1>8. JobInv' /\ DeployInv'
  BY <1>1, JobKeeps, NoDeploy DEF ServicesInv
<1> QED
  BY <1>2, <1>3, <1>6, <1>7, <1>8 DEF ServicesInv

-----------------------------------------------------------------------------
(* The theorems *)

LEMMA ServicesStep ==
    ASSUME ServicesInv, [Next]_vars
    PROVE  ServicesInv'
<1>1. CASE JobStep \/ WaitKills
  BY <1>1, StopKeeps, StartKeeps, RestartKeeps, KillKeeps, WaitKeeps, EnableKeeps, InstallKeeps,
     CheckoutKeeps, BuildKeeps DEF JobStep
<1>2. CASE \E s \in Services : Bind(s) \/ Relaunch(s) \/ Fails(s)
  BY <1>2, BindKeeps, RelaunchKeeps, FailsKeeps
<1>3. CASE \E p \in Ports : ForeignListens(p)
  BY <1>3, ForeignKeeps
<1>4. CASE \/ \E c \in budget.commands : Run(c)
           \/ \E c \in budget.remote : RunFromPeer(c)
           \/ \E c \in {x \in again : x.cmd \in {"startApp", "stopApp"}} : RunAgain(c)
           \/ \E a \in Apps : \E c \in Commits : Deploy(a, c)
  BY <1>4, RunKeeps, RunFromPeerKeeps, RunAgainKeeps, DeployKeeps
<1>5. CASE \E a \in Apps : Commit(a) \/ EditProd(a) \/ CleanProd(a)
  BY <1>5, TreeActionsKeep
<1>6. CASE \E a \in Apps : AddExtraApp(a) \/ RemoveExtraApp(a) \/ ManagerUninstalls(a)
  BY <1>6, AddKeeps, RegistriesKeep, UninstallsKeep
<1>7. CASE \/ \E x \in budget.sets : SetPort(x)
           \/ \E c \in again : ManagerSetsPort(c) \/ ManagerRemoves(c)
  BY <1>7, RegistriesKeep
<1>8. CASE \/ \E x \in budget.installs : ManagerFetches(x)
           \/ \E c \in again : ManagerInstalls(c)
  BY <1>8, FetchesKeep, InstallsKeep
<1>9. CASE LeaderStep
  BY <1>9, LeaderKeeps
<1>10. CASE DaemonDies \/ Reboot
  BY <1>10, DiesKeeps, RebootKeeps
<1>11. CASE UNCHANGED vars
  <2>1. /\ UNCHANGED <<budget, rows, settings, proc, foreign, job, again>>
        /\ UNCHANGED units /\ UNCHANGED trees /\ UNCHANGED ghosts
    BY <1>11 DEF vars
  <2>2. prod' = prod
    BY <2>1 DEF trees
  <2>3. BudgetInv' /\ AgainInv' /\ JobInv' /\ DeployInv'
    BY <2>1, <2>2, Frames
  <2> QED
    BY <2>1, <2>3, BeginStep
<1> QED
  BY <1>1, <1>2, <1>3, <1>4, <1>5, <1>6, <1>7, <1>8, <1>9, <1>10, <1>11 DEF Next

LEMMA ServicesInit ==
    ASSUME Init
    PROVE  ServicesInv
<1>1. BudgetInv /\ budget \in Budgets
  BY BudgetsAssumption DEF Init, BudgetInv
<1>2. AgainInv
  BY DEF Init, AgainInv
<1>3. SettingsInv
  <2> DEFINE g == budget.settings
  <2>1. /\ DOMAIN g \subseteq Keys /\ \A k \in DOMAIN g : g[k] \in Ports
        /\ \A k, j \in DOMAIN g : g[k] = g[j] => k = j
        /\ budget.rows \subseteq Extra
    BY <1>1 DEF BudgetInv, IsBudget
  <2>2. settings = [k \in Keys |-> IF k \in DOMAIN g THEN g[k] ELSE None]
        /\ rows = budget.rows /\ forced = {}
    BY DEF Init
  <2> HIDE DEF g
  <2> QED
    BY <2>1, <2>2 DEF SettingsInv
<1>4. UnitInv
  BY ConstantsAssumption DEF Init, UnitInv, NoUnit
<1>5. ProcInv /\ StoppedInv
  BY RecordFacts DEF Init, ProcInv, StoppedInv, ProcRecords
<1>6. TreeInv
  <2>1. 0 \in 0 .. MaxCommit /\ 1 \in 0 .. MaxCommit
    BY ConstantsAssumption
  <2>2. TreeTypes
    BY <2>1 DEF Init, TreeTypes, Trees
  <2>3. \A a \in Apps : Built(a)
    BY DEF Init, Built
  <2>4. \A a \in Apps : \A s \in ProdServices(a) : Fresh(s)
    BY ServiceFacts, RecordFacts DEF Init, Fresh, ProdServices
  <2> QED
    BY <2>2, <2>3, <2>4 DEF TreeInv
<1>7. JobInv /\ DeployInv
  BY DEF Init, JobInv, DeployInv, NoJob
<1> QED
  BY <1>1, <1>2, <1>3, <1>4, <1>5, <1>6, <1>7 DEF ServicesInv

\* A status is under way only on the connection that the worker has.
LinkInv ==
    /\ link \in {"none", "up", "broken"} /\ online \in BOOLEAN /\ leaderRows \subseteq Extra
    /\ report.known => link = "up"

LEMMA LeaderAside ==
    ASSUME [Next]_vars, ~LeaderStep, ~DaemonDies, ~Reboot
    PROVE  UNCHANGED leaderVars
<1>1. CASE JobStep \/ WaitKills
  BY <1>1 DEF JobStep, WaitKills, StopService, StartService, RestartService, KillProcessOnPort,
     WaitForPortRelease, EnableService, DisableService, InstallService, Checkout, CheckoutFails,
     Build
<1>2. ASSUME NEW s, Bind(s) \/ Relaunch(s) \/ Fails(s) \/ ForeignListens(s)
      PROVE  UNCHANGED leaderVars
  BY <1>2 DEF Bind, Relaunch, Fails, ForeignListens
<1>3. ASSUME NEW c, Run(c) \/ RunFromPeer(c) \/ RunAgain(c) PROVE UNCHANGED leaderVars
  BY <1>3 DEF Run, RunFromPeer, RunAgain
<1>4. ASSUME NEW a, NEW c, Deploy(a, c) PROVE UNCHANGED leaderVars
  BY <1>4 DEF Deploy
<1>5. ASSUME NEW a, \/ Commit(a) \/ EditProd(a) \/ CleanProd(a) \/ AddExtraApp(a)
                    \/ RemoveExtraApp(a) \/ ManagerUninstalls(a)
      PROVE  UNCHANGED leaderVars
  BY <1>5 DEF Commit, EditProd, CleanProd, AddExtraApp, RemoveExtraApp, ManagerUninstalls
<1>6. ASSUME NEW x, \/ SetPort(x) \/ ManagerFetches(x) \/ ManagerInstalls(x)
                    \/ ManagerSetsPort(x) \/ ManagerRemoves(x)
      PROVE  UNCHANGED leaderVars
  BY <1>6 DEF SetPort, ManagerFetches, ManagerInstalls, ManagerSetsPort, ManagerRemoves
<1>7. CASE UNCHANGED vars
  BY <1>7 DEF vars
<1> QED
  BY <1>1, <1>2, <1>3, <1>4, <1>5, <1>6, <1>7 DEF Next

LEMMA LinkInit == ASSUME Init PROVE LinkInv
<1>1. ~NoReport.known
  BY DEF NoReport
<1>2. link = "none" /\ online = FALSE /\ leaderRows = {} /\ report = NoReport
  BY DEF Init
<1> QED
  BY <1>1, <1>2 DEF LinkInv

LEMMA LinkNext ==
    ASSUME LinkInv, ServicesInv, [Next]_vars
    PROVE  LinkInv'
<1>1. ~NoReport.known /\ Status.known
  BY DEF NoReport, Status
<1>2. CASE ConnectToLeader \/ SendStatus \/ Heartbeat \/ DisconnectFromLeader
  BY <1>1, <1>2 DEF LinkInv, ConnectToLeader, SendStatus, Heartbeat, DisconnectFromLeader, linkVars
<1>3. CASE LinkBreaks \/ DaemonDies \/ Reboot
  BY <1>1, <1>3 DEF LinkInv, LinkBreaks, DaemonDies, Reboot, LinkEnds
<1>4. CASE UpdatePeerAppStatus \/ LastSeenLapses \/ LeaderRestarts
  BY <1>1, <1>4 DEF LinkInv, UpdatePeerAppStatus, LastSeenLapses, LeaderRestarts, linkVars
<1>5. ASSUME NEW i, LateAppStatus(i) \/ ClearPeerAppStatus(i) PROVE LinkInv'
  BY <1>5 DEF LinkInv, LateAppStatus, ClearPeerAppStatus
<1>6. ASSUME NEW a \in budget.leaderApps, LeaderChangesApps(a) PROVE LinkInv'
  <2>1. a \in Extra
    BY DEF ServicesInv, BudgetInv, IsBudget
  <2> QED
    BY <1>6, <2>1 DEF LinkInv, LeaderChangesApps, linkVars
<1>7. CASE UNCHANGED leaderVars
  BY <1>7 DEF LinkInv, leaderVars, linkVars
<1> QED
  BY <1>2, <1>3, <1>4, <1>5, <1>6, <1>7, LeaderAside DEF LeaderStep

\* The registries, unit files, processes and trees keep their types for any set
\* of applications; a link to a hand-written unit file has its file; no two
\* processes listen on one port, though commands, systemd and the manager start
\* them beside each other; a command has steps until it ends.
THEOREM ServicesTypes == Spec => []TypeOK
<1>1. Init => ServicesInv /\ LinkInv
  BY ServicesInit, LinkInit
<1>2. ServicesInv /\ LinkInv /\ [Next]_vars => ServicesInv' /\ LinkInv'
  BY ServicesStep, LinkNext
<1>3. ServicesInv /\ LinkInv => TypeOK
  <2> SUFFICES ASSUME ServicesInv, LinkInv PROVE TypeOK
    OBVIOUS
  <2>1. ASSUME NEW s \in Services, proc[s].st = "up", proc[s].port # None
        PROVE  Held(proc, proc[s].port) = {s} /\ proc[s].port \notin foreign
    BY <2>1 DEF ServicesInv, ProcInv, Held
  <2>2. \A s \in Services :
          /\ unit[s].file \in {"none", "hand", "generated", "dangling"}
          /\ unit[s].file = "hand" => s \in handFiles
    BY DEF ServicesInv, UnitInv
  <2>3. \A s \in Services :
          /\ proc[s].st \in {"off", "starting", "up", "waiting"}
          /\ proc[s].commit \in 0 .. MaxCommit
    BY DEF ServicesInv, ProcInv
  <2>4. /\ rows \subseteq Extra /\ settings \in [Keys -> Ports \cup {None}]
        /\ handFiles \subseteq DOMAIN HandPort /\ enabled \subseteq Services /\ foreign \subseteq Ports
        /\ job # NoJob => job.steps # <<>>
        /\ forced \subseteq Keys /\ unfinished \subseteq Apps /\ stopped \subseteq Services
    BY DEF ServicesInv, SettingsInv, UnitInv, ProcInv, JobInv, TreeInv, TreeTypes, StoppedInv
  <2> QED
    BY <2>1, <2>2, <2>3, <2>4 DEF TypeOK, LinkInv
<1> QED
  BY <1>1, <1>2, <1>3, PTL DEF Spec

\* What stopApp stopped stays down until it is started again, whatever systemd,
\* other commands, the manager and the leader do meanwhile (handleStopApp, whose
\* fuser -k makes systemd start services again).
THEOREM StopsForGood == Spec => []StoppedStaysStopped
<1>1. Init => ServicesInv
  BY ServicesInit
<1>2. ServicesInv /\ [Next]_vars => ServicesInv'
  BY ServicesStep
<1>3. ServicesInv => StoppedStaysStopped
  BY DEF ServicesInv, StoppedInv, StoppedStaysStopped
<1> QED
  BY <1>1, <1>2, <1>3, PTL DEF Spec

\* Unless a deploy did not end, what runs in prod and what is built there are of
\* the commit that is checked out, with the manager installing and removing
\* applications beside the deploy (handleDeployToProd).
THEOREM ProdOfOneCommit == Spec => []ProdIsOfOneCommit
<1>1. Init => ServicesInv
  BY ServicesInit
<1>2. ServicesInv /\ [Next]_vars => ServicesInv'
  BY ServicesStep
<1>3. ServicesInv => ProdIsOfOneCommit
  <2> SUFFICES ASSUME ServicesInv, NEW a \in Apps \ unfinished
               PROVE  /\ prod[a].built \in {0, prod[a].commit, Mixed}
                      /\ \A s \in ServicesOf(a) :
                            s[3] = "prod" /\ proc[s].st = "up" => proc[s].commit = prod[a].commit
    BY DEF ProdIsOfOneCommit
  <2>1. Built(a) /\ \A s \in ProdServices(a) : Fresh(s)
    BY DEF ServicesInv, TreeInv
  <2>2. ASSUME NEW s \in ServicesOf(a), s[3] = "prod", proc[s].st = "up"
        PROVE  proc[s].commit = prod[a].commit
    <3>1. s \in ProdServices(a) /\ s[1] = a
      BY <2>2, ServiceFacts DEF ProdServices
    <3> QED
      BY <2>1, <2>2, <3>1 DEF Fresh
  <2> QED
    BY <2>1, <2>2 DEF Built
<1> QED
  BY <1>1, <1>2, <1>3, PTL DEF Spec

Innocent(s) ==
    (proc[s].st = "up" /\ proc'[s].st = "waiting" /\ budget' = budget /\ job.app # s[1]) =>
        \A k \in Keys : k[1] = s[1] /\ settings[k] = proc[s].port => k \in forced

\* Of the steps that leave the budget alone, only the kills of a command make a
\* process that is up wait.
LEMMA OnlyKills ==
    ASSUME ServicesInv, [Next]_vars, NEW s \in Services, proc[s].st = "up",
           proc'[s].st = "waiting", budget' = budget
    PROVE  KillProcessOnPort \/ WaitKills
<1> SUFFICES ASSUME ~KillProcessOnPort, ~WaitKills PROVE FALSE
  OBVIOUS
<1>1. proc \in [Services -> ProcRecords] /\ IsBudget(budget) /\ JobInv
  BY DEF ServicesInv, ProcInv, ProcRecords, BudgetInv
<1>2. ~Fails(s)
  <2>1. budget.faults \in Nat /\ budget = [f \in BudgetFields |-> budget[f]]
    BY <1>1 DEF IsBudget
  <2>2. ASSUME Spend("faults") PROVE FALSE
    <3>1. budget'["faults"] = budget["faults"] - 1
      BY <2>1, <2>2 DEF Spend, BudgetFields
    <3> QED
      BY <2>1, <3>1
  <2> QED
    BY <2>2 DEF Fails
<1>3. \A t \in Services : ~Bind(t) /\ ~Relaunch(t) /\ ~Fails(t)
  <2>1. ASSUME NEW t \in Services, proc[t].st # "up", proc' = Killed(proc, {t}) PROVE FALSE
    BY <2>1 DEF Killed
  <2>2. ASSUME NEW t \in Services, Bind(t) PROVE FALSE
    BY <1>1, <2>1, <2>2 DEF Bind
  <2>3. ASSUME NEW t \in Services, Relaunch(t) PROVE FALSE
    BY <1>1, <2>3, RecordFacts DEF Relaunch, Started
  <2>4. ASSUME NEW t \in Services, Fails(t) PROVE FALSE
    BY <1>2, <2>4 DEF Fails, Killed
  <2> QED
    BY <2>2, <2>3, <2>4
<1>4. ~StopService /\ ~RestartService /\ ~StartService
  <2>1. ASSUME StopService PROVE FALSE
    BY <1>1, <2>1, RecordFacts, ServiceStep DEF StopService, At
  <2>2. ASSUME StartService PROVE FALSE
    BY <1>1, <2>2 DEF StartService, Started
  <2>3. ASSUME RestartService PROVE FALSE
    <3>1. proc'[s] \in {proc[s], Off, Launched(s)}
      BY <1>1, <2>3 DEF RestartService, Started
    <3> QED
      BY <3>1, RecordFacts DEF Launched
  <2> QED
    BY <2>1, <2>2, <2>3
<1>5. ~Reboot
  <2>1. ASSUME Reboot PROVE FALSE
    <3>1. proc'[s] \in {Off, Launched(s)}
      BY <2>1 DEF Reboot
    <3> QED
      BY <3>1, RecordFacts DEF Launched
  <2> QED
    BY <2>1
<1>6. \A a \in Apps : ~ManagerUninstalls(a)
  BY RecordFacts DEF ManagerUninstalls
<1>7. proc' # proc
  OBVIOUS
<1>8. ~UNCHANGED vars
  BY <1>7 DEF vars
<1>9. ~JobStep
  BY <1>4, <1>7 DEF JobStep, WaitForPortRelease, EnableService, DisableService, InstallService,
     Checkout, CheckoutFails, Build
<1>10. /\ \A p \in Ports : ~ForeignListens(p)
       /\ \A c : ~Run(c) /\ ~RunFromPeer(c) /\ ~RunAgain(c)
       /\ \A a, c : ~Deploy(a, c)
  BY <1>7 DEF ForeignListens, Run, RunFromPeer, RunAgain, Deploy
<1>11. \A a : ~Commit(a) /\ ~EditProd(a) /\ ~CleanProd(a) /\ ~AddExtraApp(a) /\ ~RemoveExtraApp(a)
  BY <1>7 DEF Commit, EditProd, CleanProd, AddExtraApp, RemoveExtraApp
<1>12. \A x : /\ ~SetPort(x) /\ ~ManagerFetches(x) /\ ~ManagerInstalls(x)
              /\ ~ManagerSetsPort(x) /\ ~ManagerRemoves(x)
  BY <1>7 DEF SetPort, ManagerFetches, ManagerInstalls, ManagerSetsPort, ManagerRemoves
<1>13. ~LeaderStep /\ ~DaemonDies
  BY <1>7, LeaderLeaves DEF DaemonDies
<1> QED
  BY <1>3, <1>5, <1>6, <1>8, <1>9, <1>10, <1>11, <1>12, <1>13 DEF Next

LEMMA KillsInnocent ==
    ASSUME ServicesInv, [Next]_vars, NEW s \in Services
    PROVE  Innocent(s)
<1> SUFFICES ASSUME proc[s].st = "up", proc'[s].st = "waiting", budget' = budget, job.app # s[1],
                    NEW k \in Keys, k[1] = s[1], settings[k] = proc[s].port
             PROVE  k \in forced
  BY DEF Innocent
<1>1. KillProcessOnPort \/ WaitKills
  BY OnlyKills
<1>2. /\ job # NoJob /\ Next1.op \in {"kill", "wait"}
      /\ proc' = Killed(proc, Held(proc, Next1.on))
  BY <1>1 DEF KillProcessOnPort, WaitKills, At
<1>3. s \in Held(proc, Next1.on)
  BY <1>2 DEF Killed
<1>4. PICK j \in Keys : j[1] = job.app /\ settings[j] = Next1.on /\ Next1.on # None
  BY <1>2, PortStep DEF ServicesInv
<1>5. settings[k] = settings[j] /\ settings[k] # None /\ k # j
  BY <1>3, <1>4 DEF Held
<1> QED
  BY <1>5 DEF ServicesInv, SettingsInv

\* fuser -k in stopApp and in waitForPortRelease kills a process of another
\* application only if no setting of the other names the port, or setPort gave
\* the port to two keys.
THEOREM KillsAreOwn == Spec => KillsOnlyUnnamed
<1>1. Init => ServicesInv
  BY ServicesInit
<1>2. ServicesInv /\ [Next]_vars => ServicesInv'
  BY ServicesStep
<1>3. ServicesInv /\ [Next]_vars =>
        [\A s \in Services :
          (proc[s].st = "up" /\ proc'[s].st = "waiting" /\ budget' = budget /\ job.app # s[1]) =>
             \A k \in Keys : k[1] = s[1] /\ settings[k] = proc[s].port => k \in forced]_vars
  BY KillsInnocent DEF Innocent
<1> QED
  BY <1>1, <1>2, <1>3, PTL DEF Spec, KillsOnlyUnnamed
=============================================================================
