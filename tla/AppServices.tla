---------------------------- MODULE AppServices ----------------------------
(***************************************************************************)
(* The services of the applications on one machine: the commands of        *)
(* cmdApp.cpp that start, stop, restart, enable, deploy and install them   *)
(* through systemctl, fuser and git; the manager's side of installing and  *)
(* removing an application (utilities/daemon-manager.py); and what the     *)
(* leader is told of the services (getAppPeers).                           *)
(*                                                                         *)
(* A command runs in the event loop, so commands do not interleave with    *)
(* each other; but it is a sequence of external commands, and between two  *)
(* of them systemd starts failed services again (Restart=on-failure),      *)
(* programs take their ports, the manager acts, or the daemon dies.        *)
(***************************************************************************)
EXTENDS Integers, Sequences, FiniteSets, SequencesExt

CONSTANTS
    Apps,
    Extra,          \* those of the table extra_apps; the others are in APP_CONFIGS
    HasServer,      \* those with a service and a port key for a server
    Shared,         \* those whose server's service name has no {mode}
    Buildable,      \* those with a server to build
    DevOnly,        \* those without a path for prod
    Ignored,        \* those whose repository ignores the directory build
    HandPort,       \* the ports in hand-written unit files, by service
    FirstServerPort,\* 3500; clients get pairs of ports from 1 (3000) on
    MaxPort,        \* the last port that is given out
    MaxCommit,      \* bound of the model on commits of the dev trees
    Budgets         \* bound of the model: what the outside may do

Modes == {"dev", "prod"}
Parts == {"client", "server"}
None == 0
Ports == 1 .. MaxPort
Commits == 1 .. MaxCommit

ASSUME ConstantsAssumption ==
    /\ Extra \cup HasServer \cup Buildable \cup DevOnly \cup Ignored \subseteq Apps
    /\ Shared \subseteq HasServer
    /\ MaxPort \in Nat /\ FirstServerPort \in 1 .. MaxPort /\ MaxCommit \in Nat \ {0}
    /\ \A s \in DOMAIN HandPort : s[1] \in Apps \ Extra /\ HandPort[s] \in Ports

\* resolveServiceName
Service(a, part, m) == IF part = "server" /\ a \in Shared THEN <<a, part, "both">> ELSE <<a, part, m>>

ModesOf(a) == IF a \in DevOnly THEN {"dev"} ELSE Modes

PartsOf(a) == IF a \in HasServer THEN Parts ELSE {"client"}

ServicesOf(a) == {Service(a, p, m) : p \in PartsOf(a), m \in ModesOf(a)}

Services == UNION {ServicesOf(a) : a \in Apps}
Keys == Apps \X Parts \X Modes      \* port_<app>-dev, port_<app>-server-dev, ...

\* A command of a user: only some take both modes at once
IsCommand(c) ==
    /\ c.cmd \in {"startApp", "stopApp", "restartApp", "enableApp", "disableApp", "buildApp",
                  "installAppServices"}
    /\ c.app \in Apps /\ c.mode \in Modes \cup {"all"}
    /\ c.mode = "all" => c.cmd \in {"stopApp", "disableApp", "installAppServices"}

BudgetFields ==
    {"rows", "settings", "commands", "count", "faults", "ports", "remote", "deploys", "edits",
     "changes", "sets", "installs", "uninstalls", "leader", "leaderApps", "losses", "reboots"}

\* What a user has the manager install
IsInstall(x) ==
    /\ x.app \in Apps /\ DOMAIN x.ports \subseteq Keys
    /\ \A k \in DOMAIN x.ports : x.ports[k] \in Ports

\* What the outside may do, and the registries to begin with, in which no port is
\* given out twice
IsBudget(b) ==
    /\ b = [f \in BudgetFields |-> b[f]]
    /\ {b.count, b.faults, b.edits, b.losses, b.reboots} \subseteq Nat
    /\ b.rows \cup b.leaderApps \subseteq Extra /\ b.ports \subseteq Ports
    /\ b.deploys \cup b.changes \cup b.uninstalls \subseteq Apps
    /\ DOMAIN b.settings \subseteq Keys
    /\ \A k \in DOMAIN b.settings : b.settings[k] \in Ports
    /\ \A k, j \in DOMAIN b.settings : b.settings[k] = b.settings[j] => k = j
    /\ \A c \in b.commands \cup b.remote : IsCommand(c)
    /\ \A x \in b.sets : x.key \in Keys /\ x.port \in Ports \cup {None}
    /\ \A x \in b.installs : IsInstall(x)

ASSUME BudgetsAssumption == \A b \in Budgets : IsBudget(b)

VARIABLES
    budget,     \* what the outside may still do
    rows,       \* the applications in extra_apps
    settings,   \* the ports of the settings table
    handFiles,  \* the services whose hand-written unit file exists
    unit,       \* the unit file of each service, and the port in it
    enabled,    \* the services that start with the machine
    proc,       \* the processes of each service
    foreign,    \* ports that programs outside systemd listen on
    head,       \* the commit of each dev tree
    prod,       \* the prod tree of each application
    job,        \* what the event loop still has to do of a command
    again,      \* what managers still have to do: commands for the daemon, and
                \* installations whose make runs
    link,       \* the connection to the leader: none, up, or broken and not seen so
    report,     \* the status on its way to the leader
    ended,      \* of the connections that ended: the status the leader has not read
    cache,      \* the status the leader keeps (peerAppStatusCache)
    online,     \* whether the leader takes this machine for online
    leaderRows, \* the applications in the leader's own extra_apps
    forced,     \* ghost: keys that setPort put on a port in use
    unfinished, \* ghost: applications whose last deploy checked out and did not end
    stopped     \* ghost: services that stopApp stopped, not started since

trees == <<head, prod>>
units == <<handFiles, unit, enabled>>
linkVars == <<link, report, ended>>
leaderVars == <<linkVars, cache, online, leaderRows>>
ghosts == <<forced, unfinished, stopped>>
vars == <<budget, rows, settings, units, proc, foreign, trees, job, again, leaderVars, ghosts>>

NoUnit == [file |-> "none", port |-> None]
Off == [st |-> "off", port |-> None, commit |-> 0]
NoJob == [app |-> "none", cmd |-> "none", steps |-> <<>>]
NoReport == [known |-> FALSE, apps |-> {}, running |-> {}]
Mixed == MaxCommit + 1      \* a build of a tree that changed under the make

Step(op, x) == [op |-> op, on |-> x]

Init ==
    /\ budget \in Budgets
    /\ rows = budget.rows
    /\ settings = [k \in Keys |-> IF k \in DOMAIN budget.settings THEN budget.settings[k] ELSE None]
    /\ handFiles = DOMAIN HandPort
    /\ unit = [s \in Services |->
                IF s \in DOMAIN HandPort THEN [file |-> "hand", port |-> HandPort[s]] ELSE NoUnit]
    /\ enabled = {} /\ foreign = {}
    /\ proc = [s \in Services |-> Off]
    /\ head = [a \in Apps |-> 1]
    /\ prod = [a \in Apps |-> [commit |-> 1, edited |-> FALSE, built |-> 0]]
    /\ job = NoJob /\ again = {}
    /\ link = "none" /\ report = NoReport /\ ended = <<>>
    /\ cache = NoReport /\ online = FALSE /\ leaderRows = {}
    /\ forced = {} /\ unfinished = {} /\ stopped = {}

Spend(what) ==
    /\ budget[what] > 0
    /\ budget' = [budget EXCEPT ![what] = @ - 1]

-----------------------------------------------------------------------------
(* systemd and the programs *)

Active(s) == proc[s].st \in {"starting", "up"}

Held(ps, p) == {s \in Services : ps[s].st = "up" /\ p # None /\ ps[s].port = p}

Usable(s) == unit[s].file \in {"hand", "generated"}

\* The commit a service runs: a shared server runs from the dev tree
CommitOf(s) == IF s[3] = "prod" THEN prod[s[1]].commit ELSE head[s[1]]

Launched(s) == [st |-> "starting", port |-> unit[s].port, commit |-> CommitOf(s)]

\* systemctl start; the units of the clients of a shared server want it
Wanted(s) == {s} \cup {t \in Services : s[1] \in Shared /\ t = Service(s[1], "server", s[3])}

Started(ps, s) ==
    [t \in Services |->
        IF Usable(s) /\ t \in Wanted(s) /\ Usable(t) /\ ps[t].st \notin {"starting", "up"}
        THEN Launched(t) ELSE ps[t]]

\* A process that fails or is killed is started again after 5 seconds
Killed(ps, ss) == [s \in Services |-> IF s \in ss THEN [Off EXCEPT !.st = "waiting"] ELSE ps[s]]

\* The program of s opens its port, or fails because the port is in use or
\* there is no program
Bind(s) ==
    /\ proc[s].st = "starting"
    /\ proc' = IF Held(proc, proc[s].port) # {} \/ proc[s].port \in foreign \/ proc[s].commit = 0
               THEN Killed(proc, {s}) ELSE [proc EXCEPT ![s].st = "up"]
    /\ UNCHANGED <<budget, rows, settings, units, foreign, trees, job, again, leaderVars, ghosts>>

\* Restart=on-failure
Relaunch(s) ==
    /\ proc[s].st = "waiting"
    /\ proc' = IF Usable(s) THEN Started(proc, s) ELSE [proc EXCEPT ![s] = Off]
    /\ UNCHANGED <<budget, rows, settings, units, foreign, trees, job, again, leaderVars, ghosts>>

\* A program fails by itself
Fails(s) ==
    /\ proc[s].st = "up" /\ Spend("faults")
    /\ proc' = Killed(proc, {s})
    /\ UNCHANGED <<rows, settings, units, foreign, trees, job, again, leaderVars, ghosts>>

\* A user runs a program by hand
ForeignListens(p) ==
    /\ p \in budget.ports /\ p \notin foreign /\ Held(proc, p) = {}
    /\ foreign' = foreign \cup {p}
    /\ budget' = [budget EXCEPT !.ports = @ \ {p}]
    /\ UNCHANGED <<rows, settings, units, proc, trees, job, again, leaderVars, ghosts>>

-----------------------------------------------------------------------------
(* The steps of the commands *)

Known(a) == a \notin Extra \/ a \in rows

PartsInOrder(a, order) == IF a \in HasServer THEN order ELSE <<"client">>
ClientThenServer == <<"client", "server">>
ServerThenClient == <<"server", "client">>

OnServices(op, a, m, order) ==
    LET ps == PartsInOrder(a, order)
    IN  [i \in DOMAIN ps |-> Step(op, Service(a, ps[i], m))]

\* A port that has a setting; portKeyServer has the suffix -dev for dev
OnPort(op, a, p, m) ==
    IF settings[<<a, p, m>>] = None THEN <<>> ELSE <<Step(op, settings[<<a, p, m>>])>>

OnPorts(op, a, m) ==
    OnPort(op, a, "client", m) \o (IF a \in HasServer THEN OnPort(op, a, "server", m) ELSE <<>>)

\* vector<string> modes
InModes(a, m, Steps(_)) ==
    IF m # "all" THEN Steps(m)
    ELSE IF a \in DevOnly THEN Steps("dev") ELSE Steps("prod") \o Steps("dev")

\* handleStartApp
StartSteps(a, m) == OnServices("start", a, m, ServerThenClient)

\* handleStopApp
StopSteps(a, m) ==
    LET Steps(x) == OnServices("stop", a, x, ClientThenServer) \o OnPorts("kill", a, x)
    IN  InModes(a, m, Steps)

\* handleRestartApp
RestartSteps(a, m) ==
    OnServices("stop", a, m, ClientThenServer) \o OnPorts("wait", a, m)
        \o OnServices("restart", a, m, ServerThenClient)

\* handleEnableApp and handleDisableApp
EnableSteps(a, m) == OnServices("enable", a, m, ServerThenClient)

DisableSteps(a, m) ==
    LET Steps(x) == OnServices("disable", a, x, ClientThenServer)
    IN  InModes(a, m, Steps)

\* handleBuildApp
BuildSteps(a, m) == IF a \in Buildable THEN <<Step("build", m)>> ELSE <<>>

\* Mutant: the services are started, not stopped first
DeploySimply(a, c) ==
    <<Step("checkout", c)>> \o BuildSteps(a, "prod")
        \o OnPort("wait", a, "client", "prod")
        \o OnServices("start", a, "prod", ServerThenClient)

\* handleDeployToProd after the checks; only the client's port is waited for
DeploySteps(a, c) ==
    <<Step("checkout", c)>> \o BuildSteps(a, "prod")
        \o OnServices("stop", a, "prod", ClientThenServer)
        \o OnPort("wait", a, "client", "prod")
        \o OnServices("start", a, "prod", ServerThenClient)

\* handleInstallAppServices
InstallSteps(a) ==
    LET ms == IF a \in DevOnly THEN <<"dev">> ELSE <<"dev", "prod">>
        ps == PartsInOrder(a, ClientThenServer)
        Of(p) == [i \in DOMAIN ms |-> Step("install", Service(a, p, ms[i]))]
    IN  IF Len(ps) = 1 THEN Of("client") ELSE Of("client") \o Of("server")

StepsOf(c) ==
    CASE c.cmd = "startApp" -> StartSteps(c.app, c.mode)
      [] c.cmd = "stopApp" -> StopSteps(c.app, c.mode)
      [] c.cmd = "restartApp" -> RestartSteps(c.app, c.mode)
      [] c.cmd = "enableApp" -> EnableSteps(c.app, c.mode)
      [] c.cmd = "disableApp" -> DisableSteps(c.app, c.mode)
      [] c.cmd = "buildApp" -> BuildSteps(c.app, c.mode)
      [] c.cmd = "installAppServices" -> InstallSteps(c.app)

\* An unknown application, or prod of one that has none
Rejected(c) == ~Known(c.app) \/ (c.mode = "prod" /\ c.app \in DevOnly)

\* The command starts
Take(c) ==
    /\ job = NoJob /\ ~Rejected(c)
    /\ StepsOf(c) # <<>>
    /\ job' = [app |-> c.app, cmd |-> c.cmd, steps |-> StepsOf(c)]

\* A command of a user
Run(c) ==
    /\ c \in budget.commands /\ Spend("count") /\ Take(c)
    /\ UNCHANGED <<rows, settings, units, proc, foreign, trees, again, leaderVars, ghosts>>

\* startAppOnPeer and stopAppOnPeer of another machine, which executes both
\* twice, through handle_app_control of the manager here
RunFromPeer(c) ==
    /\ c \in budget.remote /\ Take(c)
    /\ budget' = [budget EXCEPT !.remote = @ \ {c}]
    /\ again' = again \cup {c}
    /\ UNCHANGED <<rows, settings, units, proc, foreign, trees, leaderVars, ghosts>>

RunAgain(c) ==
    /\ c \in again /\ Take(c)
    /\ again' = again \ {c}
    /\ UNCHANGED <<budget, rows, settings, units, proc, foreign, trees, leaderVars, ghosts>>

\* The uncommitted changes that git status shows
Dirty(a) == prod[a].edited \/ (prod[a].built # 0 /\ a \notin Ignored)

\* deployToProd of the given commit, or of the commit of the dev tree
Deploy(a, c) ==
    /\ a \in budget.deploys /\ job = NoJob /\ Known(a) /\ a \notin DevOnly /\ ~Dirty(a)
    /\ Spend("count")
    /\ job' = [app |-> a, cmd |-> "deployToProd", steps |-> DeploySteps(a, c)]
    /\ UNCHANGED <<rows, settings, units, proc, foreign, trees, again, leaderVars, ghosts>>

-----------------------------------------------------------------------------
(* Carrying the steps out *)

Advance ==
    job' = IF Len(job.steps) = 1 THEN NoJob
           ELSE [app |-> job.app, cmd |-> job.cmd, steps |-> Tail(job.steps)]

Ended == Len(job.steps) = 1

Next1 == Head(job.steps)
At(op) == job # NoJob /\ Next1.op = op

\* Mutant: only a service that is-active reports is stopped
StopServiceIfActive ==
    /\ At("stop") /\ Advance
    /\ proc' = IF Active(Next1.on) THEN [proc EXCEPT ![Next1.on] = Off] ELSE proc
    /\ stopped' = IF job.cmd = "stopApp" /\ Next1.on[3] # "both" THEN stopped \cup {Next1.on}
                  ELSE stopped
    /\ UNCHANGED <<budget, rows, settings, units, foreign, trees, again, leaderVars, forced,
                   unfinished>>

\* stopService: the processes end before systemctl returns
StopService ==
    /\ At("stop") /\ Advance
    /\ proc' = [proc EXCEPT ![Next1.on] = Off]
    /\ stopped' = IF job.cmd = "stopApp" /\ Next1.on[3] # "both" THEN stopped \cup {Next1.on}
                  ELSE stopped
    /\ UNCHANGED <<budget, rows, settings, units, foreign, trees, again, leaderVars, forced,
                   unfinished>>

\* startService; a failure is reported and nothing else
StartService ==
    /\ At("start") /\ Advance
    /\ proc' = Started(proc, Next1.on)
    /\ stopped' = stopped \ {Next1.on}
    /\ unfinished' = IF Ended /\ job.cmd = "deployToProd" THEN unfinished \ {job.app} ELSE unfinished
    /\ UNCHANGED <<budget, rows, settings, units, foreign, trees, again, leaderVars, forced>>

\* restartService
RestartService ==
    /\ At("restart") /\ Advance
    /\ proc' = Started([proc EXCEPT ![Next1.on] = Off], Next1.on)
    /\ stopped' = stopped \ {Next1.on}
    /\ UNCHANGED <<budget, rows, settings, units, foreign, trees, again, leaderVars, forced,
                   unfinished>>

\* killProcessOnPort: whatever listens
KillProcessOnPort ==
    /\ At("kill") /\ Advance
    /\ proc' = Killed(proc, Held(proc, Next1.on))
    /\ foreign' = foreign \ {Next1.on}
    /\ UNCHANGED <<budget, rows, settings, units, trees, again, leaderVars, ghosts>>

Listening(p) == Held(proc, p) # {} \/ p \in foreign

\* Mutant: no timeout
WaitForPortReleaseForever ==
    /\ At("wait") /\ ~Listening(Next1.on) /\ Advance
    /\ UNCHANGED <<budget, rows, settings, units, proc, foreign, trees, again, leaderVars, ghosts>>

\* waitForPortRelease: the port is free, or 10 seconds are over
WaitForPortRelease ==
    /\ At("wait") /\ Advance
    /\ UNCHANGED <<budget, rows, settings, units, proc, foreign, trees, again, leaderVars, ghosts>>

\* Its kills, after 2.5 seconds
WaitKills ==
    /\ At("wait") /\ Listening(Next1.on)
    /\ proc' = Killed(proc, Held(proc, Next1.on))
    /\ foreign' = foreign \ {Next1.on}
    /\ UNCHANGED <<budget, rows, settings, units, trees, job, again, leaderVars, ghosts>>

EnableService ==
    /\ At("enable") /\ Advance
    /\ enabled' = IF Usable(Next1.on) THEN enabled \cup {Next1.on} ELSE enabled
    /\ UNCHANGED <<budget, rows, settings, handFiles, unit, proc, foreign, trees, again,
                   leaderVars, ghosts>>

DisableService ==
    /\ At("disable") /\ Advance
    /\ enabled' = enabled \ {Next1.on}
    /\ UNCHANGED <<budget, rows, settings, handFiles, unit, proc, foreign, trees, again,
                   leaderVars, ghosts>>

\* Mutant: the test whether the hand-written file is there is left out
InstallServiceUnchecked ==
    /\ At("install") /\ Advance
    /\ LET s == Next1.on
           m == IF s[3] = "dev" THEN "dev" ELSE "prod"
       IN  unit' = [unit EXCEPT ![s] =
                IF s \in DOMAIN HandPort THEN [file |-> "hand", port |-> HandPort[s]]
                ELSE [file |-> "generated", port |-> settings[<<s[1], "client", m>>]]]
    /\ UNCHANGED <<budget, rows, settings, handFiles, enabled, proc, foreign, trees, again,
                   leaderVars, ghosts>>

\* The link to a hand-written file, or a generated file; the one of a server,
\* too, has the client's port
InstallService ==
    /\ At("install") /\ Advance
    /\ LET s == Next1.on
           m == IF s[3] = "dev" THEN "dev" ELSE "prod"
       IN  unit' = [unit EXCEPT ![s] =
                IF s \in handFiles THEN [file |-> "hand", port |-> HandPort[s]]
                ELSE [file |-> "generated", port |-> settings[<<s[1], "client", m>>]]]
    /\ UNCHANGED <<budget, rows, settings, handFiles, enabled, proc, foreign, trees, again,
                   leaderVars, ghosts>>

\* git checkout, if its output has neither "fatal" nor "error"
Checkout ==
    /\ At("checkout") /\ Advance
    /\ prod' = [prod EXCEPT ![job.app].commit = Next1.on]
    /\ unfinished' = unfinished \cup {job.app}
    /\ UNCHANGED <<budget, rows, settings, units, proc, foreign, head, again, leaderVars, forced,
                   stopped>>

\* Otherwise the command ends, though git, which prints the subjects of
\* commits, may have done its work
CheckoutFails ==
    /\ At("checkout") /\ job' = NoJob
    /\ \/ prod' = prod /\ unfinished' = unfinished
       \/ /\ prod' = [prod EXCEPT ![job.app].commit = Next1.on]
          /\ unfinished' = unfinished \cup {job.app}
    /\ UNCHANGED <<budget, rows, settings, units, proc, foreign, head, again, leaderVars, forced,
                   stopped>>

\* buildCppComponent: the old build is removed first; a failed build ends a deploy
Build ==
    /\ At("build")
    /\ \/ /\ Advance
          /\ prod' = IF Next1.on = "prod"
                     THEN [prod EXCEPT ![job.app].built = prod[job.app].commit] ELSE prod
       \/ /\ job' = NoJob
          /\ prod' = IF Next1.on = "prod"
                     THEN [prod EXCEPT ![job.app].built = 0] ELSE prod
    /\ UNCHANGED <<budget, rows, settings, units, proc, foreign, head, again, leaderVars, ghosts>>

\* The connection to the leader ends here, with what the leader has not read of it
LinkEnds(l) ==
    /\ link' = l /\ report' = NoReport
    /\ ended' = IF link = "up" THEN Append(ended, report) ELSE ended
    /\ UNCHANGED <<cache, online, leaderRows>>

\* The daemon dies between two steps
DaemonDies ==
    /\ job # NoJob /\ Spend("faults")
    /\ job' = NoJob
    /\ LinkEnds("none")
    /\ UNCHANGED <<rows, settings, units, proc, foreign, trees, again, ghosts>>

\* The machine starts again
Reboot ==
    /\ Spend("reboots")
    /\ job' = NoJob /\ foreign' = {}
    /\ LinkEnds("none")
    /\ LET up == {t \in UNION {Wanted(s) : s \in {x \in enabled : Usable(x)}} : Usable(t)}
       IN  /\ proc' = [s \in Services |-> IF s \in up THEN Launched(s) ELSE Off]
           /\ stopped' = stopped \ up
    /\ UNCHANGED <<rows, settings, units, trees, again, forced, unfinished>>

-----------------------------------------------------------------------------
(* The trees *)

Commit(a) ==
    /\ a \in budget.deploys /\ head[a] \in 1 .. MaxCommit - 1
    /\ head' = [head EXCEPT ![a] = @ + 1]
    /\ UNCHANGED <<budget, rows, settings, units, proc, foreign, prod, job, again, leaderVars, ghosts>>

EditProd(a) ==
    /\ a \in budget.deploys /\ prod[a].commit # 0 /\ Spend("edits")
    /\ prod' = [prod EXCEPT ![a].edited = TRUE]
    /\ UNCHANGED <<rows, settings, units, proc, foreign, head, job, again, leaderVars, ghosts>>

\* cleanProd: git clean removes a build that is not ignored
CleanProd(a) ==
    /\ a \in budget.deploys /\ job = NoJob /\ Known(a) /\ a \notin DevOnly /\ Dirty(a)
    /\ prod' = [prod EXCEPT ![a].edited = FALSE, ![a].built = IF a \in Ignored THEN @ ELSE 0]
    /\ UNCHANGED <<budget, rows, settings, units, proc, foreign, head, job, again, leaderVars,
                   ghosts>>

-----------------------------------------------------------------------------
(* The registries (module AppRegistry has their steps and failures) *)

Used == {settings[k] : k \in Keys} \ {None}

\* Mutant: only the first port of a pair is looked up
FreePairsHalf == {p \in 1 .. FirstServerPort - 2 : p % 2 = 1 /\ p \notin Used}

FreePairs == {p \in 1 .. FirstServerPort - 2 : p % 2 = 1 /\ p \notin Used /\ p + 1 \notin Used}

\* addExtraApp
AddExtraApp(a) ==
    /\ a \in budget.changes \cap Extra /\ job = NoJob /\ a \notin rows
    /\ Spend("count")
    /\ LET free == (FirstServerPort .. MaxPort) \ Used
       IN  /\ FreePairs # {} /\ (a \in HasServer => free # {})
           /\ settings' = [k \in Keys |->
                CASE k = <<a, "client", "prod">> -> Min(FreePairs)
                  [] k = <<a, "client", "dev">> -> Min(FreePairs) + 1
                  [] k = <<a, "server", "prod">> /\ a \in HasServer -> Min(free)
                  [] OTHER -> settings[k]]
    /\ rows' = rows \cup {a}
    /\ forced' = {k \in forced : settings'[k] = settings[k]}
    /\ UNCHANGED <<units, proc, foreign, trees, job, again, leaderVars, unfinished, stopped>>

\* The settings without those of an application; the key of the server of dev
\* is left
Removed(a) ==
    [k \in Keys |-> IF k[1] = a /\ k # <<a, "server", "dev">> THEN None ELSE settings[k]]

\* removeExtraApp: no service is stopped
RemoveExtraApp(a) ==
    /\ a \in budget.changes \cap rows /\ job = NoJob
    /\ Spend("count")
    /\ settings' = Removed(a) /\ rows' = rows \ {a}
    /\ UNCHANGED <<units, proc, foreign, trees, job, again, leaderVars, ghosts>>

\* The ghost after key k was set to port p
Forced(k, p) ==
    LET others == {j \in Keys \ {k} : settings[j] = p /\ p # None}
    IN  IF others = {} THEN forced \ {k} ELSE forced \cup {k} \cup others

\* setPort
SetPort(x) ==
    /\ x \in budget.sets /\ job = NoJob /\ Spend("count")
    /\ settings' = [settings EXCEPT ![x.key] = x.port]
    /\ forced' = Forced(x.key, x.port)
    /\ UNCHANGED <<rows, units, proc, foreign, trees, job, again, leaderVars, unfinished, stopped>>

-----------------------------------------------------------------------------
(* The manager, which works beside the daemon *)

\* A service that has no link yet and comes up once in service_names
Links(s) == unit[s].file = "none" /\ s[3] # "both"

\* install_service_files.  A second installation moves a hand-written file over
\* its link and then replaces it by a link to where it was.  A server's port is
\* the one of the server, in both modes.
ManagerUnits(x) ==
    [s \in Services |->
        LET key == IF s[2] = "server" THEN <<s[1], "server", "prod">> ELSE s
        IN  CASE s \notin ServicesOf(x.app) -> unit[s]
              [] s \in ServicesOf(x.app) \cap handFiles ->
                    IF Links(s) THEN [file |-> "hand", port |-> HandPort[s]]
                    ELSE [file |-> "dangling", port |-> None]
              [] OTHER -> [file |-> "generated",
                           port |-> IF key \in DOMAIN x.ports THEN x.ports[key] ELSE None]]

\* handle_install_app: git pull or clone, and the prod worktree; then a make runs,
\* beside the commands of the daemon
ManagerFetches(x) ==
    /\ x \in budget.installs
    /\ budget' = [budget EXCEPT !.installs = @ \ {x}]
    /\ \E c \in {head[x.app], MaxCommit} \ {0} :
          /\ head' = [head EXCEPT ![x.app] = c]
          /\ prod' = [prod EXCEPT ![x.app].commit = IF @ = 0 THEN c ELSE @]
    /\ again' = again \cup
            {[cmd |-> "make", app |-> x.app, of |-> x, commit |-> prod'[x.app].commit]}
    /\ UNCHANGED <<rows, settings, units, proc, foreign, job, leaderVars, ghosts>>

\* The make fails or ends, of a tree that a deploy may have changed meanwhile; the
\* unit files; then setPort for each port
ManagerInstalls(c) ==
    /\ c.cmd = "make"
    /\ LET a == c.app
       IN  /\ \E b \in {prod[a].built, IF prod[a].commit = c.commit THEN c.commit ELSE Mixed} :
                prod' = [prod EXCEPT ![a].built =
                            IF a \in Buildable /\ prod[a].commit # 0 THEN b ELSE @]
           /\ unit' = ManagerUnits(c.of)
           /\ handFiles' = {s \in handFiles : s \notin ServicesOf(a) \/ Links(s)}
           /\ again' = (again \ {c}) \cup
                  {[cmd |-> "setPort", app |-> a, key |-> k, port |-> c.of.ports[k]] :
                   k \in DOMAIN c.of.ports}
    /\ UNCHANGED <<budget, rows, settings, enabled, proc, foreign, head, job, leaderVars, ghosts>>

KeysOf(a) ==
    {<<a, "client", "prod">>, <<a, "client", "dev">>}
    \cup {<<x, "server", "prod">> : x \in HasServer \cap {a}}

\* handle_uninstall_app: the services, the trees; then deletePort and removeExtraApp
ManagerUninstalls(a) ==
    /\ a \in budget.uninstalls
    /\ budget' = [budget EXCEPT !.uninstalls = @ \ {a}]
    /\ proc' = [s \in Services |-> IF s[1] = a THEN Off ELSE proc[s]]
    /\ enabled' = {s \in enabled : s[1] # a}
    /\ unit' = [s \in Services |-> IF s[1] = a /\ Usable(s) THEN NoUnit ELSE unit[s]]
    /\ head' = [head EXCEPT ![a] = 0]
    /\ prod' = [prod EXCEPT ![a] = [commit |-> 0, edited |-> FALSE, built |-> 0]]
    /\ unfinished' = unfinished \ {a}
    /\ again' = again \cup {[cmd |-> "remove", app |-> a]}
            \cup {[cmd |-> "setPort", app |-> a, key |-> k, port |-> None] : k \in KeysOf(a)}
    /\ UNCHANGED <<rows, settings, handFiles, foreign, job, leaderVars, forced, stopped>>

\* setPort and deletePort of the manager, when the loop comes to it
ManagerSetsPort(c) ==
    /\ job = NoJob /\ c.cmd = "setPort"
    /\ again' = again \ {c}
    /\ settings' = [settings EXCEPT ![c.key] = c.port]
    /\ forced' = Forced(c.key, c.port)
    /\ UNCHANGED <<budget, rows, units, proc, foreign, trees, job, leaderVars, unfinished, stopped>>

\* removeExtraApp, which the manager sends after its deletePorts
ManagerRemoves(c) ==
    /\ job = NoJob /\ c.cmd = "remove"
    /\ \A d \in again : d.cmd = "setPort" /\ d.app = c.app => d.port # None
    /\ again' = again \ {c}
    /\ settings' = Removed(c.app) /\ rows' = rows \ {c.app}
    /\ UNCHANGED <<budget, units, proc, foreign, trees, job, leaderVars, ghosts>>

-----------------------------------------------------------------------------
(* What the leader knows *)

Clients == {s \in Services : s[2] = "client"}

\* getLocalAppStatusAll: the applications that are registered, and what runs of them
Running == {s \in Clients : Known(s[1]) /\ Active(s)}
Status == [known |-> TRUE, apps |-> {a \in Apps : Known(a)}, running |-> Running]

\* connectToLeader: the registration has the status
ConnectToLeader ==
    /\ budget.leader /\ link = "none"
    /\ link' = "up" /\ report' = Status
    /\ UNCHANGED <<budget, rows, settings, units, proc, foreign, trees, job, again, ended, cache,
                   online, leaderRows, ghosts>>

\* Mutant: the status is sent until the leader has one
SendStatusOnce ==
    /\ link = "up" /\ ~report.known /\ ~cache.known
    /\ report' = Status
    /\ UNCHANGED <<budget, rows, settings, units, proc, foreign, trees, job, again, link, ended,
                   cache, online, leaderRows, ghosts>>

\* The heartbeat of reconnectLoop with appStatus, which is sent only while
\* m_connectedToLeader; one sent on a broken connection reaches nobody
SendStatus ==
    /\ link = "up" /\ ~report.known
    /\ report' = Status
    /\ UNCHANGED <<budget, rows, settings, units, proc, foreign, trees, job, again, link, ended,
                   cache, online, leaderRows, ghosts>>

\* One without it: the leader touches is_online
Heartbeat ==
    /\ link = "up" /\ ~report.known
    /\ online' = TRUE
    /\ UNCHANGED <<budget, rows, settings, units, proc, foreign, trees, job, again, linkVars,
                   cache, leaderRows, ghosts>>

\* The connection ends, and the worker notices (disconnectFromLeader) or not yet
LinkBreaks ==
    /\ link = "up" /\ Spend("losses")
    /\ \E l \in {"none", "broken"} : LinkEnds(l)
    /\ UNCHANGED <<rows, settings, units, proc, foreign, trees, job, again, ghosts>>

DisconnectFromLeader ==
    /\ link = "broken"
    /\ link' = "none"
    /\ UNCHANGED <<budget, rows, settings, units, proc, foreign, trees, job, again, report, ended,
                   cache, online, leaderRows, ghosts>>

\* updatePeerAppStatus, with touchLastSeen or upsertPeer
UpdatePeerAppStatus ==
    /\ report.known
    /\ cache' = report /\ online' = TRUE /\ report' = NoReport
    /\ UNCHANGED <<budget, rows, settings, units, proc, foreign, trees, job, again, link, ended,
                   leaderRows, ghosts>>

\* The same of a connection that ended, perhaps after the next one registered
LateAppStatus(i) ==
    /\ ended[i].known
    /\ cache' = ended[i] /\ online' = TRUE
    /\ ended' = [ended EXCEPT ![i] = NoReport]
    /\ UNCHANGED <<budget, rows, settings, units, proc, foreign, trees, job, again, link, report,
                   leaderRows, ghosts>>

\* The leader reads the end of a connection, early, late or never
ClearPeerAppStatus(i) ==
    /\ ~ended[i].known
    /\ cache' = NoReport /\ online' = FALSE
    /\ ended' = RemoveAt(ended, i)
    /\ UNCHANGED <<budget, rows, settings, units, proc, foreign, trees, job, again, link, report,
                   leaderRows, ghosts>>

\* getAllPeers: nothing was read for 20 seconds, since there is no connection, or
\* the leader's loop was held up
LastSeenLapses ==
    /\ online /\ online' = FALSE
    /\ \/ link # "up" /\ budget' = budget
       \/ report.known /\ Spend("losses")
    /\ UNCHANGED <<rows, settings, units, proc, foreign, trees, job, again, linkVars, cache,
                   leaderRows, ghosts>>

\* The leader's daemon starts again: is_online is in the database, the cache is not
LeaderRestarts ==
    /\ budget.leader /\ Spend("losses")
    /\ link' \in IF link = "none" THEN {"none"} ELSE {"none", "broken"}
    /\ report' = NoReport /\ ended' = <<>> /\ cache' = NoReport
    /\ UNCHANGED <<rows, settings, units, proc, foreign, trees, job, again, online, leaderRows,
                   ghosts>>

\* addExtraApp and removeExtraApp at the leader
LeaderChangesApps(a) ==
    /\ a \in budget.leaderApps
    /\ leaderRows' = (leaderRows \ {a}) \cup ({a} \ leaderRows)
    /\ UNCHANGED <<budget, rows, settings, units, proc, foreign, trees, job, again, linkVars,
                   cache, online, ghosts>>

LeaderKnows(a) == a \notin Extra \/ a \in leaderRows

\* getAppPeers at the leader, of this machine
GetAppPeers(s) ==
    CASE ~LeaderKnows(s[1]) -> "Unknown app"
      [] LeaderKnows(s[1]) /\ ~online -> "peer offline"
      [] LeaderKnows(s[1]) /\ online /\ s[1] \notin cache.apps -> "awaiting heartbeat"
      [] OTHER -> IF s \in cache.running THEN "running" ELSE "stopped"

-----------------------------------------------------------------------------
JobStep ==
    \/ StopService \/ StartService \/ RestartService \/ KillProcessOnPort \/ WaitForPortRelease
    \/ EnableService \/ DisableService \/ InstallService \/ Checkout \/ CheckoutFails \/ Build

LeaderStep ==
    \/ ConnectToLeader \/ SendStatus \/ Heartbeat \/ LinkBreaks \/ DisconnectFromLeader
    \/ UpdatePeerAppStatus \/ LastSeenLapses \/ LeaderRestarts
    \/ \E i \in DOMAIN ended : LateAppStatus(i) \/ ClearPeerAppStatus(i)
    \/ \E a \in budget.leaderApps : LeaderChangesApps(a)

Next ==
    \/ JobStep \/ WaitKills
    \/ \E s \in Services : Bind(s) \/ Relaunch(s) \/ Fails(s)
    \/ \E p \in Ports : ForeignListens(p)
    \/ \E c \in budget.commands : Run(c)
    \/ \E c \in budget.remote : RunFromPeer(c)
    \/ \E c \in {x \in again : x.cmd \in {"startApp", "stopApp"}} : RunAgain(c)
    \/ \E a \in Apps : \E c \in Commits : Deploy(a, c)
    \/ \E a \in Apps : \/ Commit(a) \/ EditProd(a) \/ CleanProd(a)
                       \/ AddExtraApp(a) \/ RemoveExtraApp(a) \/ ManagerUninstalls(a)
    \/ \E x \in budget.sets : SetPort(x)
    \/ \E x \in budget.installs : ManagerFetches(x)
    \/ \E c \in again : ManagerInstalls(c) \/ ManagerSetsPort(c) \/ ManagerRemoves(c)
    \/ LeaderStep
    \/ DaemonDies \/ Reboot

\* The event loop goes on with its command, systemd starts failed services
\* again, programs run, and the thread of reconnectLoop sends heartbeats while it
\* has a connection.  Nothing makes the worker connect again, nor the leader read.
Fairness ==
    /\ WF_vars(JobStep)
    /\ \A s \in Services : WF_vars(Bind(s) \/ Relaunch(s))
    /\ WF_vars(SendStatus)

Spec == Init /\ [][Next]_vars /\ Fairness

-----------------------------------------------------------------------------
\* The types, and: two processes do not listen on one port.
TypeOK ==
    /\ rows \subseteq Extra /\ settings \in [Keys -> Ports \cup {None}]
    /\ handFiles \subseteq DOMAIN HandPort /\ enabled \subseteq Services /\ foreign \subseteq Ports
    /\ \A s \in Services :
          /\ unit[s].file \in {"none", "hand", "generated", "dangling"}
          /\ unit[s].file = "hand" => s \in handFiles
          /\ proc[s].st \in {"off", "starting", "up", "waiting"}
          /\ proc[s].commit \in 0 .. MaxCommit
          /\ proc[s].st = "up" /\ proc[s].port # None =>
                Held(proc, proc[s].port) = {s} /\ proc[s].port \notin foreign
    /\ job # NoJob => job.steps # <<>>
    /\ forced \subseteq Keys /\ unfinished \subseteq Apps /\ stopped \subseteq Services
    /\ link \in {"none", "up", "broken"} /\ online \in BOOLEAN /\ leaderRows \subseteq Extra
    /\ report.known => link = "up"

\* A command for one application kills a process of another (fuser -k in
\* stopApp and in waitForPortRelease) only if no setting of the other names the
\* port that it listens on, or if setPort gave the port to two keys: its row was
\* removed, or its unit file has a port that is not in the settings.
KillsOnlyUnnamed ==
    [][\A s \in Services :
          (proc[s].st = "up" /\ proc'[s].st = "waiting" /\ budget' = budget /\ job.app # s[1]) =>
             \A k \in Keys : k[1] = s[1] /\ settings[k] = proc[s].port => k \in forced]_vars

\* What stopApp stopped stays down until it is started, though systemd starts
\* services again that failed or were killed by the same command.  The server that
\* dev and prod share is left out: the client of either mode wants it started.
StoppedStaysStopped == \A s \in stopped : proc[s].st = "off"

\* What runs of an application in prod, and the server built there, are of the
\* commit that is checked out, unless a deploy did not end: its checkout was
\* taken for a failure, its build failed or the daemon died.  A server that an
\* installation built while a deploy changed the tree is of no commit.
ProdIsOfOneCommit ==
    \A a \in Apps \ unfinished :
        /\ prod[a].built \in {0, prod[a].commit, Mixed}
        /\ \A s \in ServicesOf(a) : s[3] = "prod" /\ proc[s].st = "up" => proc[s].commit = prod[a].commit

\* The event loop ends every command, though a service that waitForPortRelease
\* kills comes back to the port.
CommandEnds == job # NoJob ~> job = NoJob

\* Once the worker's connection stays up, and as long as the leader's loop goes on
\* reading it, getAppPeers at the leader says in the end that a client that keeps
\* running does, and of one that stays down, of an application that is registered
\* here, that it does not: though ends and messages of earlier connections come
\* late, the leader restarts and forgets, and takes the machine for offline.
StatusReachesLeader ==
    \A s \in Clients :
        <>[](link = "up" /\ LeaderKnows(s[1])) /\ []<>(~report.known) =>
            /\ <>[](s \in Running) => <>[](GetAppPeers(s) = "running")
            /\ <>[](Known(s[1]) /\ s \notin Running) => <>[](GetAppPeers(s) = "stopped")
=============================================================================
