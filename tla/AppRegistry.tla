---------------------------- MODULE AppRegistry ----------------------------
(***************************************************************************)
(* The registries of applications (table extra_apps) and of ports          *)
(* (settings port_<app>-prod, -dev and -server) of several daemons, and    *)
(* the commands that change them (cmdApp.cpp, cmdPort.cpp).                *)
(*                                                                         *)
(* addExtraApp and removeExtraApp use the tables of the daemon that runs   *)
(* them.  setPort and deletePort are forwarded to the leader, whose tables *)
(* they change.  installAppOnPeer and uninstallAppOnPeer go to the manager *)
(* of a machine (utilities/daemon-manager.py), which sends commands to the *)
(* daemon beside it.  So a daemon may wait for a manager that waits for a  *)
(* daemon that waits for the leader, and every one of these waits has a    *)
(* timeout after which the command that was sent is still carried out.     *)
(* A daemon runs one command at a time; its statements autocommit.         *)
(***************************************************************************)
EXTENDS Integers, Sequences, FiniteSets, FiniteSetsExt

CONSTANTS
    Daemons, Leader,
    Apps,           \* application ids
    Hardcoded,      \* those of APP_CONFIGS
    ClientFirst,    \* 3000, the first port for clients
    ServerFirst,    \* 3500, the first port for servers
    PortEnd,        \* 4000, the first number that is not given out
    HandKeys,       \* the keys users pass to setPort and deletePort
    HandPorts,      \* the ports users pass to setPort
    PeerApps,       \* the applications users install on peers
    MaxCommands,    \* bound of the model on commands of users
    MaxFaults,      \* bound of the model on kills and database failures
    MaxJobs         \* bound of the model on requests to managers

ASSUME ConstantsAssumption ==
    /\ Leader \in Daemons
    /\ Hardcoded \subseteq Apps
    /\ ClientFirst \in Nat /\ ServerFirst \in Nat /\ PortEnd \in Nat
    /\ ClientFirst <= ServerFirst /\ ServerFirst <= PortEnd
    /\ (ServerFirst - ClientFirst) % 2 = 0
    /\ HandKeys \subseteq Apps \X {"prod", "dev", "server"}
    /\ HandPorts \subseteq Nat /\ PeerApps \subseteq Apps
    /\ MaxCommands \in Nat /\ MaxFaults \in Nat /\ MaxJobs \in Nat

Roles == {"prod", "dev", "server"}
Keys == Apps \X Roles
None == -1
Rows == {"none", "plain", "server"}     \* no row, or has_server_component
Jobs == 1 .. MaxJobs
NoJob == 0

VARIABLES
    ports,     \* of each daemon: the port_ settings
    rows,      \* of each daemon: extra_apps
    loop,      \* of each daemon: what its event loop waits for
    ask,       \* of each worker: forwarded commands the leader has not run yet
    calls,     \* commands of managers that their daemons have not run yet
    jobs,      \* requests to managers, numbered
    again,     \* requests whose handlers a thread will execute a second time
    budget,    \* how many commands and faults there were
    forced,    \* ghost: keys that setPort, or an allocation without a database, put on a used port
    torn       \* ghost: keys whose last change was not a finished add or remove

tables == <<ports, rows, forced, torn>>
vars == <<tables, loop, ask, calls, jobs, again, budget>>

\* Not waiting; otherwise the loop waits for the leader or for a manager, in
\* the first case perhaps on behalf of a call of a manager
Idle == [at |-> "idle", job |-> NoJob, call |-> 0]
Waiting(j) == [at |-> "manager", job |-> j, call |-> 0]

\* Request r at the manager of a machine: the commands for the daemon there,
\* and whether the manager waits for the answer to the first of them
Job(r, st, todo, wait) ==
    [st |-> st, at |-> r.peer, req |-> r, todo |-> todo, wait |-> wait]
Unused == [st |-> "unused", at |-> Leader, todo |-> <<>>, wait |-> FALSE]

Set(k, p) == [op |-> "setPort", key |-> k, port |-> p]
Delete(k) == [op |-> "deletePort", key |-> k, port |-> None]
Remove(a) == [op |-> "removeExtraApp", key |-> <<a, "prod">>, port |-> None]

Init ==
    /\ ports = [d \in Daemons |-> [k \in Keys |-> None]]
    /\ rows = [d \in Daemons |-> [a \in Apps |-> "none"]]
    /\ loop = [d \in Daemons |-> Idle]
    /\ ask = [d \in Daemons |-> <<>>]
    /\ calls = {}
    /\ jobs = [j \in Jobs |-> Unused]
    /\ again = {}
    /\ budget = [commands |-> 0, faults |-> 0]
    /\ forced = {} /\ torn = {}

-----------------------------------------------------------------------------
(* Ports and rows *)

\* The set usedPorts of the allocators
Used(p) == {p[k] : k \in Keys} \ {None}

Bases == {b \in ClientFirst .. ServerFirst - 1 : (b - ClientFirst) % 2 = 0}

\* Mutant: only the first port of a pair is looked up
FreeBasesHalf(used) == {b \in Bases : b \notin used}

FreeBases(used) == {b \in Bases : b \notin used /\ b + 1 \notin used}

FindNextAvailablePortPair(used) ==
    IF FreeBases(used) = {} THEN None ELSE Min(FreeBases(used))

\* Mutant: one port past the range
FreeServerPortsOneMore(used) == (ServerFirst .. PortEnd) \ used

FreeServerPorts(used) == (ServerFirst .. PortEnd - 1) \ used

FindNextAvailableServerPort(used) ==
    IF FreeServerPorts(used) = {} THEN None ELSE Min(FreeServerPorts(used))

\* The roles a row has settings for
RolesOf(row) == {r \in Roles : row = "server" \/ (row = "plain" /\ r # "server")}

\* getAppConfig finds the application
Known(d, a) == a \in Hardcoded \/ rows[d][a] # "none"

\* The settings written by the first n statements of addExtraApp
Written(a, row, n) ==
    {<<a, r>> : r \in {x \in RolesOf(row) : \/ x = "prod" /\ n >= 1
                                            \/ x = "dev" /\ n >= 2
                                            \/ x = "server" /\ n >= 3}}

\* What addExtraApp writes for a key
Value(k, used) ==
    IF k[2] = "server" THEN FindNextAvailableServerPort(used)
    ELSE IF k[2] = "prod" THEN FindNextAvailablePortPair(used)
    ELSE FindNextAvailablePortPair(used) + 1

Enough(row, used) ==
    /\ FreeBases(used) # {}
    /\ row = "server" => FreeServerPorts(used) # {}

\* The statements of addExtraApp or removeExtraApp: the settings, then the row
Statements(row) == IF row = "none" THEN 1 ELSE IF row = "plain" THEN 3 ELSE 4

At(d, ks) == {d} \X ks

\* The first n statements of addExtraApp, which took the ports in used for the
\* taken ones (blindly, if it could not read them)
Add(d, a, row, n, used, blind) ==
    LET w == Written(a, row, n)
        done == n = Statements(row)
    IN  /\ ports' = [ports EXCEPT ![d] = [k \in Keys |->
                        IF k \in w THEN Value(k, used) ELSE ports[d][k]]]
        /\ rows' = IF done THEN [rows EXCEPT ![d][a] = row] ELSE rows
        /\ forced' = IF blind THEN forced \cup At(d, w) ELSE forced \ At(d, w)
        /\ torn' = IF ~done THEN torn \cup At(d, w)
                   ELSE IF blind THEN (torn \ At(d, w)) \cup At(d, ({a} \X Roles) \ w)
                   ELSE torn \ At(d, w)

\* Mutant: the setting of the server stays
RemoveRowKeepsServer(d, a, n) ==
    LET w == Written(a, "plain", n)
    IN  /\ ports' = [ports EXCEPT ![d] = [k \in Keys |->
                        IF k \in w THEN None ELSE ports[d][k]]]
        /\ rows' = [rows EXCEPT ![d][a] = "none"]
        /\ UNCHANGED <<forced, torn>>

\* The first n statements of removeExtraApp
RemoveRow(d, a, n) ==
    LET w == Written(a, rows[d][a], n)
        done == n = Statements(rows[d][a])
    IN  /\ ports' = [ports EXCEPT ![d] = [k \in Keys |->
                        IF k \in w THEN None ELSE ports[d][k]]]
        /\ rows' = IF done THEN [rows EXCEPT ![d][a] = "none"] ELSE rows
        /\ forced' = forced \ At(d, w)
        /\ torn' = IF done THEN torn \ At(d, w) ELSE torn \cup At(d, w)

\* handleSetPort and handleDeletePort where they are not forwarded
ApplyPort(c) ==
    /\ ports' = [ports EXCEPT ![Leader][c.key] = c.port]
    /\ forced' = IF c.port \in Used([ports[Leader] EXCEPT ![c.key] = None])
                 THEN forced \cup {<<Leader, c.key>>} ELSE forced \ {<<Leader, c.key>>}
    /\ torn' = torn \cup {<<Leader, c.key>>}
    /\ UNCHANGED rows

-----------------------------------------------------------------------------
(* Commands that users send to a daemon *)

\* Commands and faults up to the bounds
Spend(c, f) ==
    /\ budget.commands + c <= MaxCommands /\ budget.faults + f <= MaxFaults
    /\ budget' = [commands |-> budget.commands + c, faults |-> budget.faults + f]

AddExtraApp(d, a, row) ==
    /\ loop[d] = Idle /\ a \notin Hardcoded /\ rows[d][a] = "none"
    /\ Enough(row, Used(ports[d]))
    /\ Spend(1, 0)
    /\ Add(d, a, row, Statements(row), Used(ports[d]), FALSE)
    /\ UNCHANGED <<loop, ask, calls, jobs, again>>

\* The database cannot be read until the ports are chosen, and can be written
\* then: appExists says no, and no port seems to be used
AddWithoutReading(d, a, row) ==
    /\ loop[d] = Idle /\ a \notin Hardcoded
    /\ Enough(row, {})
    /\ Spend(1, 1)
    /\ Add(d, a, row, Statements(row), {}, TRUE)
    /\ UNCHANGED <<loop, ask, calls, jobs, again>>

RemoveExtraApp(d, a) ==
    /\ loop[d] = Idle /\ rows[d][a] # "none"
    /\ Spend(1, 0)
    /\ RemoveRow(d, a, Statements(rows[d][a]))
    /\ UNCHANGED <<loop, ask, calls, jobs, again>>

\* The end of a daemon: its connections are closed, its threads are gone.  Who
\* waits for it finds out as if its time were over.
Die(d) ==
    /\ calls' = {c \in calls : jobs[c.job].at # d}
    /\ again' = {j \in again : jobs[j].req.from # d}
    /\ ask' = IF d = Leader THEN [w \in Daemons |-> <<>>] ELSE ask
    /\ UNCHANGED <<loop, jobs>>

\* A daemon is killed in addExtraApp or removeExtraApp and starts again
AddKilled(d, a, row) ==
    /\ loop[d] = Idle /\ a \notin Hardcoded /\ rows[d][a] = "none"
    /\ Enough(row, Used(ports[d]))
    /\ Spend(1, 1)
    /\ \E n \in 1 .. Statements(row) - 1 : Add(d, a, row, n, Used(ports[d]), FALSE)
    /\ Die(d)

RemoveKilled(d, a) ==
    /\ loop[d] = Idle /\ rows[d][a] # "none"
    /\ Spend(1, 1)
    /\ \E n \in 1 .. Statements(rows[d][a]) - 1 : RemoveRow(d, a, n)
    /\ Die(d)

\* forwardToLeader of cmdPort.cpp, on behalf of call n of job j
Forward(d, c, j, n) ==
    /\ ask' = [ask EXCEPT ![d] = Append(@, c)]
    /\ loop' = [loop EXCEPT ![d] = [at |-> "leader", job |-> j, call |-> n]]

SetOrDeletePort(d, c) ==
    /\ loop[d] = Idle
    /\ Spend(1, 0)
    /\ \/ d = Leader /\ ApplyPort(c) /\ UNCHANGED <<loop, ask>>
       \/ d # Leader /\ Forward(d, c, NoJob, 0) /\ UNCHANGED tables
    /\ UNCHANGED <<calls, jobs, again>>

-----------------------------------------------------------------------------
(* Requests to managers *)

\* getAppPorts: the settings of the daemon that runs the command, not of the
\* leader; handle_install_app sends one setPort for each
InstallSteps(d, a) ==
    LET step(r) == IF ports[d][<<a, r>>] # None THEN <<Set(<<a, r>>, ports[d][<<a, r>>])>>
                   ELSE <<>>
    IN  step("dev") \o step("prod")
            \o (IF rows[d][a] = "server" THEN step("server") ELSE <<>>)

\* handle_uninstall_app
UninstallSteps(d, a) ==
    <<Delete(<<a, "prod">>), Delete(<<a, "dev">>)>>
        \o (IF rows[d][a] = "server" THEN <<Delete(<<a, "server">>)>> ELSE <<>>)
        \o <<Remove(a)>>

NewJobs == {j \in Jobs : jobs[j].st = "unused"}

\* What a request makes the manager do: nothing if the handler does not know the
\* application or cannot reach the manager, or if the manager cannot clone
Steps(r) ==
    {<<>>} \cup (IF ~Known(r.from, r.app) THEN {}
                 ELSE IF r.op = "install" THEN {InstallSteps(r.from, r.app)}
                 ELSE {UninstallSteps(r.from, r.app)})

\* sendToManager; the manager starts a thread for the request
Request(r) ==
    /\ NewJobs # {}
    /\ \E steps \in Steps(r) :
          jobs' = [jobs EXCEPT ![Min(NewJobs)] = Job(r, "run", steps, FALSE)]

\* handleInstallAppOnPeer and handleUninstallAppOnPeer in the event loop (two
\* commands for the bound, because they are executed twice)
AppOnPeer(r) ==
    /\ loop[r.from] = Idle
    /\ Spend(2, 0)
    /\ Request(r)
    /\ loop' = [loop EXCEPT ![r.from] = Waiting(Min(NewJobs))]
    /\ UNCHANGED <<tables, ask, calls, again>>

\* The handler returns to mainCommand, which starts a thread for a slow command
HandOver(d) ==
    /\ loop' = [loop EXCEPT ![d] = Idle]
    /\ again' = again \cup {loop[d].job}

\* Somebody takes longer than the other side waits, without waiting itself
Late == Spend(0, 1)

\* 300 seconds without a response of the manager
ManagerSilent(d) ==
    /\ loop[d].at = "manager"
    /\ Late
    /\ HandOver(d)
    /\ UNCHANGED <<tables, ask, calls, jobs>>

\* The thread executes the handler once more
ThreadExecutes(j) ==
    /\ j \in again
    /\ again' = again \ {j}
    /\ Request(jobs[j].req)
    /\ UNCHANGED <<tables, loop, ask, calls, budget>>

-----------------------------------------------------------------------------
(* A manager works on a request *)

\* send_to_daemon
ManagerSends(j) ==
    /\ jobs[j].st = "run" /\ ~jobs[j].wait /\ jobs[j].todo # <<>>
    /\ calls' = calls \cup {[job |-> j, n |-> Len(jobs[j].todo), cmd |-> Head(jobs[j].todo)]}
    /\ jobs' = [jobs EXCEPT ![j] = Job(@.req, "run", @.todo, TRUE)]
    /\ UNCHANGED <<tables, loop, ask, again, budget>>

\* The manager goes on with its next step
Proceed(j) == [jobs EXCEPT ![j] = Job(@.req, @.st, Tail(@.todo), FALSE)]

\* Call n of job j waits for an idle daemon
Served(j) ==
    /\ loop[jobs[j].at] = Idle
    /\ \E c \in calls : c.job = j /\ c.n = Len(jobs[j].todo)

\* Mutant: send_to_daemon waits for the answer without a timeout
ManagerNeverTimesOut(j) == FALSE /\ UNCHANGED vars

\* 10 seconds without an answer: the connection is closed, and the daemon will
\* still find the command in it
ManagerTimesOut(j) ==
    /\ jobs[j].st = "run" /\ jobs[j].wait
    /\ IF Served(j) THEN Late ELSE UNCHANGED budget
    /\ jobs' = Proceed(j)
    /\ UNCHANGED <<tables, loop, ask, calls, again>>

ManagerReplies(j) ==
    /\ jobs[j].st = "run" /\ ~jobs[j].wait /\ jobs[j].todo = <<>>
    /\ jobs' = [jobs EXCEPT ![j] = Job(@.req, "done", <<>>, FALSE)]
    /\ LET d == jobs[j].req.from
       IN  IF loop[d] = Waiting(j) THEN HandOver(d) ELSE UNCHANGED <<loop, again>>
    /\ UNCHANGED <<tables, ask, calls, budget>>

\* The answer to call n of job j; nobody reads it if the manager gave up
Answer(j, n) ==
    jobs' = IF j # NoJob /\ jobs[j].wait /\ Len(jobs[j].todo) = n
            THEN Proceed(j) ELSE jobs

\* The daemon beside the manager runs a command of it
DaemonRuns(c) ==
    LET d == jobs[c.job].at
        a == c.cmd.key[1]
    IN  /\ loop[d] = Idle
        /\ calls' = calls \ {c}
        /\ \/ /\ c.cmd.op = "removeExtraApp"
              /\ IF rows[d][a] # "none" THEN RemoveRow(d, a, Statements(rows[d][a]))
                 ELSE UNCHANGED tables
              /\ Answer(c.job, c.n)
              /\ UNCHANGED <<loop, ask>>
           \/ /\ c.cmd.op # "removeExtraApp" /\ d = Leader
              /\ ApplyPort(c.cmd)
              /\ Answer(c.job, c.n)
              /\ UNCHANGED <<loop, ask>>
           \/ /\ c.cmd.op # "removeExtraApp" /\ d # Leader
              /\ Forward(d, c.cmd, c.job, c.n)
              /\ UNCHANGED <<tables, jobs>>
        /\ UNCHANGED <<again, budget>>

-----------------------------------------------------------------------------
(* Forwarded commands *)

\* The leader runs a forwarded command and replies; a worker that waits takes
\* whatever arrives for its answer
LeaderRuns(w) ==
    /\ loop[Leader] = Idle /\ ask[w] # <<>>
    /\ ApplyPort(Head(ask[w]))
    /\ ask' = [ask EXCEPT ![w] = Tail(@)]
    /\ IF loop[w].at = "leader"
       THEN loop' = [loop EXCEPT ![w] = Idle] /\ Answer(loop[w].job, loop[w].call)
       ELSE UNCHANGED <<loop, jobs>>
    /\ UNCHANGED <<calls, again, budget>>

\* 5 seconds without an answer of the leader: "No response from leader"
LeaderSilent(w) ==
    /\ loop[w].at = "leader"
    /\ IF loop[Leader] = Idle /\ ask[w] # <<>> THEN Late ELSE UNCHANGED budget
    /\ loop' = [loop EXCEPT ![w] = Idle]
    /\ Answer(loop[w].job, loop[w].call)
    /\ UNCHANGED <<tables, ask, calls, again>>

-----------------------------------------------------------------------------
PortCommands ==
    {Set(k, p) : k \in HandKeys, p \in HandPorts} \cup {Delete(k) : k \in HandKeys}

Requests ==
    [op : {"install", "uninstall"}, from : Daemons, app : PeerApps, peer : Daemons]

Next ==
    \/ \E d \in Daemons, a \in Apps, row \in {"plain", "server"} :
          AddExtraApp(d, a, row) \/ AddWithoutReading(d, a, row) \/ AddKilled(d, a, row)
    \/ \E d \in Daemons, a \in Apps : RemoveExtraApp(d, a) \/ RemoveKilled(d, a)
    \/ \E d \in Daemons, c \in PortCommands : SetOrDeletePort(d, c)
    \/ \E r \in Requests : AppOnPeer(r)
    \/ \E j \in again : ThreadExecutes(j)
    \/ \E j \in Jobs : ManagerSends(j) \/ ManagerTimesOut(j) \/ ManagerReplies(j)
    \/ \E c \in calls : DaemonRuns(c)
    \/ \E d \in Daemons : ManagerSilent(d) \/ LeaderRuns(d) \/ LeaderSilent(d)

\* Managers and daemons go on, and the 5 and 10 second timeouts end.  The 300
\* seconds for a manager are not needed.
Fairness ==
    /\ \A j \in Jobs :
          /\ WF_vars(ManagerSends(j)) /\ WF_vars(ManagerReplies(j))
          /\ WF_vars(ManagerTimesOut(j))
          /\ WF_vars(\E c \in calls : c.job = j /\ DaemonRuns(c))
    /\ \A d \in Daemons : WF_vars(LeaderRuns(d)) /\ WF_vars(LeaderSilent(d))

Spec == Init /\ [][Next]_vars /\ Fairness

-----------------------------------------------------------------------------
Ports == (ClientFirst .. PortEnd - 1) \cup HandPorts \cup {None}

Commands ==
    [op : {"setPort", "deletePort", "removeExtraApp"}, key : Keys, port : Ports]

StartedJobs ==
    [st : {"run", "done"}, at : Daemons, req : Requests, wait : BOOLEAN,
     todo : Seq(Commands)]

\* The types, with the range of the port numbers that are given out and with
\* references to jobs that were started.
TypeOK ==
    /\ ports \in [Daemons -> [Keys -> Ports]]
    /\ rows \in [Daemons -> [Apps -> Rows]]
    /\ loop \in [Daemons -> [at : {"idle", "leader", "manager"},
                             job : Jobs \cup {NoJob}, call : Nat]]
    /\ ask \in [Daemons -> Seq(Commands)]
    /\ calls \subseteq [job : Jobs, n : Nat, cmd : Commands]
    /\ jobs \in [Jobs -> StartedJobs \cup {Unused}]
    /\ again \subseteq {j \in Jobs : jobs[j] \in StartedJobs}
    /\ \A d \in Daemons :
          loop[d].at = "manager" => loop[d].job \in {j \in Jobs : jobs[j] \in StartedJobs}
    /\ budget \in [commands : Nat, faults : Nat]
    /\ forced \subseteq Daemons \X Keys /\ torn \subseteq Daemons \X Keys

\* No two settings of a daemon name the same port, except where setPort, or an
\* addExtraApp that could not read the database, wrote a port that was used
\* (findNextAvailablePortPair, findNextAvailableServerPort).
DistinctPorts ==
    \A d \in Daemons : \A k, l \in Keys :
        k # l /\ ports[d][k] = ports[d][l] /\ ports[d][k] # None
            => <<d, k>> \in forced \/ <<d, l>> \in forced

\* A setting exists exactly for the applications in the daemon's table, and for
\* their server part only if they have one, except for settings that setPort or
\* deletePort changed or that were left by a command that did not finish.
PortsMatchRows ==
    \A d \in Daemons : \A k \in Keys :
        <<d, k>> \notin torn => (ports[d][k] # None <=> k[2] \in RolesOf(rows[d][k[1]]))

\* No daemon waits for ever: the circle of a daemon, the manager it asked, the
\* daemon of that manager and the leader comes to an end.
LoopsReturn == \A d \in Daemons : loop[d] # Idle ~> loop[d] = Idle
============================================================================
