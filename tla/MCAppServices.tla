--------------------------- MODULE MCAppServices ---------------------------
(* cad and dash are in APP_CONFIGS and have hand-written unit files: cad with *)
(* a server to build and no service for it, dash with one server for both     *)
(* modes.  x, y and w are in the table: x with a server, w for dev only.      *)
EXTENDS AppServices, TLC

MCHandPort ==
    (<<"cad", "client", "prod">> :> 1) @@ (<<"cad", "client", "dev">> :> 2)
    @@ (<<"dash", "client", "prod">> :> 3) @@ (<<"dash", "client", "dev">> :> 4)
    @@ (<<"dash", "server", "both">> :> 6)

Cmd(c, a, m) == [cmd |-> c, app |-> a, mode |-> m]

Quiet ==
    [rows |-> {}, settings |-> <<>>, commands |-> {}, count |-> 0, faults |-> 0, ports |-> {},
     remote |-> {}, deploys |-> {}, edits |-> 0, changes |-> {}, sets |-> {}, installs |-> {},
     uninstalls |-> {}, leader |-> FALSE, leaderApps |-> {}, losses |-> 0, reboots |-> 0]

PortsOfX == (<<"x", "client", "prod">> :> 1) @@ (<<"x", "client", "dev">> :> 2)
            @@ (<<"x", "server", "prod">> :> 5)

\* An application whose two services were generated, on one port
Stopping ==
    [Quiet EXCEPT !.rows = {"x"}, !.settings = PortsOfX, !.count = 5, !.ports = {2},
        !.faults = 1,
        !.commands = {Cmd("installAppServices", "x", "all"), Cmd("startApp", "x", "dev"),
                      Cmd("stopApp", "x", "all"), Cmd("restartApp", "x", "dev")}]

\* Ports that were given out although a hand-written unit file has them
Reassigning ==
    [Quiet EXCEPT !.changes = {"y"}, !.count = 5,
        !.commands = {Cmd("startApp", "cad", "dev"), Cmd("stopApp", "y", "all"),
                      Cmd("restartApp", "y", "dev")},
        !.sets = {[key |-> <<"cad", "client", "dev">>, port |-> 2]}]

\* The port of an application that was removed while it runs
Leaving ==
    [Quiet EXCEPT !.rows = {"y"}, !.changes = {"x", "y"}, !.count = 6,
        !.settings = (<<"y", "client", "prod">> :> 1) @@ (<<"y", "client", "dev">> :> 2),
        !.commands = {Cmd("installAppServices", "y", "all"), Cmd("startApp", "y", "prod"),
                      Cmd("stopApp", "x", "prod")}]

\* Deploys that fail at every step
Deploying ==
    [Quiet EXCEPT !.deploys = {"cad"}, !.count = 3, !.faults = 1, !.edits = 1,
        !.commands = {Cmd("startApp", "cad", "prod"), Cmd("buildApp", "cad", "prod")}]

DeployingX ==
    [Quiet EXCEPT !.rows = {"x"}, !.settings = PortsOfX, !.deploys = {"x"}, !.count = 4,
        !.faults = 1,
        !.commands = {Cmd("installAppServices", "x", "all"), Cmd("startApp", "x", "prod")}]

\* One server for both modes, and the start of the machine
Sharing ==
    [Quiet EXCEPT !.rows = {"w"}, !.count = 4, !.reboots = 1,
        !.commands = {Cmd("startApp", "dash", "dev"), Cmd("startApp", "dash", "prod"),
                      Cmd("stopApp", "dash", "dev"), Cmd("enableApp", "dash", "prod"),
                      Cmd("disableApp", "dash", "all"), Cmd("stopApp", "w", "all")}]

\* The manager beside the daemon, with hand-written unit files and with generated ones
Managing ==
    [Quiet EXCEPT !.count = 2, !.uninstalls = {"cad"}, !.installs = {[app |-> "cad", ports |-> <<>>]},
        !.commands = {Cmd("startApp", "cad", "dev"), Cmd("installAppServices", "cad", "all")}]

ManagingX ==
    [Quiet EXCEPT !.rows = {"x"}, !.count = 1, !.uninstalls = {"x"},
        !.commands = {Cmd("startApp", "x", "dev")}, !.installs = {[app |-> "x", ports |-> PortsOfX]}]

\* An installation beside a deploy
Installing ==
    [Quiet EXCEPT !.count = 2, !.deploys = {"cad"}, !.installs = {[app |-> "cad", ports |-> <<>>]},
        !.commands = {Cmd("startApp", "cad", "prod")}]

\* The leader's view, over connections that end
Reporting ==
    [Quiet EXCEPT !.count = 2, !.faults = 1, !.leader = TRUE, !.losses = 2,
        !.commands = {Cmd("startApp", "cad", "dev"), Cmd("stopApp", "cad", "dev")}]

\* The leader's view of an application in its table and in the one here, with a
\* command of another machine
ReportingY ==
    [Quiet EXCEPT !.rows = {"y"}, !.count = 3, !.leader = TRUE, !.leaderApps = {"y"}, !.losses = 1,
        !.commands = {Cmd("installAppServices", "y", "all"), Cmd("startApp", "y", "dev")},
        !.changes = {"y"}, !.remote = {Cmd("stopApp", "y", "dev")}]

MCBudgets ==
    {Stopping, Reassigning, Leaving, Deploying, DeployingX, Sharing, Managing, ManagingX,
     Installing, Reporting, ReportingY}
=============================================================================
