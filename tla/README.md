# A verification project for the automateLinux daemon

The daemon (`daemon/src`, about 11 000 lines of C++) is the core of the
repository: a process that shells, desktop extensions, a command line client and
other daemons talk to, that keeps its state in a database, and that is one node
of a small network with one leader. This directory holds TLA+ models of its
parts, the TLC runs that check them on small instances, and theorems with TLAPS
proofs. `PROJECT.json` maps every definition to the lines it models and lists the
runs, mutants, findings, hazards and theorems.

## 1. Inventory

| component | state | operations | interaction | what is hard | what makes it correct |
|---|---|---|---|---|---|
| Event loop (`DaemonServer.cpp`) | `clients`, `peer_clients`, the log subscribers, `running` | select, accept, read a line, close | calls `mainCommand`; threads write to and close its descriptors | descriptor numbers are kept in several places and reused by the kernel; `select` fails for ever on a number that is not open | one holder for each open number; replies reach who asked; everyone is answered |
| Command dispatch (`mainCommand.cpp`) | `g_clientSocket`, detached threads | run a handler, write the reply, hand a slow command to a thread | return codes 0, 1, 2 tell the loop what to do | a thread outlives the round of the loop that started it | a connection is closed after its answer, and a handed-over one in the end |
| Directory history (`terminal.cpp`, `cmdTerminal.cpp`, `TerminalTable`) | rows of the history and of the sessions, `indexOfLastTouchedDir`, `Terminal::instances` | openedTty, closedTty, updateDirHistory, cdForward, cdBackward, prune | all shells share one list | one shell's prune renumbers what others point at; kills between statements; no database | no holes; pointers denote entries; nobody is moved by somebody else |
| Worker's link to the leader (`PeerManager.cpp`) | `m_leaderSocket`, `m_connectedToLeader`, `m_leaderCommMutex` | connectToLeader, reconnectLoop, sendToLeader, forwardToLeader (also of `cmdPort.cpp`), getAppPeers, handle_leader_data | four kinds of threads use one socket, on which the leader sends commands too | timeouts, late answers without request numbers, a flag and a socket changed without a lock, users of the socket without the mutex | where the mutex is used a query gets its own answer; every query returns; a lost link is made again |
| Leader's registry and execution on peers (`cmdPeer.cpp`, `PeerManager.cpp`, `PeerTable`) | `peer_registry` rows, identities in `peer_clients`, `m_peers`, cached application status | registerPeer, heartbeat, end of a connection, listPeers, deletePeer, execOnPeer | workers connect and reconnect; execOnPeer uses the numbers of `m_peers` | late or missing ends of connections, stale numbers, one command executed in the loop and in a thread | identities are right; listPeers converges; commands run where they were meant to |
| Database access (`MySQLManager.cpp`, `DatabaseTableManagers.cpp`) | tables | start the server, create the schema, statements | called by every handler | absent server, one statement of several | covered where its callers are modelled |
| Macro engine (`InputMapper.cpp`, `MacroConfig.cpp`, `KeyboardManager.cpp`, `AutomationManager.cpp`, `cmdInput.cpp`) | `pressedKeys_`, `comboProgress_`, the registry of withheld events, `appMacros_`, the grab, NumLock, the toggle of G keys | process an event, match macros, grab and ungrab, setContext, updateMacros, simulateInput, start, stop | input thread, event loop and detached paste threads | shared state without a common lock; changes of mode, of window and of macros between the press and the release of a key; queues that overflow | no key stays pressed or blocked; nothing is emitted twice |
| Browser bridge and desktop extensions (`cmdBrowser.cpp`, `cmdWindow.cpp`, `cmdLogging.cpp`; `native-host.py`, `background.js`, two GNOME extensions, `lib/daemon.js`) | one descriptor number for each registered extension; `focusAckReceived_`; the active tab and context | register, send, wait for an answer; report a tab or a window | connections that the event loop owns; extensions reconnect and are reloaded | stale and reused numbers, a read in the event loop, a lock taken twice, acknowledgements without a request number | the native host is registered again; the loop comes back; the context follows the focus; a paste follows its focus |
| Registries of applications and ports (`cmdApp.cpp`, `cmdPort.cpp`, `ExtraAppTable`, `SettingsTable`) and the manager beside each daemon (`utilities/daemon-manager.py`) | rows of `extra_apps`, settings `port_<app>-prod`, `-dev`, `-server`, the manager's requests | addExtraApp, removeExtraApp, setPort, deletePort, installAppOnPeer, uninstallAppOnPeer | a daemon asks a manager, which calls the daemon beside it, which forwards to the leader | a circle of waits; commands carried out after their timeouts; kills between statements; a database that cannot be read | ports are distinct; settings agree with the rows; every wait ends |
| Services of applications (`cmdApp.cpp`, `utilities/daemon-manager.py`) | systemd units, worktrees and builds, ports, `peerAppStatusCache` | start, stop, restart, enable, disable, build, deploy, clean, install; the manager's install and uninstall; status in heartbeats | systemd, `fuser`, `git`; the leader caches a worker's status | systemd restarts what was killed; ports of removed applications; deployments that stop half way | what was stopped stays down; prod is of one commit; nobody is killed whose port the settings name; the leader's view converges |
| System, WireGuard (`cmdSystem.cpp`, `cmdWireGuard.cpp`) | none | one shell or library call each | | | |
| Command line client (`ClientSender.cpp`) | none | format, send, print | a client of the event loop | | |

Shell scripts, the editor extension, the MCP server and stand-alone
utilities of the repository are clients of the daemon or unrelated to it.

## 2. Plan

Order, the most important behaviour first. Done so far: 1 to 9.

1. `DirHistory`: the shared directory history.
2. `DaemonServer` and `DaemonServerProofs`: the event loop, dispatch and threads.
3. `LeaderLink`: a worker's link to the leader.
4. `PeerRegistry` and `PeerRegistryProofs`: the leader's registry and execOnPeer.
5. `AppRegistry` and `AppRegistryProofs`: the registries of applications and
   ports, the managers, and the waits among daemons.
6. `InputMapper`: combos, withheld keys, G keys, grabbing, changes of macros.
7. `AppServices`: the services of applications on one machine with systemd,
   ports, trees and the leader's view. `Extensions`: the desktop programs, the
   numbers the daemon keeps of them, and the paste macro that needs both.
8. `HistoryList`: the history as one list with a place for each shell, an abstract
   specification that `DirHistory` implements.
9. Theorems about each module: types, the safety invariants of the runs, the
   action properties and the refinement (section 6).
10. Composition: `LeaderLink` with `PeerRegistry`, two daemons that execute on
    each other.

## 3. The modules and the code

Each specification module has an MC module that only adds a symmetry set or a
constant, and configurations that give the constants values. A definition whose
comment starts with "Mutant" is a plausible bug, used to show that a property
can fail; it is not part of any specification.

### DirHistory
State: `db` (the rows of `terminal_history`, of `terminal_sessions`, and the
setting), `instances` (`Terminal::instances`), `exists` (the disk), and two
ghosts: `shell`, where the daemon sent a shell that has not reported yet, and
`intact`, which is false after `emptyDirHistoryTable` or a prune that was killed
half way, after which the code promises nothing.
The daemon runs one command at a time, so a command is one action on the rows,
written as a function of them (`Updated`, `OpenedAt`, `NewTerminal`). The
statements autocommit: `CrashInUpdate` stops after each of them.
`CommandWithoutDatabase` is a command whose reads are empty and whose writes are
lost. Paths are members of `Dirs`; standardising is applied by the caller, and
what matters of it is kept: a missing row reads as "/" and "/" is refused.

`HistoryList` says what the shells may rely on, without rows, indices, settings
or statements: a list, a place for each shell, and four steps (`Move`, `Report`,
`ReportCut`, `Damage`). `ImplementsList` is its specification under the mapping
in `DirHistory` (`List`): the entries in the order of their indices, for each
shell the position of its pointer among them, and `damaged` for not `intact`. It
contains that a prune by one shell leaves every other shell at its directory,
and that a report shortens the list to its limit also after kills that skipped
earlier prunes.

### DaemonServer
State: the maps of the event loop, the kernel's table from numbers to
connections, what waits on each connection, the detached threads, and ghosts for
what was sent, executed and received. Commands are abstracted to five kinds by
what `mainCommand` and the loop do with them: `plain` is closed after the reply,
`ask` is closed too, after a handler (listWindows, activateWindow) that may read
the answer of the window extension inside the loop, `keep` stays open and
subscribes, `slow` is executed and then handed to a thread that executes it again,
`invalid` is a line that is not JSON.
The read of an `ask` handler has no timeout: `asking` holds the loop until the
extension answers or its connection ends (`ExtensionAnswers`), or, where its number
has been used again, until the program at the other end sends a command, which the
handler then takes (`ReadsCommands`; `robbed`). The extension's connection itself
and what is written to it are in `Extensions`.
A round of the loop is kept: `Select` fills `ready` and `listening`, then one
accept for each listening socket, then the clients, then the peers, in the order
of the numbers. One line is handled in a step, where the code handles all the
lines of up to 4096 bytes at once: the model allows more interleavings.
`select` on a tracked number that is not open is a step that is never enabled,
since the code starts over with the same numbers.

### LeaderLink
One step per access to what the threads share: closing, `socket`, `connect`,
setting the flag, sending under the mutex, reading the registration response
without it. Besides `PeerManager::forwardToLeader`, whose write and wait hold the
mutex (`ForwardSend`, `ForwardReturn`), the port commands and getAppPeers use the
socket in the event loop without it (`UnlockedForward`, `UnlockedWrite`,
`UnlockedRead`), and the leader sends execRequests of its own (`LeaderCommands`),
which the loop executes (`HandleLeaderData`, `ExecuteCommand`) unless somebody who
waits for an answer reads them; a thread executes them again and closes the number
(`ExecutedAgain`), and the leader takes what it reads next for their output
(`LeaderTakes`) or answers it with an error. `close(m_leaderSocket)` and the assignment of -1 after it are one
step; that somebody opens the number in between is not modelled. A heartbeat is
a message without an answer. The leader answers in order and echoes no request
number; the model numbers queries to be able to say whose answer was returned.

### PeerRegistry
The leader, with workers that connect, register, send heartbeats and MAC
updates, and drop: the end of a connection is visible to the leader late, or never.
A heartbeat's application status is a choice (the code sends it with every sixth).
`fresh` stands for `last_seen` less than 20 seconds ago and `Expire` for the
passing of that time; it is not enabled for a worker on an accepted link, which
says that heartbeats sent every 10 seconds arrive within 20.
`execOnPeer` is modelled for a leader: pick a descriptor (`m_peers`, or a new
connection), send to the number `m_peers` holds then, read from the number that
was picked; a second attempt after a failure; all of it once in the event loop,
which it blocks, and once in a thread. `ready` holds the peers `select` had
reported in the round of that command: they are handled after it, and a read of
a number that was closed meanwhile fails.
A read by the handler takes all that waits on the connection.

### AppRegistry
Several daemons, one of them the leader, each with its tables (`ports`, `rows`)
and what its event loop waits for (`loop`); the commands that workers forwarded
and the leader has not run (`ask`); the requests to managers with the commands
they still have to send (`jobs`), the commands sent that the daemon beside a
manager has not run (`calls`), and the threads that will execute a handler again
(`again`). A command of a daemon is one action, because the daemon runs one at a
time; `AddKilled` and `RemoveKilled` stop between any two of the autocommitted
statements, and `AddWithoutReading` is an addExtraApp for which the database came
back between the reads and the writes. Port numbers keep the ranges and the
order of the allocators, with 3000, 3500 and 4000 as constants.
The three waits are kept with their timeouts: 5 seconds for the leader, 10 for a
daemon, 300 for a manager. Whoever gives up leaves the command behind, and it is
carried out later. A timeout while the other side is able to answer counts as a
fault (`Late`); one while the other side itself waits does not.
Two ghosts name the exceptions of the properties: `forced`, keys that setPort or
an allocation without reading put on a used port, and `torn`, keys whose last
change was not a finished addExtraApp or removeExtraApp.
Abstractions: cloning, worktrees, builds and the detection of a server are the
choice of the row; a clone that fails changes nothing (`Steps` may be empty, as
for a manager that cannot be reached); the link to the leader is up, and any
message of the leader wakes a worker that waits (how answers are paired is
`LeaderLink`'s subject); resolving a peer's address, which reads only, is left
out; the hardcoded applications have no setting of their own for a server.

### InputMapper
The hardware is external: `hw`, the keys a user holds, `queue`, the events that
wait, `dropped`, a queue that overflowed, and `lib`, the keys as the library
last told the mapper. The input thread takes one event through the stages of
`processEvent` (`pc`): context (tracking, Pause, Scroll Lock, NumLock), G keys,
macros, emission; the stages are separate steps because the event loop and the
paste threads act between them. Each device has its own
overflow and resynchronisation. What a paste thread, simulateInput and testIntegrity
type is written event by event (`typing`; `PasteKey`, `SimulateKey`), because other
threads act between two of its events, a change of the grab among them; the
sequence of a macro is one step with its net effect, because it is emitted by the
input thread, with `uinputMutex_` from its first event to its last, while the devices
are grabbed, and only that thread ungrabs while it runs. The event loop changes the
active window (`ActiveWindowChanged` and `SetContextReleases` are the two halves of
`setContext`), the macros, the grab, and starts and stops the mapper. `vdown`
are the keys that are down on the virtual device.
The macros of `MacroConfig.cpp` are kept as data with the codes of the keys they
use, which are the numbers of Linux, because the code compares them with ranges;
documents of `updateMacros` are sequences of entries, one of which may be
malformed, and then those before it stay. The loops of `stageMacros`,
`applyOverrides` and `flushAndResetState` are recursive functions over the
positions (`RunCombos`, `ApplyOverrides`, `FlushAll`).
Two ghosts name what the code leaves behind: `stale`, codes that were withheld
when the macros were replaced, and `abandoned`. It is set by an ungrab, a stop, a
failed start, a change of the window or new macros that left a key tracked, down
or withheld, or a combo in progress (`LeftBehind`, `StageMacros`); by a G key that
takes the release of a digit (`StageGKey`); and by a simulateInput that leaves
down a key. Only a restart of the daemon clears it.
`KeyboardManager::setKeyboard` does not call `start` at this commit (its call is
commented out); `Start` is the method, whoever calls it. The event filters and
formatEvent only log and are left out.

### Extensions
A connection has the state of both its ends, what waits in each direction, and a
number while the daemon has it open. The daemon's part is one action per handler
(`RegisterNativeHost`, `SetActiveTabUrl`, `FocusAck`, `ShouldLog`,
`RegisterWindowExtension`, `AskWindowExtension`, ...), each taking one line, and
`ReadAnswer`, the read of `listWindows` inside the event loop, during which
nothing else is served. The native host is two threads: the main one with what
Chrome sends it (`MainSends`, which stops for ever when it needs a connection,
because `send` holds the lock that `connect` takes), and the listener, which
reconnects and registers. The tracker has one connection for each report, with
the retries of `lib/daemon.js`; window-selector has a persistent one. `missed` and
`overlap` record what the properties except: a registration or report that
`listWindows` took for an answer or that was served after a newer one, and reports
under way at one time. A report is under way (`Reporting`) while its caller has
not connected, or its line waits on a connection (`Pending`): the caller alone does
not tell, because a native host's number that is used again may get the tracker
an answer, and end its call, before its line is served.
Not modelled: replies that their readers ignore, the content of a tab or window.

### AppServices
One machine. A command becomes the list of its external commands (`StepsOf`),
carried out one by one by the event loop (`job`); systemd, programs, the manager
and the end of the daemon act between two of them. A service is off, starting,
up, or waiting to be started again; it opens its port after it was started, and a
port that is taken makes it fail, which systemd answers with another start. A kill
by `fuser` is a failure too, so `waitForPortRelease` and systemd work against each
other. Unit files are hand-written, generated, absent, or a link to a file that is
gone; the trees of an application have a commit and a build. An installation by the
manager is its fetch and worktree (`ManagerFetches`), then a make that runs beside
the daemon's commands and ends with the unit files (`ManagerInstalls`), then a
setPort for each port; an uninstallation ends with its deletePorts and
removeExtraApp. A build whose tree was checked out anew meanwhile is `Mixed`.
The status of the services travels with the registration and with heartbeats, while
there is a connection (`link`), to the leader's cache. A connection ends with what
the leader has not read of it (`ended`), which may be read after the next one has
registered, and its end clears the cache and `is_online`; the worker may not have
noticed it yet (`link = "broken"`), and then sends to nobody. `LastSeenLapses` is the
20 seconds of getAllPeers, `LeaderRestarts` loses the cache, and the leader has its
own table of applications (`leaderRows`). `GetAppPeers` is what the leader says.
Ghosts: `stopped` (services that stopApp stopped last), `unfinished` (deploys that
did not end), `forced` (keys that setPort put on a used port).
What the code does and the model shows without a property against it: the unit
that is generated for a server uses the client's port; the setting for a
server's dev port is never allocated; stopping the dashboard's dev mode stops
the server that prod shares; the ports of the hard-coded applications come from
their unit files and are not in the settings, so that an allocator can give them
out; the manager renames a hand-written unit file over the link to it and leaves
a dangling link. `KillsOnlyUnnamed` says exactly which kills these allow. `IsCommand` and `IsBudget`
say what a budget, which is data of the model, has to look like; the proofs need
no more of it.

### The modules whose names end in Proofs
The proofs of section 6: `DaemonServerProofs`, `PeerRegistryProofs`,
`AppRegistryProofs`, `LeaderLinkProofs`, `DirHistoryProofs`, `AppServicesProofs`,
`ExtensionsProofs` and `InputMapperProofs`, each an extension of the module it is
about. Where `Min` or `Max` of FiniteSetsExt occurs, the module proves that the
number chosen exists (`MinIsLeast`, from the well-foundedness of the naturals, and
`MaxIsGreatest`).

## 4. Runs

| run | shows | bounds |
|---|---|---|
| DirHistory | types, no holes, pointers denote entries, a shell's pointer stays where the daemon sent the shell; the rows implement `HistoryList` | 2 shells, 3 directories, limit 2: every second report prunes, and kills let the list grow beyond the limit |
| DaemonServer | types, one holder for each number, answers and log lines reach who asked, no close without an answer; every local command is answered, every handed-over connection is closed | 2 local programs and a daemon on 3 numbers; 2 commands, of all kinds for the programs |
| LeaderLink | the mutex pairs answers but where the property says; every query returns | event loop, reconnect loop, one slow command; 2 calls in all (forwarded with or without the mutex, or connecting), 1 command of the leader, 1 outage, 2 sockets |
| PeerRegistry | identities are right although numbers are reused; listPeers converges to who is connected | 2 workers, 2 connections each and 3 in all, so that an old end can be seen after a new registration; no execOnPeer |
| PeerRegistryExec | execOnPeer returns in the loop and in its thread; types | 1 worker, 2 connections, 1 command, which is executed twice with two attempts |
| AppRegistry | types and ranges, distinct ports, settings agree with the rows, every wait of an event loop ends | a leader and a worker; 2 extra applications and 1 hardcoded; two pairs of client ports and one server port, so that both run out; setPort into the middle of a pair; 3 commands (a request to a manager, which is executed twice, counts as 2), 1 fault |
| InputMapper | keys are withheld only by a combo that waits, get stuck or stay tracked only where a mode change left them; while devices are only watched only what a paste or simulateInput types is pressed | 6 sessions, each with the 1 to 3 keys, windows and macros of one use: pasting, editing macros, G keys where 6 may have been held before, clicks in a window that is left and entered again, Scroll Lock while a command types, Pause and NumLock while a paste waits; 1 paste thread, 2 replacements, queues of 1 event that overflow |
| Extensions | types; pastes follow the focus; the context follows the window; tabs in order; the native host gets registered; the loop comes back | 9 sessions over 3 connections at a time, so that every number is used again: pastes, log settings, ends of the native host, stops and crashes of the daemon, two extensions at once (the number of the native host or of window-selector passes to the tracker) |
| AppServices | types and one owner for each port; stopped services stay down; prod is of one commit; who is killed; commands end; the leader's view | 11 sessions: two services on one port, hand-written ports given out again, removed applications, deploys that fail at each step, a shared server with a reboot, the manager with hand-written and with generated unit files, an installation beside a deploy, the leader over connections that end, and with an application that comes and goes on both sides; 1 to 6 commands, 1 fault, 2 losses |

The remaining runs expect a violation; each states what a comment or a document of the
repository says and finds a behaviour of the code that breaks it:

| run | what TLC finds |
|---|---|
| DaemonServerPeerExec | the thread of another daemon's slow command closes a number the loop still tracks; `select` then fails for ever |
| LeaderLinkReconnect | `m_connectedToLeader` stays true without a socket and nobody connects again |
| PeerRegistryTarget | `m_peers` keeps the number of a closed connection; a command for one worker is executed by another |

Two more behaviours of the code are part of the models and no property is
against them: the handler of a slow command is executed by the loop and again by
its thread (`DaemonServer`, `PeerRegistry`, `AppRegistry`, `AppServices`), and a
command forwarded during a reconnection may get the registration response, which
is read without the mutex (`LeaderLink`; `PairedUnlessGivenUp` excepts the time of
a registration). It excepts likewise what the code leaves to chance: a command that
uses the socket without the mutex, and a command of the leader, whose bytes a thread
that waits takes for its answer.

The bounds are the smallest for which the mutants are caught and a number, an
index or a connection is used again at least once. `MaxSends`, `MaxCommands`,
`MaxLinks`, `MaxTotal`, `MaxInbox`, `MaxExecs`, `MaxCalls`,
`MaxOutages`, `MaxFaults`, `MaxJobs`, `MaxIndex`, `MaxConn`, `MaxPastes`, `MaxUpdates`,
`MaxCommit`, `Sessions` and `Budgets` bound what the environment does and have no
counterpart in the code; `EnoughDescriptors` says that `accept` does not fail for
lack of numbers. Symmetry is used only in runs without liveness. Deadlock is not
checked where programs may stop sending or the daemon may stop.

## 5. Fairness

Weak fairness of the loop, of the threads and of the handlers: they are runnable
threads of the operating system, and what they wait for ends (`poll` and
`SO_RCVTIMEO` have timeouts). Where it has none, the read of the window extension's
answer in the event loop, nothing is assumed: in `DaemonServer` nobody has to answer
it (`ExtensionAnswers` is not fair), and `LocalsAreAnswered` has the hypothesis that
such reads end (`LoopReads`); `Extensions` says who ends them. In `LeaderLink`, outages end and the leader
answers what reaches it; without an outage nothing else is assumed of it. In
`PeerRegistry`, time passes (`Expire`) and a worker that has a link sends
heartbeats: `reconnectLoop` does so every 10 seconds whatever else it sends, and
fairness is strong there because other messages may fill the bounded inbox each
time there is room. In `AppRegistry`, managers and daemons go on and the timeouts
of 5 and 10 seconds end; the 300 seconds a daemon waits for a manager are not
needed for `LoopsReturn`. In `Extensions`, the event loop, the native host's
threads and window-selector run, and a tracker's report or a tool ends its
connection after one reply. In `AppServices`, the event loop goes on with its
command, programs start, systemd starts failed services again (5 seconds,
`RestartSec`), and `reconnectLoop` sends the status while it is connected. Nothing
makes a worker connect again, which the code does not guarantee
(LeaderLinkReconnect), nor the leader read: `StatusReachesLeader` has both as
hypotheses. That heartbeats of 10 seconds arrive within 20 is an assumption about
time: a leader that is held up longer is one of the bounded losses. `InputMapper` states no fairness.
Nobody is assumed to connect, to send a command, to log or
to hang up.

## 6. Theorems

For every value of the constants, with the assumptions that the modules name
(`ConstantsAssumption`, `EnoughDescriptors`, `BudgetsAssumption`), which TLC
evaluates in the runs. Each theorem states a property of a run of section 4. An
invariant of a run is seldom inductive; what had to be added, and why, follows.
There is one lemma per action, and under it one step per part of the invariant
the action can disturb.

### DaemonServer
* `TypeCorrect`: `Spec => []TypeOK`.
* `HeldOnce`: `Spec => []OneHolder` if other daemons send no slow command. The
  run DaemonServerPeerExec shows that the hypothesis is needed. `OneHolder` is not
  inductive: that a line read from another daemon is not slow needs that
  `peer_clients` tracks connections of other daemons (`PeersAreRemote`) and that
  only what those send waits on them (`RemoteInboxes`). The invariant is
  `HolderInv`, their conjunction with `TypeOK`.
* `AnswersReachWhoAsked`: `Spec => []OwnAnswersOnly` if other daemons send neither
  slow commands nor log subscriptions, which is what daemons send besides
  execRequest. It adds to `HolderInv` that the number a thread was given still
  denotes the connection of its command (`ThreadsOwn`) and that the log
  subscribers are tracked clients that had a command executed
  (`SubscribersAsked`); the argument of every step is that a number that changes
  its meaning (accept, close) is neither a thread's nor a subscriber's, by
  `OneHolder`.
* `ClosedAfterAnswer`: `Spec => NoSilentClose`, an action property, if other
  daemons send no slow command. A thread's number denotes the connection of its
  command, and that connection was answered before it was handed over or has gone
  (`ThreadsAnswered`): the loop runs a slow command once itself.

### LeaderLink
* `LinkTypes`: `Spec => []TypeOK`.
* `AnswersArePaired`: `Spec => []PairedUnlessGivenUp`. The invariant `PairInv` adds
  that `m_leaderCommMutex` is held exactly by the thread that waits for an answer
  (`Locked`), that a socket number that is free has nothing on its way
  (`FreshWhenClosed`), that two threads never wait for the same query (`Numbered`),
  and that, unless a reader gave up on an answer of `m_leaderSocket` or took another's,
  what is on its way there is, once each, queries or answers of the thread that waits
  with the mutex and of the command that waits without it (`Awaited`), and one
  message for each registration under way, among any number of commands of the
  leader and their output (`Paired`, with `Fits`).

### DirHistory
* `HistoryTypes`: `Spec => []TypeOK`, also for a history that is not intact.
* `HistoryHasNoHoles`, `PointersStayInHistory`, `ShellStaysInStep`: the three
  invariants. `HistoryInv` is that, while the history is intact, the indices start
  at 0 without a hole, all pointers are among them (`Whole`) and each shell's
  pointer denotes where it was sent (`Follows`), and that a terminal the daemon does
  not know was sent nowhere. The core is arithmetic: the cutoff of `pruneHistory`,
  from the number of rows and the lowest index, keeps exactly the newest rows of
  an interval, and rebasing moves rows and pointers by one amount.
* `TablesImplementList`: `Spec => ImplementsList`, the refinement. Each command is
  a `Move`, a `Report`, a `ReportCut`, a `Damage` or a stutter of `HistoryList`;
  dropping the lowest rows is the removal of a prefix of the list, because the
  position of an index is its distance from the lowest one.

### PeerRegistry
* `RegistryTypes`: `Spec => []TypeOK`, execOnPeer included. It needs one more
  fact: a command under way is for a worker (`ExecHasPeer`).
* `IdentityHeld`: `Spec => []IdentityKept` if execOnPeer is not
  used (`MaxExecs = 0`): with it, a failed `sendToPeer` closes a number that
  `peer_clients` keeps (`ExecSend`). The
  invariant adds the types of the two maps and that no handler is half way.

### AppRegistry
* `RegistryTypes`, `PortsStayDistinct`, `PortsKeepRows`:
  `Spec => []TypeOK`, `[]DistinctPorts` and `[]PortsMatchRows`, for any number of
  daemons, applications, requests and faults. The invariant `Inv` is the three
  together with one fact they need: a manager that waits has a command it waits
  for, so that the next step of its list exists. `AddKeeps`, `RemoveKeeps` and
  `ApplyKeeps` are the argument about the tables; they rest on what the
  allocators return (`PairIsFree`, `ServerPortIsFree`: both ports of a pair lie
  below the first server port because the range has an even length, one of the
  assumptions).

### AppServices
* `ServicesTypes`: `Spec => []TypeOK`, in which no two processes have one port.
* `StopsForGood`: `Spec => []StoppedStaysStopped`.
* `ProdOfOneCommit`: `Spec => []ProdIsOfOneCommit`.
* `KillsAreOwn`: `Spec => KillsOnlyUnnamed`, an action property.

`ServicesInv` has a part for each group of variables. Beyond the properties it says
which steps a command may have (`Possible`: the services of its application and the
ports that settings of that application name, which no other command can change
while the loop is busy), that two keys share a port only if setPort did that
(`SettingsInv`), and how far a deploy has come (`DeployInv`): each service of prod is
still to be stopped or is of the commit that is checked out, the build is still
ahead or is of that commit, and only the first step checks a commit out.

### Extensions
* `ExtensionTypes`: `Spec => []TypeOK`.
* `PastesAfterFocus`: `Spec => []PasteAfterFocus`.
* `ContextFollows`: `Spec => []ContextFollowsFocus`.
* `TabsStayInOrder`: `Spec => TabsInOrder`, an action property.

`ExtensionsInv` describes a connection (`Sound`: what may wait on it, by whom it is),
the numbers (`NumberInv`), and who holds what (`HostInv`, `SelectorInv`, `TaskInv`).
`PasteInv` says that every request under way anywhere (`Flying`: in Chrome, in the
native host, on a connection) is not older than a paste that found nothing under way.
`ContextInv` says that every report under way is of the focused window, and that
there is one if the context is not. `TabInv` says that, for one native host, tabs
wait on one connection only, older than those the host has still to send, and
newer than the one the daemon has.

### InputMapper
* `Typed`: `Spec => []TypeOK`.
* `WithheldHasItsCombo`: `Spec => []WithheldByCombo`.
* `TrackedAreHeld`: `Spec => []TrackedKeysAreHeld`.
* `WatchingDoublesNothing`: `Spec => MonitoringDoublesNothing`, an action property:
  while devices are only watched, a key that goes down on the virtual device is the
  next one that a paste thread or simulateInput types, or was left withheld by an
  ungrab or a stop and is given up by a resynchronisation.
* `NoKeyGetsStuck`: `Spec => []StuckOnlyIfAbandoned` if `GoodDocuments`.

The first four hold for all documents of `updateMacros`. `GoodDocuments` says of
each document that its triggers wait for presses only and that its sequences leave
down no key but those of their trigger; it holds for the built-in macros (a lemma,
`TableMacros`) and is needed: a step that waits for the release of a key and
withholds it swallows that release, and a sequence may press a key and never
release it. The code accepts such documents.

One turn of the loop of `stageMacros` is described by what it may do to the
progress, the registry and the virtual device (`OneComboTurns`), and `LoopTurns`,
by induction on the combos visited, gives what each turn of the whole loop does;
the invariants are carried along those turns. The parts of the invariant:
`Types`; `ModeInv`, which stages, grabs and ungrabs can coincide (an event at the
macros is of a grabbed device, since only the input thread ungrabs while it runs;
while devices are only watched nothing is withheld or counted, and nothing is down
but what is about to be released by those who type, unless it was abandoned); `TrackInv`, the tracked keys are down or virtual; `SyncInv`, while events
of a resynchronisation wait no macro runs and no combo has begun; `LibInv`, the key
of the event at hand is down if it is no release, and a release is of a real key;
`MacrosInv`, the macros are those of `GoodDocuments`.

`StuckInv` is the reason for the last theorem. While nothing was abandoned:
what is down on the virtual device is held or is the key of the event at hand;
whatever an owner withholds is a key of a step that its combo took, and a key of
a step that was taken is held, so that giving up a combo presses only keys that
are held; combos of other applications have not begun, except between the two
halves of `setContext`; and nothing withholds the code of a release that goes to
`emitFinal`. A release that matches no step breaks every combo that has taken a
step with its key, whether noise breaks it or not, so nobody withholds that key
any more and the release is passed on.

### What proof attempts found in the models
* `AppServices`: the ghost `forced` kept a key whose port a later addExtraApp had
  allocated anew, so `KillsOnlyUnnamed` excepted kills that it should not. It now
  drops every key whose setting changes.
* `Extensions`: `ContextFollowsFocus` took "no caller of the tracker is waiting" for
  "no report is under way". That is false when the number of a native host that
  ended passes to the tracker's connection, a case the budgets did not have. TLC
  confirmed it; the property now uses `Reporting`, and a budget has the case.
* `InputMapper`: `StuckOnlyIfAbandoned` failed in three cases, because the ghost
  `abandoned` was too narrow; it names them now. Pressing 6, then Ctrl, Shift, Ctrl,
  Shift, and releasing 6 makes `stageGKey` take the release for a G key: 6 stays
  down. When `setContext` changes the window and resets the combos after
  `stageMacros` has read the application and before it takes `macrosMutex_`, a
  combo of the window that was left goes on; a click that soon follows, in that window
  again, completes Ctrl+Click, whose sequence leaves Ctrl down although nobody
  holds it, where the comment says "to prevent stuck keys/macros"
  (`InputMapper.cpp:599`). A stop with a combo in progress keeps that progress for
  the next start. TLC finds the first two since the sessions have their keys and
  windows. `Readable` let
  new events pass those of a resynchronisation, which libevdev returns in one go.

### Only model-checked
* The liveness properties (every local command is answered, every handed-over
  connection closed, `ConnectedIsListed`, `GoneIsUnlisted`, `ExecReturns`,
  `LoopsReturn`, `HostIsRegistered`, `LoopComesBack`, `CommandEnds`,
  `StatusReachesLeader`, and that every query of `LeaderLink` returns): fairness and
  ENABLED are out of the prover's reach.
* What the expected violations show, which are behaviours.

## 7. Not modelled

* Start-up of the daemon (sockets, database server, schema, dashboard, the retry
  of the peer socket): a sequence of system calls before anything is shared.
* The text of replies and logs; log filters and formatEvent; the table of key codes of
  `cmdInput.cpp`.
* The handlers behind a `plain` command that no module has: system information,
  WireGuard, getChromeTabUrl, the shell command of testIntegrity. They run a shell command or read, and
  change no state that another part uses.
* In `LeaderLink`, that a number is opened again between a close and the assignment
  after it, or for a file that is not a connection to the leader, and that `select`
  fails while the number of `m_leaderSocket` is closed (the model lets the loop go
  on); in `PeerRegistry`, execOnPeer on a worker beyond the exchange with the
  leader, and the leader's own row. Two daemons whose event loops execute on each
  other wait for each other until the reads time out (120 seconds, `cmdPeer.cpp:428`):
  no module has two such loops.
* In `InputMapper`, what happens to a paste whose virtual device is destroyed by a
  stop between two of its events: the thread writes to freed memory.
* In `AppServices`, the failure of a clone, installing dependencies, the start limits
  of systemd (the model starts a service that failed again without end) and the ExecStartPre of the
  hand-written units, which frees a port with `fuser` before a start.
* Shell scripts, the editor extension, the MCP server, `termcontrol` and the other
  stand-alone utilities, which are clients of the daemon or unrelated to it.
