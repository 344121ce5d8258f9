----------------------------- MODULE Extensions -----------------------------
(***************************************************************************)
(* The programs on the desktop that talk with the daemon and the           *)
(* descriptor numbers the daemon keeps of them (cmdBrowser.cpp,            *)
(* cmdWindow.cpp, cmdLogging.cpp):                                         *)
(*   the Chrome extension (background.js) and its native host              *)
(*   (native-host.py), a process with two threads and a lock;              *)
(*   the GNOME extension window-selector, which answers listWindows;       *)
(*   the GNOME extension active-window-tracker, with one short connection  *)
(*   for each change of the focus (lib/daemon.js);                         *)
(*   `daemon send' and windowSwitcher.py, which send one command.          *)
(* The event loop serves one line at a time; the order among connections   *)
(* that are ready is left open (module DaemonServer has it), the order of  *)
(* accept() is kept.  Replies that their readers ignore are left out, and  *)
(* so is everything in the daemon that the programs do not touch.          *)
(***************************************************************************)
EXTENDS Integers, Sequences, FiniteSets, FiniteSetsExt, Functions

CONSTANTS
    MaxConn,    \* bound of the model on connections at one time
    Windows,    \* the windows that may have the focus
    Browser,    \* the one of Chrome
    Budgets     \* bound of the model: how often the outside acts

\* runs: the extensions that are there (chrome, selector, tracker); tabs:
\* changes of the active tab; pastes: uses of the paste macro; focuses:
\* changes of the focused window; tools: commands sent by programs; stops and
\* crashes of the daemon; ends of the native host; disables of window-selector
ASSUME ConstantsAssumption ==
    /\ MaxConn \in Nat \ {0}
    /\ Browser \in Windows
    /\ \A b \in Budgets :
          /\ DOMAIN b = {"runs", "tabs", "pastes", "focuses", "stops", "ends", "disables", "tools"}
          /\ \A x \in {"tabs", "pastes", "focuses", "stops", "ends", "disables"} : b[x] \in Nat
          /\ b.tools \subseteq [who : {"cli", "script"},
                                op : {"focusChatGPT", "shouldLog", "listWindows"}]

Conns == 1 .. MaxConn
Fds == 1 .. MaxConn
None == 0               \* no connection, or the descriptor number -1

VARIABLES
    budget,     \* what the outside may still do
    conn,       \* the connections to the daemon's socket
    backlog,    \* those that accept() has not returned
    daemon,     \* up, stopped or crashed
    loop,       \* the event loop: in select, or reading an answer
    native,     \* g_nativeHostSocket
    sync,       \* g_nativeHostSocketForSync
    window,     \* g_windowExtensionSocket
    tab,        \* g_activeTabUrl
    context,    \* the window the macros are chosen for, and who reported it
    acked,      \* focusAckReceived_
    waiters,    \* the threads of triggerChromeChatGPTMacro
    chrome,     \* the Chrome extension
    toHost,     \* messages from Chrome to the native host
    host,       \* the native host
    selector,   \* window-selector
    focus,      \* the window that has the focus
    tasks,      \* calls of connectAndSendMessage that have not returned
    ready,      \* the signal Ready, not yet delivered
    requests,   \* ghost: how many focus requests were made
    confirmed,  \* ghost: the last request whose acknowledgement arrived
    overlap,    \* ghost: a window was reported while the daemon did not yet have
                \* the one before
    missed      \* ghost: who last lost a line: it was read as an answer of
                \* window-selector, or an earlier host's registration came after it

sockets == <<native, sync, window>>
pasteVars == <<acked, waiters, requests, confirmed>>
chromeVars == <<chrome, toHost, host>>
trackerVars == <<focus, tasks, ready, overlap, missed>>
daemonVars == <<daemon, loop, tab, context>>
vars == <<budget, conn, backlog, daemonVars, sockets, pasteVars, chromeVars, selector,
          trackerVars>>

-----------------------------------------------------------------------------
(* Connections.  st is the daemon's end, open the program's; in holds the  *)
(* commands for the daemon, out what the daemon wrote.                     *)

Unused == [who |-> "none", st |-> "unused", fd |-> None, open |-> FALSE,
           in |-> <<>>, out |-> <<>>]

Command(op, n) == [op |-> op, n |-> n]

FreeConns(cs) == {c \in Conns : cs[c].st = "unused"}

\* connect() and the write of the first line
Connected(who, line) ==
    [conn EXCEPT ![Min(FreeConns(conn))] =
        [who |-> who, st |-> "backlog", fd |-> None, open |-> TRUE,
         in |-> <<line>>, out |-> <<>>]]

MayConnect == daemon = "up" /\ FreeConns(conn) # {}

\* Mutant: the number of a connection that was closed stays in use
ShutKeepsNumber(cs, c) ==
    [cs EXCEPT ![c] = IF @.open THEN [@ EXCEPT !.st = "shut", !.in = <<>>] ELSE Unused]

\* The daemon's end is closed; what was written can still be read
Shut(cs, c) ==
    [cs EXCEPT ![c] = IF @.open THEN [@ EXCEPT !.st = "shut", !.fd = None, !.in = <<>>]
                      ELSE Unused]

\* The program closes its end
Left(cs, c) ==
    [cs EXCEPT ![c] = IF @.st = "shut" THEN Unused
                      ELSE [@ EXCEPT !.open = FALSE, !.out = <<>>]]

\* The connection that number f denotes now
At(cs, f) == IF \E c \in Conns : f # None /\ cs[c].fd = f
             THEN CHOOSE c \in Conns : cs[c].fd = f ELSE None

\* write() to number f: it fails if f is not open or the program has gone
Writable(cs, f) == At(cs, f) # None /\ cs[At(cs, f)].open

Written(cs, f, m) ==
    IF Writable(cs, f) THEN [cs EXCEPT ![At(cs, f)].out = Append(@, m)] ELSE cs

\* The program sees the end of the connection
Ended(c) == conn[c].st = "shut" /\ conn[c].out = <<>>

-----------------------------------------------------------------------------
Select == [at |-> "select", from |-> None, for |-> None]

Init ==
    /\ budget \in Budgets
    /\ conn = [c \in Conns |-> Unused]
    /\ backlog = <<>>
    /\ daemon = "up" /\ loop = Select
    /\ native = None /\ sync = None /\ window = None
    /\ tab = [n |-> 0, host |-> 0]
    /\ context = [win |-> "none", by |-> "none"]
    /\ acked = FALSE /\ waiters = {} /\ requests = 0 /\ confirmed = 0
    /\ chrome = [port |-> FALSE, tab |-> 0, todo |-> {}]
    /\ toHost = <<>>
    /\ host = [up |-> FALSE, n |-> 0, sock |-> None, reads |-> None, main |-> "read"]
    /\ selector = [running |-> TRUE, conn |-> None, at |-> "idle"]
    /\ focus \in Windows
    /\ tasks = {} /\ ready = TRUE /\ overlap = FALSE /\ missed = {}

Spend(what) ==
    /\ budget[what] > 0
    /\ budget' = [budget EXCEPT ![what] = @ - 1]

-----------------------------------------------------------------------------
(* The event loop of the daemon *)

Selecting == daemon = "up" /\ loop = Select

\* accept_new_client: the lowest free number
AcceptNewClient ==
    /\ Selecting /\ backlog # <<>>
    /\ conn' = [conn EXCEPT ![Head(backlog)].st = "open",
                            ![Head(backlog)].fd = Min(Fds \ {conn[c].fd : c \in Conns})]
    /\ backlog' = Tail(backlog)
    /\ UNCHANGED <<budget, daemonVars, sockets, pasteVars, chromeVars, selector, trackerVars>>

\* handle_client_data: the end of file
EndOfFile(c) ==
    /\ Selecting /\ conn[c].st = "open" /\ conn[c].in = <<>> /\ ~conn[c].open
    /\ conn' = Shut(conn, c)
    /\ UNCHANGED <<budget, backlog, daemonVars, sockets, pasteVars, chromeVars, selector,
                   trackerVars>>

\* The connections after the command of c was taken from its buffer
Taken(c) == [conn EXCEPT ![c].in = Tail(@)]

\* handleRegisterNativeHost: the connection stays open
RegisterNativeHost(c) ==
    /\ native' = conn[c].fd /\ sync' = conn[c].fd
    /\ conn' = Taken(c)
    /\ missed' = IF c = host.sock THEN missed ELSE missed \cup {"host"}
    /\ UNCHANGED <<loop, window, tab, context, acked, requests, confirmed>>

\* handleSetActiveTabUrl; the reply closes the connection, also the native host's
SetActiveTabUrl(c, m) ==
    /\ tab' = m.n
    /\ context' = [win |-> Browser, by |-> "tab"]
    /\ conn' = Shut(conn, c)
    /\ UNCHANGED <<loop, sockets, acked, requests, confirmed, missed>>

\* handleFocusAck and InputMapper::onFocusAck
FocusAck(c, m) ==
    /\ acked' = TRUE
    /\ confirmed' = Max({confirmed, m.n})
    /\ conn' = Shut(conn, c)
    /\ UNCHANGED <<loop, sockets, tab, context, requests, missed>>

\* triggerChromeChatGPTFocus: a failed write forgets the number
TriggerChromeChatGPTFocus(cs) ==
    /\ requests' = requests + 1
    /\ conn' = Written(cs, native, Command("focus", requests + 1))
    /\ native' = IF Writable(cs, native) THEN native ELSE None
    /\ UNCHANGED <<sync, window>>

FocusChatGPT(c) ==
    /\ TriggerChromeChatGPTFocus(Shut(conn, c))
    /\ UNCHANGED <<loop, tab, context, acked, confirmed, missed>>

\* handleShouldLog: syncLoggingWithBridge does not look at the result of write
ShouldLog(c) ==
    /\ conn' = Shut(Written(conn, sync, Command("mask", 0)), c)
    /\ UNCHANGED <<loop, sockets, tab, context, acked, requests, confirmed, missed>>

RegisterWindowExtension(c) ==
    /\ window' = conn[c].fd
    /\ conn' = Taken(c)
    /\ UNCHANGED <<loop, native, sync, tab, context, acked, requests, confirmed, missed>>

\* handleListWindows and handleActivateWindow: the number may be missing, the
\* write may fail, and otherwise the loop reads from the number until something
\* comes
AskWindowExtension(c) ==
    /\ IF Writable(conn, window)
       THEN /\ loop' = [at |-> "reading", from |-> At(conn, window), for |-> c]
            /\ conn' = Written(Taken(c), window, Command("windows", 0))
            /\ window' = window
       ELSE /\ window' = None
            /\ conn' = Shut(conn, c)
            /\ loop' = loop
    /\ UNCHANGED <<native, sync, tab, context, acked, requests, confirmed, missed>>

\* onActiveWindowChanged
ActiveWindowChanged(c, m) ==
    /\ context' = [win |-> m.n, by |-> "tracker"]
    /\ conn' = Shut(conn, c)
    /\ UNCHANGED <<loop, sockets, tab, acked, requests, confirmed, missed>>

\* A line that is not a command of the daemon: an error, and the end
Unhandled(c) ==
    /\ conn' = Shut(conn, c)
    /\ UNCHANGED <<loop, sockets, tab, context, acked, requests, confirmed, missed>>

\* mainCommand for the next line of c
Serve(c) ==
    /\ Selecting /\ conn[c].st = "open" /\ conn[c].in # <<>>
    /\ LET m == Head(conn[c].in)
       IN  \/ m.op = "registerNativeHost" /\ RegisterNativeHost(c)
           \/ m.op = "setActiveTabUrl" /\ SetActiveTabUrl(c, m)
           \/ m.op = "focusAck" /\ FocusAck(c, m)
           \/ m.op = "focusChatGPT" /\ FocusChatGPT(c)
           \/ m.op = "shouldLog" /\ ShouldLog(c)
           \/ m.op = "registerWindowExtension" /\ RegisterWindowExtension(c)
           \/ m.op = "listWindows" /\ AskWindowExtension(c)
           \/ m.op = "activeWindowChanged" /\ ActiveWindowChanged(c, m)
           \/ m.op = "answer" /\ Unhandled(c)
    /\ UNCHANGED <<budget, backlog, daemon, waiters, chromeVars, selector, focus,
                   tasks, ready, overlap>>

\* read() in handleListWindows returns what is there, whoever wrote it, or the
\* end of file; the reply closes the connection that asked
ReadAnswer ==
    /\ daemon = "up" /\ loop.at = "reading"
    /\ conn[loop.from].in # <<>> \/ ~conn[loop.from].open
    /\ conn' = Shut([conn EXCEPT ![loop.from].in = <<>>], loop.for)
    /\ loop' = Select
    /\ missed' = IF conn[loop.from].in # <<>> THEN missed \cup {conn[loop.from].who}
                    ELSE missed
    /\ UNCHANGED <<budget, backlog, daemon, tab, context, sockets, pasteVars, chromeVars,
                   selector, focus, tasks, ready, overlap>>

\* The daemon ends; the socket's file is removed only by a regular end
Stop(how) ==
    /\ daemon = "up" /\ Spend("stops")
    /\ how = "stopped" => loop = Select
    /\ daemon' = how
    /\ conn' = [c \in Conns |-> Shut(conn, c)[c]]
    /\ backlog' = <<>> /\ loop' = Select
    /\ native' = None /\ sync' = None /\ window' = None
    /\ tab' = [n |-> 0, host |-> 0] /\ context' = [win |-> "none", by |-> "none"]
    /\ acked' = FALSE /\ waiters' = {}
    /\ UNCHANGED <<requests, confirmed, chromeVars, selector, trackerVars>>

\* Mutant: the daemon does not announce itself
StartSilently ==
    /\ daemon # "up" /\ daemon' = "up"
    /\ UNCHANGED <<budget, conn, backlog, loop, tab, context, sockets, pasteVars, chromeVars,
                   selector, trackerVars>>

\* initialize_daemon: the socket, then emitDaemonReadySignal
Start ==
    /\ daemon # "up"
    /\ daemon' = "up" /\ ready' = TRUE
    /\ UNCHANGED <<budget, conn, backlog, loop, tab, context, sockets, pasteVars, chromeVars,
                   selector, focus, tasks, overlap, missed>>

-----------------------------------------------------------------------------
(* The paste macro (InputMapper.cpp) *)

\* A focus request or its acknowledgement is under way
InFlight ==
    \/ chrome.todo # {}
    \/ \E i \in DOMAIN toHost : toHost[i].op = "focusAck"
    \/ \E c \in Conns :
          \/ \E i \in DOMAIN conn[c].out : conn[c].out[i].op = "focus"
          \/ \E i \in DOMAIN conn[c].in : conn[c].in[i].op = "focusAck"

\* Mutant: the flag of an earlier request is kept
TriggerWithoutClearing ==
    /\ daemon = "up" /\ context.win = Browser
    /\ Spend("pastes")
    /\ waiters' = waiters \cup {[n |-> requests + 1, clean |-> ~InFlight]}
    /\ TriggerChromeChatGPTFocus(conn)
    /\ UNCHANGED <<backlog, daemonVars, acked, confirmed, chromeVars, selector, trackerVars>>

\* triggerChromeChatGPTMacro: the flag is cleared, the request sent, and a
\* thread waits
TriggerChromeChatGPTMacro ==
    /\ daemon = "up" /\ context.win = Browser
    /\ Spend("pastes")
    /\ acked' = FALSE
    /\ waiters' = waiters \cup {[n |-> requests + 1, clean |-> ~InFlight]}
    /\ TriggerChromeChatGPTFocus(conn)
    /\ UNCHANGED <<backlog, daemonVars, confirmed, chromeVars, selector, trackerVars>>

\* The flag is set, or 400 milliseconds are over: the thread pastes and ends
Paste(w) ==
    /\ waiters' = waiters \ {w}
    /\ UNCHANGED <<budget, conn, backlog, daemonVars, sockets, acked, requests, confirmed,
                   chromeVars, selector, trackerVars>>

-----------------------------------------------------------------------------
(* Chrome: background.js *)

Register == Command("registerNativeHost", 0)

\* connectToNativeHost: a new process, and its first message
NewHost == [up |-> TRUE, n |-> host.n + 1, sock |-> None, reads |-> None, main |-> "read"]

\* sendToNativeHost
SendToNativeHost(m) ==
    IF chrome.port THEN toHost' = Append(toHost, m) /\ host' = host
    ELSE toHost' = <<Register, m>> /\ host' = NewHost

\* The start of the extension, and 5 seconds after the end of the host
ConnectToNativeHost ==
    /\ "chrome" \in budget.runs /\ ~chrome.port
    /\ chrome' = [chrome EXCEPT !.port = TRUE]
    /\ toHost' = <<Register>> /\ host' = NewHost
    /\ UNCHANGED <<budget, conn, backlog, daemonVars, sockets, pasteVars, selector, trackerVars>>

\* getAndSendActiveTabUrl after another tab became active, in whatever window
GetAndSendActiveTabUrl ==
    /\ Spend("tabs")
    /\ chrome' = [chrome EXCEPT !.port = TRUE, !.tab = @ + 1]
    /\ LET url == [n |-> chrome.tab + 1, host |-> IF chrome.port THEN host.n ELSE NewHost.n]
       IN  SendToNativeHost(Command("setActiveTabUrl", url))
    /\ UNCHANGED <<conn, backlog, daemonVars, sockets, pasteVars, selector, trackerVars>>

\* focusChatGPTTextarea: whatever happens in the page, an acknowledgement
FocusChatGPTTextarea(n) ==
    /\ chrome' = [chrome EXCEPT !.port = TRUE, !.todo = @ \ {n}]
    /\ SendToNativeHost(Command("focusAck", n))
    /\ UNCHANGED <<budget, conn, backlog, daemonVars, sockets, pasteVars, selector, trackerVars>>

\* The host ends, or Chrome ends it, with or without the extension
HostEnds ==
    /\ host.up /\ Spend("ends")
    /\ host' = [host EXCEPT !.up = FALSE, !.sock = None, !.reads = None]
    /\ conn' = IF host.reads = None THEN conn ELSE Left(conn, host.reads)
    /\ toHost' = <<>>
    /\ \E todo \in {chrome.todo, {}} : chrome' = [chrome EXCEPT !.port = FALSE, !.todo = todo]
    /\ UNCHANGED <<backlog, daemonVars, sockets, pasteVars, selector, trackerVars>>

-----------------------------------------------------------------------------
(* The native host: native-host.py *)

\* Mutant: a message that could not be sent waits behind the others
MainSendsLater ==
    /\ host.up /\ host.main = "read" /\ toHost # <<>>
    /\ host.sock # None
    /\ IF conn[host.sock].st = "shut"
       THEN toHost' = Append(Tail(toHost), Head(toHost)) /\ UNCHANGED <<conn, host>>
       ELSE /\ toHost' = Tail(toHost)
            /\ conn' = [conn EXCEPT ![host.sock].in = Append(@, Head(toHost))]
            /\ host' = host
    /\ UNCHANGED <<budget, backlog, daemonVars, sockets, pasteVars, chrome, selector,
                   trackerVars>>

\* main and DaemonLink.send: a message for a daemon that is gone is lost, and
\* without a socket send calls connect, which waits for the lock send holds
MainSends ==
    /\ host.up /\ host.main = "read" /\ toHost # <<>>
    /\ toHost' = Tail(toHost)
    /\ IF host.sock = None
       THEN host' = [host EXCEPT !.main = "stuck"] /\ conn' = conn
       ELSE IF conn[host.sock].st = "shut"
       THEN host' = [host EXCEPT !.sock = None] /\ conn' = conn
       ELSE host' = host /\ conn' = [conn EXCEPT ![host.sock].in = Append(@, Head(toHost))]
    /\ UNCHANGED <<budget, backlog, daemonVars, sockets, pasteVars, chrome, selector,
                   trackerVars>>

\* listen_loop: connect, under the lock
ListenerConnects ==
    /\ host.up /\ host.reads = None /\ host.main # "stuck" /\ MayConnect
    /\ LET c == Min(FreeConns(conn))
       IN  /\ conn' = Connected("host", Register)
           /\ backlog' = Append(backlog, c)
           /\ host' = [host EXCEPT !.sock = c, !.reads = c]
    /\ missed' = missed \ {"host"}
    /\ UNCHANGED <<budget, daemonVars, sockets, pasteVars, chrome, toHost, selector, focus,
                   tasks, ready, overlap>>

\* A line of the daemon goes to Chrome, which looks for one action only
ListenerReceives ==
    /\ host.up /\ host.reads # None
    /\ conn[host.reads].out # <<>>
    /\ LET m == Head(conn[host.reads].out)
       IN  chrome' = [chrome EXCEPT !.todo = IF m.op = "focus" THEN @ \cup {m.n} ELSE @]
    /\ conn' = [conn EXCEPT ![host.reads].out = Tail(@)]
    /\ UNCHANGED <<budget, backlog, daemonVars, sockets, pasteVars, toHost, host, selector,
                   trackerVars>>

\* Mutant: the end of file is not noticed
ListenerSpins == FALSE /\ UNCHANGED vars

\* recv returns nothing
ListenerEnds ==
    /\ host.up /\ host.reads # None /\ Ended(host.reads)
    /\ host' = [host EXCEPT !.sock = None, !.reads = None]
    /\ conn' = Left(conn, host.reads)
    /\ UNCHANGED <<budget, backlog, daemonVars, sockets, pasteVars, chrome, toHost, selector,
                   trackerVars>>

-----------------------------------------------------------------------------
(* window-selector: PersistentDaemonConnector *)

SelectorTries ==
    /\ "selector" \in budget.runs /\ selector.running /\ selector.at = "idle"
    /\ selector' = [selector EXCEPT !.at = "connecting"]
    /\ UNCHANGED <<budget, conn, backlog, daemonVars, sockets, pasteVars, chromeVars,
                   trackerVars>>

\* connect_finish and the registration.  A connector that was stopped meanwhile
\* registers too, and leaves the connection without reading from it.
SelectorConnects ==
    /\ selector.at = "connecting" /\ MayConnect
    /\ LET c == Min(FreeConns(conn))
       IN  /\ conn' = Connected("selector", Command("registerWindowExtension", 0))
           /\ backlog' = Append(backlog, c)
           /\ selector' = IF selector.running THEN [selector EXCEPT !.conn = c, !.at = "open"]
                          ELSE [selector EXCEPT !.at = "idle"]
    /\ UNCHANGED <<budget, daemonVars, sockets, pasteVars, chromeVars, trackerVars>>

\* Mutant: a request is not answered
SelectorIgnores ==
    /\ selector.at = "open" /\ conn[selector.conn].out # <<>>
    /\ conn' = [conn EXCEPT ![selector.conn].out = Tail(@)]
    /\ UNCHANGED <<budget, backlog, daemonVars, sockets, pasteVars, chromeVars, selector,
                   trackerVars>>

\* _handleMessage
SelectorAnswers ==
    /\ selector.at = "open" /\ conn[selector.conn].out # <<>>
    /\ LET x == conn[selector.conn]
           asked == Head(x.out).op = "windows" /\ x.st # "shut"
       IN  conn' = [conn EXCEPT ![selector.conn].out = Tail(@),
                                ![selector.conn].in =
                                    IF asked THEN Append(@, Command("answer", 0)) ELSE @]
    /\ UNCHANGED <<budget, backlog, daemonVars, sockets, pasteVars, chromeVars, selector,
                   trackerVars>>

\* "Connection closed by daemon", and 2 seconds later the next attempt
SelectorEnds ==
    /\ selector.at = "open" /\ Ended(selector.conn)
    /\ conn' = Left(conn, selector.conn)
    /\ selector' = [selector EXCEPT !.conn = None, !.at = "idle"]
    /\ UNCHANGED <<budget, backlog, daemonVars, sockets, pasteVars, chromeVars, trackerVars>>

\* disable and stop
SelectorDisabled ==
    /\ selector.running /\ Spend("disables")
    /\ IF selector.at = "open"
       THEN /\ conn' = Left(conn, selector.conn)
            /\ selector' = [running |-> FALSE, conn |-> None, at |-> "idle"]
       ELSE selector' = [selector EXCEPT !.running = FALSE] /\ conn' = conn
    /\ UNCHANGED <<backlog, daemonVars, sockets, pasteVars, chromeVars, trackerVars>>

\* enable and start
SelectorEnabled ==
    /\ ~selector.running /\ selector.at = "idle"
    /\ selector' = [selector EXCEPT !.running = TRUE]
    /\ UNCHANGED <<budget, conn, backlog, daemonVars, sockets, pasteVars, chromeVars,
                   trackerVars>>

-----------------------------------------------------------------------------
(* active-window-tracker, and DaemonConnector in lib/daemon.js *)

\* A report of the tracker waits for the daemon
Pending(c) == \E i \in DOMAIN conn[c].in : conn[c].in[i].op = "activeWindowChanged"
Reporting == tasks # {} \/ \E c \in Conns : Pending(c)

\* _onActiveWindowChanged begins for window w
Notify(w) ==
    /\ tasks' = tasks \cup
          {[n |-> Min((1 .. Cardinality(tasks) + 1) \ {t.n : t \in tasks}),
            win |-> w, conn |-> None]}
    /\ overlap' = Reporting
    /\ missed' = IF Reporting THEN missed ELSE missed \ {"tracker"}

FocusChanges(w) ==
    /\ w # focus /\ Spend("focuses")
    /\ focus' = w
    /\ Notify(w)
    /\ UNCHANGED <<conn, backlog, daemonVars, sockets, pasteVars, chromeVars, selector, ready>>

\* enable and the signal Ready of the daemon
SyncWindow ==
    /\ "tracker" \in budget.runs
    /\ ready /\ ready' = FALSE
    /\ Notify(focus)
    /\ UNCHANGED <<budget, conn, backlog, daemonVars, sockets, pasteVars, chromeVars, selector,
                   focus>>

TaskConnects(t) ==
    /\ t.conn = None /\ MayConnect
    /\ LET c == Min(FreeConns(conn))
       IN  /\ conn' = Connected("tracker", Command("activeWindowChanged", t.win))
           /\ backlog' = Append(backlog, c)
           /\ tasks' = (tasks \ {t}) \cup {[t EXCEPT !.conn = c]}
    /\ UNCHANGED <<budget, daemonVars, sockets, pasteVars, chromeVars, selector, focus, ready,
                   overlap, missed>>

\* Ten times "Connection refused"; while there is no socket's file it waits
TaskGivesUp(t) ==
    /\ t.conn = None /\ daemon = "crashed"
    /\ tasks' = tasks \ {t}
    /\ UNCHANGED <<budget, conn, backlog, daemonVars, sockets, pasteVars, chromeVars, selector,
                   focus, ready, overlap, missed>>

\* One line, or the end, and the connection is closed
TaskEnds(t) ==
    /\ t.conn # None
    /\ conn[t.conn].st = "shut" \/ conn[t.conn].out # <<>>
    /\ conn' = Left(conn, t.conn)
    /\ tasks' = tasks \ {t}
    /\ UNCHANGED <<budget, backlog, daemonVars, sockets, pasteVars, chromeVars, selector, focus,
                   ready, overlap, missed>>

-----------------------------------------------------------------------------
(* Programs that send one command: cli is `daemon send', which reads until  *)
(* the end, script is windowSwitcher.py, which reads one line               *)

ToolStarts(t) ==
    /\ MayConnect
    /\ budget' = [budget EXCEPT !.tools = @ \ {t}]
    /\ conn' = Connected(t.who, Command(t.op, 0))
    /\ backlog' = Append(backlog, Min(FreeConns(conn)))
    /\ UNCHANGED <<daemonVars, sockets, pasteVars, chromeVars, selector, trackerVars>>

ToolEnds(c) ==
    /\ conn[c].open
    /\ \/ conn[c].who = "cli" /\ conn[c].st = "shut"
       \/ conn[c].who = "script" /\ (conn[c].st = "shut" \/ conn[c].out # <<>>)
    /\ conn' = Left(conn, c)
    /\ UNCHANGED <<budget, backlog, daemonVars, sockets, pasteVars, chromeVars, selector,
                   trackerVars>>

-----------------------------------------------------------------------------
Loop ==
    \/ AcceptNewClient \/ ReadAnswer
    \/ \E c \in Conns : EndOfFile(c) \/ Serve(c)

Host == MainSends \/ ListenerConnects \/ ListenerReceives \/ ListenerEnds

Selector == SelectorTries \/ SelectorConnects \/ SelectorAnswers \/ SelectorEnds

Next ==
    \/ Loop \/ Host \/ Selector
    \/ \E how \in {"stopped", "crashed"} : Stop(how)
    \/ Start
    \/ TriggerChromeChatGPTMacro \/ \E w \in waiters : Paste(w)
    \/ ConnectToNativeHost \/ GetAndSendActiveTabUrl \/ HostEnds
    \/ \E n \in chrome.todo : FocusChatGPTTextarea(n)
    \/ SelectorDisabled \/ SelectorEnabled
    \/ SyncWindow \/ \E w \in Windows : FocusChanges(w)
    \/ \E t \in tasks : TaskConnects(t) \/ TaskGivesUp(t) \/ TaskEnds(t)
    \/ \E t \in budget.tools : ToolStarts(t)
    \/ \E c \in Conns : ToolEnds(c)

\* The event loop, the threads of the native host, the callbacks of the
\* extensions and the programs go on while they can.  Nothing makes the daemon
\* start again.
Fairness ==
    /\ WF_vars(Loop) /\ WF_vars(Host) /\ WF_vars(Selector)
    /\ WF_vars(\E t \in tasks : TaskEnds(t))
    /\ WF_vars(\E c \in Conns : ToolEnds(c))

Spec == Init /\ [][Next]_vars /\ Fairness

-----------------------------------------------------------------------------
Holders == {"none", "host", "selector", "tracker", "cli", "script"}

\* The types; a number is held by at most one connection, and only an open one
\* has a number.
TypeOK ==
    /\ \A c \in Conns :
          /\ conn[c].who \in Holders /\ conn[c].st \in {"unused", "backlog", "open", "shut"}
          /\ conn[c].fd \in (IF conn[c].st = "open" THEN Fds ELSE {None})
          /\ conn[c].st = "unused" <=> conn[c].who = "none"
          /\ \A d \in Conns \ {c} : conn[c].fd # None => conn[c].fd # conn[d].fd
    /\ Range(backlog) = {c \in Conns : conn[c].st = "backlog"}
    /\ daemon \in {"up", "stopped", "crashed"}
    /\ loop.at \in {"select", "reading"}
    /\ loop.at = "reading" =>
          conn[loop.from].st = "open" /\ conn[loop.for].st = "open" /\ conn[loop.for].in = <<>>
    /\ {native, sync, window} \subseteq Fds \cup {None}
    /\ host.sock \in {None, host.reads}
    /\ host.reads # None => conn[host.reads].who = "host" /\ conn[host.reads].open
    /\ host.up = chrome.port
    /\ selector.at = "open" <=> selector.conn # None
    /\ \A t \in tasks : t.conn # None => conn[t.conn].who = "tracker"
    /\ confirmed \in 0 .. requests

\* A paste that an acknowledgement releases comes after the browser set the
\* focus for that paste or a later one (triggerChromeChatGPTMacro clears the
\* flag first), unless an earlier request or its answer was still under way
\* when the paste was asked for.
PasteAfterFocus == \A w \in waiters : acked /\ w.clean => confirmed >= w.n

\* When no report of the tracker is under way, the macros are chosen for the
\* window that has the focus, across stops of the daemon (the signal Ready),
\* unless two reports overlapped, window-selector's place was taken by the
\* report's connection, or Chrome reported a tab meanwhile.
ContextFollowsFocus ==
    Selecting /\ ~Reporting /\ ~ready /\ ~overlap /\ "tracker" \notin missed
        => context.win = focus \/ context.by = "tab"

\* The tabs that one native host reports reach the daemon in their order, with
\* all its reconnections (DaemonLink), though some may be lost.
TabsInOrder ==
    [][tab'.host = tab.host /\ tab' # tab => tab'.n > tab.n]_tab

Registered == host.sock # None /\ native # None /\ At(conn, native) = host.sock

\* A native host gets its number registered, again and again (listen_loop),
\* unless its own lock stops it, the event loop is stuck, took the registration
\* for an answer of window-selector or served one of an earlier host after it,
\* or the daemon is down.
HostIsRegistered ==
    host.up ~> \/ Registered \/ ~host.up \/ host.main = "stuck"
               \/ loop.at = "reading" \/ daemon # "up" \/ "host" \in missed

\* Connections the event loop may read from without being stuck: the one that
\* window-selector reads from, and those of programs that leave after one line
Responsive(c) ==
    \/ conn[c].who = "selector" /\ (c = selector.conn \/ ~conn[c].open)
    \/ conn[c].who \in {"script", "tracker"}

\* handleListWindows returns to the event loop, if the number it kept denotes a
\* connection of window-selector, or of a program that reads one line.
LoopComesBack ==
    \A c \in Conns : loop.at = "reading" /\ loop.from = c /\ Responsive(c) ~> loop.at = "select"
=============================================================================
