-------------------------- MODULE ExtensionsProofs --------------------------
(***************************************************************************)
(* Proofs about the programs on the desktop and the daemon (module         *)
(* Extensions), for any number of connections, windows and commands: the   *)
(* types, a paste after the focus it waited for, the context after the     *)
(* focus, and the order of the tabs.                                       *)
(***************************************************************************)
EXTENDS Extensions, TLAPS, WellFoundedInduction, FiniteSetTheorems, SequenceTheorems

\* A set of naturals that is not empty has a least member, and Min is it.
LEMMA MinIsLeast ==
    ASSUME NEW S, S \subseteq Nat, S # {}
    PROVE  Min(S) \in S /\ \A y \in S : Min(S) <= y
<1>1. PICK x \in S : \A y \in S : ~(<<y, x>> \in OpToRel(<, Nat))
  BY NatLessThanWellFounded, WFMin
<1>2. ASSUME NEW y \in S PROVE x <= y
  <2>1. ~(y < x)
    BY <1>1 DEF OpToRel
  <2> QED
    BY <2>1, SMT
<1> QED
  BY <1>2 DEF Min

\* A set of numbers up to n that is not empty has a greatest member, and Max is it.
LEMMA MaxIsGreatest ==
    ASSUME NEW n \in Nat, NEW S, S \subseteq 0 .. n, S # {}
    PROVE  Max(S) \in S /\ \A y \in S : Max(S) >= y
<1> DEFINE T == {n - x : x \in S}
<1>1. T \subseteq Nat /\ T # {}
  <2>1. ASSUME NEW x \in S PROVE n - x \in Nat
    BY SMT
  <2>2. T \subseteq Nat
    BY <2>1
  <2>3. T # {}
    OBVIOUS
  <2> QED
    BY <2>2, <2>3
<1>2. Min(T) \in T /\ \A y \in T : Min(T) <= y
  <2> HIDE DEF T
  <2> QED
    BY <1>1, MinIsLeast
<1>3. PICK x \in S : Min(T) = n - x
  BY <1>2
<1>4. \A y \in S : x >= y
  BY <1>2, <1>3, SMT
<1> QED
  BY <1>4 DEF Max

-----------------------------------------------------------------------------
(* The inductive invariant *)

Tools == [who : {"cli", "script"}, op : {"focusChatGPT", "shouldLog", "listWindows"}]

BudgetInv ==
    /\ DOMAIN budget = {"runs", "tabs", "pastes", "focuses", "stops", "ends", "disables", "tools"}
    /\ budget.tools \subseteq Tools

\* What a program may send
OpsOf(who) ==
    CASE who = "none" -> {}
      [] who = "host" -> {"registerNativeHost", "setActiveTabUrl", "focusAck"}
      [] who = "selector" -> {"registerWindowExtension", "answer"}
      [] who = "tracker" -> {"activeWindowChanged"}
      [] who \in {"cli", "script"} -> {"focusChatGPT", "shouldLog", "listWindows"}

Urls == [n : Nat, host : Nat]
Ops == OpsOf("host") \cup OpsOf("selector") \cup OpsOf("tracker") \cup OpsOf("cli")
       \cup {"focus", "mask", "windows"}
Messages == [op : Ops, n : Nat \cup Urls \cup Windows]

Connections ==
    [who : Holders, st : {"unused", "backlog", "open", "shut"}, fd : 0 .. MaxConn,
     open : BOOLEAN, in : Seq(Messages), out : Seq(Messages)]

\* A connection: who has it and what it may hold
Sound(x) ==
    /\ x \in Connections
    /\ x.st = "unused" <=> x.who = "none"
    /\ x.st = "open" <=> x.fd # None
    /\ x.st = "unused" => ~x.open /\ x.out = <<>>
    /\ x.st = "shut" => x.open
    /\ x.st \in {"unused", "shut"} => x.in = <<>>
    /\ \A m \in Range(x.in) : m.op \in OpsOf(x.who)
    /\ x.who \in {"cli", "script", "tracker"} => Len(x.in) <= 1

ConnInv ==
    /\ conn \in [Conns -> Connections]
    /\ \A c \in Conns : Sound(conn[c])

NumberInv ==
    \A c, d \in Conns : c # d /\ conn[c].fd # None => conn[c].fd # conn[d].fd

BacklogInv ==
    /\ backlog \in Seq(Conns)
    /\ \A c \in Conns : c \in Range(backlog) <=> conn[c].st = "backlog"
    /\ \A i, j \in DOMAIN backlog : backlog[i] = backlog[j] => i = j

\* The number of an asked window-selector is read until the answer comes
LoopInv ==
    /\ daemon \in {"up", "stopped", "crashed"}
    /\ loop \in [at : {"select", "reading"}, from : 0 .. MaxConn, for : 0 .. MaxConn]
    /\ loop.at = "select" => loop = Select
    /\ loop.at = "reading" =>
          /\ loop.from \in Conns /\ loop.for \in Conns
          /\ conn[loop.from].st = "open" /\ conn[loop.for].st = "open"
          /\ conn[loop.for].in = <<>> /\ conn[loop.for].who \in {"cli", "script"}

SocketInv == native \in 0 .. MaxConn /\ sync \in 0 .. MaxConn /\ window \in 0 .. MaxConn

\* A program has a connection: it is open at its end, and nobody else's
Has(c, who) == c # None => conn[c].who = who /\ conn[c].open

HostInv ==
    /\ host \in [up : BOOLEAN, n : Nat, sock : 0 .. MaxConn, reads : 0 .. MaxConn,
                 main : {"read", "stuck"}]
    /\ chrome \in [port : BOOLEAN, tab : Nat, todo : SUBSET Nat]
    /\ toHost \in Seq(Messages)
    /\ \A m \in Range(toHost) : m.op \in OpsOf("host")
    /\ host.up = chrome.port
    /\ host.up => host.n > 0
    /\ ~host.up => host.reads = None /\ toHost = <<>>
    /\ host.sock \in {None, host.reads}
    /\ Has(host.reads, "host")

SelectorInv ==
    /\ selector \in [running : BOOLEAN, conn : 0 .. MaxConn, at : {"idle", "connecting", "open"}]
    /\ selector.at = "open" <=> selector.conn # None
    /\ Has(selector.conn, "selector")

TaskInv ==
    /\ focus \in Windows
    /\ \A t \in tasks :
          /\ DOMAIN t = {"n", "win", "conn"}
          /\ t.win \in Windows /\ t.conn \in 0 .. MaxConn
          /\ Has(t.conn, "tracker")
    /\ \A t, u \in tasks : t.conn = u.conn /\ t.conn # None => t = u

\* The requests that are under way
Numbers(s, op) == {m.n : m \in {x \in Range(s) : x.op = op}}
Flying ==
    chrome.todo \cup Numbers(toHost, "focusAck")
    \cup UNION {Numbers(conn[c].in, "focusAck") \cup Numbers(conn[c].out, "focus") : c \in Conns}

\* What was under way when a clean paste was asked for has ended
PasteInv ==
    /\ requests \in Nat /\ confirmed \in 0 .. requests /\ acked \in BOOLEAN
    /\ Flying \subseteq 1 .. requests
    /\ \A w \in waiters :
          /\ w.n \in 1 .. requests
          /\ w.clean => \A n \in Flying : n >= w.n
          /\ acked /\ w.clean => confirmed >= w.n

\* The context is that of the focus or its report is under way
ContextInv ==
    ~overlap =>
        /\ \A t \in tasks : t.win = focus
        /\ \A c \in Conns : \A m \in Range(conn[c].in) :
              m.op = "activeWindowChanged" => m.n = focus
        /\ daemon = "up" /\ ~ready /\ "tracker" \notin missed =>
              \/ context.win = focus \/ context.by = "tab"
              \/ \E t \in tasks : t.conn = None
              \/ \E c \in Conns : Pending(c)

UrlsOf(s) == Numbers(s, "setActiveTabUrl")

\* The tabs under way are newer than the one the daemon has, if they are of
\* the same native host
TabInv ==
    /\ tab \in Urls /\ tab.host <= host.n /\ tab.n <= chrome.tab
    /\ tab.host = 0 => tab.n = 0
    /\ \A u \in UrlsOf(toHost) :
          u \in Urls /\ u.host = host.n /\ u.n <= chrome.tab /\ (u.host = tab.host => u.n > tab.n)
    /\ \A i, j \in DOMAIN toHost :
          i < j /\ toHost[i].op = "setActiveTabUrl" /\ toHost[j].op = "setActiveTabUrl"
             => toHost[i].n.n < toHost[j].n.n
    /\ \A c \in Conns : \A u \in UrlsOf(conn[c].in) :
          /\ u \in Urls /\ u.host \in 1 .. host.n /\ u.n <= chrome.tab
          /\ u.host = tab.host => u.n > tab.n
          /\ u.host = host.n => \A v \in UrlsOf(toHost) : u.n < v.n
          /\ u.host = host.n /\ host.up => c = host.reads
          /\ \A d \in Conns \ {c} : \A v \in UrlsOf(conn[d].in) : u.host # v.host

ExtensionsInv ==
    /\ BudgetInv /\ ConnInv /\ NumberInv /\ BacklogInv /\ LoopInv /\ SocketInv /\ HostInv
    /\ SelectorInv /\ TaskInv /\ PasteInv /\ ContextInv /\ TabInv

-----------------------------------------------------------------------------
(* Sequences and messages *)

\* What the first message and the rest of a sequence are.
LEMMA TailFacts ==
    ASSUME NEW S, NEW s \in Seq(S), s # <<>>
    PROVE  /\ Head(s) \in Range(s) /\ Head(s) \in S
           /\ Tail(s) \in Seq(S) /\ Len(Tail(s)) = Len(s) - 1
           /\ Range(Tail(s)) \subseteq Range(s)
<1>1. Head(s) = s[1] /\ 1 \in DOMAIN s /\ Head(s) \in S
  OBVIOUS
<1>2. /\ Tail(s) \in Seq(S) /\ Len(Tail(s)) = Len(s) - 1
      /\ \A i \in DOMAIN Tail(s) : i + 1 \in DOMAIN s /\ Tail(s)[i] = s[i + 1]
  BY HeadTailProperties
<1> QED
  BY <1>1, <1>2 DEF Range

\* What a sequence with one more message is.
LEMMA AppendFacts ==
    ASSUME NEW S, NEW s \in Seq(S), NEW m \in S
    PROVE  /\ Append(s, m) \in Seq(S) /\ Len(Append(s, m)) = Len(s) + 1
           /\ Append(s, m)[Len(s) + 1] = m
           /\ \A i \in 1 .. Len(s) : Append(s, m)[i] = s[i]
BY AppendProperties

LEMMA AppendRange ==
    ASSUME NEW S, NEW s \in Seq(S), NEW m \in S
    PROVE  Append(s, m) \in Seq(S) /\ Range(Append(s, m)) = Range(s) \cup {m}
<1> DEFINE r == Append(s, m)
<1>1. /\ r \in Seq(S) /\ Len(r) = Len(s) + 1 /\ r[Len(s) + 1] = m
      /\ \A i \in 1 .. Len(s) : r[i] = s[i]
  BY AppendFacts
<1> HIDE DEF r
<1>2. DOMAIN r = 1 .. Len(s) + 1 /\ DOMAIN s = 1 .. Len(s) /\ Len(s) \in Nat
  BY <1>1
<1>3. \A i \in DOMAIN r : i \in DOMAIN s \/ i = Len(s) + 1
  BY <1>2
<1>4. \A i \in DOMAIN s : i \in DOMAIN r /\ r[i] = s[i]
  BY <1>1, <1>2
<1>5. Len(s) + 1 \in DOMAIN r
  BY <1>2
<1>6. Range(r) = Range(s) \cup {m}
  BY <1>1, <1>3, <1>4, <1>5 DEF Range
<1> QED
  BY <1>1, <1>6 DEF r

\* One line at most: after it there is none.
LEMMA LastLine ==
    ASSUME NEW S, NEW s \in Seq(S), s # <<>>, Len(s) <= 1
    PROVE  Tail(s) = <<>> /\ Len(Tail(s)) <= 1
<1>1. Len(s) \in Nat /\ Len(s) # 0
  BY EmptySeq
<1>2. Len(s) = 1
  BY <1>1
<1>3. Tail(s) \in Seq(S) /\ Len(Tail(s)) = 0
  BY <1>2, TailFacts
<1> QED
  BY <1>3, EmptySeq

\* What short sequences hold.
LEMMA EmptyFacts == Range(<<>>) = {} /\ Len(<<>>) = 0 /\ \A S : <<>> \in Seq(S)
BY DEF Range

LEMMA OneFacts ==
    ASSUME NEW S, NEW m \in S
    PROVE  <<m>> \in Seq(S) /\ Len(<<m>>) = 1 /\ Range(<<m>>) = {m}
BY DEF Range

LEMMA TwoFacts ==
    ASSUME NEW S, NEW m \in S, NEW k \in S
    PROVE  <<m, k>> \in Seq(S) /\ Len(<<m, k>>) = 2 /\ Range(<<m, k>>) = {m, k}
<1>1. DOMAIN <<m, k>> = {1, 2}
  OBVIOUS
<1> QED
  BY <1>1 DEF Range

\* A command is a message.
LEMMA CommandFacts ==
    ASSUME NEW op \in Ops, NEW n \in Nat \cup Urls \cup Windows
    PROVE  Command(op, n) \in Messages /\ Command(op, n).op = op /\ Command(op, n).n = n
BY DEF Command, Messages

\* The operations, written out.
LEMMA OpsFacts ==
    /\ OpsOf("none") = {}
    /\ OpsOf("host") = {"registerNativeHost", "setActiveTabUrl", "focusAck"}
    /\ OpsOf("selector") = {"registerWindowExtension", "answer"}
    /\ OpsOf("tracker") = {"activeWindowChanged"}
    /\ OpsOf("cli") = {"focusChatGPT", "shouldLog", "listWindows"}
    /\ OpsOf("script") = {"focusChatGPT", "shouldLog", "listWindows"}
    /\ Ops = {"registerNativeHost", "setActiveTabUrl", "focusAck", "registerWindowExtension",
              "answer", "activeWindowChanged", "focusChatGPT", "shouldLog", "listWindows",
              "focus", "mask", "windows"}
<1>1. /\ OpsOf("none") = {}
      /\ OpsOf("host") = {"registerNativeHost", "setActiveTabUrl", "focusAck"}
      /\ OpsOf("selector") = {"registerWindowExtension", "answer"}
      /\ OpsOf("tracker") = {"activeWindowChanged"}
      /\ OpsOf("cli") = {"focusChatGPT", "shouldLog", "listWindows"}
      /\ OpsOf("script") = {"focusChatGPT", "shouldLog", "listWindows"}
  BY DEF OpsOf
<1> QED
  BY <1>1 DEF Ops

\* The bound on connections.
LEMMA ConstantFacts ==
    /\ MaxConn \in Nat \ {0} /\ 0 \in 0 .. MaxConn /\ None = 0
    /\ \A c : c \in Conns <=> c \in 0 .. MaxConn /\ c # None
    /\ \A f : f \in Fds <=> f \in 0 .. MaxConn /\ f # None
BY ConstantsAssumption DEF Conns, Fds, None

-----------------------------------------------------------------------------
(* One connection *)

Closed(x) ==
    IF x.open THEN [x EXCEPT !.st = "shut", !.fd = None, !.in = <<>>] ELSE Unused
Departed(x) ==
    IF x.st = "shut" THEN Unused ELSE [x EXCEPT !.open = FALSE, !.out = <<>>]

\* An unused place is sound.
LEMMA UnusedSound == Sound(Unused)
<1>1. Unused \in Connections
  BY EmptyFacts, ConstantFacts DEF Unused, Connections, Holders, None
<1> QED
  BY <1>1, EmptyFacts DEF Sound, Unused, None

\* A connection keeps its place, its holder and its number, or loses them; it
\* gets no message from the program, and from the daemon those in W.
Milder(x, y, W) ==
    /\ Sound(y)
    /\ y.who \in {x.who, "none"}
    /\ y.fd \in {x.fd, None}
    /\ y.st = "backlog" <=> x.st = "backlog"
    /\ Range(y.in) \subseteq Range(x.in)
    /\ Range(y.out) \subseteq Range(x.out) \cup W

Kept(x, y) == x.open => y.open /\ y.who = x.who

\* The daemon closes its end.
LEMMA ClosedFacts ==
    ASSUME NEW x, Sound(x), NEW y, y = Closed(x)
    PROVE  /\ Sound(y) /\ y.who \in {x.who, "none"} /\ y.fd = None /\ y.in = <<>>
           /\ y.st \in {"shut", "unused"} /\ y.out \in {x.out, <<>>} /\ Kept(x, y)
           /\ Range(y.in) = {} /\ Range(y.out) \subseteq Range(x.out)
<1>1. CASE x.open
  <2>1. y = [x EXCEPT !.st = "shut", !.fd = None, !.in = <<>>]
    BY <1>1 DEF Closed
  <2>2. x \in Connections
    BY DEF Sound
  <2>3. /\ y \in Connections /\ y.st = "shut" /\ y.fd = None /\ y.in = <<>>
        /\ y.who = x.who /\ y.open = x.open /\ y.out = x.out
    <3>1. None \in 0 .. MaxConn /\ <<>> \in Seq(Messages)
      BY EmptyFacts, ConstantFacts
    <3> QED
      BY <2>1, <2>2, <3>1 DEF Connections
  <2>4. x.who # "none"
    BY <1>1 DEF Sound
  <2>5. Sound(y)
    BY <1>1, <2>3, <2>4, EmptyFacts DEF Sound
  <2> QED
    BY <1>1, <2>3, <2>5, EmptyFacts DEF Kept
<1>2. CASE ~x.open
  <2>1. y = Unused
    BY <1>2 DEF Closed
  <2> QED
    BY <1>2, <2>1, UnusedSound, EmptyFacts DEF Unused, Kept
<1> QED
  BY <1>1, <1>2

\* The program closes its end.
LEMMA DepartedFacts ==
    ASSUME NEW x, Sound(x), x.st # "unused", NEW y, y = Departed(x)
    PROVE  /\ Milder(x, y, {}) /\ y.fd = x.fd /\ y.in = x.in
           /\ y.st \in {x.st, "unused"} /\ (x.st = "open" => y.st = "open" /\ y.who = x.who)
<1>1. CASE x.st = "shut"
  <2>1. y = Unused
    BY <1>1 DEF Departed
  <2>2. x.in = <<>> /\ x.fd = None
    BY <1>1 DEF Sound
  <2> QED
    BY <1>1, <2>1, <2>2, UnusedSound, EmptyFacts DEF Unused, Milder
<1>2. CASE x.st # "shut"
  <2>1. y = [x EXCEPT !.open = FALSE, !.out = <<>>]
    BY <1>2 DEF Departed
  <2>2. x \in Connections
    BY DEF Sound
  <2>3. /\ y \in Connections /\ y.st = x.st /\ y.fd = x.fd /\ y.in = x.in
        /\ y.who = x.who /\ y.open = FALSE /\ y.out = <<>>
    BY <2>1, <2>2, EmptyFacts DEF Connections
  <2>4. Sound(y)
    BY <1>2, <2>3 DEF Sound
  <2> QED
    BY <2>3, <2>4, EmptyFacts DEF Milder
<1> QED
  BY <1>1, <1>2

\* The daemon takes the next line.
LEMMA TakenFacts ==
    ASSUME NEW x, Sound(x), x.in # <<>>, NEW y, y = [x EXCEPT !.in = Tail(x.in)]
    PROVE  /\ Milder(x, y, {}) /\ Kept(x, y) /\ y.st = x.st /\ y.who = x.who /\ y.fd = x.fd
           /\ (x.who \in {"cli", "script", "tracker"} => y.in = <<>>)
           /\ Head(x.in) \in Range(x.in) /\ Head(x.in) \in Messages /\ Head(x.in).op \in OpsOf(x.who)
<1>1. x \in Connections /\ x.in \in Seq(Messages)
  BY DEF Sound, Connections
<1>2. /\ Tail(x.in) \in Seq(Messages) /\ Range(Tail(x.in)) \subseteq Range(x.in)
      /\ Len(Tail(x.in)) = Len(x.in) - 1 /\ Head(x.in) \in Range(x.in) /\ Head(x.in) \in Messages
  BY <1>1, TailFacts
<1>3. /\ y \in Connections /\ y.st = x.st /\ y.fd = x.fd /\ y.in = Tail(x.in)
      /\ y.who = x.who /\ y.open = x.open /\ y.out = x.out
  BY <1>1, <1>2 DEF Connections
<1>4. x.st \notin {"unused", "shut"} /\ \A m \in Range(x.in) : m.op \in OpsOf(x.who)
  BY DEF Sound
<1>5. ASSUME x.who \in {"cli", "script", "tracker"} PROVE y.in = <<>> /\ Len(y.in) <= 1
  <2>1. Len(x.in) <= 1
    BY <1>5 DEF Sound
  <2>2. Tail(x.in) = <<>> /\ Len(Tail(x.in)) <= 1
    BY <1>1, <2>1, LastLine
  <2> QED
    BY <1>3, <2>2
<1>6. Sound(y)
  BY <1>2, <1>3, <1>4, <1>5 DEF Sound
<1> QED
  BY <1>2, <1>3, <1>4, <1>5, <1>6 DEF Milder, Kept

\* What has come is read all at once.
LEMMA ClearedFacts ==
    ASSUME NEW x, Sound(x), NEW y, y = [x EXCEPT !.in = <<>>]
    PROVE  /\ Milder(x, y, {}) /\ Kept(x, y) /\ y.st = x.st /\ y.who = x.who /\ y.fd = x.fd
           /\ y.in = <<>>
<1>1. x \in Connections
  BY DEF Sound
<1>2. /\ y \in Connections /\ y.st = x.st /\ y.fd = x.fd /\ y.in = <<>>
      /\ y.who = x.who /\ y.open = x.open /\ y.out = x.out
  BY <1>1, EmptyFacts DEF Connections
<1>3. Sound(y)
  BY <1>2, EmptyFacts DEF Sound
<1> QED
  BY <1>2, <1>3, EmptyFacts DEF Milder, Kept

\* The daemon writes a line.
LEMMA WrittenFacts ==
    ASSUME NEW x, Sound(x), x.st # "unused", NEW m \in Messages,
           NEW y, y = [x EXCEPT !.out = Append(x.out, m)]
    PROVE  /\ Milder(x, y, {m}) /\ Kept(x, y) /\ y.st = x.st /\ y.who = x.who /\ y.fd = x.fd
           /\ y.in = x.in
<1>1. x \in Connections /\ x.out \in Seq(Messages)
  BY DEF Sound, Connections
<1> DEFINE r == Append(x.out, m)
<1>2. r \in Seq(Messages) /\ Range(r) = Range(x.out) \cup {m}
  BY <1>1, AppendRange
<1> HIDE DEF r
<1>3. /\ y \in Connections /\ y.st = x.st /\ y.fd = x.fd /\ y.in = x.in
      /\ y.who = x.who /\ y.open = x.open /\ y.out = r
  BY <1>1, <1>2 DEF Connections, r
<1>4. Sound(y)
  BY <1>3 DEF Sound
<1> QED
  BY <1>2, <1>3, <1>4 DEF Milder, Kept

\* The program reads a line.
LEMMA ReadFacts ==
    ASSUME NEW x, Sound(x), x.out # <<>>, NEW y, y = [x EXCEPT !.out = Tail(x.out)]
    PROVE  /\ Milder(x, y, {}) /\ Kept(x, y) /\ y.st = x.st /\ y.who = x.who /\ y.fd = x.fd
           /\ y.in = x.in /\ Head(x.out) \in Range(x.out) /\ Head(x.out) \in Messages
<1>1. x \in Connections /\ x.out \in Seq(Messages)
  BY DEF Sound, Connections
<1> DEFINE r == Tail(x.out)
<1>2. /\ r \in Seq(Messages) /\ Range(r) \subseteq Range(x.out)
      /\ Head(x.out) \in Range(x.out) /\ Head(x.out) \in Messages
  BY <1>1, TailFacts
<1> HIDE DEF r
<1>3. /\ y \in Connections /\ y.st = x.st /\ y.fd = x.fd /\ y.in = x.in
      /\ y.who = x.who /\ y.open = x.open /\ y.out = r
  BY <1>1, <1>2 DEF Connections, r
<1>4. x.st # "unused"
  BY DEF Sound
<1>5. Sound(y)
  BY <1>3, <1>4 DEF Sound
<1> QED
  BY <1>2, <1>3, <1>5 DEF Milder, Kept

IsSent(x, y, m) ==
    /\ Sound(y) /\ Kept(x, y) /\ y.st = x.st /\ y.who = x.who /\ y.fd = x.fd
    /\ y.out = x.out /\ Range(y.in) = Range(x.in) \cup {m}

\* The program sends a line.
LEMMA SentFacts ==
    ASSUME NEW x, Sound(x), x.st \in {"backlog", "open"}, x.who \in {"host", "selector"},
           NEW m \in Messages, m.op \in OpsOf(x.who),
           NEW y, y = [x EXCEPT !.in = Append(x.in, m)]
    PROVE  IsSent(x, y, m)
<1>1. x \in Connections /\ x.in \in Seq(Messages)
  BY DEF Sound, Connections
<1> DEFINE r == Append(x.in, m)
<1>2. r \in Seq(Messages) /\ Range(r) = Range(x.in) \cup {m}
  BY <1>1, AppendRange
<1> HIDE DEF r
<1>3. /\ y \in Connections /\ y.st = x.st /\ y.fd = x.fd /\ y.in = r
      /\ y.who = x.who /\ y.open = x.open /\ y.out = x.out
  BY <1>1, <1>2 DEF Connections, r
<1>4. Sound(y)
  BY <1>2, <1>3 DEF Sound
<1> QED
  BY <1>2, <1>3, <1>4 DEF Kept, IsSent

Accepted(x, f) == [x EXCEPT !.st = "open", !.fd = f]

\* accept() returns the connection.
LEMMA AcceptedFacts ==
    ASSUME NEW x, Sound(x), x.st = "backlog", NEW f \in Fds,
           NEW y, y = Accepted(x, f)
    PROVE  /\ Sound(y) /\ Kept(x, y) /\ y.st = "open" /\ y.fd = f
           /\ y.who = x.who /\ y.open = x.open /\ y.in = x.in /\ y.out = x.out
<1>1. x \in Connections /\ f \in 0 .. MaxConn /\ f # None
  BY ConstantFacts DEF Sound
<1>2. /\ y \in Connections /\ y.st = "open" /\ y.fd = f /\ y.in = x.in
      /\ y.who = x.who /\ y.open = x.open /\ y.out = x.out
  BY <1>1 DEF Connections, Accepted
<1>3. Sound(y)
  BY <1>1, <1>2 DEF Sound
<1> QED
  BY <1>2, <1>3 DEF Kept

Fresh(who, m) ==
    [who |-> who, st |-> "backlog", fd |-> None, open |-> TRUE, in |-> <<m>>, out |-> <<>>]

IsFresh(y, who, m) ==
    /\ Sound(y) /\ y.who = who /\ y.st = "backlog" /\ y.fd = None /\ y.open = TRUE
    /\ Range(y.in) = {m} /\ Range(y.out) = {}

\* connect() and the first line.
LEMMA NewFacts ==
    ASSUME NEW who \in Holders, who # "none", NEW m \in Messages, m.op \in OpsOf(who),
           NEW y, y = Fresh(who, m)
    PROVE  IsFresh(y, who, m)
<1> DEFINE r == <<m>>
           e == <<>>
<1>1. r \in Seq(Messages) /\ Len(r) = 1 /\ Range(r) = {m}
  BY OneFacts
<1>2. e \in Seq(Messages) /\ Range(e) = {} /\ e = <<>>
  BY EmptyFacts
<1>3. y = [who |-> who, st |-> "backlog", fd |-> None, open |-> TRUE, in |-> r, out |-> e]
  BY DEF Fresh
<1> HIDE DEF r, e
<1>4. /\ y.who = who /\ y.st = "backlog" /\ y.fd = None /\ y.open = TRUE
      /\ y.in = r /\ y.out = e
  BY <1>3
<1>5. None \in 0 .. MaxConn
  BY ConstantFacts
<1>6. y \in Connections
  BY <1>1, <1>2, <1>3, <1>5 DEF Connections
<1>7. /\ y.st # "unused" /\ y.st # "open" /\ y.st # "shut" /\ y.who # "none"
      /\ \A k \in Range(y.in) : k.op \in OpsOf(y.who)
  BY <1>1, <1>4
<1>8. Len(y.in) <= 1
  <2>1. Len(y.in) = Len(r)
    BY <1>4, Zenon
  <2> QED
    BY <1>1, <2>1
<1>9. Sound(y)
  BY <1>4, <1>6, <1>7, <1>8 DEF Sound
<1> QED
  BY <1>1, <1>2, <1>4, <1>9 DEF IsFresh

-----------------------------------------------------------------------------
(* All connections, through what the daemon does to one *)

AllSound(cs) == cs \in [Conns -> Connections] /\ \A c \in Conns : Sound(cs[c])

\* From cs to ds no program's end is closed, and the daemon writes W at most.
Follows(cs, ds, W) ==
    /\ ds \in [Conns -> Connections]
    /\ \A c \in Conns : Milder(cs[c], ds[c], W) /\ Kept(cs[c], ds[c])

\* A connection that does not change.
LEMMA SameFacts ==
    ASSUME NEW x, Sound(x), NEW W
    PROVE  Milder(x, x, W) /\ Kept(x, x)
BY DEF Milder, Kept

LEMMA FollowsSound ==
    ASSUME NEW cs, NEW ds, NEW W, Follows(cs, ds, W)
    PROVE  AllSound(ds)
BY DEF Follows, AllSound, Milder

LEMMA FollowsSame ==
    ASSUME NEW cs, AllSound(cs), NEW W
    PROVE  Follows(cs, cs, W)
BY SameFacts DEF Follows, AllSound

\* Two such steps make one.
LEMMA FollowsTwice ==
    ASSUME NEW cs, NEW ds, NEW es, NEW V, NEW W, NEW U, V \subseteq U, W \subseteq U,
           Follows(cs, ds, V), Follows(ds, es, W)
    PROVE  Follows(cs, es, U)
<1>1. es \in [Conns -> Connections]
  BY DEF Follows
<1>2. ASSUME NEW c \in Conns PROVE Milder(cs[c], es[c], U) /\ Kept(cs[c], es[c])
  <2> DEFINE x == cs[c]  y == ds[c]  z == es[c]
  <2>1. Milder(x, y, V) /\ Kept(x, y) /\ Milder(y, z, W) /\ Kept(y, z)
    BY DEF Follows
  <2> HIDE DEF x, y, z
  <2>2. Sound(z)
    BY <2>1 DEF Milder
  <2>3. z.who \in {x.who, "none"} /\ z.fd \in {x.fd, None} /\ (z.st = "backlog" <=> x.st = "backlog")
    BY <2>1 DEF Milder
  <2>4. Range(z.in) \subseteq Range(x.in) /\ Range(z.out) \subseteq Range(x.out) \cup U
    BY <2>1 DEF Milder
  <2>5. Kept(x, z)
    BY <2>1 DEF Kept
  <2>6. Milder(x, z, U)
    BY <2>2, <2>3, <2>4 DEF Milder
  <2> QED
    BY <2>5, <2>6 DEF x, z
<1> QED
  BY <1>1, <1>2 DEF Follows

\* One connection changes as the daemon may change it.
LEMMA FollowsOne ==
    ASSUME NEW cs, AllSound(cs), NEW ds, ds \in [Conns -> Connections], NEW c \in Conns,
           \A d \in Conns : d # c => ds[d] = cs[d],
           NEW W, Milder(cs[c], ds[c], W), Kept(cs[c], ds[c])
    PROVE  Follows(cs, ds, W)
<1>1. ASSUME NEW d \in Conns PROVE Milder(cs[d], ds[d], W) /\ Kept(cs[d], ds[d])
  <2>1. CASE d = c
    BY <2>1
  <2>2. CASE d # c
    BY <2>2, SameFacts DEF AllSound
  <2> QED
    BY <2>1, <2>2
<1> QED
  BY <1>1 DEF Follows

\* One connection is replaced.
LEMMA ReplaceOne ==
    ASSUME NEW cs, AllSound(cs), NEW c \in Conns, NEW y, Sound(y)
    PROVE  /\ [cs EXCEPT ![c] = y] \in [Conns -> Connections]
           /\ [cs EXCEPT ![c] = y][c] = y
           /\ \A d \in Conns : d # c => [cs EXCEPT ![c] = y][d] = cs[d]
BY DEF AllSound, Sound

\* The daemon closes its end of c.
LEMMA ShutFacts ==
    ASSUME NEW cs, AllSound(cs), NEW c \in Conns, cs[c].st # "backlog",
           NEW ds, ds = Shut(cs, c)
    PROVE  /\ Follows(cs, ds, {}) /\ \A d \in Conns : d # c => ds[d] = cs[d]
           /\ ds[c].in = <<>> /\ ds[c].fd = None /\ ds[c].st \in {"shut", "unused"}
<1> DEFINE y == Closed(cs[c])
<1>1. ds = [cs EXCEPT ![c] = y]
  BY DEF Shut, Closed, AllSound
<1>2. Sound(cs[c])
  BY DEF AllSound
<1>3. /\ Sound(y) /\ y.who \in {cs[c].who, "none"} /\ y.fd = None /\ y.in = <<>>
      /\ y.st \in {"shut", "unused"} /\ Kept(cs[c], y)
      /\ Range(y.in) = {} /\ Range(y.out) \subseteq Range(cs[c].out)
  <2>1. y = Closed(cs[c])
    OBVIOUS
  <2> HIDE DEF y
  <2> QED
    BY <1>2, <2>1, ClosedFacts
<1> HIDE DEF y
<1>4. Milder(cs[c], y, {})
  BY <1>3 DEF Milder
<1>5. ds \in [Conns -> Connections] /\ ds[c] = y /\ \A d \in Conns : d # c => ds[d] = cs[d]
  BY <1>1, <1>3, ReplaceOne
<1>6. Follows(cs, ds, {})
  BY <1>3, <1>4, <1>5, FollowsOne
<1> QED
  BY <1>3, <1>5, <1>6

TakenFrom(cs, c) == [cs EXCEPT ![c].in = Tail(@)]

\* The daemon takes a line of c.
LEMMA TakenOne ==
    ASSUME NEW cs, AllSound(cs), NEW c \in Conns, cs[c].in # <<>>,
           NEW ds, ds = TakenFrom(cs, c)
    PROVE  /\ Follows(cs, ds, {}) /\ \A d \in Conns : d # c => ds[d] = cs[d]
           /\ ds[c].st = cs[c].st /\ ds[c].who = cs[c].who /\ ds[c].fd = cs[c].fd
           /\ (cs[c].who \in {"cli", "script", "tracker"} => ds[c].in = <<>>)
<1> DEFINE x == cs[c]
           y == [x EXCEPT !.in = Tail(x.in)]
<1>1. ds = [cs EXCEPT ![c] = y]
  BY DEF AllSound, TakenFrom
<1>2. Sound(x)
  BY DEF AllSound
<1>3. x.in # <<>>
  OBVIOUS
<1>4. y = [x EXCEPT !.in = Tail(x.in)]
  OBVIOUS
<1>x. x = cs[c]
  OBVIOUS
<1> HIDE DEF x, y
<1>5. /\ Milder(x, y, {}) /\ Kept(x, y) /\ y.st = x.st /\ y.who = x.who /\ y.fd = x.fd
      /\ (x.who \in {"cli", "script", "tracker"} => y.in = <<>>)
  BY <1>2, <1>3, <1>4, TakenFacts
<1>6. ds \in [Conns -> Connections] /\ ds[c] = y /\ \A d \in Conns : d # c => ds[d] = cs[d]
  <2>1. Sound(y)
    BY <1>5 DEF Milder
  <2> DEFINE e == [cs EXCEPT ![c] = y]
  <2>2. e \in [Conns -> Connections] /\ e[c] = y /\ \A d \in Conns : d # c => e[d] = cs[d]
    BY <2>1, ReplaceOne
  <2>3. ds = e
    BY <1>1
  <2> HIDE DEF e
  <2> QED
    BY <2>2, <2>3
<1>7. Follows(cs, ds, {})
  BY <1>5, <1>6, <1>x, FollowsOne
<1> QED
  BY <1>5, <1>6, <1>7, <1>x

ClearedAt(cs, c) == [cs EXCEPT ![c].in = <<>>]

\* The daemon takes all that has come on c.
LEMMA ClearedOne ==
    ASSUME NEW cs, AllSound(cs), NEW c \in Conns, NEW ds, ds = ClearedAt(cs, c)
    PROVE  /\ Follows(cs, ds, {}) /\ \A d \in Conns : d # c => ds[d] = cs[d]
           /\ ds[c].st = cs[c].st /\ ds[c].in = <<>>
<1> DEFINE x == cs[c]
           y == [x EXCEPT !.in = <<>>]
<1>1. ds = [cs EXCEPT ![c] = y]
  BY DEF AllSound, ClearedAt
<1>2. Sound(x)
  BY DEF AllSound
<1>3. x = cs[c] /\ y = [x EXCEPT !.in = <<>>]
  OBVIOUS
<1> HIDE DEF x, y
<1>4. Milder(x, y, {}) /\ Kept(x, y) /\ y.st = x.st /\ y.in = <<>>
  BY <1>2, <1>3, ClearedFacts
<1>5. Sound(y)
  BY <1>4 DEF Milder
<1>6. ds \in [Conns -> Connections] /\ ds[c] = y /\ \A d \in Conns : d # c => ds[d] = cs[d]
  BY <1>1, <1>5, ReplaceOne
<1>7. Follows(cs, ds, {})
  BY <1>3, <1>4, <1>6, FollowsOne
<1> QED
  BY <1>3, <1>4, <1>6, <1>7

\* The connection of a number.
LEMMA AtFacts ==
    ASSUME NEW cs, NEW f, At(cs, f) # None
    PROVE  At(cs, f) \in Conns /\ cs[At(cs, f)].fd = f /\ f # None
BY DEF At

\* The daemon writes to a number.
LEMMA WrittenOne ==
    ASSUME NEW cs, AllSound(cs), NEW f, NEW m \in Messages, NEW ds, ds = Written(cs, f, m)
    PROVE  /\ Follows(cs, ds, {m})
           /\ \A d \in Conns : /\ ds[d].in = cs[d].in /\ ds[d].st = cs[d].st
                               /\ ds[d].who = cs[d].who /\ ds[d].fd = cs[d].fd
<1>1. CASE ~Writable(cs, f)
  BY <1>1, FollowsSame DEF Written
<1>2. CASE Writable(cs, f)
  <2> DEFINE c == At(cs, f)
             x == cs[c]
             y == [x EXCEPT !.out = Append(x.out, m)]
  <2>1. c \in Conns /\ x.fd # None
    BY <1>2, AtFacts DEF Writable
  <2>2. ds = [cs EXCEPT ![c] = y]
    BY <1>2, <2>1 DEF Written, AllSound
  <2>3. Sound(x) /\ x.st # "unused"
    BY <2>1 DEF AllSound, Sound
  <2>4. y = [x EXCEPT !.out = Append(x.out, m)] /\ x = cs[c]
    OBVIOUS
  <2> HIDE DEF c, x, y
  <2>5. Milder(x, y, {m}) /\ Kept(x, y) /\ y.st = x.st /\ y.who = x.who /\ y.fd = x.fd /\ y.in = x.in
    BY <2>3, <2>4, WrittenFacts
  <2>6. ds \in [Conns -> Connections] /\ ds[c] = y /\ \A d \in Conns : d # c => ds[d] = cs[d]
    BY <2>1, <2>2, <2>5, ReplaceOne DEF Milder
  <2>7. Follows(cs, ds, {m})
    BY <2>1, <2>4, <2>5, <2>6, FollowsOne
  <2> QED
    BY <2>4, <2>5, <2>6, <2>7
<1> QED
  BY <1>1, <1>2

-----------------------------------------------------------------------------
(* What steps leave alone *)

Calm(W) ==
    /\ conn' \in [Conns -> Connections]
    /\ \A c \in Conns : Milder(conn[c], conn'[c], W)

LEMMA FollowsCalm ==
    ASSUME NEW W, Follows(conn, conn', W)
    PROVE  Calm(W) /\ \A c \in Conns : Kept(conn[c], conn'[c])
BY DEF Follows, Calm

LEMMA StillCalm ==
    ASSUME ConnInv, UNCHANGED conn, NEW W
    PROVE  Calm(W) /\ \A c \in Conns : Kept(conn[c], conn'[c])
BY SameFacts DEF ConnInv, Calm

LEMMA ConnFrame ==
    ASSUME ConnInv, NumberInv, BacklogInv, NEW W, Calm(W), UNCHANGED backlog
    PROVE  ConnInv' /\ NumberInv' /\ BacklogInv'
<1>1. ConnInv'
  BY DEF ConnInv, Calm, Milder
<1>2. NumberInv'
  <2> SUFFICES ASSUME NEW c \in Conns, NEW d \in Conns, c # d, conn'[c].fd # None
               PROVE  conn'[c].fd # conn'[d].fd
    BY DEF NumberInv
  <2>1. conn'[c].fd = conn[c].fd /\ conn'[d].fd \in {conn[d].fd, None}
    BY DEF Calm, Milder
  <2>2. conn[c].fd # conn[d].fd
    BY <2>1 DEF NumberInv
  <2> QED
    BY <2>1, <2>2
<1>3. BacklogInv'
  BY DEF BacklogInv, Calm, Milder
<1> QED
  BY <1>1, <1>2, <1>3

LEMMA HasFrame ==
    ASSUME NEW c, NEW who, Has(c, who), c # None => Kept(conn[c], conn'[c])
    PROVE  Has(c, who)'
BY DEF Has, Kept

LEMMA HostFrame ==
    ASSUME HostInv, UNCHANGED chromeVars,
           host.reads # None => Kept(conn[host.reads], conn'[host.reads])
    PROVE  HostInv'
<1>1. Has(host.reads, "host")'
  BY DEF HostInv, Has, Kept, chromeVars
<1> QED
  BY <1>1 DEF HostInv, chromeVars

LEMMA SelectorFrame ==
    ASSUME SelectorInv, UNCHANGED selector,
           selector.conn # None => Kept(conn[selector.conn], conn'[selector.conn])
    PROVE  SelectorInv'
<1>1. Has(selector.conn, "selector")'
  BY DEF SelectorInv, Has, Kept
<1> QED
  BY <1>1 DEF SelectorInv

LEMMA TaskFrame ==
    ASSUME TaskInv, UNCHANGED focus, tasks' \subseteq tasks,
           \A t \in tasks' : t.conn # None => Kept(conn[t.conn], conn'[t.conn])
    PROVE  TaskInv'
<1>1. ASSUME NEW t \in tasks' PROVE Has(t.conn, "tracker")'
  <2>1. t \in tasks /\ Has(t.conn, "tracker")
    BY DEF TaskInv
  <2> QED
    BY <2>1 DEF Has, Kept
<1> QED
  BY <1>1 DEF TaskInv

\* Fewer messages have fewer numbers.
LEMMA NumbersFewer ==
    ASSUME NEW s, NEW r, NEW op, NEW N,
           \A m \in Range(s) : m \in Range(r) \/ (m.op = op => m.n \in N)
    PROVE  Numbers(s, op) \subseteq Numbers(r, op) \cup N
BY DEF Numbers

LEMMA FlyingLines ==
    ASSUME NEW W, NEW N,
           \A c \in Conns : /\ Range(conn'[c].in) \subseteq Range(conn[c].in)
                            /\ Range(conn'[c].out) \subseteq Range(conn[c].out) \cup W,
           \A m \in W : m.op = "focus" => m.n \in N,
           chrome'.todo \subseteq chrome.todo, Range(toHost') \subseteq Range(toHost)
    PROVE  Flying' \subseteq Flying \cup N
<1>1. Numbers(toHost', "focusAck") \subseteq Numbers(toHost, "focusAck")
  BY DEF Numbers
<1>2. ASSUME NEW c \in Conns
      PROVE  /\ Numbers(conn'[c].in, "focusAck") \subseteq Numbers(conn[c].in, "focusAck")
             /\ Numbers(conn'[c].out, "focus") \subseteq Numbers(conn[c].out, "focus") \cup N
  BY DEF Numbers
<1> QED
  BY <1>1, <1>2 DEF Flying

LEMMA FlyingFrame ==
    ASSUME NEW W, NEW N, Calm(W), \A m \in W : m.op = "focus" => m.n \in N,
           chrome'.todo \subseteq chrome.todo, Range(toHost') \subseteq Range(toHost)
    PROVE  Flying' \subseteq Flying \cup N
<1>1. \A c \in Conns : /\ Range(conn'[c].in) \subseteq Range(conn[c].in)
                       /\ Range(conn'[c].out) \subseteq Range(conn[c].out) \cup W
  BY DEF Calm, Milder
<1> QED
  BY <1>1, FlyingLines

LEMMA PasteFrame ==
    ASSUME PasteInv, Flying' \subseteq Flying, UNCHANGED <<requests, confirmed, acked>>,
           waiters' \subseteq waiters
    PROVE  PasteInv'
BY DEF PasteInv

LEMMA PendingRange ==
    ASSUME NEW c
    PROVE  /\ Pending(c) <=> \E m \in Range(conn[c].in) : m.op = "activeWindowChanged"
           /\ Pending(c)' <=> \E m \in Range(conn'[c].in) : m.op = "activeWindowChanged"
BY DEF Pending, Range

LEMMA ContextFrame ==
    ASSUME ContextInv, \A c \in Conns : Range(conn'[c].in) \subseteq Range(conn[c].in),
           UNCHANGED <<tasks, focus, overlap, ready, daemon, context>>,
           "tracker" \in missed => "tracker" \in missed',
           \A c \in Conns : Pending(c) => Pending(c)' \/ "tracker" \in missed'
    PROVE  ContextInv'
<1> SUFFICES ASSUME ~overlap'
             PROVE  /\ \A t \in tasks' : t.win = focus'
                    /\ \A c \in Conns : \A m \in Range(conn'[c].in) :
                          m.op = "activeWindowChanged" => m.n = focus'
                    /\ daemon' = "up" /\ ~ready' /\ "tracker" \notin missed' =>
                          \/ context'.win = focus' \/ context'.by = "tab"
                          \/ \E t \in tasks' : t.conn = None
                          \/ \E c \in Conns : Pending(c)'
  BY DEF ContextInv
<1>1. /\ \A t \in tasks' : t.win = focus'
      /\ \A c \in Conns : \A m \in Range(conn'[c].in) :
            m.op = "activeWindowChanged" => m.n = focus'
  BY DEF ContextInv
<1>2. ASSUME daemon' = "up", ~ready', "tracker" \notin missed'
      PROVE  \/ context'.win = focus' \/ context'.by = "tab"
             \/ \E t \in tasks' : t.conn = None
             \/ \E c \in Conns : Pending(c)'
  <2>1. \/ context.win = focus \/ context.by = "tab"
        \/ \E t \in tasks : t.conn = None
        \/ \E c \in Conns : Pending(c)
    BY <1>2 DEF ContextInv
  <2>2. CASE \E c \in Conns : Pending(c)
    BY <1>2, <2>2
  <2> QED
    BY <2>1, <2>2
<1> QED
  BY <1>1, <1>2

\* No line is taken.
LEMMA SamePending ==
    ASSUME \A c \in Conns : conn'[c].in = conn[c].in
    PROVE  \A c \in Conns : Pending(c) => Pending(c)'
BY DEF Pending

LEMMA TabLines ==
    ASSUME TabInv, \A c \in Conns : UrlsOf(conn'[c].in) \subseteq UrlsOf(conn[c].in),
           UNCHANGED tab, host'.n = host.n, chrome'.tab = chrome.tab,
           toHost' = toHost \/ toHost' = <<>>,
           host'.up => host.up /\ \A c \in Conns : c = host.reads /\ conn'[c].in # <<>> => c = host'.reads
    PROVE  TabInv'
<1>1. \A c \in Conns : UrlsOf(conn'[c].in) \subseteq UrlsOf(conn[c].in)
  OBVIOUS
<1>2. UrlsOf(toHost') \subseteq UrlsOf(toHost)
  BY EmptyFacts DEF UrlsOf, Numbers
<1>3. tab' \in Urls /\ tab'.host <= host'.n /\ tab'.n <= chrome'.tab /\ (tab'.host = 0 => tab'.n = 0)
  BY DEF TabInv
<1>4. \A u \in UrlsOf(toHost') :
        u \in Urls /\ u.host = host'.n /\ u.n <= chrome'.tab /\ (u.host = tab'.host => u.n > tab'.n)
  BY <1>2 DEF TabInv
<1>5. \A i, j \in DOMAIN toHost' :
        i < j /\ toHost'[i].op = "setActiveTabUrl" /\ toHost'[j].op = "setActiveTabUrl"
           => toHost'[i].n.n < toHost'[j].n.n
  <2>1. CASE toHost' = toHost
    BY <2>1 DEF TabInv
  <2>2. CASE toHost' = <<>>
    BY <2>2
  <2> QED
    BY <2>1, <2>2
<1>6. ASSUME NEW c \in Conns, NEW u \in UrlsOf(conn'[c].in)
      PROVE  /\ u \in Urls /\ u.host \in 1 .. host'.n /\ u.n <= chrome'.tab
             /\ u.host = tab'.host => u.n > tab'.n
             /\ u.host = host'.n => \A v \in UrlsOf(toHost') : u.n < v.n
             /\ u.host = host'.n /\ host'.up => c = host'.reads
             /\ \A d \in Conns \ {c} : \A v \in UrlsOf(conn'[d].in) : u.host # v.host
  <2>1. u \in UrlsOf(conn[c].in)
    BY <1>1
  <2>2. /\ u \in Urls /\ u.host \in 1 .. host.n /\ u.n <= chrome.tab
        /\ u.host = tab.host => u.n > tab.n
        /\ u.host = host.n => \A v \in UrlsOf(toHost) : u.n < v.n
        /\ u.host = host.n /\ host.up => c = host.reads
        /\ \A d \in Conns \ {c} : \A v \in UrlsOf(conn[d].in) : u.host # v.host
    BY <2>1 DEF TabInv
  <2>3. conn'[c].in # <<>>
    BY EmptyFacts DEF UrlsOf, Numbers
  <2>4. u.host = host'.n /\ host'.up => c = host'.reads
    BY <2>2, <2>3
  <2>5. \A d \in Conns \ {c} : \A v \in UrlsOf(conn'[d].in) : u.host # v.host
    BY <1>1, <2>2
  <2> QED
    BY <1>2, <2>2, <2>4, <2>5
<1> QED
  BY <1>3, <1>4, <1>5, <1>6 DEF TabInv

LEMMA TabFrame ==
    ASSUME TabInv, \A c \in Conns : Range(conn'[c].in) \subseteq Range(conn[c].in),
           UNCHANGED tab, host'.n = host.n, chrome'.tab = chrome.tab,
           toHost' = toHost \/ toHost' = <<>>,
           host'.up => host.up /\ \A c \in Conns : c = host.reads /\ conn'[c].in # <<>> => c = host'.reads
    PROVE  TabInv'
<1>1. \A c \in Conns : UrlsOf(conn'[c].in) \subseteq UrlsOf(conn[c].in)
  BY DEF UrlsOf, Numbers
<1> QED
  BY <1>1, TabLines

-----------------------------------------------------------------------------
(* The event loop serves a line *)

\* A step of the daemon leaves the programs their connections.
LEMMA DaemonStep ==
    ASSUME ExtensionsInv, NEW W, Follows(conn, conn', W),
           UNCHANGED <<backlog, chromeVars, selector, focus, tasks>>
    PROVE  /\ Calm(W) /\ ConnInv' /\ NumberInv' /\ BacklogInv' /\ HostInv' /\ SelectorInv' /\ TaskInv'
           /\ \A c \in Conns : Range(conn'[c].in) \subseteq Range(conn[c].in)
<1>1. Calm(W) /\ \A c \in Conns : Kept(conn[c], conn'[c])
  BY FollowsCalm
<1>2. ConnInv' /\ NumberInv' /\ BacklogInv'
  BY <1>1, ConnFrame DEF ExtensionsInv
<1>3. \A c \in Conns : Range(conn'[c].in) \subseteq Range(conn[c].in)
  BY <1>1 DEF Calm, Milder
<1>4. HostInv'
  <2>1. host.reads # None => host.reads \in Conns
    BY ConstantFacts DEF ExtensionsInv, HostInv
  <2> QED
    BY <1>1, <2>1, HostFrame DEF ExtensionsInv
<1>5. SelectorInv'
  <2>1. selector.conn # None => selector.conn \in Conns
    BY ConstantFacts DEF ExtensionsInv, SelectorInv
  <2> QED
    BY <1>1, <2>1, SelectorFrame DEF ExtensionsInv
<1>6. TaskInv'
  <2>1. \A t \in tasks : t.conn # None => t.conn \in Conns
    BY ConstantFacts DEF ExtensionsInv, TaskInv
  <2>2. tasks' = tasks /\ focus' = focus
    OBVIOUS
  <2> QED
    BY <1>1, <2>1, <2>2, TaskFrame DEF ExtensionsInv
<1> QED
  BY <1>1, <1>2, <1>3, <1>4, <1>5, <1>6

\* The line that is served.
LEMMA LineFacts ==
    ASSUME ExtensionsInv, NEW c \in Conns, Selecting, conn[c].st = "open", conn[c].in # <<>>
    PROVE  /\ AllSound(conn) /\ loop = Select /\ daemon = "up"
           /\ conn[c].fd \in 0 .. MaxConn /\ conn[c].who \in Holders
           /\ Head(conn[c].in) \in Messages
           /\ Head(conn[c].in) \in Range(conn[c].in)
           /\ Head(conn[c].in).op \in OpsOf(conn[c].who)
           /\ Head(conn[c].in).op # "activeWindowChanged" => ~Pending(c)
<1>1. AllSound(conn) /\ loop = Select /\ daemon = "up" /\ Sound(conn[c])
  BY DEF ExtensionsInv, ConnInv, AllSound, Selecting
<1> DEFINE x == conn[c]
<1>2. Sound(x) /\ x.in # <<>>
  BY <1>1
<1> HIDE DEF x
<1>3. /\ x.in \in Seq(Messages) /\ x.fd \in 0 .. MaxConn /\ x.who \in Holders
      /\ \A m \in Range(x.in) : m.op \in OpsOf(x.who)
  BY <1>2 DEF Sound, Connections
<1>4. Head(x.in) \in Messages /\ Head(x.in) \in Range(x.in)
  BY <1>2, <1>3, TailFacts
<1>5. ASSUME Head(x.in).op # "activeWindowChanged", NEW m \in Range(x.in),
             m.op = "activeWindowChanged"
      PROVE  FALSE
  <2>1. m.op \in OpsOf(x.who) /\ Head(x.in).op \in OpsOf(x.who)
    BY <1>3, <1>4
  <2>2. x.who = "tracker"
    BY <1>3, <1>5, <2>1, OpsFacts DEF Holders
  <2> QED
    BY <1>5, <2>1, <2>2, OpsFacts
<1>6. Head(x.in).op # "activeWindowChanged" => ~Pending(c)
  BY <1>5, PendingRange DEF x
<1> QED
  BY <1>1, <1>3, <1>4, <1>6 DEF x

\* What the daemon writes.
LEMMA WritesFacts ==
    ASSUME requests \in Nat
    PROVE  /\ Command("focus", requests + 1) \in Messages
           /\ Command("mask", 0) \in Messages /\ Command("windows", 0) \in Messages
           /\ Command("focus", requests + 1).n = requests + 1
           /\ Command("mask", 0).op # "focus" /\ Command("windows", 0).op # "focus"
<1>1. requests + 1 \in Nat \cup Urls \cup Windows /\ 0 \in Nat \cup Urls \cup Windows
  OBVIOUS
<1>2. {"focus", "mask", "windows"} \subseteq Ops
  BY OpsFacts
<1> QED
  BY <1>1, <1>2, CommandFacts

\* A line that is taken or whose connection is closed.
LEMMA ServedOne ==
    ASSUME ExtensionsInv, NEW c \in Conns, Selecting, conn[c].st = "open", conn[c].in # <<>>,
           conn' = Taken(c) \/ conn' = Shut(conn, c)
    PROVE  Follows(conn, conn', {}) /\ \A d \in Conns : d # c => conn'[d].in = conn[d].in
<1>1. AllSound(conn) /\ conn[c].st # "backlog"
  BY LineFacts
<1>2. CASE conn' = Taken(c)
  <2> DEFINE ds == Taken(c)
  <2>1. conn' = ds /\ ds = TakenFrom(conn, c)
    BY <1>2 DEF Taken, TakenFrom
  <2> HIDE DEF ds
  <2>2. Follows(conn, ds, {}) /\ \A d \in Conns : d # c => ds[d] = conn[d]
    BY <1>1, <2>1, TakenOne
  <2> QED
    BY <2>1, <2>2
<1>3. CASE conn' = Shut(conn, c)
  BY <1>1, <1>3, ShutFacts
<1> QED
  BY <1>2, <1>3

\* A reply closes the connection, and a line is written to another number.
LEMMA ServedTwo ==
    ASSUME ExtensionsInv, NEW c \in Conns, Selecting, conn[c].st = "open", conn[c].in # <<>>,
           NEW f, NEW m \in Messages,
           \/ conn' = Written(Shut(conn, c), f, m)
           \/ conn' = Shut(Written(conn, f, m), c)
    PROVE  Follows(conn, conn', {m}) /\ \A d \in Conns : d # c => conn'[d].in = conn[d].in
<1>1. AllSound(conn) /\ conn[c].st # "backlog"
  BY LineFacts
<1>2. CASE conn' = Written(Shut(conn, c), f, m)
  <2> DEFINE ds == Shut(conn, c)
  <2>2. conn' = Written(ds, f, m) /\ ds = Shut(conn, c)
    BY <1>2
  <2> HIDE DEF ds
  <2>1. Follows(conn, ds, {}) /\ \A d \in Conns : d # c => ds[d] = conn[d]
    BY <1>1, <2>2, ShutFacts
  <2>3. AllSound(ds)
    BY <2>1, FollowsSound
  <2>4. Follows(ds, conn', {m}) /\ \A d \in Conns : conn'[d].in = ds[d].in
    BY <2>2, <2>3, WrittenOne
  <2>5. Follows(conn, conn', {m})
    BY <2>1, <2>4, FollowsTwice
  <2> QED
    BY <2>1, <2>4, <2>5
<1>3. CASE conn' = Shut(Written(conn, f, m), c)
  <2> DEFINE ds == Written(conn, f, m)
  <2>2. conn' = Shut(ds, c) /\ ds = Written(conn, f, m)
    BY <1>3
  <2> HIDE DEF ds
  <2>1. /\ Follows(conn, ds, {m})
        /\ \A d \in Conns : ds[d].in = conn[d].in /\ ds[d].st = conn[d].st
    BY <1>1, <2>2, WrittenOne
  <2>3. AllSound(ds) /\ ds[c].st # "backlog"
    BY <1>1, <2>1, FollowsSound
  <2>4. Follows(ds, conn', {}) /\ \A d \in Conns : d # c => conn'[d] = ds[d]
    BY <2>2, <2>3, ShutFacts
  <2>5. Follows(conn, conn', {m})
    BY <2>1, <2>4, FollowsTwice
  <2> QED
    BY <2>1, <2>4, <2>5
<1> QED
  BY <1>2, <1>3

\* A line is taken, and one is written to another number.
LEMMA ServedAsk ==
    ASSUME ExtensionsInv, NEW c \in Conns, Selecting, conn[c].st = "open", conn[c].in # <<>>,
           NEW f, NEW m \in Messages, conn' = Written(Taken(c), f, m)
    PROVE  /\ Follows(conn, conn', {m}) /\ \A d \in Conns : d # c => conn'[d].in = conn[d].in
           /\ \A d \in Conns : conn'[d].st = conn[d].st /\ conn'[d].who = conn[d].who
           /\ conn[c].who \in {"cli", "script"} => conn'[c].in = <<>>
<1>1. AllSound(conn) /\ conn[c].st # "backlog"
  BY LineFacts
<1> DEFINE ds == Taken(c)
<1>2. conn' = Written(ds, f, m) /\ ds = TakenFrom(conn, c)
  BY DEF Taken, TakenFrom
<1> HIDE DEF ds
<1>3. /\ Follows(conn, ds, {}) /\ \A d \in Conns : d # c => ds[d] = conn[d]
      /\ ds[c].st = conn[c].st /\ ds[c].who = conn[c].who
      /\ (conn[c].who \in {"cli", "script", "tracker"} => ds[c].in = <<>>)
  BY <1>1, <1>2, TakenOne
<1>4. AllSound(ds)
  BY <1>3, FollowsSound
<1>e. ASSUME NEW es, es = Written(ds, f, m)
      PROVE  /\ Follows(ds, es, {m})
             /\ \A d \in Conns : /\ es[d].in = ds[d].in /\ es[d].st = ds[d].st
                                 /\ es[d].who = ds[d].who /\ es[d].fd = ds[d].fd
  BY <1>4, <1>e, WrittenOne
<1>5. /\ Follows(ds, conn', {m})
      /\ \A d \in Conns : /\ conn'[d].in = ds[d].in /\ conn'[d].st = ds[d].st
                          /\ conn'[d].who = ds[d].who /\ conn'[d].fd = ds[d].fd
  BY <1>2, <1>e
<1>6. Follows(conn, conn', {m})
  BY <1>3, <1>5, FollowsTwice
<1> QED
  BY <1>3, <1>5, <1>6

\* What serving a line leaves alone.
ServeLeaves ==
    UNCHANGED <<budget, backlog, daemon, waiters, chromeVars, selector, focus, tasks, ready, overlap>>

LEMMA ServeParts ==
    ASSUME ExtensionsInv, NEW c \in Conns, Selecting, conn[c].st = "open", conn[c].in # <<>>,
           ServeLeaves, NEW W, Follows(conn, conn', W),
           \A d \in Conns : d # c => conn'[d].in = conn[d].in
    PROVE  /\ BudgetInv' /\ ConnInv' /\ NumberInv' /\ BacklogInv' /\ HostInv' /\ SelectorInv' /\ TaskInv'
           /\ (\A m \in W : m.op # "focus") /\ UNCHANGED <<acked, requests, confirmed>> => PasteInv'
           /\ /\ UNCHANGED context /\ Head(conn[c].in).op # "activeWindowChanged"
              /\ "tracker" \in missed => "tracker" \in missed'
              => ContextInv'
           /\ UNCHANGED tab => TabInv'
<1>1. UNCHANGED <<backlog, chromeVars, selector, focus, tasks>>
  BY DEF ServeLeaves
<1>2. /\ Calm(W) /\ ConnInv' /\ NumberInv' /\ BacklogInv' /\ HostInv' /\ SelectorInv' /\ TaskInv'
      /\ \A d \in Conns : Range(conn'[d].in) \subseteq Range(conn[d].in)
  BY <1>1, DaemonStep
<1>3. BudgetInv'
  BY DEF ExtensionsInv, BudgetInv, ServeLeaves
<1>4. ASSUME \A m \in W : m.op # "focus", UNCHANGED <<acked, requests, confirmed>>
      PROVE  PasteInv'
  <2>1. chrome'.todo \subseteq chrome.todo /\ Range(toHost') \subseteq Range(toHost)
    BY <1>1 DEF chromeVars
  <2>2. \A m \in W : m.op = "focus" => m.n \in {}
    BY <1>4
  <2>3. Flying' \subseteq Flying \cup {}
    BY <1>2, <2>1, <2>2, FlyingFrame
  <2>4. Flying' \subseteq Flying /\ waiters' \subseteq waiters /\ PasteInv
    BY <2>3 DEF ServeLeaves, ExtensionsInv
  <2> QED
    BY <1>4, <2>4, PasteFrame
<1>5. ASSUME UNCHANGED context, Head(conn[c].in).op # "activeWindowChanged",
             "tracker" \in missed => "tracker" \in missed'
      PROVE  ContextInv'
  <2>1. ~Pending(c)
    BY <1>5, LineFacts
  <2>2. ASSUME NEW d \in Conns, Pending(d) PROVE Pending(d)'
    <3>1. conn'[d].in = conn[d].in
      BY <2>1, <2>2
    <3> QED
      BY <2>2, <3>1 DEF Pending
  <2>3. UNCHANGED <<tasks, focus, overlap, ready, daemon, context>> /\ ContextInv
    BY <1>5 DEF ServeLeaves, ExtensionsInv
  <2> QED
    BY <1>2, <1>5, <2>2, <2>3, ContextFrame
<1>6. ASSUME UNCHANGED tab PROVE TabInv'
  <2>1. host'.n = host.n /\ chrome'.tab = chrome.tab /\ toHost' = toHost
    BY <1>1 DEF chromeVars
  <2>2. host'.up => host.up /\ \A d \in Conns : d = host.reads /\ conn'[d].in # <<>> => d = host'.reads
    BY <1>1 DEF chromeVars
  <2>3. TabInv
    BY DEF ExtensionsInv
  <2> QED
    BY <1>2, <1>6, <2>1, <2>2, <2>3, TabFrame
<1> QED
  BY <1>2, <1>3, <1>4, <1>5, <1>6

\* The loop stays in select.
LEMMA LoopFrame ==
    ASSUME LoopInv, loop = Select, UNCHANGED <<loop, daemon>>
    PROVE  LoopInv'
BY DEF LoopInv, Select

\* Lines that change what the daemon keeps of numbers, or nothing.
LEMMA PlainServeStep ==
    ASSUME ExtensionsInv, NEW c \in Conns, Selecting, conn[c].st = "open", conn[c].in # <<>>,
           ServeLeaves, NEW op, op = Head(conn[c].in).op,
           \/ op = "registerNativeHost" /\ RegisterNativeHost(c)
           \/ op = "shouldLog" /\ ShouldLog(c)
           \/ op = "registerWindowExtension" /\ RegisterWindowExtension(c)
           \/ op = "answer" /\ Unhandled(c)
    PROVE  ExtensionsInv'
<1>1. /\ AllSound(conn) /\ loop = Select /\ conn[c].fd \in 0 .. MaxConn
      /\ requests \in Nat /\ SocketInv /\ LoopInv
  BY LineFacts DEF ExtensionsInv, PasteInv
<1>2. UNCHANGED <<loop, tab, context, acked, requests, confirmed>>
  BY DEF RegisterNativeHost, ShouldLog, RegisterWindowExtension, Unhandled
<1>3. op # "activeWindowChanged" /\ ("tracker" \in missed => "tracker" \in missed')
  BY DEF RegisterNativeHost, ShouldLog, RegisterWindowExtension, Unhandled
<1>4. SocketInv'
  BY <1>1 DEF SocketInv, RegisterNativeHost, ShouldLog, RegisterWindowExtension, Unhandled, sockets
<1>5. LoopInv'
  BY <1>1, <1>2, LoopFrame DEF ServeLeaves
<1>6. \/ conn' = Taken(c) \/ conn' = Shut(conn, c)
      \/ conn' = Shut(Written(conn, sync, Command("mask", 0)), c)
  BY DEF RegisterNativeHost, ShouldLog, RegisterWindowExtension, Unhandled
<1>7. PICK W : /\ Follows(conn, conn', W) /\ \A m \in W : m.op # "focus"
               /\ \A d \in Conns : d # c => conn'[d].in = conn[d].in
  <2>1. CASE conn' = Taken(c) \/ conn' = Shut(conn, c)
    <3>1. Follows(conn, conn', {}) /\ \A d \in Conns : d # c => conn'[d].in = conn[d].in
      BY <2>1, ServedOne
    <3> QED
      BY <3>1
  <2>2. CASE conn' = Shut(Written(conn, sync, Command("mask", 0)), c)
    <3> DEFINE m == Command("mask", 0)
    <3>1. m \in Messages /\ m.op # "focus"
      BY <1>1, WritesFacts
    <3>2. conn' = Shut(Written(conn, sync, m), c)
      BY <2>2
    <3> HIDE DEF m
    <3>3. Follows(conn, conn', {m}) /\ \A d \in Conns : d # c => conn'[d].in = conn[d].in
      BY <3>1, <3>2, ServedTwo
    <3> QED
      BY <3>1, <3>3
  <2> QED
    BY <1>6, <2>1, <2>2
<1>8. /\ BudgetInv' /\ ConnInv' /\ NumberInv' /\ BacklogInv' /\ HostInv' /\ SelectorInv' /\ TaskInv'
      /\ PasteInv' /\ ContextInv' /\ TabInv'
  BY <1>2, <1>3, <1>7, ServeParts
<1> QED
  BY <1>4, <1>5, <1>8 DEF ExtensionsInv

\* listWindows and activateWindow.
LEMMA AskStep ==
    ASSUME ExtensionsInv, NEW c \in Conns, Selecting, conn[c].st = "open", conn[c].in # <<>>,
           ServeLeaves, Head(conn[c].in).op = "listWindows", AskWindowExtension(c)
    PROVE  ExtensionsInv'
<1>1. /\ AllSound(conn) /\ loop = Select /\ conn[c].fd \in 0 .. MaxConn /\ conn[c].who \in Holders
      /\ requests \in Nat /\ SocketInv /\ LoopInv /\ Head(conn[c].in).op \in OpsOf(conn[c].who)
      /\ daemon = "up"
  BY LineFacts DEF ExtensionsInv, PasteInv
<1>2. UNCHANGED <<tab, context, acked, requests, confirmed, missed, native, sync>>
  BY DEF AskWindowExtension
<1>3. SocketInv'
  BY <1>1, <1>2, ConstantFacts DEF SocketInv, AskWindowExtension
<1>4. CASE Writable(conn, window)
  <2> DEFINE m == Command("windows", 0)
             f == At(conn, window)
  <2>1. m \in Messages /\ m.op # "focus"
    BY <1>1, WritesFacts
  <2>2. conn' = Written(Taken(c), window, m) /\ loop' = [at |-> "reading", from |-> f, for |-> c]
    BY <1>4 DEF AskWindowExtension
  <2>3. f \in Conns /\ conn[f].fd # None
    BY <1>4, AtFacts DEF Writable
  <2>4. conn[f].st = "open"
    BY <1>1, <2>3 DEF AllSound, Sound
  <2>5. conn[c].who \in {"cli", "script"}
    BY <1>1, OpsFacts DEF Holders
  <2> HIDE DEF m, f
  <2>6. /\ Follows(conn, conn', {m}) /\ \A d \in Conns : d # c => conn'[d].in = conn[d].in
        /\ \A d \in Conns : conn'[d].st = conn[d].st /\ conn'[d].who = conn[d].who
        /\ conn'[c].in = <<>>
    BY <2>1, <2>2, <2>5, ServedAsk
  <2>7. /\ BudgetInv' /\ ConnInv' /\ NumberInv' /\ BacklogInv' /\ HostInv' /\ SelectorInv' /\ TaskInv'
        /\ PasteInv' /\ ContextInv' /\ TabInv'
    BY <1>2, <2>1, <2>6, ServeParts
  <2>8. LoopInv'
    <3>1. f \in 0 .. MaxConn /\ c \in 0 .. MaxConn
      BY <2>3, ConstantFacts
    <3>2. /\ loop'.at = "reading" /\ loop'.from = f /\ loop'.for = c
          /\ loop' \in [at : {"select", "reading"}, from : 0 .. MaxConn, for : 0 .. MaxConn]
      BY <2>2, <3>1
    <3>3. daemon' = "up"
      BY <1>1 DEF ServeLeaves
    <3>4. /\ conn'[f].st = "open" /\ conn'[c].st = "open" /\ conn'[c].in = <<>>
          /\ conn'[c].who \in {"cli", "script"}
      BY <2>3, <2>4, <2>5, <2>6
    <3> QED
      BY <2>3, <3>2, <3>3, <3>4 DEF LoopInv
  <2> QED
    BY <1>3, <2>7, <2>8 DEF ExtensionsInv
<1>5. CASE ~Writable(conn, window)
  <2>1. conn' = Shut(conn, c) /\ loop' = loop
    BY <1>5 DEF AskWindowExtension
  <2>2. Follows(conn, conn', {}) /\ \A d \in Conns : d # c => conn'[d].in = conn[d].in
    BY <2>1, ServedOne
  <2>3. /\ BudgetInv' /\ ConnInv' /\ NumberInv' /\ BacklogInv' /\ HostInv' /\ SelectorInv' /\ TaskInv'
        /\ PasteInv' /\ ContextInv' /\ TabInv'
    BY <1>2, <2>2, ServeParts
  <2>4. LoopInv'
    BY <1>1, <2>1, LoopFrame DEF ServeLeaves
  <2> QED
    BY <1>3, <2>3, <2>4 DEF ExtensionsInv
<1> QED
  BY <1>4, <1>5

\* A new request: it is newer than what is under way.
LEMMA PasteRequest ==
    ASSUME PasteInv, requests' = requests + 1, Flying' \subseteq Flying \cup {requests + 1},
           UNCHANGED confirmed, acked' \in {acked, FALSE},
           \A w \in waiters' : \/ w \in waiters
                               \/ w.n = requests + 1 /\ acked' = FALSE /\ (w.clean => Flying = {})
    PROVE  PasteInv'
<1>a. acked' \in BOOLEAN /\ (acked' => acked)
  <2>1. acked \in BOOLEAN
    BY DEF PasteInv
  <2>2. CASE acked' = acked
    BY <2>1, <2>2
  <2>3. CASE acked' = FALSE
    BY <2>3
  <2> QED
    BY <2>2, <2>3
<1>1. requests \in Nat /\ requests' \in Nat /\ confirmed' \in 0 .. requests'
  BY DEF PasteInv
<1>2. Flying' \subseteq 1 .. requests'
  BY DEF PasteInv
<1>3. ASSUME NEW w \in waiters'
      PROVE  /\ w.n \in 1 .. requests'
             /\ w.clean => \A n \in Flying' : n >= w.n
             /\ acked' /\ w.clean => confirmed' >= w.n
  <2>1. CASE w \in waiters
    <3>1. /\ w.n \in 1 .. requests
          /\ w.clean => \A n \in Flying : n >= w.n
          /\ acked /\ w.clean => confirmed >= w.n
      BY <2>1 DEF PasteInv
    <3>2. w.clean => \A n \in Flying' : n >= w.n
      BY <1>1, <3>1
    <3>3. w.n \in 1 .. requests'
      BY <1>1, <3>1
    <3>4. acked' /\ w.clean => confirmed' >= w.n
      BY <1>a, <3>1, Zenon
    <3> QED
      BY <3>2, <3>3, <3>4
  <2>2. CASE w.n = requests + 1 /\ acked' = FALSE /\ (w.clean => Flying = {})
    <3>1. w.clean => \A n \in Flying' : n >= w.n
      BY <1>1, <2>2
    <3> QED
      BY <1>1, <2>2, <3>1
  <2> QED
    BY <2>1, <2>2
<1> QED
  BY <1>a, <1>1, <1>2, <1>3 DEF PasteInv

LEMMA NumbersMember ==
    ASSUME NEW s, NEW m \in Range(s)
    PROVE  m.n \in Numbers(s, m.op)
BY DEF Numbers

\* The acknowledgement of a request.
LEMMA FocusAckStep ==
    ASSUME ExtensionsInv, NEW c \in Conns, Selecting, conn[c].st = "open", conn[c].in # <<>>,
           ServeLeaves, NEW m, m = Head(conn[c].in), m.op = "focusAck", FocusAck(c, m)
    PROVE  ExtensionsInv'
<1>1. loop = Select /\ m \in Range(conn[c].in) /\ SocketInv /\ LoopInv /\ PasteInv
  BY LineFacts DEF ExtensionsInv
<1>2. /\ UNCHANGED <<loop, tab, context, requests, missed, native, sync, window>>
      /\ acked' = TRUE /\ confirmed' = Max({confirmed, m.n}) /\ conn' = Shut(conn, c)
  BY DEF FocusAck, sockets
<1>3. Follows(conn, conn', {}) /\ \A d \in Conns : d # c => conn'[d].in = conn[d].in
  BY <1>2, ServedOne
<1>4. SocketInv' /\ LoopInv'
  BY <1>1, <1>2, LoopFrame DEF SocketInv, ServeLeaves
<1>5. /\ BudgetInv' /\ ConnInv' /\ NumberInv' /\ BacklogInv' /\ HostInv' /\ SelectorInv' /\ TaskInv'
      /\ ContextInv' /\ TabInv'
  BY <1>2, <1>3, ServeParts
<1>6. m.n \in Flying
  BY <1>1, NumbersMember DEF Flying
<1>7. m.n \in 1 .. requests /\ confirmed \in 0 .. requests /\ requests \in Nat
  BY <1>1, <1>6 DEF PasteInv
<1>8. confirmed' \in {confirmed, m.n} /\ confirmed' >= confirmed /\ confirmed' >= m.n
  <2> DEFINE S == {confirmed, m.n}
  <2>1. S \subseteq 0 .. requests /\ S # {}
    BY <1>7
  <2>2. Max(S) \in S /\ \A y \in S : Max(S) >= y
    <3> HIDE DEF S
    <3> QED
      BY <1>7, <2>1, MaxIsGreatest
  <2> QED
    BY <1>2, <2>2
<1>9. Flying' \subseteq Flying
  <2>1. Calm({})
    BY <1>3, FollowsCalm
  <2>2. chrome'.todo \subseteq chrome.todo /\ Range(toHost') \subseteq Range(toHost)
    BY DEF ServeLeaves, chromeVars
  <2>3. Flying' \subseteq Flying \cup {}
    BY <2>1, <2>2, FlyingFrame
  <2> QED
    BY <2>3
<1>10. PasteInv'
  <2>1. requests' \in Nat /\ confirmed' \in 0 .. requests' /\ acked' \in BOOLEAN
    BY <1>2, <1>7, <1>8
  <2>2. Flying' \subseteq 1 .. requests'
    BY <1>1, <1>2, <1>9 DEF PasteInv
  <2>3. ASSUME NEW w \in waiters'
        PROVE  /\ w.n \in 1 .. requests'
               /\ w.clean => \A n \in Flying' : n >= w.n
               /\ acked' /\ w.clean => confirmed' >= w.n
    <3>1. w \in waiters
      BY DEF ServeLeaves
    <3>2. w.n \in 1 .. requests /\ (w.clean => \A n \in Flying : n >= w.n)
      BY <1>1, <3>1 DEF PasteInv
    <3>3. w.clean => confirmed' >= w.n
      BY <1>6, <1>7, <1>8, <3>2
    <3> QED
      BY <1>2, <1>9, <3>2, <3>3
  <2> QED
    BY <2>1, <2>2, <2>3 DEF PasteInv
<1> QED
  BY <1>4, <1>5, <1>10 DEF ExtensionsInv

\* The command that sets the focus.
LEMMA FocusChatGPTStep ==
    ASSUME ExtensionsInv, NEW c \in Conns, Selecting, conn[c].st = "open", conn[c].in # <<>>,
           ServeLeaves, Head(conn[c].in).op = "focusChatGPT", FocusChatGPT(c)
    PROVE  ExtensionsInv'
<1> DEFINE m == Command("focus", requests + 1)
<1>1. loop = Select /\ SocketInv /\ LoopInv /\ PasteInv /\ requests \in Nat
  BY LineFacts DEF ExtensionsInv, PasteInv
<1>2. /\ UNCHANGED <<loop, tab, context, acked, confirmed, missed, sync, window>>
      /\ requests' = requests + 1 /\ conn' = Written(Shut(conn, c), native, m)
      /\ native' \in {native, None}
  BY DEF FocusChatGPT, TriggerChromeChatGPTFocus
<1>3. m \in Messages /\ m.n = requests + 1
  BY <1>1, WritesFacts
<1> HIDE DEF m
<1>4. Follows(conn, conn', {m}) /\ \A d \in Conns : d # c => conn'[d].in = conn[d].in
  BY <1>2, <1>3, ServedTwo
<1>5. SocketInv' /\ LoopInv'
  BY <1>1, <1>2, LoopFrame, ConstantFacts DEF SocketInv, ServeLeaves
<1>6. /\ BudgetInv' /\ ConnInv' /\ NumberInv' /\ BacklogInv' /\ HostInv' /\ SelectorInv' /\ TaskInv'
      /\ ContextInv' /\ TabInv'
  BY <1>2, <1>4, ServeParts
<1>7. Flying' \subseteq Flying \cup {requests + 1}
  <2>1. Calm({m})
    BY <1>4, FollowsCalm
  <2>2. chrome'.todo \subseteq chrome.todo /\ Range(toHost') \subseteq Range(toHost)
    BY DEF ServeLeaves, chromeVars
  <2>3. \A k \in {m} : k.op = "focus" => k.n \in {requests + 1}
    BY <1>3
  <2> QED
    BY <2>1, <2>2, <2>3, FlyingFrame
<1>8. PasteInv'
  <2>1. waiters' = waiters
    BY DEF ServeLeaves
  <2> QED
    BY <1>1, <1>2, <1>7, <2>1, PasteRequest
<1> QED
  BY <1>5, <1>6, <1>8 DEF ExtensionsInv

\* The tab that became active.
LEMMA SetActiveTabUrlStep ==
    ASSUME ExtensionsInv, NEW c \in Conns, Selecting, conn[c].st = "open", conn[c].in # <<>>,
           ServeLeaves, NEW m, m = Head(conn[c].in), m.op = "setActiveTabUrl", SetActiveTabUrl(c, m)
    PROVE  /\ ExtensionsInv' /\ m.n \in UrlsOf(conn[c].in) /\ tab' = m.n
<1>1. /\ AllSound(conn) /\ loop = Select /\ m \in Range(conn[c].in) /\ SocketInv /\ LoopInv
      /\ TabInv /\ ContextInv
  BY LineFacts DEF ExtensionsInv
<1>2. /\ UNCHANGED <<loop, acked, requests, confirmed, missed, native, sync, window>>
      /\ tab' = m.n /\ context'.by = "tab" /\ conn' = Shut(conn, c)
  BY DEF SetActiveTabUrl, sockets
<1>3. /\ Follows(conn, conn', {}) /\ \A d \in Conns : d # c => conn'[d] = conn[d]
      /\ conn'[c].in = <<>>
  BY <1>1, <1>2, ShutFacts
<1>4. SocketInv' /\ LoopInv'
  BY <1>1, <1>2, LoopFrame DEF SocketInv, ServeLeaves
<1>5. /\ BudgetInv' /\ ConnInv' /\ NumberInv' /\ BacklogInv' /\ HostInv' /\ SelectorInv' /\ TaskInv'
      /\ PasteInv'
  BY <1>2, <1>3, ServeParts
<1>6. ContextInv'
  <2>1. UNCHANGED <<tasks, focus, overlap>>
    BY DEF ServeLeaves
  <2>2. \A d \in Conns : Range(conn'[d].in) \subseteq Range(conn[d].in)
    BY <1>3, EmptyFacts
  <2> QED
    BY <1>1, <1>2, <2>1, <2>2 DEF ContextInv
<1> DEFINE u == m.n
<1>7. u \in UrlsOf(conn[c].in)
  BY <1>1, NumbersMember DEF UrlsOf
<1>8. tab' = u
  BY <1>2
<1> HIDE DEF u
<1>9. TabInv'
  <2>0. UNCHANGED <<host, chrome, toHost>>
    BY DEF ServeLeaves, chromeVars
  <2>1. /\ u \in Urls /\ u.host \in 1 .. host.n /\ u.n <= chrome.tab
        /\ u.host = host.n => \A v \in UrlsOf(toHost) : u.n < v.n
        /\ \A d \in Conns \ {c} : \A v \in UrlsOf(conn[d].in) : u.host # v.host
    BY <1>1, <1>7 DEF TabInv
  <2>2. tab' \in Urls /\ tab'.host <= host'.n /\ tab'.n <= chrome'.tab /\ tab'.host # 0
    BY <1>8, <2>0, <2>1
  <2>3. \A v \in UrlsOf(toHost') :
          v \in Urls /\ v.host = host'.n /\ v.n <= chrome'.tab /\ (v.host = tab'.host => v.n > tab'.n)
    <3> SUFFICES ASSUME NEW v \in UrlsOf(toHost)
                 PROVE  v \in Urls /\ v.host = host.n /\ v.n <= chrome.tab /\ (v.host = u.host => v.n > u.n)
      BY <1>8, <2>0
    <3>1. v \in Urls /\ v.host = host.n /\ v.n <= chrome.tab
      BY <1>1 DEF TabInv
    <3>2. v.n \in Nat /\ u.n \in Nat
      BY <2>1, <3>1 DEF Urls
    <3>3. v.host = u.host => u.n < v.n
      BY <2>1, <3>1
    <3> QED
      BY <3>1, <3>2, <3>3
  <2>4. \A i, j \in DOMAIN toHost' :
          i < j /\ toHost'[i].op = "setActiveTabUrl" /\ toHost'[j].op = "setActiveTabUrl"
             => toHost'[i].n.n < toHost'[j].n.n
    BY <1>1, <2>0 DEF TabInv
  <2>5. ASSUME NEW d \in Conns, NEW v \in UrlsOf(conn'[d].in)
        PROVE  /\ v \in Urls /\ v.host \in 1 .. host'.n /\ v.n <= chrome'.tab
               /\ v.host = tab'.host => v.n > tab'.n
               /\ v.host = host'.n => \A w \in UrlsOf(toHost') : v.n < w.n
               /\ v.host = host'.n /\ host'.up => d = host'.reads
               /\ \A e \in Conns \ {d} : \A w \in UrlsOf(conn'[e].in) : v.host # w.host
    <3>1. d # c
      BY <1>3, <2>5, EmptyFacts DEF UrlsOf, Numbers
    <3>2. v \in UrlsOf(conn[d].in)
      BY <1>3, <3>1
    <3>3. /\ v \in Urls /\ v.host \in 1 .. host.n /\ v.n <= chrome.tab
          /\ v.host = host.n => \A w \in UrlsOf(toHost) : v.n < w.n
          /\ v.host = host.n /\ host.up => d = host.reads
          /\ \A e \in Conns \ {d} : \A w \in UrlsOf(conn[e].in) : v.host # w.host
      BY <1>1, <3>2 DEF TabInv
    <3>4. v.host # tab'.host
      BY <1>8, <2>1, <3>1, <3>2
    <3>5. ASSUME NEW e \in Conns \ {d} PROVE UrlsOf(conn'[e].in) \subseteq UrlsOf(conn[e].in)
      BY <1>3, EmptyFacts DEF UrlsOf, Numbers
    <3> QED
      BY <2>0, <3>3, <3>4, <3>5
  <2> QED
    BY <2>2, <2>3, <2>4, <2>5 DEF TabInv
<1> QED
  BY <1>4, <1>5, <1>6, <1>7, <1>8, <1>9 DEF ExtensionsInv, u

\* The window that has the focus.
LEMMA ActiveWindowStep ==
    ASSUME ExtensionsInv, NEW c \in Conns, Selecting, conn[c].st = "open", conn[c].in # <<>>,
           ServeLeaves, NEW m, m = Head(conn[c].in), m.op = "activeWindowChanged",
           ActiveWindowChanged(c, m)
    PROVE  ExtensionsInv'
<1>1. /\ AllSound(conn) /\ loop = Select /\ m \in Range(conn[c].in) /\ SocketInv /\ LoopInv
      /\ ContextInv
  BY LineFacts DEF ExtensionsInv
<1>2. /\ UNCHANGED <<loop, tab, acked, requests, confirmed, missed, native, sync, window>>
      /\ context'.win = m.n /\ conn' = Shut(conn, c)
  BY DEF ActiveWindowChanged, sockets
<1>3. /\ Follows(conn, conn', {}) /\ \A d \in Conns : d # c => conn'[d] = conn[d]
      /\ conn'[c].in = <<>>
  BY <1>1, <1>2, ShutFacts
<1>4. SocketInv' /\ LoopInv'
  BY <1>1, <1>2, LoopFrame DEF SocketInv, ServeLeaves
<1>5. /\ BudgetInv' /\ ConnInv' /\ NumberInv' /\ BacklogInv' /\ HostInv' /\ SelectorInv' /\ TaskInv'
      /\ PasteInv' /\ TabInv'
  BY <1>2, <1>3, ServeParts
<1>6. ContextInv'
  <2>1. UNCHANGED <<tasks, focus, overlap>>
    BY DEF ServeLeaves
  <2>2. \A d \in Conns : Range(conn'[d].in) \subseteq Range(conn[d].in)
    BY <1>3, EmptyFacts
  <2>3. ~overlap => m.n = focus
    BY <1>1 DEF ContextInv
  <2> QED
    BY <1>1, <1>2, <2>1, <2>2, <2>3 DEF ContextInv
<1> QED
  BY <1>4, <1>5, <1>6 DEF ExtensionsInv

\* A line is served.
LEMMA ServeStep ==
    ASSUME ExtensionsInv, NEW c \in Conns, Serve(c)
    PROVE  ExtensionsInv'
<1> DEFINE m == Head(conn[c].in)
<1>1. Selecting /\ conn[c].st = "open" /\ conn[c].in # <<>> /\ ServeLeaves
  BY DEF Serve, ServeLeaves
<1>2. \/ m.op = "registerNativeHost" /\ RegisterNativeHost(c)
      \/ m.op = "setActiveTabUrl" /\ SetActiveTabUrl(c, m)
      \/ m.op = "focusAck" /\ FocusAck(c, m)
      \/ m.op = "focusChatGPT" /\ FocusChatGPT(c)
      \/ m.op = "shouldLog" /\ ShouldLog(c)
      \/ m.op = "registerWindowExtension" /\ RegisterWindowExtension(c)
      \/ m.op = "listWindows" /\ AskWindowExtension(c)
      \/ m.op = "activeWindowChanged" /\ ActiveWindowChanged(c, m)
      \/ m.op = "answer" /\ Unhandled(c)
  BY DEF Serve
<1>3. m = Head(conn[c].in)
  OBVIOUS
<1> HIDE DEF m
<1> QED
  BY <1>1, <1>2, <1>3, PlainServeStep, AskStep, FocusAckStep, FocusChatGPTStep,
     SetActiveTabUrlStep, ActiveWindowStep

-----------------------------------------------------------------------------
(* The other steps of the daemon *)

\* accept() finds a number: there are as many as connections.
LEMMA FreeNumber ==
    ASSUME ConnInv, NEW h \in Conns, conn[h].fd = None
    PROVE  Fds \ {conn[c].fd : c \in Conns} # {}
<1> SUFFICES ASSUME \A f \in Fds : \E c \in Conns : conn[c].fd = f
             PROVE  FALSE
  OBVIOUS
<1> DEFINE g == [f \in Fds |-> CHOOSE c \in Conns : conn[c].fd = f]
           T == Conns \ {h}
<1>1. \A f \in Fds : g[f] \in Conns /\ conn[g[f]].fd = f
  OBVIOUS
<1>2. \A f \in Fds : f # None
  BY ConstantFacts
<1>3. g \in [Fds -> T]
  BY <1>1, <1>2
<1>4. IsFiniteSet(Fds) /\ Cardinality(Fds) = MaxConn /\ IsFiniteSet(Conns) /\ Cardinality(Conns) = MaxConn
  BY FS_Interval, ConstantsAssumption DEF Fds, Conns
<1>5. IsFiniteSet(T) /\ Cardinality(T) = MaxConn - 1
  BY <1>4, FS_RemoveElement
<1>6. Cardinality(T) < Cardinality(Fds)
  BY <1>4, <1>5, ConstantFacts
<1> HIDE DEF g, T
<1>7. \E x, y \in Fds : x # y /\ g[x] = g[y]
  BY <1>3, <1>4, <1>5, <1>6, FS_PigeonHole
<1> QED
  BY <1>1, <1>7

\* The backlog without its first connection.
LEMMA BacklogTail ==
    ASSUME BacklogInv, backlog # <<>>, NEW h, h = Head(backlog), NEW t, t = Tail(backlog)
    PROVE  /\ h \in Conns /\ conn[h].st = "backlog" /\ t \in Seq(Conns)
           /\ \A c \in Conns : c \in Range(t) <=> conn[c].st = "backlog" /\ c # h
           /\ \A i, j \in DOMAIN t : t[i] = t[j] => i = j
<1>1. backlog \in Seq(Conns) /\ \A i, j \in DOMAIN backlog : backlog[i] = backlog[j] => i = j
  BY DEF BacklogInv
<1>2. /\ h \in Conns /\ h \in Range(backlog) /\ t \in Seq(Conns) /\ Len(t) = Len(backlog) - 1
  BY <1>1, TailFacts
<1>3. h = backlog[1] /\ \A i \in DOMAIN t : t[i] = backlog[i + 1]
  BY <1>1, HeadTailProperties
<1>4. DOMAIN t = 1 .. Len(backlog) - 1 /\ DOMAIN backlog = 1 .. Len(backlog) /\ Len(backlog) \in Nat \ {0}
  BY <1>1, <1>2, EmptySeq, LenProperties
<1>5. \A i \in DOMAIN t : i \in Nat /\ i + 1 \in DOMAIN backlog /\ i + 1 # 1
  BY <1>4
<1>6. \A i \in DOMAIN backlog : i = 1 \/ (i \in Nat /\ i - 1 \in DOMAIN t /\ (i - 1) + 1 = i)
  BY <1>4
<1>7. 1 \in DOMAIN backlog
  BY <1>4
<1>8. \A i, j \in DOMAIN t : t[i] = t[j] => i = j
  <2> TAKE i, j \in DOMAIN t
  <2> HAVE t[i] = t[j]
  <2>1. i + 1 = j + 1
    BY <1>1, <1>3, <1>5
  <2> QED
    BY <1>5, <2>1
<1>9. ASSUME NEW c \in Conns PROVE c \in Range(t) <=> c \in Range(backlog) /\ c # h
  <2>1. ASSUME c \in Range(t) PROVE c \in Range(backlog) /\ c # h
    <3>1. PICK i \in DOMAIN t : c = t[i]
      BY <2>1 DEF Range
    <3>2. c = backlog[i + 1] /\ i + 1 \in DOMAIN backlog /\ i + 1 # 1
      BY <1>3, <1>5, <3>1
    <3>3. c # h
      BY <1>1, <1>3, <1>7, <3>2
    <3> QED
      BY <3>2, <3>3 DEF Range
  <2>2. ASSUME c \in Range(backlog), c # h PROVE c \in Range(t)
    <3>1. PICK i \in DOMAIN backlog : c = backlog[i]
      BY <2>2 DEF Range
    <3>2. i # 1
      BY <1>3, <2>2, <3>1
    <3>3. i - 1 \in DOMAIN t /\ (i - 1) + 1 = i
      BY <1>6, <3>2
    <3>4. t[i - 1] = c
      BY <1>3, <3>1, <3>3
    <3> QED
      BY <3>3, <3>4 DEF Range
  <2> QED
    BY <2>1, <2>2
<1> QED
  BY <1>2, <1>8, <1>9 DEF BacklogInv

\* What steps that change no line and no program leave alone.
LEMMA OtherParts ==
    ASSUME ExtensionsInv,
           UNCHANGED <<budget, daemon, context, sockets, tab, pasteVars, chromeVars, selector,
                       focus, tasks, ready, overlap>>,
           \A c \in Conns : /\ Range(conn'[c].in) \subseteq Range(conn[c].in)
                            /\ Range(conn'[c].out) \subseteq Range(conn[c].out)
                            /\ Kept(conn[c], conn'[c])
    PROVE  /\ BudgetInv' /\ SocketInv' /\ HostInv' /\ SelectorInv' /\ TaskInv' /\ PasteInv' /\ TabInv'
           /\ /\ "tracker" \in missed => "tracker" \in missed'
              /\ \A c \in Conns : Pending(c) => Pending(c)' \/ "tracker" \in missed'
              => ContextInv'
<1>1. BudgetInv' /\ SocketInv'
  BY DEF ExtensionsInv, BudgetInv, SocketInv, sockets
<1>2. HostInv'
  <2>1. host.reads # None => host.reads \in Conns
    BY ConstantFacts DEF ExtensionsInv, HostInv
  <2> QED
    BY <2>1, HostFrame DEF ExtensionsInv
<1>3. SelectorInv'
  <2>1. selector.conn # None => selector.conn \in Conns
    BY ConstantFacts DEF ExtensionsInv, SelectorInv
  <2> QED
    BY <2>1, SelectorFrame DEF ExtensionsInv
<1>4. TaskInv'
  <2>1. \A t \in tasks : t.conn # None => t.conn \in Conns
    BY ConstantFacts DEF ExtensionsInv, TaskInv
  <2>2. tasks' = tasks /\ focus' = focus
    OBVIOUS
  <2> QED
    BY <2>1, <2>2, TaskFrame DEF ExtensionsInv
<1>5. PasteInv'
  <2> DEFINE W == {}
  <2>1. chrome'.todo \subseteq chrome.todo /\ Range(toHost') \subseteq Range(toHost)
    BY DEF chromeVars
  <2>2. \A c \in Conns : /\ Range(conn'[c].in) \subseteq Range(conn[c].in)
                         /\ Range(conn'[c].out) \subseteq Range(conn[c].out) \cup W
    OBVIOUS
  <2>3. \A m \in W : m.op = "focus" => m.n \in W
    OBVIOUS
  <2>4. W = {}
    OBVIOUS
  <2> HIDE DEF W
  <2>5. Flying' \subseteq Flying \cup W
    BY <2>1, <2>2, <2>3, FlyingLines
  <2>6. Flying' \subseteq Flying
    BY <2>4, <2>5
  <2> QED
    BY <2>6, PasteFrame DEF ExtensionsInv, pasteVars
<1>6. TabInv'
  <2>1. host'.n = host.n /\ chrome'.tab = chrome.tab /\ toHost' = toHost
    BY DEF chromeVars
  <2>2. host'.up => host.up /\ \A d \in Conns : d = host.reads /\ conn'[d].in # <<>> => d = host'.reads
    BY DEF chromeVars
  <2> QED
    BY <2>1, <2>2, TabFrame DEF ExtensionsInv
<1>7. ASSUME "tracker" \in missed => "tracker" \in missed',
             \A c \in Conns : Pending(c) => Pending(c)' \/ "tracker" \in missed'
      PROVE  ContextInv'
  BY <1>7, ContextFrame DEF ExtensionsInv
<1> QED
  BY <1>1, <1>2, <1>3, <1>4, <1>5, <1>6, <1>7

LEMMA AcceptStep ==
    ASSUME ExtensionsInv, AcceptNewClient
    PROVE  ExtensionsInv'
<1> DEFINE h == Head(backlog)
           t == Tail(backlog)
           S == Fds \ {conn[c].fd : c \in Conns}
           f == Min(S)
           x == conn[h]
           y == Accepted(x, f)
<1>0. loop = Select /\ backlog # <<>> /\ backlog' = t
  BY DEF AcceptNewClient, Selecting
<1>1. /\ h \in Conns /\ x.st = "backlog" /\ t \in Seq(Conns)
      /\ \A c \in Conns : c \in Range(t) <=> conn[c].st = "backlog" /\ c # h
      /\ \A i, j \in DOMAIN t : t[i] = t[j] => i = j
  BY <1>0, BacklogTail DEF ExtensionsInv
<1>2. Sound(x) /\ AllSound(conn)
  BY <1>1 DEF ExtensionsInv, ConnInv, AllSound
<1>3. x.fd = None
  BY <1>1, <1>2 DEF Sound
<1>4. f \in Fds /\ \A c \in Conns : conn[c].fd # f
  <2>1. S \subseteq Nat /\ S # {}
    BY <1>1, <1>3, FreeNumber DEF ExtensionsInv, Fds
  <2>2. f \in S
    <3> HIDE DEF S
    <3> QED
      BY <2>1, MinIsLeast
  <2> QED
    BY <2>2
<1>5. conn' = [conn EXCEPT ![h] = y]
  BY <1>1, <1>2 DEF AcceptNewClient, AllSound, Accepted
<1>6. x = conn[h] /\ y = Accepted(x, f)
  OBVIOUS
<1> HIDE DEF h, t, S, f, x, y
<1>7. /\ Sound(y) /\ Kept(x, y) /\ y.st = "open" /\ y.fd = f
      /\ y.who = x.who /\ y.open = x.open /\ y.in = x.in /\ y.out = x.out
  BY <1>1, <1>2, <1>4, <1>6, AcceptedFacts
<1>8. /\ conn' \in [Conns -> Connections] /\ conn'[h] = y /\ \A d \in Conns : d # h => conn'[d] = conn[d]
  BY <1>1, <1>2, <1>5, <1>7, ReplaceOne
<1>9. \A c \in Conns : /\ conn'[c].in = conn[c].in /\ conn'[c].out = conn[c].out
                       /\ Kept(conn[c], conn'[c])
  BY <1>6, <1>7, <1>8 DEF Kept
<1>10. ConnInv'
  BY <1>2, <1>7, <1>8 DEF ConnInv, AllSound
<1>11. NumberInv'
  <2> SUFFICES ASSUME NEW c \in Conns, NEW d \in Conns, c # d, conn'[c].fd # None
               PROVE  conn'[c].fd # conn'[d].fd
    BY DEF NumberInv
  <2>1. CASE c = h
    BY <1>4, <1>7, <1>8, <2>1
  <2>2. CASE d = h
    BY <1>4, <1>7, <1>8, <2>2
  <2>3. CASE c # h /\ d # h
    BY <1>8, <2>3 DEF ExtensionsInv, NumberInv
  <2> QED
    BY <2>1, <2>2, <2>3
<1>12. BacklogInv'
  <2>1. \A c \in Conns : c \in Range(backlog') <=> conn'[c].st = "backlog"
    BY <1>0, <1>1, <1>7, <1>8
  <2> QED
    BY <1>0, <1>1, <2>1 DEF BacklogInv
<1>13. LoopInv'
  BY <1>0, LoopFrame DEF ExtensionsInv, AcceptNewClient, daemonVars
<1>14. UNCHANGED <<budget, daemon, context, sockets, tab, pasteVars, chromeVars, selector,
                   focus, tasks, ready, overlap, missed>>
  BY DEF AcceptNewClient, daemonVars, trackerVars
<1>15. \A c \in Conns : Pending(c) => Pending(c)'
  BY <1>9 DEF Pending
<1>16. /\ BudgetInv' /\ SocketInv' /\ HostInv' /\ SelectorInv' /\ TaskInv' /\ PasteInv' /\ TabInv'
       /\ ContextInv'
  BY <1>9, <1>14, <1>15, OtherParts
<1> QED
  BY <1>10, <1>11, <1>12, <1>13, <1>16 DEF ExtensionsInv

LEMMA EndOfFileStep ==
    ASSUME ExtensionsInv, NEW c \in Conns, EndOfFile(c)
    PROVE  ExtensionsInv'
<1>1. /\ loop = Select /\ conn[c].st = "open" /\ conn[c].in = <<>> /\ conn' = Shut(conn, c)
      /\ UNCHANGED <<backlog, loop, missed>>
      /\ UNCHANGED <<budget, daemon, context, sockets, tab, pasteVars, chromeVars, selector,
                     focus, tasks, ready, overlap>>
  BY DEF EndOfFile, Selecting, daemonVars, trackerVars
<1>2. AllSound(conn) /\ conn[c].st # "backlog"
  BY <1>1 DEF ExtensionsInv, ConnInv, AllSound
<1>3. Follows(conn, conn', {}) /\ (\A d \in Conns : d # c => conn'[d] = conn[d]) /\ conn'[c].in = <<>>
  BY <1>1, <1>2, ShutFacts
<1>4. ConnInv' /\ NumberInv' /\ BacklogInv'
  BY <1>1, <1>3, FollowsCalm, ConnFrame DEF ExtensionsInv
<1>5. LoopInv'
  BY <1>1, LoopFrame DEF ExtensionsInv
<1>6. \A d \in Conns : /\ Range(conn'[d].in) \subseteq Range(conn[d].in)
                       /\ Range(conn'[d].out) \subseteq Range(conn[d].out)
                       /\ Kept(conn[d], conn'[d])
  BY <1>3 DEF Follows, Milder
<1>7. \A d \in Conns : Pending(d) => Pending(d)'
  BY <1>1, <1>3 DEF Pending
<1>8. /\ BudgetInv' /\ SocketInv' /\ HostInv' /\ SelectorInv' /\ TaskInv' /\ PasteInv' /\ TabInv'
      /\ ContextInv'
  BY <1>1, <1>6, <1>7, OtherParts
<1> QED
  BY <1>4, <1>5, <1>8 DEF ExtensionsInv

\* The answer of window-selector, or what came in its place.
LEMMA ReadAnswerStep ==
    ASSUME ExtensionsInv, ReadAnswer
    PROVE  ExtensionsInv'
<1> DEFINE f == loop.from
           d == loop.for
           ds == ClearedAt(conn, f)
<1>1. /\ f \in Conns /\ d \in Conns /\ conn[f].st = "open" /\ conn[d].st = "open"
      /\ conn[d].in = <<>> /\ AllSound(conn)
  BY DEF ExtensionsInv, ConnInv, AllSound, LoopInv, ReadAnswer
<1>2. /\ conn' = Shut(ds, d) /\ ds = ClearedAt(conn, f) /\ loop' = Select
      /\ missed' = IF conn[f].in # <<>> THEN missed \cup {conn[f].who} ELSE missed
      /\ UNCHANGED backlog
      /\ UNCHANGED <<budget, daemon, context, sockets, tab, pasteVars, chromeVars, selector,
                     focus, tasks, ready, overlap>>
  BY DEF ReadAnswer, ClearedAt
<1> HIDE DEF f, d, ds
<1>3. /\ Follows(conn, ds, {}) /\ \A c \in Conns : c # f => ds[c] = conn[c]
      /\ ds[f].st = conn[f].st
  BY <1>1, <1>2, ClearedOne
<1>4. AllSound(ds) /\ ds[d].st # "backlog"
  BY <1>1, <1>3, FollowsSound
<1>5. Follows(ds, conn', {}) /\ \A c \in Conns : c # d => conn'[c] = ds[c]
  BY <1>1, <1>2, <1>4, ShutFacts
<1>6. Follows(conn, conn', {})
  BY <1>3, <1>5, FollowsTwice
<1>7. ConnInv' /\ NumberInv' /\ BacklogInv'
  BY <1>2, <1>6, FollowsCalm, ConnFrame DEF ExtensionsInv
<1>8. LoopInv'
  BY <1>2, ConstantFacts DEF LoopInv, Select, ExtensionsInv
<1>9. \A c \in Conns : /\ Range(conn'[c].in) \subseteq Range(conn[c].in)
                       /\ Range(conn'[c].out) \subseteq Range(conn[c].out)
                       /\ Kept(conn[c], conn'[c])
  BY <1>6 DEF Follows, Milder
<1>10. ASSUME NEW c \in Conns, Pending(c) PROVE Pending(c)' \/ "tracker" \in missed'
  <2>1. CASE c = f
    <3>1. conn[f].in # <<>> /\ Sound(conn[f]) /\ conn[f].who \in Holders
      BY <1>1, <1>10, <2>1 DEF Pending, AllSound, Sound, Connections
    <3>2. PICK m \in Range(conn[f].in) : m.op = "activeWindowChanged"
      BY <1>10, <2>1, PendingRange
    <3>3. m.op \in OpsOf(conn[f].who)
      BY <3>1 DEF Sound
    <3>4. conn[f].who = "tracker"
      BY <3>1, <3>2, <3>3, OpsFacts DEF Holders
    <3> QED
      BY <1>2, <3>1, <3>4
  <2>2. CASE c # f /\ c = d
    BY <1>1, <1>10, <2>2 DEF Pending
  <2>3. CASE c # f /\ c # d
    BY <1>3, <1>5, <1>10, <2>3 DEF Pending
  <2> QED
    BY <2>1, <2>2, <2>3
<1>11. "tracker" \in missed => "tracker" \in missed'
  BY <1>2
<1>12. /\ BudgetInv' /\ SocketInv' /\ HostInv' /\ SelectorInv' /\ TaskInv' /\ PasteInv' /\ TabInv'
       /\ ContextInv'
  BY <1>2, <1>9, <1>10, <1>11, OtherParts
<1> QED
  BY <1>7, <1>8, <1>12 DEF ExtensionsInv

\* Something is spent.
LEMMA SpendFacts ==
    ASSUME BudgetInv, NEW what, what # "tools", Spend(what)
    PROVE  BudgetInv'
BY DEF BudgetInv, Spend

\* The daemon ends.
LEMMA StopStep ==
    ASSUME ExtensionsInv, NEW how \in {"stopped", "crashed"}, Stop(how)
    PROVE  ExtensionsInv'
<1>1. /\ conn' = [c \in Conns |-> Shut(conn, c)[c]] /\ backlog' = <<>> /\ loop' = Select /\ daemon' = how
      /\ native' = None /\ sync' = None /\ window' = None /\ Spend("stops")
      /\ tab' = [n |-> 0, host |-> 0] /\ acked' = FALSE /\ waiters' = {}
      /\ UNCHANGED <<requests, confirmed, chromeVars, selector, focus, tasks, ready, overlap, missed>>
  BY DEF Stop, trackerVars
<1>2. AllSound(conn)
  BY DEF ExtensionsInv, ConnInv, AllSound
<1>3. ASSUME NEW c \in Conns
      PROVE  /\ Sound(conn'[c]) /\ conn'[c].fd = None /\ conn'[c].in = <<>>
             /\ conn'[c].st \in {"shut", "unused"} /\ Kept(conn[c], conn'[c])
             /\ Range(conn'[c].in) = {} /\ Range(conn'[c].out) \subseteq Range(conn[c].out)
  <2> DEFINE x == conn[c]
             y == conn'[c]
  <2>1. y = Closed(x)
    BY <1>1, <1>2 DEF Shut, Closed, AllSound
  <2>2. Sound(x)
    BY <1>2 DEF AllSound
  <2>3. ASSUME NEW z, z = Closed(x)
        PROVE  /\ Sound(z) /\ z.fd = None /\ z.in = <<>> /\ z.st \in {"shut", "unused"} /\ Kept(x, z)
               /\ Range(z.in) = {} /\ Range(z.out) \subseteq Range(x.out)
    <3> HIDE DEF x, y
    <3> QED
      BY <2>2, <2>3, ClosedFacts
  <2> QED
    BY <2>1, <2>3
<1>4. ConnInv'
  <2>1. \A c \in Conns : conn'[c] \in Connections
    BY <1>3 DEF Sound
  <2>2. conn' \in [Conns -> Connections]
    BY <1>1, <2>1
  <2> QED
    BY <1>3, <2>2 DEF ConnInv
<1>5. NumberInv'
  BY <1>3 DEF NumberInv
<1>6. BacklogInv'
  <2>1. \A c \in Conns : conn'[c].st # "backlog"
    BY <1>3
  <2> QED
    BY <1>1, <2>1, EmptyFacts DEF BacklogInv
<1>7. LoopInv' /\ SocketInv'
  BY <1>1, ConstantFacts DEF LoopInv, Select, SocketInv
<1>8. BudgetInv'
  BY <1>1, SpendFacts DEF ExtensionsInv
<1>9. HostInv'
  <2>1. host.reads # None => host.reads \in Conns
    BY ConstantFacts DEF ExtensionsInv, HostInv
  <2> QED
    BY <1>1, <1>3, <2>1, HostFrame DEF ExtensionsInv
<1>10. SelectorInv'
  <2>1. selector.conn # None => selector.conn \in Conns
    BY ConstantFacts DEF ExtensionsInv, SelectorInv
  <2> QED
    BY <1>1, <1>3, <2>1, SelectorFrame DEF ExtensionsInv
<1>11. TaskInv'
  <2>1. \A t \in tasks : t.conn # None => t.conn \in Conns
    BY ConstantFacts DEF ExtensionsInv, TaskInv
  <2> QED
    BY <1>1, <1>3, <2>1, TaskFrame DEF ExtensionsInv
<1>12. PasteInv'
  <2> DEFINE W == {}
  <2>1. chrome'.todo \subseteq chrome.todo /\ Range(toHost') \subseteq Range(toHost)
    BY <1>1 DEF chromeVars
  <2>2. \A c \in Conns : /\ Range(conn'[c].in) \subseteq Range(conn[c].in)
                         /\ Range(conn'[c].out) \subseteq Range(conn[c].out) \cup W
    BY <1>3
  <2>3. \A m \in W : m.op = "focus" => m.n \in W
    OBVIOUS
  <2>4. W = {}
    OBVIOUS
  <2> HIDE DEF W
  <2>5. Flying' \subseteq Flying \cup W
    BY <2>1, <2>2, <2>3, FlyingLines
  <2>6. Flying' \subseteq Flying
    BY <2>4, <2>5
  <2> QED
    BY <1>1, <2>6 DEF PasteInv, ExtensionsInv
<1>13. ContextInv'
  <2>1. daemon' # "up"
    BY <1>1
  <2>2. \A c \in Conns : Range(conn'[c].in) = {}
    BY <1>3
  <2> QED
    BY <1>1, <2>1, <2>2 DEF ContextInv, ExtensionsInv
<1>14. TabInv'
  <2>0. UNCHANGED <<host, chrome, toHost>>
    BY <1>1 DEF chromeVars
  <2>1. \A c \in Conns : UrlsOf(conn'[c].in) = {}
    BY <1>3 DEF UrlsOf, Numbers
  <2>2. host.n \in Nat /\ chrome.tab \in Nat /\ TabInv
    BY DEF ExtensionsInv, HostInv
  <2>3. tab' \in Urls /\ tab'.n = 0 /\ tab'.host = 0
    BY <1>1 DEF Urls
  <2>4. \A u \in UrlsOf(toHost) : u \in Urls /\ u.host = host.n /\ u.n <= chrome.tab /\ u.host # 0
    <3> SUFFICES ASSUME NEW u \in UrlsOf(toHost)
                 PROVE  u \in Urls /\ u.host = host.n /\ u.n <= chrome.tab /\ u.host # 0
      OBVIOUS
    <3>1. u \in Urls /\ u.host = host.n /\ u.n <= chrome.tab
      BY <2>2 DEF TabInv
    <3>2. toHost # <<>>
      BY EmptyFacts DEF UrlsOf, Numbers
    <3>3. host.n > 0
      BY <3>2 DEF ExtensionsInv, HostInv
    <3> QED
      BY <2>2, <3>1, <3>3
  <2>5. \A i, j \in DOMAIN toHost' :
          i < j /\ toHost'[i].op = "setActiveTabUrl" /\ toHost'[j].op = "setActiveTabUrl"
             => toHost'[i].n.n < toHost'[j].n.n
    BY <2>0, <2>2 DEF TabInv
  <2>6. tab'.host <= host'.n /\ tab'.n <= chrome'.tab
    BY <2>0, <2>2, <2>3
  <2>7. \A u \in UrlsOf(toHost') :
          u \in Urls /\ u.host = host'.n /\ u.n <= chrome'.tab /\ (u.host = tab'.host => u.n > tab'.n)
    BY <2>0, <2>3, <2>4
  <2> QED
    BY <2>1, <2>3, <2>5, <2>6, <2>7 DEF TabInv
<1> QED
  BY <1>4, <1>5, <1>6, <1>7, <1>8, <1>9, <1>10, <1>11, <1>12, <1>13, <1>14 DEF ExtensionsInv

-----------------------------------------------------------------------------
(* Steps that leave the connections alone *)

LEMMA Frames ==
    ASSUME ExtensionsInv
    PROVE  /\ UNCHANGED budget => BudgetInv'
           /\ UNCHANGED conn => ConnInv' /\ NumberInv'
           /\ UNCHANGED <<conn, backlog>> => BacklogInv'
           /\ UNCHANGED <<conn, loop, daemon>> => LoopInv'
           /\ UNCHANGED sockets => SocketInv'
           /\ UNCHANGED <<conn, chrome, toHost, host>> => HostInv'
           /\ UNCHANGED <<conn, selector>> => SelectorInv'
           /\ UNCHANGED <<conn, focus, tasks>> => TaskInv'
           /\ UNCHANGED <<conn, chrome, toHost, acked, requests, confirmed>> /\ waiters' \subseteq waiters
                 => PasteInv'
           /\ UNCHANGED <<conn, daemon, context, focus, tasks, ready, overlap>>
                 /\ ("tracker" \in missed <=> "tracker" \in missed') => ContextInv'
           /\ UNCHANGED <<conn, tab, chrome, toHost, host>> => TabInv'
<1>1. UNCHANGED budget => BudgetInv'
  BY DEF ExtensionsInv, BudgetInv
<1>2. UNCHANGED conn => ConnInv' /\ NumberInv'
  BY DEF ExtensionsInv, ConnInv, NumberInv
<1>3. UNCHANGED <<conn, backlog>> => BacklogInv'
  BY DEF ExtensionsInv, BacklogInv
<1>4. UNCHANGED <<conn, loop, daemon>> => LoopInv'
  BY DEF ExtensionsInv, LoopInv
<1>5. UNCHANGED sockets => SocketInv'
  BY DEF ExtensionsInv, SocketInv, sockets
<1>6. UNCHANGED <<conn, chrome, toHost, host>> => HostInv'
  BY DEF ExtensionsInv, HostInv, Has
<1>7. UNCHANGED <<conn, selector>> => SelectorInv'
  BY DEF ExtensionsInv, SelectorInv, Has
<1>8. UNCHANGED <<conn, focus, tasks>> => TaskInv'
  BY DEF ExtensionsInv, TaskInv, Has
<1>9. ASSUME UNCHANGED <<conn, chrome, toHost, acked, requests, confirmed>>, waiters' \subseteq waiters
      PROVE  PasteInv'
  <2>1. Flying' = Flying
    BY <1>9 DEF Flying
  <2> QED
    BY <1>9, <2>1, PasteFrame DEF ExtensionsInv
<1>10. ASSUME UNCHANGED <<conn, daemon, context, focus, tasks, ready, overlap>>,
              "tracker" \in missed <=> "tracker" \in missed'
       PROVE  ContextInv'
  BY <1>10 DEF ExtensionsInv, ContextInv, Pending
<1>11. UNCHANGED <<conn, tab, chrome, toHost, host>> => TabInv'
  BY DEF ExtensionsInv, TabInv
<1> QED
  BY <1>1, <1>2, <1>3, <1>4, <1>5, <1>6, <1>7, <1>8, <1>9, <1>10, <1>11

\* The daemon starts.
LEMMA StartStep ==
    ASSUME ExtensionsInv, Start
    PROVE  ExtensionsInv'
<1>1. /\ UNCHANGED <<budget, conn, backlog, loop, tab, context, sockets, chrome, toHost, host,
                     acked, waiters, requests, confirmed, selector, focus, tasks, overlap, missed>>
      /\ daemon' = "up" /\ ready' = TRUE
  BY DEF Start, pasteVars, chromeVars
<1>2. LoopInv'
  BY <1>1 DEF ExtensionsInv, LoopInv
<1>3. ContextInv'
  BY <1>1 DEF ExtensionsInv, ContextInv
<1> QED
  BY <1>1, <1>2, <1>3, Frames DEF ExtensionsInv

\* A thread pastes.
LEMMA PasteStep ==
    ASSUME ExtensionsInv, NEW w \in waiters, Paste(w)
    PROVE  ExtensionsInv'
<1>1. /\ UNCHANGED <<budget, conn, backlog, loop, daemon, tab, context, sockets, chrome, toHost, host,
                     acked, requests, confirmed, selector, focus, tasks, ready, overlap, missed>>
      /\ waiters' \subseteq waiters
  BY DEF Paste, daemonVars, chromeVars, trackerVars
<1> QED
  BY <1>1, Frames DEF ExtensionsInv

\* Nothing is under way.
LEMMA NothingFlies ==
    ASSUME ~InFlight
    PROVE  Flying = {}
<1>1. chrome.todo = {}
  BY DEF InFlight
<1>2. Numbers(toHost, "focusAck") = {}
  BY DEF InFlight, Numbers, Range
<1>3. ASSUME NEW c \in Conns
      PROVE  Numbers(conn[c].in, "focusAck") = {} /\ Numbers(conn[c].out, "focus") = {}
  BY DEF InFlight, Numbers, Range
<1> QED
  BY <1>1, <1>2, <1>3 DEF Flying

\* The daemon writes, and nothing else happens to connections.
LEMMA LoopConn ==
    ASSUME LoopInv, UNCHANGED <<loop, daemon>>,
           \A c \in Conns : conn[c].st = "open" =>
               /\ conn'[c].st = "open" /\ conn'[c].who = conn[c].who
               /\ conn[c].who \in {"cli", "script"} => conn'[c].in = conn[c].in
    PROVE  LoopInv'
<1>1. CASE loop.at = "reading"
  <2>1. /\ loop.from \in Conns /\ loop.for \in Conns
        /\ conn[loop.from].st = "open" /\ conn[loop.for].st = "open"
        /\ conn[loop.for].in = <<>> /\ conn[loop.for].who \in {"cli", "script"}
    BY <1>1 DEF LoopInv
  <2>2. /\ conn'[loop.from].st = "open" /\ conn'[loop.for].st = "open"
        /\ conn'[loop.for].in = <<>> /\ conn'[loop.for].who \in {"cli", "script"}
    BY <2>1
  <2> QED
    BY <1>1, <2>1, <2>2 DEF LoopInv
<1>2. CASE loop.at # "reading"
  BY <1>2 DEF LoopInv, Select
<1> QED
  BY <1>1, <1>2

\* The paste macro asks for the focus.
LEMMA TriggerStep ==
    ASSUME ExtensionsInv, TriggerChromeChatGPTMacro
    PROVE  ExtensionsInv'
<1> DEFINE m == Command("focus", requests + 1)
<1>1. PasteInv /\ requests \in Nat /\ AllSound(conn) /\ SocketInv /\ LoopInv
  BY DEF ExtensionsInv, PasteInv, ConnInv, AllSound
<1>2. /\ UNCHANGED <<backlog, loop, daemon, tab, context, confirmed, chrome, toHost, host, selector, focus,
                     tasks, ready, overlap, missed, sync, window>>
      /\ UNCHANGED chromeVars
      /\ Spend("pastes") /\ acked' = FALSE /\ requests' = requests + 1
      /\ waiters' = waiters \cup {[n |-> requests + 1, clean |-> ~InFlight]}
      /\ conn' = Written(conn, native, m) /\ native' \in {native, None}
  BY DEF TriggerChromeChatGPTMacro, TriggerChromeChatGPTFocus, daemonVars, chromeVars, trackerVars
<1>3. m \in Messages /\ m.n = requests + 1
  BY <1>1, WritesFacts
<1> HIDE DEF m
<1>e. ASSUME NEW es, es = Written(conn, native, m)
      PROVE  /\ Follows(conn, es, {m})
             /\ \A d \in Conns : /\ es[d].in = conn[d].in /\ es[d].st = conn[d].st
                                 /\ es[d].who = conn[d].who /\ es[d].fd = conn[d].fd
  BY <1>1, <1>3, <1>e, WrittenOne
<1>4. /\ Follows(conn, conn', {m})
      /\ \A d \in Conns : /\ conn'[d].in = conn[d].in /\ conn'[d].st = conn[d].st
                          /\ conn'[d].who = conn[d].who /\ conn'[d].fd = conn[d].fd
  BY <1>2, <1>e
<1>5. BudgetInv'
  BY <1>2, SpendFacts DEF ExtensionsInv
<1>6. SocketInv'
  BY <1>1, <1>2, ConstantFacts DEF SocketInv
<1>7. LoopInv'
  BY <1>1, <1>2, <1>4, LoopConn
<1>8. /\ Calm({m}) /\ ConnInv' /\ NumberInv' /\ BacklogInv' /\ HostInv' /\ SelectorInv' /\ TaskInv'
      /\ \A c \in Conns : Range(conn'[c].in) \subseteq Range(conn[c].in)
  BY <1>2, <1>4, DaemonStep
<1>9. PasteInv'
  <2>1. chrome'.todo \subseteq chrome.todo /\ Range(toHost') \subseteq Range(toHost)
    BY <1>2
  <2>2. \A k \in {m} : k.op = "focus" => k.n \in {requests + 1}
    BY <1>3
  <2>3. Flying' \subseteq Flying \cup {requests + 1}
    BY <1>8, <2>1, <2>2, FlyingFrame
  <2>4. ASSUME NEW w \in waiters'
        PROVE  \/ w \in waiters
               \/ w.n = requests + 1 /\ acked' = FALSE /\ (w.clean => Flying = {})
    <3>1. CASE w \in waiters
      BY <3>1
    <3>2. CASE w = [n |-> requests + 1, clean |-> ~InFlight]
      <4>1. w.n = requests + 1 /\ w.clean = ~InFlight
        BY <3>2
      <4> QED
        BY <1>2, <4>1, NothingFlies
    <3> QED
      BY <1>2, <3>1, <3>2
  <2>5. acked' \in {acked, FALSE}
    BY <1>2
  <2> QED
    BY <1>1, <1>2, <2>3, <2>4, <2>5, PasteRequest
<1>10. ContextInv'
  <2>1. \A c \in Conns : Pending(c) => Pending(c)'
    BY <1>4, SamePending
  <2> QED
    BY <1>2, <1>8, <2>1, ContextFrame DEF ExtensionsInv
<1>11. TabInv'
  <2>1. host'.up => host.up /\ \A d \in Conns : d = host.reads /\ conn'[d].in # <<>> => d = host'.reads
    BY <1>2
  <2> QED
    BY <1>2, <1>8, <2>1, TabFrame DEF ExtensionsInv
<1> QED
  BY <1>5, <1>6, <1>7, <1>8, <1>9, <1>10, <1>11 DEF ExtensionsInv

\* window-selector is about to connect, or enabled again.
LEMMA SelectorIdleStep ==
    ASSUME ExtensionsInv, SelectorTries \/ SelectorEnabled
    PROVE  ExtensionsInv'
<1>1. UNCHANGED <<budget, conn, backlog, loop, daemon, tab, context, sockets, chrome, toHost, host, waiters,
                  acked, requests, confirmed, focus, tasks, ready, overlap, missed>>
  BY DEF SelectorTries, SelectorEnabled, daemonVars, chromeVars, trackerVars, pasteVars
<1>2. SelectorInv'
  <2>1. SelectorInv
    BY DEF ExtensionsInv
  <2>2. selector.at = "idle" /\ selector.conn = None
    BY <2>1 DEF SelectorInv, SelectorTries, SelectorEnabled
  <2>3. /\ selector' \in [running : BOOLEAN, conn : 0 .. MaxConn, at : {"idle", "connecting", "open"}]
        /\ selector'.conn = None /\ selector'.at # "open"
    BY <2>1, <2>2 DEF SelectorInv, SelectorTries, SelectorEnabled
  <2> QED
    BY <2>3 DEF SelectorInv, Has
<1> QED
  BY <1>1, <1>2, Frames DEF ExtensionsInv

\* A report of the tracker begins.
LEMMA NotifyParts ==
    ASSUME ExtensionsInv, NEW w \in Windows, Notify(w), focus' = w, UNCHANGED conn
    PROVE  TaskInv' /\ ContextInv'
<1> DEFINE k == [n |-> Min((1 .. Cardinality(tasks) + 1) \ {t.n : t \in tasks}), win |-> w, conn |-> None]
<1>1. tasks' = tasks \cup {k} /\ overlap' = Reporting /\ TaskInv
  BY DEF Notify, ExtensionsInv
<1>2. DOMAIN k = {"n", "win", "conn"} /\ k.win = w /\ k.conn = None
  OBVIOUS
<1> HIDE DEF k
<1>3. TaskInv'
  <2>1. ASSUME NEW t \in tasks'
        PROVE  /\ DOMAIN t = {"n", "win", "conn"}
               /\ t.win \in Windows /\ t.conn \in 0 .. MaxConn
               /\ Has(t.conn, "tracker")'
    <3>1. CASE t \in tasks
      <4>1. Has(t.conn, "tracker")
        BY <1>1, <3>1 DEF TaskInv
      <4>2. Has(t.conn, "tracker")'
        BY <4>1 DEF Has
      <4> QED
        BY <1>1, <3>1, <4>2 DEF TaskInv
    <3>2. CASE t = k
      BY <1>2, <3>2, ConstantFacts DEF Has
    <3> QED
      BY <1>1, <3>1, <3>2
  <2>2. \A t, u \in tasks' : t.conn = u.conn /\ t.conn # None => t = u
    BY <1>1, <1>2 DEF TaskInv
  <2> QED
    BY <2>1, <2>2 DEF TaskInv
<1>4. ContextInv'
  <2> SUFFICES ASSUME ~overlap'
               PROVE  /\ \A t \in tasks' : t.win = focus'
                      /\ \A c \in Conns : \A m \in Range(conn'[c].in) :
                            m.op = "activeWindowChanged" => m.n = focus'
                      /\ \E t \in tasks' : t.conn = None
    BY DEF ContextInv
  <2>1. tasks = {} /\ \A c \in Conns : ~Pending(c)
    BY <1>1 DEF Reporting
  <2>2. \A c \in Conns : \A m \in Range(conn[c].in) : m.op # "activeWindowChanged"
    BY <2>1, PendingRange
  <2>3. tasks' = {k}
    BY <1>1, <2>1
  <2> QED
    BY <1>2, <2>2, <2>3
<1> QED
  BY <1>3, <1>4

\* Another window gets the focus.
LEMMA FocusChangesStep ==
    ASSUME ExtensionsInv, NEW w \in Windows, FocusChanges(w)
    PROVE  ExtensionsInv'
<1>1. /\ UNCHANGED <<conn, backlog, loop, daemon, tab, context, sockets, chrome, toHost, host, waiters,
                     acked, requests, confirmed, selector, ready>>
      /\ Spend("focuses") /\ Notify(w) /\ focus' = w
  BY DEF FocusChanges, daemonVars, chromeVars, pasteVars
<1>2. BudgetInv'
  BY <1>1, SpendFacts DEF ExtensionsInv
<1>3. TaskInv' /\ ContextInv'
  BY <1>1, NotifyParts
<1> QED
  BY <1>1, <1>2, <1>3, Frames DEF ExtensionsInv

\* The tracker reports the window after the signal Ready.
LEMMA SyncWindowStep ==
    ASSUME ExtensionsInv, SyncWindow
    PROVE  ExtensionsInv'
<1>1. /\ UNCHANGED <<budget, conn, backlog, loop, daemon, tab, context, sockets, chrome, toHost, host, waiters,
                     acked, requests, confirmed, selector, focus>>
      /\ Notify(focus)
  BY DEF SyncWindow, daemonVars, chromeVars, pasteVars
<1>2. focus \in Windows /\ focus' = focus
  BY <1>1 DEF ExtensionsInv, TaskInv
<1>3. TaskInv' /\ ContextInv'
  BY <1>1, <1>2, NotifyParts
<1> QED
  BY <1>1, <1>3, Frames DEF ExtensionsInv

\* A report is given up.
LEMMA TaskGivesUpStep ==
    ASSUME ExtensionsInv, NEW t \in tasks, TaskGivesUp(t)
    PROVE  ExtensionsInv'
<1>1. /\ UNCHANGED <<budget, conn, backlog, loop, daemon, tab, context, sockets, chrome, toHost, host, waiters,
                     acked, requests, confirmed, selector, focus, ready, overlap, missed>>
      /\ tasks' \subseteq tasks /\ daemon = "crashed"
  BY DEF TaskGivesUp, daemonVars, chromeVars, pasteVars
<1>2. TaskInv'
  BY <1>1 DEF ExtensionsInv, TaskInv, Has
<1>3. ContextInv'
  BY <1>1 DEF ExtensionsInv, ContextInv
<1> QED
  BY <1>1, <1>2, <1>3, Frames DEF ExtensionsInv

-----------------------------------------------------------------------------
(* A program closes its end of a connection *)

LEMMA LeftFacts ==
    ASSUME NEW cs, AllSound(cs), NEW c \in Conns, cs[c].st # "unused", NEW ds, ds = Left(cs, c)
    PROVE  /\ ds \in [Conns -> Connections]
           /\ \A d \in Conns : Milder(cs[d], ds[d], {}) /\ ds[d].in = cs[d].in
           /\ \A d \in Conns : d # c => ds[d] = cs[d]
           /\ cs[c].st = "open" => ds[c].st = "open" /\ ds[c].who = cs[c].who
<1> DEFINE x == cs[c]
           y == Departed(x)
           W == {}
<1>1. ds = [cs EXCEPT ![c] = y]
  BY DEF Left, Departed, AllSound
<1>2. Sound(x) /\ x.st # "unused" /\ x = cs[c] /\ y = Departed(x) /\ W = {}
  BY DEF AllSound
<1> HIDE DEF x, y, W
<1>3. /\ Milder(x, y, {}) /\ y.in = x.in
      /\ (x.st = "open" => y.st = "open" /\ y.who = x.who)
  BY <1>2, DepartedFacts
<1>4. Sound(y)
  BY <1>3 DEF Milder
<1>5. ds \in [Conns -> Connections] /\ ds[c] = y /\ \A d \in Conns : d # c => ds[d] = cs[d]
  BY <1>1, <1>4, ReplaceOne
<1>6. ASSUME NEW d \in Conns PROVE Milder(cs[d], ds[d], W) /\ ds[d].in = cs[d].in
  <2>1. CASE d = c
    BY <1>2, <1>3, <1>5, <2>1
  <2>2. CASE d # c
    <3>1. Sound(cs[d]) /\ ds[d] = cs[d]
      BY <1>5, <2>2 DEF AllSound
    <3> QED
      BY <3>1, SameFacts
  <2> QED
    BY <2>1, <2>2
<1> QED
  BY <1>2, <1>3, <1>5, <1>6

\* What a program that leaves does not disturb.
LEMMA LeaveParts ==
    ASSUME ExtensionsInv, NEW c \in Conns, conn[c].who # "none", conn' = Left(conn, c),
           UNCHANGED <<backlog, loop, daemon, sockets, tab, context, acked, waiters, requests, confirmed,
                       focus, ready, overlap, missed>>,
           tasks' \subseteq tasks, \A t \in tasks : t.conn = None => t \in tasks',
           chrome'.todo \subseteq chrome.todo, chrome'.tab = chrome.tab, host'.n = host.n,
           toHost' = toHost \/ toHost' = <<>>,
           host'.up => host.up /\ (host'.reads = host.reads \/ conn[host.reads].in = <<>>)
    PROVE  /\ ConnInv' /\ NumberInv' /\ BacklogInv' /\ LoopInv' /\ SocketInv' /\ PasteInv'
           /\ ContextInv' /\ TabInv'
           /\ \A d \in Conns : d # c => conn'[d] = conn[d]
<1> DEFINE W == {}
<1>1. AllSound(conn) /\ conn[c].st # "unused"
  BY DEF ExtensionsInv, ConnInv, AllSound, Sound
<1>e. ASSUME NEW ds, ds = Left(conn, c)
      PROVE  /\ ds \in [Conns -> Connections]
             /\ \A d \in Conns : Milder(conn[d], ds[d], {}) /\ ds[d].in = conn[d].in
             /\ \A d \in Conns : d # c => ds[d] = conn[d]
             /\ conn[c].st = "open" => ds[c].st = "open" /\ ds[c].who = conn[c].who
  BY <1>1, <1>e, LeftFacts
<1>2. /\ conn' \in [Conns -> Connections]
      /\ \A d \in Conns : Milder(conn[d], conn'[d], W) /\ conn'[d].in = conn[d].in
      /\ \A d \in Conns : d # c => conn'[d] = conn[d]
      /\ conn[c].st = "open" => conn'[c].st = "open" /\ conn'[c].who = conn[c].who
  BY <1>e
<1>3. W = {} /\ \A m \in W : m.op = "focus" => m.n \in W
  OBVIOUS
<1> HIDE DEF W
<1>4. Calm(W)
  BY <1>2 DEF Calm
<1>5. ConnInv' /\ NumberInv' /\ BacklogInv'
  BY <1>4, ConnFrame DEF ExtensionsInv
<1>6. LoopInv'
  <2>1. \A d \in Conns : conn[d].st = "open" =>
            /\ conn'[d].st = "open" /\ conn'[d].who = conn[d].who
            /\ conn[d].who \in {"cli", "script"} => conn'[d].in = conn[d].in
    BY <1>2
  <2> QED
    BY <2>1, LoopConn DEF ExtensionsInv
<1>7. SocketInv'
  BY DEF ExtensionsInv, SocketInv, sockets
<1>8. PasteInv'
  <2>1. Range(toHost') \subseteq Range(toHost)
    BY EmptyFacts
  <2>2. Flying' \subseteq Flying \cup W
    BY <1>3, <1>4, <2>1, FlyingFrame
  <2>3. Flying' \subseteq Flying
    BY <1>3, <2>2
  <2> QED
    BY <2>3, PasteFrame DEF ExtensionsInv
<1>9. ContextInv'
  <2>1. \A d \in Conns : Pending(d) => Pending(d)'
    BY <1>2, SamePending
  <2>2. \A d \in Conns : Range(conn'[d].in) = Range(conn[d].in)
    BY <1>2
  <2> QED
    BY <2>1, <2>2 DEF ContextInv, ExtensionsInv
<1>10. TabInv'
  <2>1. \A d \in Conns : Range(conn'[d].in) \subseteq Range(conn[d].in)
    BY <1>2
  <2>2. host'.up => host.up /\ \A d \in Conns : d = host.reads /\ conn'[d].in # <<>> => d = host'.reads
    BY <1>2
  <2> QED
    BY <2>1, <2>2, TabFrame DEF ExtensionsInv
<1> QED
  BY <1>2, <1>5, <1>6, <1>7, <1>8, <1>9, <1>10

\* Who has a connection; two programs never have the same.
LEMMA HoldersFacts ==
    ASSUME ExtensionsInv
    PROVE  /\ host.reads # None => host.reads \in Conns /\ conn[host.reads].who = "host"
           /\ selector.conn # None => selector.conn \in Conns /\ conn[selector.conn].who = "selector"
           /\ \A t \in tasks : t.conn # None => t.conn \in Conns /\ conn[t.conn].who = "tracker"
<1>1. host.reads # None => host.reads \in Conns /\ conn[host.reads].who = "host"
  BY ConstantFacts DEF ExtensionsInv, HostInv, Has
<1>2. selector.conn # None => selector.conn \in Conns /\ conn[selector.conn].who = "selector"
  BY ConstantFacts DEF ExtensionsInv, SelectorInv, Has
<1>3. \A t \in tasks : t.conn # None => t.conn \in Conns /\ conn[t.conn].who = "tracker"
  BY ConstantFacts DEF ExtensionsInv, TaskInv, Has
<1> QED
  BY <1>1, <1>2, <1>3

\* The holders of the other connections.
LEMMA OthersKeep ==
    ASSUME ExtensionsInv, NEW c, NEW who, who = "none" \/ conn[c].who = who,
           \A d \in Conns : d # c \/ who = "none" => Kept(conn[d], conn'[d])
    PROVE  /\ who # "host" /\ UNCHANGED chromeVars => HostInv'
           /\ who # "selector" /\ UNCHANGED selector => SelectorInv'
           /\ who # "tracker" /\ UNCHANGED <<focus, tasks>> => TaskInv'
<1>1. ASSUME who # "host", UNCHANGED chromeVars PROVE HostInv'
  <2>1. host.reads # None => Kept(conn[host.reads], conn'[host.reads])
    BY <1>1, HoldersFacts
  <2> QED
    BY <1>1, <2>1, HostFrame DEF ExtensionsInv
<1>2. ASSUME who # "selector", UNCHANGED selector PROVE SelectorInv'
  <2>1. selector.conn # None => Kept(conn[selector.conn], conn'[selector.conn])
    BY <1>2, HoldersFacts
  <2> QED
    BY <1>2, <2>1, SelectorFrame DEF ExtensionsInv
<1>3. ASSUME who # "tracker", UNCHANGED <<focus, tasks>> PROVE TaskInv'
  <2>1. \A t \in tasks' : t.conn # None => Kept(conn[t.conn], conn'[t.conn])
    BY <1>3, HoldersFacts
  <2> QED
    BY <1>3, <2>1, TaskFrame DEF ExtensionsInv
<1> QED
  BY <1>1, <1>2, <1>3

\* The native host ends.
LEMMA HostEndsStep ==
    ASSUME ExtensionsInv, HostEnds
    PROVE  ExtensionsInv'
<1>1. /\ UNCHANGED <<backlog, loop, daemon, sockets, tab, context, acked, waiters, requests, confirmed,
                     selector, focus, tasks, ready, overlap, missed>>
      /\ Spend("ends") /\ host.up /\ toHost' = <<>>
      /\ host' = [host EXCEPT !.up = FALSE, !.sock = None, !.reads = None]
      /\ conn' = IF host.reads = None THEN conn ELSE Left(conn, host.reads)
  BY DEF HostEnds, daemonVars, pasteVars, trackerVars
<1>2. \E todo \in {chrome.todo, {}} : chrome' = [chrome EXCEPT !.port = FALSE, !.todo = todo]
  BY DEF HostEnds
<1>3. HostInv
  BY DEF ExtensionsInv
<1>4. /\ chrome' \in [port : BOOLEAN, tab : Nat, todo : SUBSET Nat] /\ chrome'.port = FALSE
      /\ chrome'.tab = chrome.tab /\ chrome'.todo \subseteq chrome.todo
  <2>1. PICK todo \in {chrome.todo, {}} : chrome' = [chrome EXCEPT !.port = FALSE, !.todo = todo]
    BY <1>2
  <2>2. chrome \in [port : BOOLEAN, tab : Nat, todo : SUBSET Nat]
    BY <1>3 DEF HostInv
  <2>3. todo \subseteq chrome.todo /\ todo \in SUBSET Nat
    BY <2>2
  <2> QED
    BY <2>1, <2>2, <2>3
<1>5. /\ host' \in [up : BOOLEAN, n : Nat, sock : 0 .. MaxConn, reads : 0 .. MaxConn,
                    main : {"read", "stuck"}]
      /\ host'.up = FALSE /\ host'.sock = None /\ host'.reads = None /\ host'.n = host.n
  BY <1>1, <1>3, ConstantFacts DEF HostInv
<1>6. HostInv'
  BY <1>1, <1>4, <1>5, EmptyFacts DEF HostInv, Has
<1>7. BudgetInv'
  BY <1>1, SpendFacts DEF ExtensionsInv
<1>8. CASE host.reads # None
  <2> DEFINE c == host.reads
             who == "host"
  <2>1. c \in Conns /\ conn[c].who = who /\ who = "host"
    BY <1>8, HoldersFacts
  <2>2. conn' = Left(conn, c)
    BY <1>1, <1>8
  <2> HIDE DEF c, who
  <2>3. /\ tasks' \subseteq tasks /\ \A t \in tasks : t.conn = None => t \in tasks'
    BY <1>1
  <2>4. /\ ConnInv' /\ NumberInv' /\ BacklogInv' /\ LoopInv' /\ SocketInv' /\ PasteInv'
        /\ ContextInv' /\ TabInv'
        /\ \A d \in Conns : d # c => conn'[d] = conn[d]
    BY <1>1, <1>4, <1>5, <2>1, <2>2, <2>3, LeaveParts
  <2>5. \A d \in Conns : d # c \/ who = "none" => Kept(conn[d], conn'[d])
    BY <2>1, <2>4 DEF Kept
  <2>6. SelectorInv' /\ TaskInv'
    BY <1>1, <2>1, <2>5, OthersKeep
  <2> QED
    BY <1>6, <1>7, <2>4, <2>6 DEF ExtensionsInv
<1>9. CASE host.reads = None
  <2> DEFINE W == {}
  <2>1. UNCHANGED conn
    BY <1>1, <1>9
  <2>2. W = {} /\ \A m \in W : m.op = "focus" => m.n \in W
    OBVIOUS
  <2> HIDE DEF W
  <2>3. Calm(W)
    BY <2>1, StillCalm DEF ExtensionsInv
  <2>4. PasteInv'
    <3>1. Range(toHost') \subseteq Range(toHost)
      BY <1>1, EmptyFacts
    <3>2. Flying' \subseteq Flying \cup W
      BY <1>4, <2>2, <2>3, <3>1, FlyingFrame
    <3>3. Flying' \subseteq Flying
      BY <2>2, <3>2
    <3> QED
      BY <1>1, <3>3, PasteFrame DEF ExtensionsInv
  <2>5. TabInv'
    <3>1. \A d \in Conns : Range(conn'[d].in) \subseteq Range(conn[d].in)
      BY <2>1
    <3> QED
      BY <1>1, <1>4, <1>5, <3>1, TabFrame DEF ExtensionsInv
  <2> QED
    BY <1>1, <1>6, <1>7, <2>1, <2>4, <2>5, Frames DEF ExtensionsInv
<1> QED
  BY <1>8, <1>9

\* The listener of the native host sees the end of its connection.
LEMMA ListenerEndsStep ==
    ASSUME ExtensionsInv, ListenerEnds
    PROVE  ExtensionsInv'
<1> DEFINE c == host.reads
           who == "host"
<1>1. /\ UNCHANGED <<backlog, loop, daemon, sockets, tab, context, acked, waiters, requests, confirmed,
                     selector, focus, tasks, ready, overlap, missed, chrome, toHost, budget>>
      /\ host.up /\ host' = [host EXCEPT !.sock = None, !.reads = None]
      /\ c # None /\ conn' = Left(conn, c) /\ conn[c].st = "shut"
  BY DEF ListenerEnds, Ended, daemonVars, pasteVars, trackerVars
<1>2. c \in Conns /\ conn[c].who = who /\ who = "host" /\ c = host.reads
  BY <1>1, HoldersFacts
<1>3. HostInv
  BY DEF ExtensionsInv
<1> HIDE DEF c, who
<1>4. conn[c].in = <<>>
  BY <1>1, <1>2 DEF ExtensionsInv, ConnInv, Sound
<1>5. /\ host' \in [up : BOOLEAN, n : Nat, sock : 0 .. MaxConn, reads : 0 .. MaxConn,
                    main : {"read", "stuck"}]
      /\ host'.up = host.up /\ host'.sock = None /\ host'.reads = None /\ host'.n = host.n
  BY <1>1, <1>3, ConstantFacts DEF HostInv
<1>6. HostInv'
  BY <1>1, <1>3, <1>5 DEF HostInv, Has
<1>7. /\ tasks' \subseteq tasks /\ (\A t \in tasks : t.conn = None => t \in tasks')
      /\ chrome'.todo \subseteq chrome.todo
  BY <1>1
<1>8. /\ ConnInv' /\ NumberInv' /\ BacklogInv' /\ LoopInv' /\ SocketInv' /\ PasteInv'
      /\ ContextInv' /\ TabInv'
      /\ \A d \in Conns : d # c => conn'[d] = conn[d]
  BY <1>1, <1>2, <1>4, <1>5, <1>7, LeaveParts
<1>9. \A d \in Conns : d # c \/ who = "none" => Kept(conn[d], conn'[d])
  BY <1>2, <1>8 DEF Kept
<1>10. SelectorInv' /\ TaskInv'
  BY <1>1, <1>2, <1>9, OthersKeep
<1> QED
  BY <1>1, <1>6, <1>8, <1>10, Frames DEF ExtensionsInv

\* window-selector leaves its connection.
LEMMA SelectorLeaves ==
    ASSUME ExtensionsInv, selector.at = "open", conn' = Left(conn, selector.conn),
           selector' \in [running : BOOLEAN, conn : {None}, at : {"idle"}], BudgetInv',
           UNCHANGED <<backlog, loop, daemon, sockets, tab, context, acked, waiters, requests, confirmed,
                       chromeVars, focus, tasks, ready, overlap, missed>>
    PROVE  ExtensionsInv'
<1> DEFINE c == selector.conn
           who == "selector"
<1>1. c # None /\ conn' = Left(conn, c)
  BY DEF ExtensionsInv, SelectorInv
<1>2. c \in Conns /\ conn[c].who = who /\ who = "selector"
  BY <1>1, HoldersFacts
<1> HIDE DEF c, who
<1>3. SelectorInv'
  BY ConstantFacts DEF SelectorInv, Has
<1>4. /\ tasks' \subseteq tasks /\ (\A t \in tasks : t.conn = None => t \in tasks')
      /\ chrome' = chrome /\ host' = host /\ toHost' = toHost
  BY DEF chromeVars
<1>5. chrome'.todo \subseteq chrome.todo /\ chrome'.tab = chrome.tab /\ host'.n = host.n
      /\ host'.reads = host.reads /\ host'.up = host.up
  BY <1>4
<1>6. /\ ConnInv' /\ NumberInv' /\ BacklogInv' /\ LoopInv' /\ SocketInv' /\ PasteInv'
      /\ ContextInv' /\ TabInv'
      /\ \A d \in Conns : d # c => conn'[d] = conn[d]
  BY <1>1, <1>2, <1>4, <1>5, LeaveParts
<1>7. \A d \in Conns : d # c \/ who = "none" => Kept(conn[d], conn'[d])
  BY <1>2, <1>6 DEF Kept
<1>8. HostInv' /\ TaskInv'
  BY <1>2, <1>7, OthersKeep
<1> QED
  BY <1>3, <1>6, <1>8 DEF ExtensionsInv

\* window-selector sees the end of its connection.
LEMMA SelectorEndsStep ==
    ASSUME ExtensionsInv, SelectorEnds
    PROVE  ExtensionsInv'
<1>1. /\ UNCHANGED <<backlog, loop, daemon, sockets, tab, context, acked, waiters, requests, confirmed,
                     chromeVars, focus, tasks, ready, overlap, missed, budget>>
      /\ selector.at = "open" /\ conn' = Left(conn, selector.conn)
      /\ selector' = [selector EXCEPT !.conn = None, !.at = "idle"]
  BY DEF SelectorEnds, daemonVars, pasteVars, trackerVars
<1>2. selector' \in [running : BOOLEAN, conn : {None}, at : {"idle"}]
  BY <1>1 DEF ExtensionsInv, SelectorInv
<1>3. BudgetInv'
  BY <1>1, Frames
<1> QED
  BY <1>1, <1>2, <1>3, SelectorLeaves

\* window-selector is disabled.
LEMMA SelectorDisabledStep ==
    ASSUME ExtensionsInv, SelectorDisabled
    PROVE  ExtensionsInv'
<1>1. /\ UNCHANGED <<backlog, loop, daemon, sockets, tab, context, acked, waiters, requests, confirmed,
                     chromeVars, focus, tasks, ready, overlap, missed>>
      /\ Spend("disables")
  BY DEF SelectorDisabled, daemonVars, pasteVars, trackerVars
<1>2. BudgetInv'
  BY <1>1, SpendFacts DEF ExtensionsInv
<1>3. CASE selector.at = "open"
  <2>1. conn' = Left(conn, selector.conn) /\ selector' = [running |-> FALSE, conn |-> None, at |-> "idle"]
    BY <1>3 DEF SelectorDisabled
  <2>2. selector' \in [running : BOOLEAN, conn : {None}, at : {"idle"}]
    BY <2>1
  <2> QED
    BY <1>1, <1>2, <1>3, <2>1, <2>2, SelectorLeaves
<1>4. CASE selector.at # "open"
  <2>1. UNCHANGED conn /\ selector' = [selector EXCEPT !.running = FALSE]
    BY <1>4 DEF SelectorDisabled
  <2>2. SelectorInv
    BY DEF ExtensionsInv
  <2>3. /\ selector' \in [running : BOOLEAN, conn : 0 .. MaxConn, at : {"idle", "connecting", "open"}]
        /\ selector'.conn = selector.conn /\ selector'.at = selector.at
    BY <2>1, <2>2 DEF SelectorInv
  <2>4. SelectorInv'
    BY <2>1, <2>2, <2>3 DEF SelectorInv, Has
  <2> QED
    BY <1>1, <1>2, <2>1, <2>4, Frames DEF ExtensionsInv, chromeVars
<1> QED
  BY <1>3, <1>4

\* A report of the tracker ends.
LEMMA TaskEndsStep ==
    ASSUME ExtensionsInv, NEW t \in tasks, TaskEnds(t)
    PROVE  ExtensionsInv'
<1> DEFINE c == t.conn
           who == "tracker"
<1>1. /\ UNCHANGED <<backlog, loop, daemon, sockets, tab, context, acked, waiters, requests, confirmed,
                     chromeVars, selector, focus, ready, overlap, missed, budget>>
      /\ c # None /\ conn' = Left(conn, c) /\ tasks' = tasks \ {t}
  BY DEF TaskEnds, daemonVars, pasteVars
<1>2. c \in Conns /\ conn[c].who = who /\ who = "tracker" /\ c = t.conn
  BY <1>1, HoldersFacts
<1> HIDE DEF c, who
<1>4. /\ tasks' \subseteq tasks /\ (\A u \in tasks : u.conn = None => u \in tasks')
      /\ chrome' = chrome /\ host' = host /\ toHost' = toHost
  BY <1>1, <1>2 DEF chromeVars
<1>5. chrome'.todo \subseteq chrome.todo /\ chrome'.tab = chrome.tab /\ host'.n = host.n
      /\ host'.reads = host.reads /\ host'.up = host.up
  BY <1>4
<1>6. /\ ConnInv' /\ NumberInv' /\ BacklogInv' /\ LoopInv' /\ SocketInv' /\ PasteInv'
      /\ ContextInv' /\ TabInv'
      /\ \A d \in Conns : d # c => conn'[d] = conn[d]
  BY <1>1, <1>2, <1>4, <1>5, LeaveParts
<1>7. \A d \in Conns : d # c \/ who = "none" => Kept(conn[d], conn'[d])
  BY <1>2, <1>6 DEF Kept
<1>8. HostInv' /\ SelectorInv'
  BY <1>1, <1>2, <1>7, OthersKeep
<1>9. TaskInv'
  <2>1. \A u \in tasks' : u.conn # None => u.conn \in Conns /\ u.conn # c
    BY <1>1, <1>2, HoldersFacts DEF ExtensionsInv, TaskInv
  <2>2. \A u \in tasks' : u.conn # None => Kept(conn[u.conn], conn'[u.conn])
    BY <1>6, <2>1 DEF Kept
  <2> QED
    BY <1>1, <1>4, <2>2, TaskFrame DEF ExtensionsInv
<1>10. BudgetInv'
  BY <1>1, Frames
<1> QED
  BY <1>6, <1>8, <1>9, <1>10 DEF ExtensionsInv

\* A program that sent one command ends.
LEMMA ToolEndsStep ==
    ASSUME ExtensionsInv, NEW c \in Conns, ToolEnds(c)
    PROVE  ExtensionsInv'
<1>1. /\ UNCHANGED <<backlog, loop, daemon, sockets, tab, context, acked, waiters, requests, confirmed,
                     chromeVars, selector, focus, tasks, ready, overlap, missed, budget>>
      /\ conn' = Left(conn, c) /\ conn[c].who \in {"cli", "script"}
  BY DEF ToolEnds, daemonVars, pasteVars, trackerVars
<1>2. PICK who \in {"cli", "script"} : conn[c].who = who
  BY <1>1
<1>4. /\ tasks' \subseteq tasks /\ (\A u \in tasks : u.conn = None => u \in tasks')
      /\ chrome' = chrome /\ host' = host /\ toHost' = toHost
  BY <1>1 DEF chromeVars
<1>5. chrome'.todo \subseteq chrome.todo /\ chrome'.tab = chrome.tab /\ host'.n = host.n
      /\ host'.reads = host.reads /\ host'.up = host.up
  BY <1>4
<1>6. /\ ConnInv' /\ NumberInv' /\ BacklogInv' /\ LoopInv' /\ SocketInv' /\ PasteInv'
      /\ ContextInv' /\ TabInv'
      /\ \A d \in Conns : d # c => conn'[d] = conn[d]
  BY <1>1, <1>2, <1>4, <1>5, LeaveParts
<1>7. \A d \in Conns : d # c \/ who = "none" => Kept(conn[d], conn'[d])
  BY <1>2, <1>6 DEF Kept
<1>8. HostInv' /\ SelectorInv' /\ TaskInv'
  BY <1>1, <1>2, <1>7, OthersKeep
<1>9. BudgetInv'
  BY <1>1, Frames
<1> QED
  BY <1>6, <1>8, <1>9 DEF ExtensionsInv

-----------------------------------------------------------------------------
(* A program connects *)

\* A place for a connection.
LEMMA FreePlace ==
    ASSUME ConnInv, FreeConns(conn) # {}
    PROVE  Min(FreeConns(conn)) \in Conns /\ conn[Min(FreeConns(conn))].st = "unused"
<1> DEFINE S == FreeConns(conn)
<1>1. S \subseteq Nat /\ S # {}
  BY DEF FreeConns, Conns
<1>2. Min(S) \in S
  <2> HIDE DEF S
  <2> QED
    BY <1>1, MinIsLeast
<1> QED
  BY <1>2 DEF FreeConns

\* The new connection is the last that accept() will return.
LEMMA BacklogGrows ==
    ASSUME BacklogInv, NEW c \in Conns, conn[c].st # "backlog", conn'[c].st = "backlog",
           \A d \in Conns : d # c => conn'[d] = conn[d], backlog' = Append(backlog, c)
    PROVE  BacklogInv'
<1>1. backlog \in Seq(Conns) /\ c \notin Range(backlog) /\ Len(backlog) \in Nat
  BY DEF BacklogInv
<1>2. /\ backlog' \in Seq(Conns) /\ Len(backlog') = Len(backlog) + 1 /\ backlog'[Len(backlog) + 1] = c
      /\ \A i \in 1 .. Len(backlog) : backlog'[i] = backlog[i]
  BY <1>1, AppendFacts
<1>3. Range(backlog') = Range(backlog) \cup {c}
  BY <1>1, AppendRange
<1>4. \A d \in Conns : d \in Range(backlog') <=> conn'[d].st = "backlog"
  BY <1>3 DEF BacklogInv
<1>5. ASSUME NEW i \in DOMAIN backlog', NEW j \in DOMAIN backlog', backlog'[i] = backlog'[j] PROVE i = j
  <2>1. /\ i \in 1 .. Len(backlog) \/ i = Len(backlog) + 1
        /\ j \in 1 .. Len(backlog) \/ j = Len(backlog) + 1
    BY <1>1, <1>2
  <2>2. \A k \in 1 .. Len(backlog) : k \in DOMAIN backlog /\ backlog'[k] = backlog[k] /\ backlog[k] # c
    BY <1>1, <1>2 DEF Range
  <2>3. CASE i \in 1 .. Len(backlog) /\ j \in 1 .. Len(backlog)
    <3>1. backlog[i] = backlog[j] /\ i \in DOMAIN backlog /\ j \in DOMAIN backlog
      BY <1>5, <2>2, <2>3
    <3> QED
      BY <3>1 DEF BacklogInv
  <2>4. CASE i \in 1 .. Len(backlog) /\ j = Len(backlog) + 1
    BY <1>2, <1>5, <2>2, <2>4
  <2>5. CASE i = Len(backlog) + 1 /\ j \in 1 .. Len(backlog)
    BY <1>2, <1>5, <2>2, <2>5
  <2> QED
    BY <2>1, <2>3, <2>4, <2>5
<1> QED
  BY <1>2, <1>4, <1>5 DEF BacklogInv

Joined(c, who, m) ==
    /\ c \in Conns /\ c \in 0 .. MaxConn /\ c # None /\ conn[c].who = "none"
    /\ ConnInv' /\ NumberInv' /\ BacklogInv' /\ LoopInv' /\ SocketInv' /\ PasteInv' /\ TabInv'
    /\ conn'[c].who = who /\ conn'[c].open /\ Range(conn'[c].in) = {m}
    /\ \A d \in Conns : Kept(conn[d], conn'[d])
    /\ \A d \in Conns : d # c => conn'[d] = conn[d]
    /\ \A d \in Conns : Range(conn[d].in) \subseteq Range(conn'[d].in)

\* What connect() and the first line do.
LEMMA ConnectParts ==
    ASSUME ExtensionsInv, NEW who \in Holders, who # "none", NEW m \in Messages, m.op \in OpsOf(who),
           m.op \notin {"setActiveTabUrl", "focusAck"}, MayConnect,
           NEW c, c = Min(FreeConns(conn)), conn' = Connected(who, m), backlog' = Append(backlog, c),
           UNCHANGED <<loop, daemon, sockets, tab, acked, waiters, requests, confirmed, chrome, toHost>>,
           host'.n = host.n, host'.up = host.up, host'.reads = host.reads \/ host.reads = None
    PROVE  Joined(c, who, m)
<1> DEFINE y == Fresh(who, m)
<1>1. c \in Conns /\ conn[c].st = "unused" /\ AllSound(conn) /\ c \in 0 .. MaxConn /\ c # None
  <2>1. c \in Conns /\ conn[c].st = "unused"
    BY FreePlace DEF ExtensionsInv, MayConnect
  <2> QED
    BY <2>1, ConstantFacts DEF ExtensionsInv, ConnInv, AllSound
<1>2. /\ Sound(conn[c]) /\ ~conn[c].open /\ conn[c].in = <<>> /\ conn[c].who = "none"
  BY <1>1 DEF AllSound, Sound
<1>3. /\ Sound(y) /\ y.who = who /\ y.st = "backlog" /\ y.fd = None /\ y.open = TRUE
      /\ Range(y.in) = {m} /\ Range(y.out) = {}
  <2>1. y = Fresh(who, m)
    OBVIOUS
  <2> HIDE DEF y
  <2>2. IsFresh(y, who, m)
    BY <2>1, NewFacts
  <2> QED
    BY <2>2 DEF IsFresh
<1>4. conn' = [conn EXCEPT ![c] = y]
  BY DEF Connected, Fresh
<1> HIDE DEF y
<1>5. conn' \in [Conns -> Connections] /\ conn'[c] = y /\ \A d \in Conns : d # c => conn'[d] = conn[d]
  BY <1>1, <1>3, <1>4, ReplaceOne
<1>6. ConnInv'
  BY <1>1, <1>3, <1>5 DEF ConnInv, AllSound
<1>7. NumberInv'
  <2>1. \A d \in Conns : conn'[d].fd = (IF d = c THEN None ELSE conn[d].fd)
    BY <1>3, <1>5
  <2> QED
    BY <2>1 DEF NumberInv, ExtensionsInv
<1>8. BacklogInv'
  BY <1>1, <1>3, <1>5, BacklogGrows DEF ExtensionsInv
<1>9. LoopInv'
  <2>1. \A d \in Conns : conn[d].st = "open" =>
            /\ conn'[d].st = "open" /\ conn'[d].who = conn[d].who
            /\ conn[d].who \in {"cli", "script"} => conn'[d].in = conn[d].in
    BY <1>1, <1>5
  <2> QED
    BY <2>1, LoopConn DEF ExtensionsInv
<1>10. SocketInv'
  BY DEF ExtensionsInv, SocketInv, sockets
<1>11. ASSUME NEW d \in Conns
       PROVE  /\ Kept(conn[d], conn'[d]) /\ Range(conn[d].in) \subseteq Range(conn'[d].in)
              /\ Numbers(conn'[d].in, "focusAck") \subseteq Numbers(conn[d].in, "focusAck")
              /\ Numbers(conn'[d].out, "focus") \subseteq Numbers(conn[d].out, "focus")
              /\ UrlsOf(conn'[d].in) \subseteq UrlsOf(conn[d].in)
  <2>1. CASE d # c
    BY <1>5, <2>1 DEF Kept
  <2>2. CASE d = c
    <3>1. /\ Numbers(y.in, "focusAck") = {} /\ Numbers(y.out, "focus") = {} /\ UrlsOf(y.in) = {}
      BY <1>3 DEF Numbers, UrlsOf
    <3> QED
      BY <1>2, <1>5, <2>2, <3>1, EmptyFacts DEF Kept
  <2> QED
    BY <2>1, <2>2
<1>12. PasteInv'
  <2>1. Flying' \subseteq Flying
    BY <1>11 DEF Flying
  <2> QED
    BY <2>1, PasteFrame DEF ExtensionsInv
<1>13. TabInv'
  <2>1. host'.up => host.up /\ \A d \in Conns : d = host.reads /\ conn'[d].in # <<>> => d = host'.reads
    BY ConstantFacts
  <2> QED
    BY <1>11, <2>1, TabLines DEF ExtensionsInv
<1> QED
  BY <1>1, <1>2, <1>3, <1>5, <1>6, <1>7, <1>8, <1>9, <1>10, <1>11, <1>12, <1>13 DEF Joined

\* A first line that reports no window.
LEMMA ConnectContext ==
    ASSUME ContextInv, NEW c \in Conns, NEW m, m.op # "activeWindowChanged",
           Range(conn'[c].in) = {m}, \A d \in Conns : d # c => conn'[d] = conn[d],
           \A d \in Conns : Range(conn[d].in) \subseteq Range(conn'[d].in),
           UNCHANGED <<tasks, focus, overlap, ready, daemon, context>>,
           "tracker" \in missed <=> "tracker" \in missed'
    PROVE  ContextInv'
<1>1. \A d \in Conns : Pending(d) => Pending(d)'
  BY PendingRange
<1>2. \A d \in Conns : \A k \in Range(conn'[d].in) : k \in Range(conn[d].in) \/ k = m
  OBVIOUS
<1> QED
  BY <1>1, <1>2 DEF ContextInv

\* The native host connects.
LEMMA ListenerConnectsStep ==
    ASSUME ExtensionsInv, ListenerConnects
    PROVE  ExtensionsInv'
<1> DEFINE c == Min(FreeConns(conn))
           m == Register
           who == "host"
<1>1. /\ UNCHANGED <<budget, loop, daemon, sockets, tab, context, acked, waiters, requests, confirmed,
                     chrome, toHost, selector, focus, tasks, ready, overlap>>
      /\ MayConnect /\ conn' = Connected(who, m) /\ backlog' = Append(backlog, c)
      /\ host.up /\ host.reads = None /\ host' = [host EXCEPT !.sock = c, !.reads = c]
      /\ missed' = missed \ {"host"}
  BY DEF ListenerConnects, daemonVars, pasteVars
<1>2. /\ who \in Holders /\ who # "none" /\ who = "host"
      /\ c = Min(FreeConns(conn))
  BY DEF Holders
<1>3. m \in Messages /\ m.op \in OpsOf(who) /\ m.op = "registerNativeHost"
  BY OpsFacts, CommandFacts DEF Register
<1>4. HostInv
  BY DEF ExtensionsInv
<1> HIDE DEF c, m, who
<1>5. host'.n = host.n /\ host'.up = host.up
  BY <1>1, <1>4 DEF HostInv
<1>6. /\ c \in Conns /\ c \in 0 .. MaxConn /\ c # None
      /\ ConnInv' /\ NumberInv' /\ BacklogInv' /\ LoopInv' /\ SocketInv' /\ PasteInv' /\ TabInv'
      /\ conn'[c].who = who /\ conn'[c].open /\ Range(conn'[c].in) = {m}
      /\ \A d \in Conns : Kept(conn[d], conn'[d])
      /\ \A d \in Conns : d # c => conn'[d] = conn[d]
      /\ \A d \in Conns : Range(conn[d].in) \subseteq Range(conn'[d].in)
  <2>1. Joined(c, who, m)
    BY <1>1, <1>2, <1>3, <1>5, ConnectParts
  <2> QED
    BY <2>1 DEF Joined
<1>7. HostInv'
  <2>1. /\ host' \in [up : BOOLEAN, n : Nat, sock : 0 .. MaxConn, reads : 0 .. MaxConn,
                      main : {"read", "stuck"}]
        /\ host'.sock = c /\ host'.reads = c
    BY <1>1, <1>4, <1>6 DEF HostInv
  <2>2. Has(host.reads, "host")'
    BY <1>2, <1>6, <2>1 DEF Has
  <2> QED
    BY <1>1, <1>4, <1>5, <2>1, <2>2 DEF HostInv
<1>8. SelectorInv' /\ TaskInv'
  <2> DEFINE w == "none"
  <2>1. w = "none"
    OBVIOUS
  <2> HIDE DEF w
  <2> QED
    BY <1>1, <1>6, <2>1, OthersKeep
<1>9. ContextInv'
  <2>1. "tracker" \in missed <=> "tracker" \in missed'
    BY <1>1
  <2> QED
    BY <1>1, <1>3, <1>6, <2>1, ConnectContext DEF ExtensionsInv
<1>10. BudgetInv'
  BY <1>1, Frames
<1> QED
  BY <1>6, <1>7, <1>8, <1>9, <1>10 DEF ExtensionsInv

\* window-selector connects.
LEMMA SelectorConnectsStep ==
    ASSUME ExtensionsInv, SelectorConnects
    PROVE  ExtensionsInv'
<1> DEFINE c == Min(FreeConns(conn))
           m == Command("registerWindowExtension", 0)
           who == "selector"
<1>1. /\ UNCHANGED <<budget, loop, daemon, sockets, tab, context, acked, waiters, requests, confirmed,
                     chrome, toHost, host, focus, tasks, ready, overlap, missed>>
      /\ MayConnect /\ conn' = Connected(who, m) /\ backlog' = Append(backlog, c)
      /\ selector.at = "connecting"
      /\ selector' = IF selector.running THEN [selector EXCEPT !.conn = c, !.at = "open"]
                     ELSE [selector EXCEPT !.at = "idle"]
  BY DEF SelectorConnects, daemonVars, pasteVars, chromeVars, trackerVars
<1>2. /\ who \in Holders /\ who # "none" /\ who = "selector"
      /\ c = Min(FreeConns(conn))
  BY DEF Holders
<1>3. m \in Messages /\ m.op \in OpsOf(who) /\ m.op = "registerWindowExtension"
  BY OpsFacts, CommandFacts
<1>4. SelectorInv
  BY DEF ExtensionsInv
<1> HIDE DEF c, m, who
<1>6. /\ c \in Conns /\ c \in 0 .. MaxConn /\ c # None
      /\ ConnInv' /\ NumberInv' /\ BacklogInv' /\ LoopInv' /\ SocketInv' /\ PasteInv' /\ TabInv'
      /\ conn'[c].who = who /\ conn'[c].open /\ Range(conn'[c].in) = {m}
      /\ \A d \in Conns : Kept(conn[d], conn'[d])
      /\ \A d \in Conns : d # c => conn'[d] = conn[d]
      /\ \A d \in Conns : Range(conn[d].in) \subseteq Range(conn'[d].in)
  <2>1. Joined(c, who, m)
    BY <1>1, <1>2, <1>3, ConnectParts
  <2> QED
    BY <2>1 DEF Joined
<1>7. SelectorInv'
  <2>1. CASE selector.running
    <3>1. /\ selector' \in [running : BOOLEAN, conn : 0 .. MaxConn, at : {"idle", "connecting", "open"}]
          /\ selector'.conn = c /\ selector'.at = "open"
      BY <1>1, <1>4, <1>6, <2>1 DEF SelectorInv
    <3>2. Has(selector.conn, "selector")'
      BY <1>2, <1>6, <3>1 DEF Has
    <3> QED
      BY <1>6, <3>1, <3>2 DEF SelectorInv
  <2>2. CASE ~selector.running
    <3>1. /\ selector' \in [running : BOOLEAN, conn : 0 .. MaxConn, at : {"idle", "connecting", "open"}]
          /\ selector'.conn = None /\ selector'.at = "idle"
      BY <1>1, <1>4, <2>2 DEF SelectorInv
    <3> QED
      BY <3>1 DEF SelectorInv, Has
  <2> QED
    BY <2>1, <2>2
<1>8. HostInv' /\ TaskInv'
  <2> DEFINE w == "none"
  <2>1. w = "none" /\ UNCHANGED chromeVars
    BY <1>1 DEF chromeVars
  <2> HIDE DEF w
  <2> QED
    BY <1>1, <1>6, <2>1, OthersKeep
<1>9. ContextInv'
  BY <1>1, <1>3, <1>6, ConnectContext DEF ExtensionsInv
<1>10. BudgetInv'
  BY <1>1, Frames
<1> QED
  BY <1>6, <1>7, <1>8, <1>9, <1>10 DEF ExtensionsInv

\* A program sends its one command.
LEMMA ToolStartsStep ==
    ASSUME ExtensionsInv, NEW t \in budget.tools, ToolStarts(t)
    PROVE  ExtensionsInv'
<1> DEFINE c == Min(FreeConns(conn))
           m == Command(t.op, 0)
           who == t.who
<1>1. /\ UNCHANGED <<loop, daemon, sockets, tab, context, acked, waiters, requests, confirmed,
                     chrome, toHost, host, selector, focus, tasks, ready, overlap, missed>>
      /\ MayConnect /\ conn' = Connected(who, m) /\ backlog' = Append(backlog, c)
      /\ budget' = [budget EXCEPT !.tools = @ \ {t}]
  BY DEF ToolStarts, daemonVars, pasteVars, chromeVars, trackerVars
<1>2. /\ who \in {"cli", "script"} /\ t.op \in {"focusChatGPT", "shouldLog", "listWindows"}
  BY DEF ExtensionsInv, BudgetInv, Tools
<1>3. m \in Messages /\ m.op = t.op
  <2>1. t.op \in Ops
    BY <1>2, OpsFacts
  <2> QED
    BY <2>1, CommandFacts
<1>4. c = Min(FreeConns(conn))
  OBVIOUS
<1> HIDE DEF c, m, who
<1>5. /\ who \in Holders /\ who # "none" /\ m.op \in OpsOf(who)
      /\ m.op \notin {"setActiveTabUrl", "focusAck", "activeWindowChanged"}
  BY <1>2, <1>3, OpsFacts DEF Holders
<1>6. /\ c \in Conns
      /\ ConnInv' /\ NumberInv' /\ BacklogInv' /\ LoopInv' /\ SocketInv' /\ PasteInv' /\ TabInv'
      /\ Range(conn'[c].in) = {m}
      /\ \A d \in Conns : Kept(conn[d], conn'[d])
      /\ \A d \in Conns : d # c => conn'[d] = conn[d]
      /\ \A d \in Conns : Range(conn[d].in) \subseteq Range(conn'[d].in)
  <2>1. Joined(c, who, m)
    BY <1>1, <1>3, <1>4, <1>5, ConnectParts
  <2> QED
    BY <2>1 DEF Joined
<1>7. HostInv' /\ SelectorInv' /\ TaskInv'
  <2> DEFINE w == "none"
  <2>1. w = "none" /\ UNCHANGED chromeVars
    BY <1>1 DEF chromeVars
  <2> HIDE DEF w
  <2> QED
    BY <1>1, <1>6, <2>1, OthersKeep
<1>8. ContextInv'
  BY <1>1, <1>5, <1>6, ConnectContext DEF ExtensionsInv
<1>9. BudgetInv'
  BY <1>1 DEF ExtensionsInv, BudgetInv
<1> QED
  BY <1>6, <1>7, <1>8, <1>9 DEF ExtensionsInv

\* A report of the tracker gets its connection.
LEMMA TaskConnectsStep ==
    ASSUME ExtensionsInv, NEW t \in tasks, TaskConnects(t)
    PROVE  ExtensionsInv'
<1> DEFINE c == Min(FreeConns(conn))
           m == Command("activeWindowChanged", t.win)
           who == "tracker"
           u == [t EXCEPT !.conn = c]
<1>1. /\ UNCHANGED <<budget, loop, daemon, sockets, tab, context, acked, waiters, requests, confirmed,
                     chrome, toHost, host, selector, focus, ready, overlap, missed>>
      /\ MayConnect /\ conn' = Connected(who, m) /\ backlog' = Append(backlog, c)
      /\ t.conn = None /\ tasks' = (tasks \ {t}) \cup {u}
  BY DEF TaskConnects, daemonVars, pasteVars, chromeVars
<1>2. /\ who \in Holders /\ who # "none" /\ who = "tracker"
      /\ c = Min(FreeConns(conn))
  BY DEF Holders
<1>4. TaskInv /\ DOMAIN t = {"n", "win", "conn"} /\ t.win \in Windows
  BY DEF ExtensionsInv, TaskInv
<1>3. m \in Messages /\ m.op \in OpsOf(who) /\ m.op = "activeWindowChanged" /\ m.n = t.win
  <2>1. t.win \in Nat \cup Urls \cup Windows
    BY <1>4
  <2>2. "activeWindowChanged" \in Ops /\ "activeWindowChanged" \in OpsOf("tracker")
    BY OpsFacts
  <2> QED
    BY <2>1, <2>2, CommandFacts
<1>5. DOMAIN u = {"n", "win", "conn"} /\ u.win = t.win /\ u.conn = c
  BY <1>4
<1> HIDE DEF c, m, who, u
<1>6. /\ c \in Conns /\ c \in 0 .. MaxConn /\ c # None /\ conn[c].who = "none"
      /\ ConnInv' /\ NumberInv' /\ BacklogInv' /\ LoopInv' /\ SocketInv' /\ PasteInv' /\ TabInv'
      /\ conn'[c].who = who /\ conn'[c].open /\ Range(conn'[c].in) = {m}
      /\ \A d \in Conns : Kept(conn[d], conn'[d])
      /\ \A d \in Conns : d # c => conn'[d] = conn[d]
      /\ \A d \in Conns : Range(conn[d].in) \subseteq Range(conn'[d].in)
  <2>1. Joined(c, who, m)
    BY <1>1, <1>2, <1>3, ConnectParts
  <2> QED
    BY <2>1 DEF Joined
<1>7. TaskInv'
  <2>1. ASSUME NEW v \in tasks'
        PROVE  /\ DOMAIN v = {"n", "win", "conn"}
               /\ v.win \in Windows /\ v.conn \in 0 .. MaxConn
               /\ Has(v.conn, "tracker")'
    <3>1. CASE v \in tasks
      <4>1. Has(v.conn, "tracker") /\ (v.conn # None => v.conn \in Conns)
        BY <1>4, <3>1, HoldersFacts DEF TaskInv
      <4>2. Has(v.conn, "tracker")'
        BY <1>6, <4>1 DEF Has, Kept
      <4> QED
        BY <1>4, <3>1, <4>2 DEF TaskInv
    <3>2. CASE v = u
      <4>1. Has(v.conn, "tracker")'
        BY <1>2, <1>5, <1>6, <3>2 DEF Has
      <4> QED
        BY <1>4, <1>5, <1>6, <3>2, <4>1
    <3> QED
      BY <1>1, <3>1, <3>2
  <2>2. \A v \in tasks : v.conn # c
    BY <1>6, HoldersFacts
  <2>3. \A v, w \in tasks' : v.conn = w.conn /\ v.conn # None => v = w
    BY <1>1, <1>4, <1>5, <2>2 DEF TaskInv
  <2> QED
    BY <1>1, <1>4, <2>1, <2>3 DEF TaskInv
<1>8. HostInv' /\ SelectorInv'
  <2> DEFINE w == "none"
  <2>1. w = "none" /\ UNCHANGED chromeVars
    BY <1>1 DEF chromeVars
  <2> HIDE DEF w
  <2> QED
    BY <1>1, <1>6, <2>1, OthersKeep
<1>9. ContextInv'
  <2>1. \E d \in Conns : Pending(d)'
    <3>1. PICK d \in Conns : d = c
      BY <1>6
    <3>2. m \in Range(conn'[d].in)
      BY <1>6, <3>1
    <3>3. Pending(d)'
      BY <1>3, <3>2, PendingRange
    <3> QED
      BY <3>3
  <2>2. \A d \in Conns : \A k \in Range(conn'[d].in) : k \in Range(conn[d].in) \/ k = m
    BY <1>6
  <2>3. ASSUME ~overlap
        PROVE  /\ \A v \in tasks' : v.win = focus
               /\ \A d \in Conns : \A k \in Range(conn'[d].in) :
                      k.op = "activeWindowChanged" => k.n = focus
    <3>1. t.win = focus
      BY <2>3 DEF ExtensionsInv, ContextInv
    <3>2. \A v \in tasks' : v.win = focus
      BY <1>1, <1>5, <2>3, <3>1 DEF ExtensionsInv, ContextInv
    <3>3. \A d \in Conns : \A k \in Range(conn'[d].in) : k.op = "activeWindowChanged" => k.n = focus
      BY <1>3, <2>2, <2>3, <3>1 DEF ExtensionsInv, ContextInv
    <3> QED
      BY <3>2, <3>3
  <2> SUFFICES ASSUME ~overlap'
               PROVE  /\ \A v \in tasks' : v.win = focus'
                      /\ \A d \in Conns : \A k \in Range(conn'[d].in) :
                            k.op = "activeWindowChanged" => k.n = focus'
                      /\ \E d \in Conns : Pending(d)'
    BY DEF ContextInv
  <2>4. ~overlap /\ focus' = focus
    BY <1>1
  <2> QED
    BY <2>1, <2>3, <2>4
<1>10. BudgetInv'
  BY <1>1, Frames
<1> QED
  BY <1>6, <1>7, <1>8, <1>9, <1>10 DEF ExtensionsInv

-----------------------------------------------------------------------------
(* A program sends or reads a line *)

\* Lines come and go on connections that stay what they are.
LEMMA ShapeParts ==
    ASSUME ExtensionsInv, conn' \in [Conns -> Connections], UNCHANGED <<backlog, loop, daemon>>,
           \A d \in Conns :
              /\ Sound(conn'[d]) /\ Kept(conn[d], conn'[d])
              /\ conn'[d].st = conn[d].st /\ conn'[d].who = conn[d].who /\ conn'[d].fd = conn[d].fd
              /\ conn[d].who \in {"cli", "script"} => conn'[d].in = conn[d].in
    PROVE  ConnInv' /\ NumberInv' /\ BacklogInv' /\ LoopInv'
<1>1. ConnInv'
  BY DEF ConnInv
<1>2. NumberInv'
  BY DEF NumberInv, ExtensionsInv
<1>3. BacklogInv'
  BY DEF BacklogInv, ExtensionsInv
<1>4. LoopInv'
  BY LoopConn DEF ExtensionsInv
<1> QED
  BY <1>1, <1>2, <1>3, <1>4

Reshaped(c, y) ==
    /\ ConnInv' /\ NumberInv' /\ BacklogInv' /\ LoopInv'
    /\ conn'[c] = y /\ \A d \in Conns : d # c => conn'[d] = conn[d]
    /\ \A d \in Conns : Kept(conn[d], conn'[d])

\* One connection's lines change.
LEMMA ShapeOne ==
    ASSUME ExtensionsInv, NEW c \in Conns, conn[c].who \notin {"cli", "script"}, NEW y, Sound(y),
           Kept(conn[c], y), y.st = conn[c].st, y.who = conn[c].who, y.fd = conn[c].fd,
           conn' = [conn EXCEPT ![c] = y], UNCHANGED <<backlog, loop, daemon>>
    PROVE  Reshaped(c, y)
<1>1. AllSound(conn)
  BY DEF ExtensionsInv, ConnInv, AllSound
<1>2. conn' \in [Conns -> Connections] /\ conn'[c] = y /\ \A d \in Conns : d # c => conn'[d] = conn[d]
  BY <1>1, ReplaceOne
<1>3. ASSUME NEW d \in Conns
      PROVE  /\ Sound(conn'[d]) /\ Kept(conn[d], conn'[d])
             /\ conn'[d].st = conn[d].st /\ conn'[d].who = conn[d].who /\ conn'[d].fd = conn[d].fd
             /\ conn[d].who \in {"cli", "script"} => conn'[d].in = conn[d].in
  <2>1. CASE d = c
    BY <1>2, <2>1
  <2>2. CASE d # c
    BY <1>1, <1>2, <2>2 DEF AllSound, Kept
  <2> QED
    BY <2>1, <2>2
<1>4. ConnInv' /\ NumberInv' /\ BacklogInv' /\ LoopInv'
  BY <1>2, <1>3, ShapeParts
<1> QED
  BY <1>2, <1>3, <1>4 DEF Reshaped

ReadFrom(cs, c) == [cs EXCEPT ![c].out = Tail(@)]

\* The listener of the native host passes a line to Chrome.
LEMMA ListenerReceivesStep ==
    ASSUME ExtensionsInv, ListenerReceives
    PROVE  ExtensionsInv'
<1> DEFINE c == host.reads
           x == conn[c]
           m == Head(x.out)
           y == [x EXCEPT !.out = Tail(x.out)]
<1>1. /\ UNCHANGED <<budget, backlog, loop, daemon, sockets, tab, context, acked, waiters, requests, confirmed,
                     toHost, host, selector, focus, tasks, ready, overlap, missed>>
      /\ c # None /\ x.out # <<>>
      /\ chrome' = [chrome EXCEPT !.todo = IF m.op = "focus" THEN @ \cup {m.n} ELSE @]
      /\ conn' = ReadFrom(conn, c)
  BY DEF ListenerReceives, ReadFrom, daemonVars, pasteVars, trackerVars
<1>2. c \in Conns /\ x.who = "host" /\ Sound(x)
  BY <1>1, HoldersFacts DEF ExtensionsInv, ConnInv
<1>3. conn' = [conn EXCEPT ![c] = y]
  BY <1>1, <1>2 DEF ExtensionsInv, ConnInv, ReadFrom
<1>4. c = host.reads /\ x = conn[c]
  OBVIOUS
<1>y. y = [x EXCEPT !.out = Tail(x.out)]
  OBVIOUS
<1>o. x.out # <<>> /\ Sound(x)
  BY <1>1, <1>2
<1>5. HostInv /\ PasteInv
  BY DEF ExtensionsInv
<1>m. m = Head(x.out)
  OBVIOUS
<1> HIDE DEF c, x, m, y
<1>6. /\ Milder(x, y, {}) /\ Kept(x, y) /\ y.st = x.st /\ y.who = x.who /\ y.fd = x.fd
      /\ y.in = x.in /\ m \in Range(x.out) /\ m \in Messages
  <2>1. /\ Milder(x, y, {}) /\ Kept(x, y) /\ y.st = x.st /\ y.who = x.who /\ y.fd = x.fd
        /\ y.in = x.in /\ Head(x.out) \in Range(x.out) /\ Head(x.out) \in Messages
    BY <1>o, <1>y, ReadFacts
  <2> QED
    BY <2>1, <1>m
<1>7. Sound(y) /\ Range(y.out) \subseteq Range(x.out)
  BY <1>6 DEF Milder
<1>8. /\ ConnInv' /\ NumberInv' /\ BacklogInv' /\ LoopInv'
      /\ conn'[c] = y /\ \A d \in Conns : d # c => conn'[d] = conn[d]
      /\ \A d \in Conns : Kept(conn[d], conn'[d])
  <2>1. Reshaped(c, y)
    BY <1>1, <1>2, <1>3, <1>4, <1>6, <1>7, ShapeOne
  <2> QED
    BY <2>1 DEF Reshaped
<1>9. \A d \in Conns : conn'[d].in = conn[d].in /\ Range(conn'[d].out) \subseteq Range(conn[d].out)
  BY <1>4, <1>6, <1>7, <1>8
<1>10. m.op = "focus" => m.n \in Flying
  <2>1. m.op = "focus" => m.n \in Numbers(conn[c].out, "focus")
    BY <1>4, <1>6, NumbersMember
  <2> QED
    BY <1>2, <2>1 DEF Flying
<1>11. /\ chrome'.port = chrome.port /\ chrome'.tab = chrome.tab
       /\ chrome'.todo = IF m.op = "focus" THEN chrome.todo \cup {m.n} ELSE chrome.todo
       /\ chrome' \in [port : BOOLEAN, tab : Nat, todo : SUBSET Nat]
  <2>1. chrome \in [port : BOOLEAN, tab : Nat, todo : SUBSET Nat]
    BY <1>5 DEF HostInv
  <2>2. m.op = "focus" => m.n \in Nat
    <3>1. Flying \subseteq 1 .. requests /\ requests \in Nat
      BY <1>5 DEF PasteInv
    <3>2. Flying \subseteq Nat
      BY <3>1
    <3> QED
      BY <1>10, <3>2
  <2> QED
    BY <1>1, <2>1, <2>2
<1>12. HostInv'
  <2>1. Has(host.reads, "host")'
    <3>1. Has(host.reads, "host") /\ Kept(conn[host.reads], conn'[host.reads])
      BY <1>2, <1>4, <1>5, <1>8 DEF HostInv
    <3> QED
      BY <1>1, <3>1 DEF Has, Kept
  <2> QED
    BY <1>1, <1>5, <1>11, <2>1 DEF HostInv
<1>13. SelectorInv' /\ TaskInv'
  <2> DEFINE w == "none"
  <2>1. w = "none" /\ w # "selector" /\ w # "tracker"
    OBVIOUS
  <2>2. \A d \in Conns : d # c \/ w = "none" => Kept(conn[d], conn'[d])
    BY <1>8
  <2>3. UNCHANGED selector /\ UNCHANGED <<focus, tasks>>
    BY <1>1
  <2> HIDE DEF w
  <2> QED
    BY <2>1, <2>2, <2>3, OthersKeep
<1>14. PasteInv'
  <2>1. \A d \in Conns : /\ Numbers(conn'[d].in, "focusAck") \subseteq Numbers(conn[d].in, "focusAck")
                         /\ Numbers(conn'[d].out, "focus") \subseteq Numbers(conn[d].out, "focus")
    BY <1>9 DEF Numbers
  <2>2. chrome'.todo \subseteq Flying
    BY <1>10, <1>11 DEF Flying
  <2>3. Flying' \subseteq Flying
    BY <1>1, <2>1, <2>2 DEF Flying
  <2> QED
    BY <1>1, <2>3, PasteFrame DEF ExtensionsInv
<1>15. ContextInv'
  <2>1. \A d \in Conns : Pending(d) => Pending(d)'
    BY <1>9, SamePending
  <2> QED
    BY <1>1, <1>9, <2>1, ContextFrame DEF ExtensionsInv
<1>16. TabInv'
  BY <1>1, <1>9, <1>11, TabFrame DEF ExtensionsInv
<1>17. BudgetInv' /\ SocketInv'
  BY <1>1, Frames
<1> QED
  BY <1>8, <1>12, <1>13, <1>14, <1>15, <1>16, <1>17 DEF ExtensionsInv

\* window-selector answers, or passes over a line.
LEMMA SelectorAnswersStep ==
    ASSUME ExtensionsInv, SelectorAnswers
    PROVE  ExtensionsInv'
<1> DEFINE c == selector.conn
           x == conn[c]
           a == Command("answer", 0)
           asked == Head(x.out).op = "windows" /\ x.st # "shut"
           z == [x EXCEPT !.out = Tail(x.out)]
           y == IF asked THEN [z EXCEPT !.in = Append(z.in, a)] ELSE z
<1>1. /\ UNCHANGED <<budget, backlog, loop, daemon, sockets, tab, context, acked, waiters, requests, confirmed,
                     chrome, toHost, host, selector, focus, tasks, ready, overlap, missed>>
      /\ selector.at = "open" /\ x.out # <<>>
  BY DEF SelectorAnswers, daemonVars, pasteVars, chromeVars, trackerVars
<1>2. c # None
  BY <1>1 DEF ExtensionsInv, SelectorInv
<1>3. c \in Conns /\ x.who = "selector" /\ Sound(x)
  BY <1>2, HoldersFacts DEF ExtensionsInv, ConnInv
<1>4. conn' = [conn EXCEPT ![c] = y]
  <2>1. conn' = [conn EXCEPT ![c].out = Tail(@), ![c].in = IF asked THEN Append(@, a) ELSE @]
    BY DEF SelectorAnswers
  <2>2. conn \in [Conns -> Connections] /\ x \in Connections
    BY <1>3 DEF ExtensionsInv, ConnInv, Sound
  <2>3. CASE asked
    BY <1>3, <2>1, <2>2, <2>3 DEF Connections
  <2>4. CASE ~asked
    BY <1>3, <2>1, <2>2, <2>4 DEF Connections
  <2> QED
    BY <2>3, <2>4
<1>5. a \in Messages /\ a.op = "answer" /\ a.op \in OpsOf("selector")
  BY OpsFacts, CommandFacts
<1>6. x.out # <<>> /\ Sound(x)
  BY <1>1, <1>3
<1>x. x = conn[c] /\ z = [x EXCEPT !.out = Tail(x.out)]
  OBVIOUS
<1>y. /\ asked => y = [z EXCEPT !.in = Append(z.in, a)] /\ x.st # "shut"
      /\ ~asked => y = z
  OBVIOUS
<1>z. z = [x EXCEPT !.out = Tail(x.out)]
  OBVIOUS
<1> HIDE DEF c, x, a, asked, z, y
<1>7. /\ Milder(x, z, {}) /\ Kept(x, z) /\ z.st = x.st /\ z.who = x.who /\ z.fd = x.fd /\ z.in = x.in
  BY <1>6, <1>z, ReadFacts
<1>8. Sound(z) /\ Range(z.out) \subseteq Range(x.out) /\ z.who = "selector"
  BY <1>3, <1>7 DEF Milder
<1>9. /\ Sound(y) /\ Kept(x, y) /\ y.st = x.st /\ y.who = x.who /\ y.fd = x.fd /\ y.out = z.out
      /\ Range(x.in) \subseteq Range(y.in) /\ \A k \in Range(y.in) : k \in Range(x.in) \/ k = a
  <2>1. CASE asked
    <3>1. z.st \in {"backlog", "open"} /\ z.who \in {"host", "selector"} /\ a.op \in OpsOf(z.who)
      <4>1. z.st \in {"unused", "backlog", "open", "shut"} /\ z.st # "unused" /\ z.st # "shut"
        BY <1>7, <1>8, <1>y, <2>1 DEF Sound, Connections
      <4> QED
        BY <1>5, <1>8, <4>1
    <3>2. y = [z EXCEPT !.in = Append(z.in, a)]
      BY <1>y, <2>1
    <3>3. IsSent(z, y, a)
      BY <1>5, <1>8, <3>1, <3>2, SentFacts
    <3> QED
      BY <1>7, <3>3 DEF Kept, IsSent
  <2>2. CASE ~asked
    BY <1>7, <1>8, <1>y, <2>2
  <2> QED
    BY <2>1, <2>2
<1>10. /\ ConnInv' /\ NumberInv' /\ BacklogInv' /\ LoopInv'
       /\ conn'[c] = y /\ \A d \in Conns : d # c => conn'[d] = conn[d]
       /\ \A d \in Conns : Kept(conn[d], conn'[d])
  <2>1. Reshaped(c, y)
    BY <1>1, <1>3, <1>4, <1>9, <1>x, ShapeOne
  <2> QED
    BY <2>1 DEF Reshaped
<1>11. \A d \in Conns : /\ Range(conn'[d].out) \subseteq Range(conn[d].out)
                        /\ Range(conn[d].in) \subseteq Range(conn'[d].in)
                        /\ \A k \in Range(conn'[d].in) : k \in Range(conn[d].in) \/ k.op = "answer"
  BY <1>5, <1>8, <1>9, <1>10, <1>x
<1>12. HostInv' /\ SelectorInv' /\ TaskInv'
  <2> DEFINE w == "none"
  <2>1. w = "none" /\ w # "selector" /\ w # "tracker" /\ w # "host"
    OBVIOUS
  <2>2. \A d \in Conns : d # c \/ w = "none" => Kept(conn[d], conn'[d])
    BY <1>10
  <2>3. UNCHANGED selector /\ UNCHANGED <<focus, tasks>> /\ UNCHANGED chromeVars
    BY <1>1 DEF chromeVars
  <2> HIDE DEF w
  <2> QED
    BY <2>1, <2>2, <2>3, OthersKeep
<1>13. PasteInv'
  <2>1. \A d \in Conns : /\ Numbers(conn'[d].in, "focusAck") \subseteq Numbers(conn[d].in, "focusAck")
                         /\ Numbers(conn'[d].out, "focus") \subseteq Numbers(conn[d].out, "focus")
    BY <1>11 DEF Numbers
  <2>2. Flying' \subseteq Flying
    BY <1>1, <2>1 DEF Flying
  <2> QED
    BY <1>1, <2>2, PasteFrame DEF ExtensionsInv
<1>14. ContextInv'
  <2>1. \A d \in Conns : Pending(d) => Pending(d)'
    BY <1>11, PendingRange
  <2> QED
    BY <1>1, <1>11, <2>1 DEF ContextInv, ExtensionsInv
<1>15. TabInv'
  <2>1. \A d \in Conns : UrlsOf(conn'[d].in) \subseteq UrlsOf(conn[d].in)
    BY <1>11 DEF UrlsOf, Numbers
  <2> QED
    BY <1>1, <2>1, TabLines DEF ExtensionsInv
<1>16. BudgetInv' /\ SocketInv'
  BY <1>1, Frames
<1> QED
  BY <1>10, <1>12, <1>13, <1>14, <1>15, <1>16 DEF ExtensionsInv

\* The tabs that wait behind the first message are newer than it.
LEMMA TailOrder ==
    ASSUME TabInv, toHost \in Seq(Messages), toHost # <<>>, NEW r, r = Tail(toHost)
    PROVE  /\ \A i, j \in DOMAIN r :
                 i < j /\ r[i].op = "setActiveTabUrl" /\ r[j].op = "setActiveTabUrl" => r[i].n.n < r[j].n.n
           /\ UrlsOf(r) \subseteq UrlsOf(toHost)
           /\ Head(toHost).op = "setActiveTabUrl" =>
                 Head(toHost).n \in UrlsOf(toHost) /\ \A v \in UrlsOf(r) : Head(toHost).n.n < v.n
<1>1. /\ r \in Seq(Messages) /\ Len(r) = Len(toHost) - 1
      /\ \A i \in DOMAIN r : i + 1 \in DOMAIN toHost /\ r[i] = toHost[i + 1]
  BY HeadTailProperties
<1>2. Head(toHost) = toHost[1] /\ 1 \in DOMAIN toHost
  OBVIOUS
<1>3. Range(r) \subseteq Range(toHost)
  BY <1>1 DEF Range
<1>4. UrlsOf(r) \subseteq UrlsOf(toHost)
  BY <1>3 DEF UrlsOf, Numbers
<1>5. ASSUME NEW i \in DOMAIN r, NEW j \in DOMAIN r, i < j,
             r[i].op = "setActiveTabUrl", r[j].op = "setActiveTabUrl"
      PROVE  r[i].n.n < r[j].n.n
  <2>1. i + 1 < j + 1
    BY <1>1, <1>5
  <2>2. /\ i + 1 \in DOMAIN toHost /\ r[i] = toHost[i + 1]
        /\ j + 1 \in DOMAIN toHost /\ r[j] = toHost[j + 1]
    BY <1>1
  <2> QED
    BY <1>5, <2>1, <2>2 DEF TabInv
<1>6. ASSUME Head(toHost).op = "setActiveTabUrl"
      PROVE  Head(toHost).n \in UrlsOf(toHost) /\ \A v \in UrlsOf(r) : Head(toHost).n.n < v.n
  <2>1. Head(toHost).n \in UrlsOf(toHost)
    BY <1>2, <1>6 DEF UrlsOf, Numbers, Range
  <2>2. ASSUME NEW v \in UrlsOf(r) PROVE Head(toHost).n.n < v.n
    <3>1. PICK i \in DOMAIN r : r[i].op = "setActiveTabUrl" /\ r[i].n = v
      BY DEF UrlsOf, Numbers, Range
    <3>2. i + 1 \in DOMAIN toHost /\ r[i] = toHost[i + 1] /\ 1 < i + 1
      BY <1>1
    <3> QED
      BY <1>2, <1>6, <3>1, <3>2 DEF TabInv
  <2> QED
    BY <2>1, <2>2
<1> QED
  BY <1>4, <1>5, <1>6

\* The first message goes to the connection of the native host, or nowhere.
LEMMA TabSent ==
    ASSUME TabInv, HostInv, host.up, toHost # <<>>, toHost' = Tail(toHost), UNCHANGED <<tab, chrome>>,
           host'.n = host.n, host'.up = host.up, host'.reads = host.reads,
           \A d \in Conns : \A u \in UrlsOf(conn'[d].in) :
              \/ u \in UrlsOf(conn[d].in)
              \/ d = host.reads /\ Head(toHost).op = "setActiveTabUrl" /\ u = Head(toHost).n
    PROVE  TabInv'
<1> DEFINE h == Head(toHost)
           r == Tail(toHost)
<1>1. toHost' = r /\ r = Tail(toHost) /\ h = Head(toHost) /\ toHost \in Seq(Messages)
      /\ host.n \in Nat /\ host.n > 0
  BY DEF HostInv
<1> HIDE DEF h, r
<1>2. /\ \A i, j \in DOMAIN r :
            i < j /\ r[i].op = "setActiveTabUrl" /\ r[j].op = "setActiveTabUrl" => r[i].n.n < r[j].n.n
      /\ UrlsOf(r) \subseteq UrlsOf(toHost)
      /\ h.op = "setActiveTabUrl" => h.n \in UrlsOf(toHost) /\ \A v \in UrlsOf(r) : h.n.n < v.n
  BY <1>1, TailOrder
<1>3. tab' \in Urls /\ tab'.host <= host'.n /\ tab'.n <= chrome'.tab /\ (tab'.host = 0 => tab'.n = 0)
  BY DEF TabInv
<1>4. \A u \in UrlsOf(r) :
         u \in Urls /\ u.host = host.n /\ u.n <= chrome.tab /\ (u.host = tab.host => u.n > tab.n)
  BY <1>2 DEF TabInv
<1>5. ASSUME NEW d \in Conns, NEW u \in UrlsOf(conn[d].in)
      PROVE  /\ u \in Urls /\ u.host \in 1 .. host.n /\ u.n <= chrome.tab
             /\ u.host = tab.host => u.n > tab.n
             /\ u.host = host.n => \A v \in UrlsOf(r) : u.n < v.n
             /\ u.host = host.n => d = host.reads
             /\ \A e \in Conns \ {d} : \A v \in UrlsOf(conn[e].in) : u.host # v.host
  BY <1>2 DEF TabInv
<1>6. ASSUME h.op = "setActiveTabUrl"
      PROVE  /\ h.n \in Urls /\ h.n.host = host.n /\ h.n.host \in 1 .. host.n /\ h.n.n <= chrome.tab
             /\ h.n.host = tab.host => h.n.n > tab.n
             /\ \A v \in UrlsOf(r) : h.n.n < v.n
  <2>1. /\ h.n \in Urls /\ h.n.host = host.n /\ h.n.n <= chrome.tab
        /\ h.n.host = tab.host => h.n.n > tab.n
    BY <1>2, <1>6 DEF TabInv
  <2> QED
    BY <1>1, <1>2, <1>6, <2>1
<1>7. ASSUME NEW d \in Conns, NEW u \in UrlsOf(conn'[d].in)
      PROVE  /\ u \in Urls /\ u.host \in 1 .. host.n /\ u.n <= chrome.tab
             /\ u.host = tab.host => u.n > tab.n
             /\ u.host = host.n => \A v \in UrlsOf(r) : u.n < v.n
             /\ u.host = host.n => d = host.reads
  <2>1. CASE u \in UrlsOf(conn[d].in)
    BY <1>5, <2>1
  <2>2. CASE d = host.reads /\ h.op = "setActiveTabUrl" /\ u = h.n
    BY <1>6, <2>2
  <2> QED
    BY <1>1, <2>1, <2>2
<1>8. ASSUME NEW d \in Conns, NEW u \in UrlsOf(conn'[d].in), NEW e \in Conns, e # d,
             NEW v \in UrlsOf(conn'[e].in)
      PROVE  u.host # v.host
  <2>1. CASE u \in UrlsOf(conn[d].in) /\ v \in UrlsOf(conn[e].in)
    BY <1>5, <1>8, <2>1
  <2>2. CASE u.host = host.n
    BY <1>7, <1>8, <2>2
  <2>3. CASE v.host = host.n
    BY <1>7, <1>8, <2>3
  <2>4. (u \in UrlsOf(conn[d].in) \/ u.host = host.n) /\ (v \in UrlsOf(conn[e].in) \/ v.host = host.n)
    BY <1>1, <1>6
  <2> QED
    BY <2>1, <2>2, <2>3, <2>4
<1>9. \A u \in UrlsOf(toHost') :
         u \in Urls /\ u.host = host'.n /\ u.n <= chrome'.tab /\ (u.host = tab'.host => u.n > tab'.n)
  BY <1>1, <1>4
<1>10. \A i, j \in DOMAIN toHost' :
         i < j /\ toHost'[i].op = "setActiveTabUrl" /\ toHost'[j].op = "setActiveTabUrl"
            => toHost'[i].n.n < toHost'[j].n.n
  BY <1>1, <1>2
<1>11. ASSUME NEW d \in Conns, NEW u \in UrlsOf(conn'[d].in)
       PROVE  /\ u \in Urls /\ u.host \in 1 .. host'.n /\ u.n <= chrome'.tab
              /\ u.host = tab'.host => u.n > tab'.n
              /\ u.host = host'.n => \A v \in UrlsOf(toHost') : u.n < v.n
              /\ u.host = host'.n /\ host'.up => d = host'.reads
              /\ \A e \in Conns \ {d} : \A v \in UrlsOf(conn'[e].in) : u.host # v.host
  <2>1. \A e \in Conns \ {d} : \A v \in UrlsOf(conn'[e].in) : u.host # v.host
    BY <1>8
  <2> QED
    BY <1>1, <1>7, <2>1
<1> QED
  BY <1>3, <1>9, <1>10, <1>11 DEF TabInv

SentTo(cs, c, m) == [cs EXCEPT ![c].in = Append(@, m)]

\* The native host sends a message of Chrome to the daemon.
LEMMA MainSendsStep ==
    ASSUME ExtensionsInv, MainSends
    PROVE  ExtensionsInv'
<1> DEFINE h == Head(toHost)
           c == host.sock
<1>1. /\ UNCHANGED <<budget, backlog, loop, daemon, sockets, tab, context, acked, waiters, requests, confirmed,
                     chrome, selector, focus, tasks, ready, overlap, missed>>
      /\ host.up /\ toHost # <<>> /\ toHost' = Tail(toHost)
  BY DEF MainSends, daemonVars, pasteVars, trackerVars
<1>2. HostInv /\ TabInv /\ toHost \in Seq(Messages)
  BY DEF ExtensionsInv, HostInv
<1>3. /\ h \in Range(toHost) /\ h \in Messages /\ h.op \in OpsOf("host")
      /\ toHost' \in Seq(Messages) /\ Range(toHost') \subseteq Range(toHost)
  <2>1. h \in Range(toHost) /\ h \in Messages /\ toHost' \in Seq(Messages) /\ Range(toHost') \subseteq Range(toHost)
    BY <1>1, <1>2, TailFacts
  <2> HIDE DEF h
  <2> QED
    BY <1>2, <2>1 DEF HostInv
<1>4. /\ host' \in [up : BOOLEAN, n : Nat, sock : 0 .. MaxConn, reads : 0 .. MaxConn,
                    main : {"read", "stuck"}]
      /\ host'.up = host.up /\ host'.n = host.n /\ host'.reads = host.reads
      /\ host'.sock \in {None, host.reads}
  <2>1. \/ host' = [host EXCEPT !.main = "stuck"]
        \/ host' = [host EXCEPT !.sock = None]
        \/ host' = host
    BY DEF MainSends
  <2>2. /\ host \in [up : BOOLEAN, n : Nat, sock : 0 .. MaxConn, reads : 0 .. MaxConn,
                     main : {"read", "stuck"}]
        /\ host.sock \in {None, host.reads} /\ None \in 0 .. MaxConn
    BY <1>2, ConstantFacts DEF HostInv
  <2>3. CASE host' = [host EXCEPT !.main = "stuck"]
    BY <2>2, <2>3
  <2>4. CASE host' = [host EXCEPT !.sock = None]
    BY <2>2, <2>4
  <2>5. CASE host' = host
    BY <2>2, <2>5
  <2> QED
    BY <2>1, <2>3, <2>4, <2>5
<1>5. BudgetInv' /\ SocketInv'
  BY <1>1, Frames
<1>h. h = Head(toHost)
  OBVIOUS
<1>6. CASE UNCHANGED conn
  <2> HIDE DEF h, c
  <2>1. HostInv'
    <3>1. Has(host.reads, "host")'
      BY <1>2, <1>4, <1>6 DEF HostInv, Has
    <3> QED
      BY <1>1, <1>2, <1>3, <1>4, <3>1 DEF HostInv
  <2>2. PasteInv'
    <3>1. Numbers(toHost', "focusAck") \subseteq Numbers(toHost, "focusAck")
      BY <1>3 DEF Numbers
    <3>2. Flying' \subseteq Flying
      BY <1>1, <1>6, <3>1 DEF Flying
    <3> QED
      BY <1>1, <3>2, PasteFrame DEF ExtensionsInv
  <2>3. TabInv'
    BY <1>1, <1>2, <1>4, <1>6, TabSent
  <2> QED
    BY <1>1, <1>5, <1>6, <2>1, <2>2, <2>3, Frames DEF ExtensionsInv
<1>7. CASE c # None /\ conn[c].st # "shut" /\ conn' = SentTo(conn, c, h)
  <2> DEFINE x == conn[c]
             y == [x EXCEPT !.in = Append(x.in, h)]
  <2>1. c = host.reads /\ c \in Conns /\ x.who = "host" /\ Sound(x)
    <3>1. c = host.reads
      BY <1>2, <1>7 DEF HostInv
    <3> QED
      BY <1>7, <3>1, HoldersFacts DEF ExtensionsInv, ConnInv
  <2>2. conn' = [conn EXCEPT ![c] = y]
    BY <1>7, <2>1 DEF ExtensionsInv, ConnInv, SentTo
  <2>3. x = conn[c]
    OBVIOUS
  <2>4. y = [x EXCEPT !.in = Append(x.in, h)]
    OBVIOUS
  <2>5. x.st # "shut"
    BY <1>7
  <2> HIDE DEF h, c, x, y
  <2>6. /\ Sound(x) /\ x.st \in {"backlog", "open"} /\ x.who \in {"host", "selector"}
        /\ h \in Messages /\ h.op \in OpsOf(x.who)
    <3>1. x.st \in {"unused", "backlog", "open", "shut"} /\ x.st # "unused"
      BY <2>1 DEF Sound, Connections
    <3> QED
      BY <1>3, <2>1, <2>5, <3>1
  <2>7. IsSent(x, y, h)
    BY <2>4, <2>6, SentFacts
  <2>8. /\ ConnInv' /\ NumberInv' /\ BacklogInv' /\ LoopInv'
        /\ conn'[c] = y /\ \A d \in Conns : d # c => conn'[d] = conn[d]
        /\ \A d \in Conns : Kept(conn[d], conn'[d])
    <3>1. Reshaped(c, y)
      BY <1>1, <2>1, <2>2, <2>3, <2>7, ShapeOne DEF IsSent
    <3> QED
      BY <3>1 DEF Reshaped
  <2>9. \A d \in Conns : /\ Range(conn'[d].out) \subseteq Range(conn[d].out)
                         /\ Range(conn[d].in) \subseteq Range(conn'[d].in)
                         /\ \A k \in Range(conn'[d].in) : k \in Range(conn[d].in) \/ (d = c /\ k = h)
    BY <2>3, <2>7, <2>8 DEF IsSent
  <2>10. HostInv'
    <3>1. Has(host.reads, "host")'
      BY <1>2, <1>4, <2>1, <2>8 DEF HostInv, Has, Kept
    <3> QED
      BY <1>1, <1>2, <1>3, <1>4, <3>1 DEF HostInv
  <2>11. SelectorInv' /\ TaskInv'
    <3> DEFINE w == "none"
    <3>1. w = "none" /\ w # "selector" /\ w # "tracker"
      OBVIOUS
    <3>2. \A d \in Conns : d # c \/ w = "none" => Kept(conn[d], conn'[d])
      BY <2>8
    <3>3. UNCHANGED selector /\ UNCHANGED <<focus, tasks>>
      BY <1>1
    <3> HIDE DEF w
    <3> QED
      BY <3>1, <3>2, <3>3, OthersKeep
  <2>12. PasteInv'
    <3>1. Numbers(toHost', "focusAck") \subseteq Flying
      BY <1>3 DEF Numbers, Flying
    <3>2. h.op = "focusAck" => h.n \in Flying
      BY <1>3, NumbersMember DEF Flying
    <3>3. ASSUME NEW d \in Conns
          PROVE  /\ Numbers(conn'[d].in, "focusAck") \subseteq Flying
                 /\ Numbers(conn'[d].out, "focus") \subseteq Flying
      <4>1. /\ Numbers(conn'[d].out, "focus") \subseteq Numbers(conn[d].out, "focus")
            /\ \A n \in Numbers(conn'[d].in, "focusAck") :
                  n \in Numbers(conn[d].in, "focusAck") \/ (h.op = "focusAck" /\ n = h.n)
        BY <2>9 DEF Numbers
      <4> QED
        BY <3>2, <4>1 DEF Flying
    <3>4. chrome'.todo \subseteq Flying
      BY <1>1 DEF Flying
    <3>5. Flying' \subseteq Flying
      <4>1. Flying' = chrome'.todo \cup Numbers(toHost', "focusAck")
                      \cup UNION {Numbers(conn'[d].in, "focusAck") \cup Numbers(conn'[d].out, "focus") : d \in Conns}
        BY DEF Flying
      <4> QED
        BY <3>1, <3>3, <3>4, <4>1
    <3> QED
      BY <1>1, <3>5, PasteFrame DEF ExtensionsInv
  <2>13. ContextInv'
    <3>1. \A d \in Conns : Pending(d) => Pending(d)'
      BY <2>9, PendingRange
    <3>2. h.op # "activeWindowChanged"
      BY <1>3, OpsFacts
    <3> QED
      BY <1>1, <2>9, <3>1, <3>2 DEF ContextInv, ExtensionsInv
  <2>14. TabInv'
    <3>1. \A d \in Conns : \A u \in UrlsOf(conn'[d].in) :
             \/ u \in UrlsOf(conn[d].in)
             \/ d = host.reads /\ h.op = "setActiveTabUrl" /\ u = h.n
      BY <2>1, <2>9 DEF UrlsOf, Numbers
    <3>2. \A d \in Conns : \A u \in UrlsOf(conn'[d].in) :
             \/ u \in UrlsOf(conn[d].in)
             \/ d = host.reads /\ Head(toHost).op = "setActiveTabUrl" /\ u = Head(toHost).n
      BY <1>h, <3>1
    <3> QED
      BY <1>1, <1>2, <1>4, <3>2, TabSent
  <2> QED
    BY <1>5, <2>8, <2>10, <2>11, <2>12, <2>13, <2>14 DEF ExtensionsInv
<1> QED
  <2>1. \/ UNCHANGED conn
        \/ c # None /\ conn[c].st # "shut" /\ conn' = SentTo(conn, c, h)
    BY DEF MainSends, SentTo
  <2> QED
    BY <1>6, <1>7, <2>1

-----------------------------------------------------------------------------
(* Chrome *)

\* A new native host: what it will report is newer than all there is.
LEMMA TabNew ==
    ASSUME TabInv, HostInv, host'.n = host.n + 1, UNCHANGED <<conn, tab>>,
           chrome'.tab \in Nat, chrome'.tab >= chrome.tab,
           \A i \in DOMAIN toHost' : toHost'[i].op = "setActiveTabUrl" =>
              /\ i = 2 /\ toHost'[i].n \in Urls
              /\ toHost'[i].n.host = host'.n /\ toHost'[i].n.n <= chrome'.tab
    PROVE  TabInv'
<1>1. host.n \in Nat /\ chrome.tab \in Nat /\ tab \in Urls /\ tab.host \in Nat /\ tab.n \in Nat
  BY DEF HostInv, TabInv, Urls
<1>2. /\ tab' \in Urls /\ tab'.host <= host'.n /\ tab'.n <= chrome'.tab /\ (tab'.host = 0 => tab'.n = 0)
      /\ tab'.host # host'.n
  <2>1. tab.host <= host.n /\ tab.n <= chrome.tab /\ (tab.host = 0 => tab.n = 0)
    BY DEF TabInv
  <2>2. tab.host <= host.n + 1 /\ tab.host # host.n + 1 /\ tab.n <= chrome'.tab
    BY <1>1, <2>1
  <2> QED
    BY <1>1, <2>1, <2>2
<1>3. ASSUME NEW u \in UrlsOf(toHost')
      PROVE  u \in Urls /\ u.host = host'.n /\ u.n <= chrome'.tab /\ (u.host = tab'.host => u.n > tab'.n)
  <2>1. PICK i \in DOMAIN toHost' : toHost'[i].op = "setActiveTabUrl" /\ toHost'[i].n = u
    BY DEF UrlsOf, Numbers, Range
  <2>2. u \in Urls /\ u.host = host'.n /\ u.n <= chrome'.tab
    BY <2>1
  <2> QED
    BY <1>2, <2>2
<1>4. \A i, j \in DOMAIN toHost' :
         i < j /\ toHost'[i].op = "setActiveTabUrl" /\ toHost'[j].op = "setActiveTabUrl"
            => toHost'[i].n.n < toHost'[j].n.n
  <2> SUFFICES ASSUME NEW i \in DOMAIN toHost', NEW j \in DOMAIN toHost', i < j,
                      toHost'[i].op = "setActiveTabUrl", toHost'[j].op = "setActiveTabUrl"
               PROVE  FALSE
    OBVIOUS
  <2>1. i = 2 /\ j = 2
    OBVIOUS
  <2> QED
    BY <2>1
<1>5. ASSUME NEW c \in Conns, NEW u \in UrlsOf(conn'[c].in)
      PROVE  /\ u \in Urls /\ u.host \in 1 .. host'.n /\ u.n <= chrome'.tab
             /\ u.host = tab'.host => u.n > tab'.n
             /\ u.host # host'.n
             /\ \A d \in Conns \ {c} : \A v \in UrlsOf(conn'[d].in) : u.host # v.host
  <2>1. u \in UrlsOf(conn[c].in)
    OBVIOUS
  <2>2. /\ u \in Urls /\ u.host \in 1 .. host.n /\ u.n <= chrome.tab
        /\ u.host = tab.host => u.n > tab.n
        /\ \A d \in Conns \ {c} : \A v \in UrlsOf(conn[d].in) : u.host # v.host
    BY <2>1 DEF TabInv
  <2>3. u.n \in Nat /\ u.host \in Nat
    BY <2>2 DEF Urls
  <2>4. u.host \in 1 .. host.n + 1 /\ u.host # host.n + 1 /\ u.n <= chrome'.tab
    BY <1>1, <2>2, <2>3
  <2> QED
    BY <2>2, <2>4
<1> QED
  BY <1>2, <1>3, <1>4, <1>5 DEF TabInv

\* One more message for the native host.
LEMMA TabMore ==
    ASSUME TabInv, HostInv, UNCHANGED <<conn, tab, host>>, NEW m \in Messages, toHost' = Append(toHost, m),
           chrome'.tab \in Nat, chrome'.tab >= chrome.tab,
           m.op = "setActiveTabUrl" =>
              m.n \in Urls /\ m.n.host = host.n /\ m.n.n = chrome'.tab /\ chrome'.tab = chrome.tab + 1
    PROVE  TabInv'
<1>1. /\ host.n \in Nat /\ chrome.tab \in Nat /\ tab \in Urls /\ tab.host \in Nat /\ tab.n \in Nat
      /\ toHost \in Seq(Messages) /\ tab.n <= chrome.tab
  BY DEF HostInv, TabInv, Urls
<1>2. /\ toHost' \in Seq(Messages) /\ Len(toHost') = Len(toHost) + 1 /\ toHost'[Len(toHost) + 1] = m
      /\ \A i \in 1 .. Len(toHost) : toHost'[i] = toHost[i]
  BY <1>1, AppendFacts
<1>3. Range(toHost') = Range(toHost) \cup {m}
  BY <1>1, AppendRange
<1>4. tab' \in Urls /\ tab'.host <= host'.n /\ tab'.n <= chrome'.tab /\ (tab'.host = 0 => tab'.n = 0)
  <2>1. tab.host <= host.n /\ (tab.host = 0 => tab.n = 0)
    BY DEF TabInv
  <2>2. tab.n <= chrome'.tab
    BY <1>1
  <2> QED
    BY <1>1, <2>1, <2>2
<1>5. \A u \in UrlsOf(toHost') : u \in UrlsOf(toHost) \/ (m.op = "setActiveTabUrl" /\ u = m.n)
  BY <1>3 DEF UrlsOf, Numbers
<1>6. \A u \in UrlsOf(toHost) :
         /\ u \in Urls /\ u.host = host.n /\ u.n \in Nat /\ u.n <= chrome.tab
         /\ u.host = tab.host => u.n > tab.n
  BY DEF TabInv, Urls
<1>7. ASSUME NEW u \in UrlsOf(toHost')
      PROVE  u \in Urls /\ u.host = host'.n /\ u.n <= chrome'.tab /\ (u.host = tab'.host => u.n > tab'.n)
  <2>1. CASE u \in UrlsOf(toHost)
    <3>1. u \in Urls /\ u.host = host.n /\ u.n \in Nat /\ u.n <= chrome.tab /\ (u.host = tab.host => u.n > tab.n)
      BY <1>6, <2>1
    <3>2. u.n <= chrome'.tab
      BY <1>1, <3>1
    <3> QED
      BY <3>1, <3>2
  <2>2. CASE m.op = "setActiveTabUrl" /\ u = m.n
    <3>1. u \in Urls /\ u.host = host.n /\ u.n = chrome'.tab /\ chrome'.tab = chrome.tab + 1
      BY <2>2
    <3>2. u.n <= chrome'.tab /\ u.n > tab.n
      BY <1>1, <3>1
    <3> QED
      BY <3>1, <3>2
  <2> QED
    BY <1>5, <2>1, <2>2
<1>8. ASSUME NEW i \in DOMAIN toHost', NEW j \in DOMAIN toHost', i < j,
             toHost'[i].op = "setActiveTabUrl", toHost'[j].op = "setActiveTabUrl"
      PROVE  toHost'[i].n.n < toHost'[j].n.n
  <2>1. /\ i \in 1 .. Len(toHost) /\ i \in DOMAIN toHost /\ toHost'[i] = toHost[i]
        /\ j \in 1 .. Len(toHost) \/ j = Len(toHost) + 1
    BY <1>1, <1>2, <1>8
  <2>2. CASE j \in 1 .. Len(toHost)
    <3>1. j \in DOMAIN toHost /\ toHost'[j] = toHost[j]
      BY <1>1, <1>2, <2>2
    <3> QED
      BY <1>8, <2>1, <3>1 DEF TabInv
  <2>3. CASE j = Len(toHost) + 1
    <3>1. toHost'[j] = m /\ m.op = "setActiveTabUrl" /\ m.n.n = chrome.tab + 1
      BY <1>2, <1>8, <2>3
    <3>2. toHost[i].n \in UrlsOf(toHost)
      BY <1>8, <2>1 DEF UrlsOf, Numbers, Range
    <3>3. toHost[i].n.n \in Nat /\ toHost[i].n.n <= chrome.tab
      BY <1>6, <3>2
    <3>4. toHost[i].n.n < chrome.tab + 1
      BY <1>1, <3>3
    <3> QED
      BY <2>1, <3>1, <3>4
  <2> QED
    BY <2>1, <2>2, <2>3
<1>9. ASSUME NEW c \in Conns, NEW u \in UrlsOf(conn'[c].in)
      PROVE  /\ u \in Urls /\ u.host \in 1 .. host'.n /\ u.n <= chrome'.tab
             /\ u.host = tab'.host => u.n > tab'.n
             /\ u.host = host'.n => \A v \in UrlsOf(toHost') : u.n < v.n
             /\ u.host = host'.n /\ host'.up => c = host'.reads
             /\ \A d \in Conns \ {c} : \A v \in UrlsOf(conn'[d].in) : u.host # v.host
  <2>1. u \in UrlsOf(conn[c].in)
    OBVIOUS
  <2>2. /\ u \in Urls /\ u.host \in 1 .. host.n /\ u.n <= chrome.tab
        /\ u.host = tab.host => u.n > tab.n
        /\ u.host = host.n => \A v \in UrlsOf(toHost) : u.n < v.n
        /\ u.host = host.n /\ host.up => c = host.reads
        /\ \A d \in Conns \ {c} : \A v \in UrlsOf(conn[d].in) : u.host # v.host
    BY <2>1 DEF TabInv
  <2>3. u.n \in Nat
    BY <2>2 DEF Urls
  <2>4. u.n <= chrome'.tab /\ u.n < chrome.tab + 1
    BY <1>1, <2>2, <2>3
  <2>5. ASSUME u.host = host'.n, NEW v \in UrlsOf(toHost') PROVE u.n < v.n
    <3>1. CASE v \in UrlsOf(toHost)
      BY <2>2, <2>5, <3>1
    <3>2. CASE m.op = "setActiveTabUrl" /\ v = m.n
      BY <2>4, <3>2
    <3> QED
      BY <1>5, <2>5, <3>1, <3>2
  <2> QED
    BY <2>2, <2>4, <2>5
<1> QED
  BY <1>4, <1>7, <1>8, <1>9 DEF TabInv

HostRecords ==
    [up : BOOLEAN, n : Nat, sock : 0 .. MaxConn, reads : 0 .. MaxConn, main : {"read", "stuck"}]

\* The first message of a native host, and the host.
LEMMA NewHostFacts ==
    ASSUME HostInv
    PROVE  /\ Register \in Messages /\ Register.op = "registerNativeHost"
           /\ NewHost \in HostRecords /\ NewHost.up = TRUE /\ NewHost.n = host.n + 1
           /\ NewHost.n > 0 /\ NewHost.sock = None /\ NewHost.reads = None
<1>1. Register \in Messages /\ Register.op = "registerNativeHost"
  <2>1. "registerNativeHost" \in Ops /\ 0 \in Nat \cup Urls \cup Windows
    BY OpsFacts
  <2> QED
    BY <2>1, CommandFacts DEF Register
<1>2. host.n \in Nat
  BY DEF HostInv
<1>3. NewHost \in HostRecords /\ NewHost.up = TRUE /\ NewHost.n = host.n + 1
      /\ NewHost.sock = None /\ NewHost.reads = None
  BY <1>2, ConstantFacts DEF HostRecords, NewHost
<1> QED
  BY <1>1, <1>2, <1>3

\* A message of Chrome, and with it a native host if there is none.
LEMMA SendParts ==
    ASSUME ExtensionsInv, NEW m \in Messages, m.op \in {"setActiveTabUrl", "focusAck"},
           SendToNativeHost(m), UNCHANGED <<conn, tab>>,
           chrome' \in [port : BOOLEAN, tab : Nat, todo : SUBSET Nat], chrome'.port = TRUE,
           chrome'.tab >= chrome.tab,
           m.op = "setActiveTabUrl" =>
              /\ m.n \in Urls /\ m.n.n = chrome'.tab /\ chrome'.tab = chrome.tab + 1
              /\ m.n.host = IF chrome.port THEN host.n ELSE NewHost.n
    PROVE  HostInv' /\ TabInv' /\ Range(toHost') \subseteq Range(toHost) \cup {Register, m}
<1>1. HostInv /\ TabInv /\ toHost \in Seq(Messages)
  BY DEF ExtensionsInv, HostInv
<1>2. m.op \in OpsOf("host") /\ "registerNativeHost" \in OpsOf("host")
  BY OpsFacts
<1>3. CASE chrome.port
  <2>1. toHost' = Append(toHost, m) /\ UNCHANGED host
    BY <1>3 DEF SendToNativeHost
  <2>2. toHost' \in Seq(Messages) /\ Range(toHost') = Range(toHost) \cup {m}
    BY <1>1, <2>1, AppendRange
  <2>3. TabInv'
    BY <1>1, <1>3, <2>1, TabMore
  <2>4. host.up
    BY <1>1, <1>3 DEF HostInv
  <2>5. Has(host.reads, "host")'
    BY <1>1, <2>1 DEF HostInv, Has
  <2>6. \A k \in Range(toHost') : k.op \in OpsOf("host")
    BY <1>1, <1>2, <2>2 DEF HostInv
  <2>7. host.up = TRUE
    BY <1>1, <2>4 DEF HostInv
  <2>8. HostInv'
    BY <1>1, <2>1, <2>2, <2>5, <2>6, <2>7 DEF HostInv
  <2> QED
    BY <2>2, <2>3, <2>8
<1>4. CASE ~chrome.port
  <2> DEFINE r == <<Register, m>>
  <2>1. toHost' = r /\ host' = NewHost
    BY <1>4 DEF SendToNativeHost
  <2>2. /\ Register \in Messages /\ Register.op = "registerNativeHost"
        /\ NewHost \in HostRecords /\ NewHost.up = TRUE /\ NewHost.n = host.n + 1
        /\ NewHost.n > 0 /\ NewHost.sock = None /\ NewHost.reads = None
    BY <1>1, NewHostFacts
  <2>3. r \in Seq(Messages) /\ Len(r) = 2 /\ Range(r) = {Register, m} /\ r[1] = Register /\ r[2] = m
    BY <2>2, TwoFacts
  <2> HIDE DEF r
  <2>4. \A k \in Range(toHost') : k.op \in OpsOf("host")
    BY <1>2, <2>1, <2>2, <2>3
  <2>5. TabInv'
    <3>1. ASSUME NEW i \in DOMAIN toHost', toHost'[i].op = "setActiveTabUrl"
          PROVE  i = 2 /\ toHost'[i] = m /\ m.op = "setActiveTabUrl"
      <4>1. i \in {1, 2}
        BY <2>1, <2>3
      <4>2. i # 1
        BY <2>1, <2>2, <2>3, <3>1
      <4> QED
        BY <2>1, <2>3, <3>1, <4>1, <4>2
    <3>2. host'.n = host.n + 1
      BY <2>1, <2>2
    <3>3. ASSUME NEW i \in DOMAIN toHost', toHost'[i].op = "setActiveTabUrl"
          PROVE  /\ i = 2 /\ toHost'[i].n \in Urls
                 /\ toHost'[i].n.host = host'.n /\ toHost'[i].n.n <= chrome'.tab
      <4>1. i = 2 /\ toHost'[i] = m /\ m.op = "setActiveTabUrl"
        BY <3>1, <3>3
      <4>2. m.n \in Urls /\ m.n.host = NewHost.n /\ m.n.n = chrome'.tab
        BY <1>4, <4>1
      <4>3. chrome'.tab <= chrome'.tab
        OBVIOUS
      <4> QED
        BY <2>1, <4>1, <4>2, <4>3
    <3>4. chrome'.tab \in Nat
      OBVIOUS
    <3> QED
      BY <1>1, <3>2, <3>3, <3>4, TabNew
  <2>6. HostInv'
    <3>1. host' \in HostRecords /\ host'.up = TRUE /\ host'.n > 0 /\ host'.sock = None /\ host'.reads = None
      BY <2>1, <2>2
    <3>2. toHost' \in Seq(Messages)
      BY <2>1, <2>3
    <3> QED
      BY <2>4, <3>1, <3>2 DEF HostInv, HostRecords, Has
  <2> QED
    BY <2>1, <2>3, <2>5, <2>6
<1> QED
  BY <1>3, <1>4

\* Chrome starts a native host.
LEMMA ConnectToNativeHostStep ==
    ASSUME ExtensionsInv, ConnectToNativeHost
    PROVE  ExtensionsInv'
<1> DEFINE r == <<Register>>
<1>1. /\ UNCHANGED <<budget, conn, backlog, loop, daemon, sockets, tab, context, acked, waiters, requests,
                     confirmed, selector, focus, tasks, ready, overlap, missed>>
      /\ ~chrome.port /\ chrome' = [chrome EXCEPT !.port = TRUE] /\ toHost' = r /\ host' = NewHost
  BY DEF ConnectToNativeHost, daemonVars, pasteVars, trackerVars
<1>2. HostInv /\ TabInv
  BY DEF ExtensionsInv
<1>3. /\ Register \in Messages /\ Register.op = "registerNativeHost"
      /\ NewHost \in HostRecords /\ NewHost.up = TRUE /\ NewHost.n = host.n + 1
      /\ NewHost.n > 0 /\ NewHost.sock = None /\ NewHost.reads = None
  BY <1>2, NewHostFacts
<1>4. r \in Seq(Messages) /\ Len(r) = 1 /\ Range(r) = {Register}
  BY <1>3, OneFacts
<1> HIDE DEF r
<1>5. /\ chrome' \in [port : BOOLEAN, tab : Nat, todo : SUBSET Nat] /\ chrome'.port = TRUE
      /\ chrome'.tab = chrome.tab /\ chrome'.todo = chrome.todo /\ chrome.tab \in Nat
  BY <1>1, <1>2 DEF HostInv
<1>6. \A k \in Range(toHost') : k.op = "registerNativeHost" /\ k.op \in OpsOf("host")
  BY <1>1, <1>3, <1>4, OpsFacts
<1>7. HostInv'
  <2>1. host' \in HostRecords /\ host'.up = TRUE /\ host'.n > 0 /\ host'.sock = None /\ host'.reads = None
    BY <1>1, <1>3
  <2>2. toHost' \in Seq(Messages)
    BY <1>1, <1>4
  <2> QED
    BY <1>5, <1>6, <2>1, <2>2 DEF HostInv, HostRecords, Has
<1>8. TabInv'
  <2>1. host'.n = host.n + 1
    BY <1>1, <1>3
  <2>2. \A i \in DOMAIN toHost' : toHost'[i].op # "setActiveTabUrl"
    BY <1>6 DEF Range
  <2>3. chrome'.tab \in Nat /\ chrome'.tab >= chrome.tab
    BY <1>5
  <2> QED
    BY <1>1, <1>2, <2>1, <2>2, <2>3, TabNew
<1>9. PasteInv'
  <2>1. Numbers(toHost', "focusAck") = {}
    BY <1>6 DEF Numbers
  <2>2. Flying' \subseteq Flying
    BY <1>1, <1>5, <2>1 DEF Flying
  <2> QED
    BY <1>1, <2>2, PasteFrame DEF ExtensionsInv
<1> QED
  BY <1>1, <1>7, <1>8, <1>9, Frames DEF ExtensionsInv

\* Chrome reports the active tab.
LEMMA GetAndSendActiveTabUrlStep ==
    ASSUME ExtensionsInv, GetAndSendActiveTabUrl
    PROVE  ExtensionsInv'
<1> DEFINE url == [n |-> chrome.tab + 1, host |-> IF chrome.port THEN host.n ELSE NewHost.n]
           m == Command("setActiveTabUrl", url)
<1>1. /\ UNCHANGED <<conn, backlog, loop, daemon, sockets, tab, context, acked, waiters, requests,
                     confirmed, selector, focus, tasks, ready, overlap, missed>>
      /\ Spend("tabs") /\ chrome' = [chrome EXCEPT !.port = TRUE, !.tab = @ + 1] /\ SendToNativeHost(m)
  BY DEF GetAndSendActiveTabUrl, daemonVars, pasteVars, trackerVars
<1>2. HostInv
  BY DEF ExtensionsInv
<1>3. /\ chrome' \in [port : BOOLEAN, tab : Nat, todo : SUBSET Nat] /\ chrome'.port = TRUE
      /\ chrome'.tab = chrome.tab + 1 /\ chrome'.todo = chrome.todo /\ chrome.tab \in Nat
  <2>1. chrome \in [port : BOOLEAN, tab : Nat, todo : SUBSET Nat] /\ chrome.tab \in Nat
    BY <1>2 DEF HostInv
  <2>2. chrome.tab + 1 \in Nat
    BY <2>1
  <2> DEFINE k == chrome.tab + 1
  <2>3. chrome' = [chrome EXCEPT !.port = TRUE, !.tab = k] /\ k \in Nat
    BY <1>1, <2>2
  <2> HIDE DEF k
  <2>4. /\ chrome' \in [port : BOOLEAN, tab : Nat, todo : SUBSET Nat] /\ chrome'.port = TRUE
        /\ chrome'.tab = k /\ chrome'.todo = chrome.todo
    BY <2>1, <2>3
  <2> QED
    BY <2>1, <2>4 DEF k
<1>4. /\ url \in Urls /\ url.n = chrome.tab + 1
      /\ url.host = IF chrome.port THEN host.n ELSE NewHost.n
  <2>1. host.n \in Nat /\ NewHost.n \in Nat
    BY <1>2 DEF HostInv, NewHost
  <2> QED
    BY <1>3, <2>1 DEF Urls
<1> HIDE DEF url
<1>5. m \in Messages /\ m.op = "setActiveTabUrl" /\ m.n = url
  <2>1. "setActiveTabUrl" \in Ops /\ url \in Nat \cup Urls \cup Windows
    BY <1>4, OpsFacts
  <2> QED
    BY <2>1, CommandFacts
<1> HIDE DEF m
<1>6. HostInv' /\ TabInv' /\ Range(toHost') \subseteq Range(toHost) \cup {Register, m}
  <2>1. chrome'.tab >= chrome.tab
    BY <1>3
  <2>2. /\ m.op \in {"setActiveTabUrl", "focusAck"}
        /\ m.n \in Urls /\ m.n.n = chrome'.tab /\ chrome'.tab = chrome.tab + 1
        /\ m.n.host = IF chrome.port THEN host.n ELSE NewHost.n
    BY <1>3, <1>4, <1>5
  <2> QED
    BY <1>1, <1>3, <1>5, <2>1, <2>2, SendParts
<1>7. PasteInv'
  <2>1. Register.op = "registerNativeHost"
    BY <1>2, NewHostFacts
  <2>2. Numbers(toHost', "focusAck") \subseteq Numbers(toHost, "focusAck")
    BY <1>5, <1>6, <2>1 DEF Numbers
  <2>3. Flying' \subseteq Flying
    BY <1>1, <1>3, <2>2 DEF Flying
  <2> QED
    BY <1>1, <2>3, PasteFrame DEF ExtensionsInv
<1>8. BudgetInv'
  BY <1>1, SpendFacts DEF ExtensionsInv
<1> QED
  BY <1>1, <1>6, <1>7, <1>8, Frames DEF ExtensionsInv

\* Chrome acknowledges a focus request.
LEMMA FocusChatGPTTextareaStep ==
    ASSUME ExtensionsInv, NEW n \in chrome.todo, FocusChatGPTTextarea(n)
    PROVE  ExtensionsInv'
<1> DEFINE m == Command("focusAck", n)
<1>1. /\ UNCHANGED <<budget, conn, backlog, loop, daemon, sockets, tab, context, acked, waiters, requests,
                     confirmed, selector, focus, tasks, ready, overlap, missed>>
      /\ chrome' = [chrome EXCEPT !.port = TRUE, !.todo = @ \ {n}] /\ SendToNativeHost(m)
  BY DEF FocusChatGPTTextarea, daemonVars, pasteVars, trackerVars
<1>2. HostInv
  BY DEF ExtensionsInv
<1>3. /\ chrome' \in [port : BOOLEAN, tab : Nat, todo : SUBSET Nat] /\ chrome'.port = TRUE
      /\ chrome'.tab = chrome.tab /\ chrome'.todo \subseteq chrome.todo /\ chrome.tab \in Nat
      /\ n \in Nat
  BY <1>1, <1>2 DEF HostInv
<1>4. m \in Messages /\ m.op = "focusAck" /\ m.n = n
  <2>1. "focusAck" \in Ops /\ n \in Nat \cup Urls \cup Windows
    BY <1>3, OpsFacts
  <2> QED
    BY <2>1, CommandFacts
<1> HIDE DEF m
<1>5. HostInv' /\ TabInv' /\ Range(toHost') \subseteq Range(toHost) \cup {Register, m}
  <2>1. chrome'.tab >= chrome.tab /\ m.op \in {"setActiveTabUrl", "focusAck"} /\ m.op # "setActiveTabUrl"
    BY <1>3, <1>4
  <2> QED
    BY <1>1, <1>3, <1>4, <2>1, SendParts
<1>6. PasteInv'
  <2>1. Register.op = "registerNativeHost"
    BY <1>2, NewHostFacts
  <2>2. Numbers(toHost', "focusAck") \subseteq Numbers(toHost, "focusAck") \cup {n}
    BY <1>4, <1>5, <2>1 DEF Numbers
  <2>3. n \in Flying
    BY DEF Flying
  <2>4. Flying' \subseteq Flying
    BY <1>1, <1>3, <2>2, <2>3 DEF Flying
  <2> QED
    BY <1>1, <2>4, PasteFrame DEF ExtensionsInv
<1> QED
  BY <1>1, <1>5, <1>6, Frames DEF ExtensionsInv

-----------------------------------------------------------------------------
(* The invariant is inductive *)

LEMMA InitInv == Init => ExtensionsInv
<1> SUFFICES ASSUME Init
             PROVE  ExtensionsInv
  OBVIOUS
<1>1. BudgetInv
  BY ConstantsAssumption DEF Init, BudgetInv, Tools
<1>2. \A c \in Conns : conn[c] = Unused
  BY DEF Init
<1>3. Unused.fd = None /\ Unused.st = "unused" /\ Unused.in = <<>> /\ Unused.out = <<>>
  BY DEF Unused
<1>4. ConnInv
  <2>1. Unused \in Connections
    BY UnusedSound DEF Sound
  <2>2. conn \in [Conns -> Connections]
    BY <2>1 DEF Init
  <2> QED
    BY <1>2, <2>2, UnusedSound DEF ConnInv
<1>5. NumberInv
  BY <1>2, <1>3 DEF NumberInv
<1>6. BacklogInv
  <2>1. \A c \in Conns : conn[c].st # "backlog"
    BY <1>2, <1>3
  <2> QED
    BY <2>1, EmptyFacts DEF Init, BacklogInv
<1>7. LoopInv /\ SocketInv
  BY ConstantFacts DEF Init, LoopInv, SocketInv, Select
<1>8. HostInv
  BY ConstantFacts, EmptyFacts DEF Init, HostInv, Has
<1>9. SelectorInv
  BY ConstantFacts DEF Init, SelectorInv, Has
<1>10. TaskInv
  BY DEF Init, TaskInv
<1>11. \A c \in Conns : \A op : Numbers(conn[c].in, op) = {} /\ Numbers(conn[c].out, op) = {}
  BY <1>2, <1>3, EmptyFacts DEF Numbers
<1>12. \A op : Numbers(toHost, op) = {}
  BY EmptyFacts DEF Init, Numbers
<1>13. PasteInv
  <2>1. chrome.todo = {}
    BY DEF Init
  <2>2. Numbers(toHost, "focusAck") = {}
    BY <1>12
  <2>3. \A c \in Conns : Numbers(conn[c].in, "focusAck") = {} /\ Numbers(conn[c].out, "focus") = {}
    BY <1>11
  <2>4. Flying = {}
    BY <2>1, <2>2, <2>3 DEF Flying
  <2>5. acked \in BOOLEAN
    BY DEF Init
  <2>6. requests = 0 /\ confirmed = 0 /\ waiters = {}
    BY DEF Init
  <2> QED
    BY <2>4, <2>5, <2>6 DEF PasteInv
<1>14. ContextInv
  <2>1. \A c \in Conns : Range(conn[c].in) = {}
    BY <1>2, <1>3, EmptyFacts
  <2> QED
    BY <2>1 DEF Init, ContextInv
<1>15. TabInv
  <2>1. tab \in Urls /\ tab.host = 0 /\ tab.n = 0 /\ host.n = 0 /\ chrome.tab = 0 /\ toHost = <<>>
    BY DEF Init, Urls
  <2>2. UrlsOf(toHost) = {} /\ \A c \in Conns : UrlsOf(conn[c].in) = {}
    BY <1>11, <1>12 DEF UrlsOf
  <2> QED
    BY <2>1, <2>2 DEF TabInv
<1> QED
  BY <1>1, <1>4, <1>5, <1>6, <1>7, <1>8, <1>9, <1>10, <1>13, <1>14, <1>15 DEF ExtensionsInv

LEMMA NextInv == ExtensionsInv /\ [Next]_vars => ExtensionsInv'
<1> SUFFICES ASSUME ExtensionsInv, [Next]_vars
             PROVE  ExtensionsInv'
  OBVIOUS
<1>1. CASE UNCHANGED vars
  <2>1. UNCHANGED <<budget, conn, backlog, loop, daemon, tab, context, sockets, acked, waiters, requests,
                    confirmed, chrome, toHost, host, selector, focus, tasks, ready, overlap, missed>>
    BY <1>1 DEF vars, daemonVars, pasteVars, chromeVars, trackerVars
  <2> QED
    BY <2>1, Frames DEF ExtensionsInv
<1>2. CASE Loop
  BY <1>2, AcceptStep, ReadAnswerStep, EndOfFileStep, ServeStep DEF Loop
<1>3. CASE Host
  BY <1>3, MainSendsStep, ListenerConnectsStep, ListenerReceivesStep, ListenerEndsStep DEF Host
<1>4. CASE Selector
  BY <1>4, SelectorIdleStep, SelectorConnectsStep, SelectorAnswersStep, SelectorEndsStep DEF Selector
<1>5. CASE \E how \in {"stopped", "crashed"} : Stop(how)
  BY <1>5, StopStep
<1>6. CASE Start
  BY <1>6, StartStep
<1>7. CASE TriggerChromeChatGPTMacro \/ \E w \in waiters : Paste(w)
  BY <1>7, TriggerStep, PasteStep
<1>8. CASE ConnectToNativeHost \/ GetAndSendActiveTabUrl \/ HostEnds
  BY <1>8, ConnectToNativeHostStep, GetAndSendActiveTabUrlStep, HostEndsStep
<1>9. CASE \E n \in chrome.todo : FocusChatGPTTextarea(n)
  BY <1>9, FocusChatGPTTextareaStep
<1>10. CASE SelectorDisabled \/ SelectorEnabled
  BY <1>10, SelectorDisabledStep, SelectorIdleStep
<1>11. CASE SyncWindow \/ \E w \in Windows : FocusChanges(w)
  BY <1>11, SyncWindowStep, FocusChangesStep
<1>12. CASE \E t \in tasks : TaskConnects(t) \/ TaskGivesUp(t) \/ TaskEnds(t)
  BY <1>12, TaskConnectsStep, TaskGivesUpStep, TaskEndsStep
<1>13. CASE \E t \in budget.tools : ToolStarts(t)
  BY <1>13, ToolStartsStep
<1>14. CASE \E c \in Conns : ToolEnds(c)
  BY <1>14, ToolEndsStep
<1> QED
  BY <1>1, <1>2, <1>3, <1>4, <1>5, <1>6, <1>7, <1>8, <1>9, <1>10, <1>11, <1>12, <1>13, <1>14 DEF Next

LEMMA AlwaysInv == Spec => []ExtensionsInv
BY InitInv, NextInv, PTL DEF Spec

-----------------------------------------------------------------------------
(* What follows from it *)

LEMMA InvTypes == ExtensionsInv => TypeOK
<1> SUFFICES ASSUME ExtensionsInv
             PROVE  TypeOK
  OBVIOUS
<1>1. ASSUME NEW c \in Conns
      PROVE  /\ conn[c].who \in Holders /\ conn[c].st \in {"unused", "backlog", "open", "shut"}
             /\ conn[c].fd \in (IF conn[c].st = "open" THEN Fds ELSE {None})
             /\ conn[c].st = "unused" <=> conn[c].who = "none"
             /\ \A d \in Conns \ {c} : conn[c].fd # None => conn[c].fd # conn[d].fd
  <2>1. Sound(conn[c])
    BY DEF ExtensionsInv, ConnInv
  <2>2. /\ conn[c].who \in Holders /\ conn[c].st \in {"unused", "backlog", "open", "shut"}
        /\ conn[c].fd \in 0 .. MaxConn
    BY <2>1 DEF Sound, Connections
  <2>3. conn[c].fd \in (IF conn[c].st = "open" THEN Fds ELSE {None})
    BY <2>1, <2>2, ConstantFacts DEF Sound
  <2>4. \A d \in Conns \ {c} : conn[c].fd # None => conn[c].fd # conn[d].fd
    BY DEF ExtensionsInv, NumberInv
  <2>5. conn[c].st = "unused" <=> conn[c].who = "none"
    BY <2>1 DEF Sound
  <2> QED
    BY <2>2, <2>3, <2>4, <2>5
<1>2. Range(backlog) = {c \in Conns : conn[c].st = "backlog"}
  <2>1. Range(backlog) \subseteq Conns
    BY DEF ExtensionsInv, BacklogInv, Range
  <2> QED
    BY <2>1 DEF ExtensionsInv, BacklogInv
<1>3. /\ daemon \in {"up", "stopped", "crashed"}
      /\ loop.at \in {"select", "reading"}
      /\ loop.at = "reading" =>
            conn[loop.from].st = "open" /\ conn[loop.for].st = "open" /\ conn[loop.for].in = <<>>
  BY DEF ExtensionsInv, LoopInv
<1>4. {native, sync, window} \subseteq Fds \cup {None}
  BY ConstantFacts DEF ExtensionsInv, SocketInv
<1>5. /\ host.sock \in {None, host.reads} /\ host.up = chrome.port
      /\ host.reads # None => conn[host.reads].who = "host" /\ conn[host.reads].open
  BY DEF ExtensionsInv, HostInv, Has
<1>6. selector.at = "open" <=> selector.conn # None
  BY DEF ExtensionsInv, SelectorInv
<1>7. \A t \in tasks : t.conn # None => conn[t.conn].who = "tracker"
  BY DEF ExtensionsInv, TaskInv, Has
<1>8. confirmed \in 0 .. requests
  BY DEF ExtensionsInv, PasteInv
<1> QED
  BY <1>1, <1>2, <1>3, <1>4, <1>5, <1>6, <1>7, <1>8 DEF TypeOK

\* A tab that the daemon takes is newer than the one it has of the same host.
LEMMA TabStep ==
    ASSUME ExtensionsInv, [Next]_vars
    PROVE  [tab'.host = tab.host /\ tab' # tab => tab'.n > tab.n]_tab
<1>1. ASSUME NEW c \in Conns, Serve(c), tab' # tab
      PROVE  tab'.host = tab.host => tab'.n > tab.n
  <2> DEFINE m == Head(conn[c].in)
  <2>1. m.op = "setActiveTabUrl" /\ SetActiveTabUrl(c, m)
    BY <1>1 DEF Serve, RegisterNativeHost, FocusAck, FocusChatGPT, ShouldLog, RegisterWindowExtension,
                AskWindowExtension, ActiveWindowChanged, Unhandled
  <2>2. Selecting /\ conn[c].st = "open" /\ conn[c].in # <<>> /\ ServeLeaves /\ m = Head(conn[c].in)
    BY <1>1 DEF Serve, ServeLeaves
  <2> HIDE DEF m
  <2>3. m.n \in UrlsOf(conn[c].in) /\ tab' = m.n
    BY <2>1, <2>2, SetActiveTabUrlStep
  <2>4. \A u \in UrlsOf(conn[c].in) : u.host = tab.host => u.n > tab.n
    BY DEF ExtensionsInv, TabInv
  <2> QED
    BY <2>3, <2>4
<1>2. ASSUME NEW how, Stop(how)
      PROVE  tab'.host = tab.host => tab' = tab
  <2>1. tab' = [n |-> 0, host |-> 0]
    BY <1>2 DEF Stop
  <2>2. tab \in [n : Nat, host : Nat] /\ (tab.host = 0 => tab.n = 0)
    BY DEF ExtensionsInv, TabInv, Urls
  <2> QED
    BY <2>1, <2>2
<1>3. \/ UNCHANGED tab
      \/ \E c \in Conns : Serve(c)
      \/ \E how \in {"stopped", "crashed"} : Stop(how)
  <2>1. CASE UNCHANGED vars
    BY <2>1 DEF vars, daemonVars
  <2>2. CASE Loop
    BY <2>2 DEF Loop, AcceptNewClient, ReadAnswer, EndOfFile, daemonVars
  <2>3. CASE Host \/ Selector
    BY <2>3 DEF Host, Selector, MainSends, ListenerConnects, ListenerReceives, ListenerEnds,
                SelectorTries, SelectorConnects, SelectorAnswers, SelectorEnds, daemonVars
  <2>4. CASE \/ Start \/ TriggerChromeChatGPTMacro \/ \E w \in waiters : Paste(w)
    BY <2>4 DEF Start, TriggerChromeChatGPTMacro, Paste, daemonVars
  <2>5. CASE \/ ConnectToNativeHost \/ GetAndSendActiveTabUrl \/ HostEnds
             \/ \E n \in chrome.todo : FocusChatGPTTextarea(n)
    BY <2>5 DEF ConnectToNativeHost, GetAndSendActiveTabUrl, HostEnds, FocusChatGPTTextarea, daemonVars
  <2>6. CASE \/ SelectorDisabled \/ SelectorEnabled \/ SyncWindow \/ \E w \in Windows : FocusChanges(w)
    BY <2>6 DEF SelectorDisabled, SelectorEnabled, SyncWindow, FocusChanges, daemonVars
  <2>7. CASE \E t \in tasks : TaskConnects(t) \/ TaskGivesUp(t) \/ TaskEnds(t)
    BY <2>7 DEF TaskConnects, TaskGivesUp, TaskEnds, daemonVars
  <2>8. CASE (\E t \in budget.tools : ToolStarts(t)) \/ \E c \in Conns : ToolEnds(c)
    BY <2>8 DEF ToolStarts, ToolEnds, daemonVars
  <2> QED
    BY <2>1, <2>2, <2>3, <2>4, <2>5, <2>6, <2>7, <2>8 DEF Next
<1> QED
  BY <1>1, <1>2, <1>3

\* Every connection has one holder and one number of its own, the event loop
\* reads from and for open connections, and the native host, window-selector and
\* the tracker hold only connections that are theirs: for any number of
\* connections and whatever the programs, the daemon and its crashes do.
THEOREM ExtensionTypes == Spec => []TypeOK
<1>1. Spec => []ExtensionsInv
  BY AlwaysInv
<1>2. ExtensionsInv => TypeOK
  BY InvTypes
<1> QED
  BY <1>1, <1>2, PTL

\* A thread of triggerChromeChatGPTMacro that an acknowledgement releases pastes
\* after the browser set the focus for its request or a later one, unless an
\* earlier request or its acknowledgement was under way when it was asked for.
THEOREM PastesAfterFocus == Spec => []PasteAfterFocus
<1>1. Spec => []ExtensionsInv
  BY AlwaysInv
<1>2. ExtensionsInv => PasteAfterFocus
  BY DEF ExtensionsInv, PasteInv, PasteAfterFocus
<1> QED
  BY <1>1, <1>2, PTL

\* When no report of the tracker is under way, the macros are chosen for the
\* focused window or Chrome's tab, across stops and crashes of the daemon, unless
\* reports overlapped or one was read as an answer of window-selector.
THEOREM ContextFollows == Spec => []ContextFollowsFocus
<1>1. Spec => []ExtensionsInv
  BY AlwaysInv
<1>2. ExtensionsInv => ContextFollowsFocus
  BY DEF ExtensionsInv, ContextInv, ContextFollowsFocus, Selecting, Reporting
<1> QED
  BY <1>1, <1>2, PTL

\* The tabs of one native host reach the daemon in their order, over all its
\* reconnections and whatever other hosts' connections still hold.
THEOREM TabsStayInOrder == Spec => TabsInOrder
<1>1. Spec => []ExtensionsInv
  BY AlwaysInv
<1>2. ExtensionsInv /\ [Next]_vars => [tab'.host = tab.host /\ tab' # tab => tab'.n > tab.n]_tab
  BY TabStep
<1> QED
  BY <1>1, <1>2, PTL DEF Spec, TabsInOrder
=============================================================================
