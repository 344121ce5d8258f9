---------------------------- MODULE InputMapper ----------------------------
(***************************************************************************)
(* The macro engine (InputMapper.cpp, MacroConfig.cpp).  Three kinds of    *)
(* threads share it:                                                       *)
(*   the input thread (loop), which takes one event of the keyboard or     *)
(*   mouse at a time through the stages of processEvent;                   *)
(*   the event loop of the daemon, which changes the active window, the    *)
(*   macros and the grab (KeyboardManager, AutomationManager, cmdInput);   *)
(*   the detached threads of triggerChromeChatGPTMacro, which paste.       *)
(* The keyboard, the mouse and the virtual device are external: a key is   *)
(* held or not, an event waits in the queue of the device, and a queue     *)
(* that overflows is replaced by a resynchronisation.  The keys and the    *)
(* mouse buttons are their Linux codes.  KeyboardManager::setKeyboard does *)
(* not call start at this commit (its call is commented out): Start stands *)
(* for the method, whoever calls it.                                       *)
(***************************************************************************)
EXTENDS Integers, Sequences, FiniteSets, SequencesExt

CONSTANTS
    Keys,         \* codes of the keys and buttons a user presses
    Sessions,     \* bound of the model: what happens in one behaviour
    MaxPastes,    \* bound of the model on the threads that wait to paste
    MaxUpdates    \* bound of the model on replacements of the macros

KEY_1 == 2
KEY_6 == 7
KEY_7 == 8
KEY_ENTER == 28
KEY_LEFTCTRL == 29
KEY_A == 30
KEY_LEFTSHIFT == 42
KEY_C == 46
KEY_V == 47
KEY_LEFTALT == 56
KEY_NUMLOCK == 69
KEY_SCROLLLOCK == 70
KEY_END == 107
KEY_PAUSE == 119
BTN_MISC == 256
BTN_LEFT == 272
BTN_FORWARD == 277
KEY_OK == 352
KEY_MAX == 767
G(n) == 1000 + n

\* Shapes of the macros: a step of a trigger, the sequence it emits (pairs of a
\* code and a value), and the documents of updateMacros
Steps == [code : Nat, value : Int, suppress : BOOLEAN, ignoreRepeat : BOOLEAN]
KeySequences == Seq(Nat \X Int)
Documents ==
    Seq([name : STRING,
         list : Seq([keys : Seq(Steps), noiseBreaks : BOOLEAN,
                     sequence : KeySequences, message : STRING,
                     hasHandler : BOOLEAN])])

\* A session: the sets of keys held together, the windows that become active,
\* the documents of updateMacros, the sequences of simulateInput, whether a key is
\* held until it repeats, whether the mapper is stopped or the daemon restarted,
\* and how many events of a device may wait
ASSUME ConstantsAssumption ==
    /\ Keys \subseteq 0 .. KEY_MAX
    /\ \A s \in Sessions :
          /\ {} \in s.chords /\ s.chords \subseteq SUBSET Keys
          /\ s.files \subseteq Documents /\ s.simulated \subseteq KeySequences
          /\ s.queue \in Nat \ {0}
    /\ MaxPastes \in Nat \ {0} /\ MaxUpdates \in Nat

Apps == {"TERMINAL", "CODE", "CHROME", "OTHER"}
Codes == Keys \cup {G(n) : n \in 1 .. 6}
NoKey == -1
NoEvent == [code |-> NoKey, value |-> 0, sync |-> FALSE]

-----------------------------------------------------------------------------
(* Macros: KeyTrigger, KeyAction and the table of MacroConfig.cpp          *)

\* One step of a trigger: (code, value, suppress, ignoreRepeat) of an EV_KEY
Step(c, v, s, r) == [code |-> c, value |-> v, suppress |-> s, ignoreRepeat |-> r]
Press(c) == Step(c, 1, FALSE, FALSE)
Withheld(c) == Step(c, 1, TRUE, FALSE)

\* A trigger, the sequence it emits, or the handler it calls instead
KeyAction(t, noise, cached, q, h) ==
    [trigger |-> t, noiseBreaks |-> noise, hasSuppressedKeys |-> cached,
     sequence |-> q, handler |-> h]

Tap(c) == <<<<c, 1>>, <<c, 0>>>>
CtrlTap(c) == <<<<KEY_LEFTCTRL, 1>>, <<c, 1>>, <<c, 0>>, <<KEY_LEFTCTRL, 0>>>>

DefaultMacros ==
    <<KeyAction(<<Press(BTN_FORWARD)>>, TRUE, FALSE, Tap(KEY_ENTER), FALSE),
      KeyAction(<<Press(G(6))>>, TRUE, FALSE, CtrlTap(KEY_C), FALSE)>>

\* operator== of KeyTrigger
SameTrigger(a, b) ==
    /\ a.trigger = b.trigger
    /\ a.hasSuppressedKeys = b.hasSuppressedKeys
    /\ a.noiseBreaks = b.noiseBreaks

\* An entry of the application replaces the first entry with the same trigger
ApplyOverrides(specific) ==
    LET same(ms, a) == {i \in DOMAIN ms : SameTrigger(ms[i], a)}
        final[n \in 0 .. Len(specific)] ==
          IF n = 0 THEN DefaultMacros
          ELSE IF same(final[n - 1], specific[n]) # {}
          THEN [final[n - 1] EXCEPT ![Min(same(final[n - 1], specific[n]))] = specific[n]]
          ELSE Append(final[n - 1], specific[n])
    IN  final[Len(specific)]

\* Releases Ctrl for the digit and presses it again for the next click
CtrlClick ==
    KeyAction(<<Press(KEY_LEFTCTRL), Withheld(BTN_LEFT)>>, FALSE, TRUE,
              <<<<KEY_LEFTCTRL, 0>>, <<KEY_7, 1>>, <<KEY_7, 0>>, <<KEY_LEFTCTRL, 1>>>>,
              FALSE)

CtrlAltC == <<<<KEY_LEFTCTRL, 1>>, <<KEY_LEFTALT, 1>>, <<KEY_C, 1>>, <<KEY_C, 0>>,
              <<KEY_LEFTALT, 0>>, <<KEY_LEFTCTRL, 0>>>>

\* The words a macro types are left to one key
InitialMacros ==
    [app \in Apps |->
       CASE app = "TERMINAL" ->
              ApplyOverrides(
                <<KeyAction(<<Press(G(1))>>, TRUE, FALSE, CtrlAltC, FALSE),
                  KeyAction(<<Press(G(2))>>, TRUE, FALSE, Tap(KEY_ENTER), FALSE),
                  CtrlClick>>)
         [] app = "CODE" ->
              ApplyOverrides(
                <<KeyAction(<<Press(G(2))>>, TRUE, FALSE, Tap(KEY_END), FALSE),
                  KeyAction(<<Press(BTN_FORWARD)>>, TRUE, FALSE, Tap(KEY_A), FALSE)>>)
         [] app = "CHROME" ->
              ApplyOverrides(
                <<KeyAction(<<Step(KEY_LEFTCTRL, 1, FALSE, TRUE), Withheld(KEY_V)>>,
                            TRUE, FALSE, <<>>, TRUE)>>)
         [] app = "OTHER" -> DefaultMacros]

\* All its keys are keys of a keyboard: no buttons, no virtual codes
IsKeyboardOnlyMacro(a) ==
    \A c \in {a.trigger[i].code : i \in DOMAIN a.trigger}
             \cup {a.sequence[i][1] : i \in DOMAIN a.sequence} :
        ~(c >= BTN_MISC /\ c < KEY_OK) /\ c < 1000

\* stringToAppType; a class that says nothing falls back on the title
StringToAppType(name) ==
    CASE name = "gnome-terminal-server" -> "TERMINAL"
      [] name \in {"google-chrome", "antigravity", "chatgpt"} -> "CHROME"
      [] name = "code" -> "CODE"
      [] OTHER -> "OTHER"

AppTypeOf(w) ==
    LET byClass == StringToAppType(w.class)
    IN  IF byClass # "OTHER" THEN byClass
        ELSE IF w.title \in {"antigravity", "chatgpt"} THEN "CHROME"
        ELSE IF w.title = "terminal" THEN "TERMINAL"
        ELSE "OTHER"

\* One entry of the document: hasHandler counts only with the message of the
\* handler
ParsedMacro(ma) ==
    KeyAction(ma.keys, ma.noiseBreaks, \E i \in DOMAIN ma.keys : ma.keys[i].suppress,
              ma.sequence, ma.hasHandler /\ ma.message = "ChatGPT")

ParsedMacros(list) == [i \in DOMAIN list |-> ParsedMacro(list[i])]

\* The names of a document replace the macros of their application, one macro
\* after the other; an empty list replaces nothing, and the last name counts
SetMacrosFromJsonInternal(macros, j) ==
    [app \in Apps |->
        LET given == {n \in DOMAIN j :
                        StringToAppType(j[n].name) = app /\ j[n].list # <<>>}
        IN  IF given = {} THEN macros[app] ELSE ParsedMacros(j[Max(given)].list)]

-----------------------------------------------------------------------------
VARIABLES
    session,     \* chosen once
    running,     \* running_: devices open, virtual device made, thread started
    grabbed,     \* ~monitoringMode_ of open devices
    hw,          \* the keys the user holds
    rep,         \* the key the kernel repeats
    queue,       \* events of the devices the input thread has not read
    dropped,     \* devices whose queue overflowed: the next read resynchronises
    lib,         \* the keys that are down after the events libevdev returned
    pc,          \* where the input thread is
    cur,         \* the event it works on
    curApp,      \* the currentApp of stageMacros
    loopPc,      \* where the event loop is in a call of the mapper
    activeApp,   \* activeApp_
    appMacros,   \* appMacros_
    updates,     \* how often the macros were replaced
    saved,       \* the setting custom_macros; <<>> when there is none
    combos,      \* comboProgress_: nextKeyIndex of each combo, by application
    withheld,    \* suppressionRegistry_: [value, owner] entries by code
    pressedKeys, \* pressedKeys_
    vdown,       \* the keys that are down on the virtual device
    numLock,     \* numLockActive_
    gToggle,     \* gToggleState_
    scrollCount, \* emergencyScrollCount_
    pastes,      \* threads that wait for the focus and then paste
    typing,      \* what the paste thread that has uinputMutex_, and the command
                 \* simulateInput, have still to write
    stale,       \* ghost: codes withheld when macros were replaced, not claimed since
    abandoned    \* ghost: an ungrab, a stop, a change of the window or new macros
                 \* left keys that were tracked, down, withheld or counted by a combo
                 \* as they were, a G key took a release, or simulateInput releases
                 \* not all that it presses

hwVars == <<session, hw, rep, queue, dropped>>
threadVars == <<pc, cur, curApp>>
comboVars == <<combos, withheld, stale>>
configVars == <<appMacros, updates, saved>>
modeVars == <<numLock, gToggle, scrollCount>>
vars == <<hwVars, lib, threadVars, loopPc, activeApp, configVars, comboVars,
          pressedKeys, vdown, running, grabbed, modeVars, pastes, typing, abandoned>>

NothingWithheld == [c \in Codes |-> <<>>]
NoProgress == [app \in Apps |-> <<>>]
NothingTyped == [by \in {"paste", "loop"} |-> <<>>]

\* The daemon has started: loadPersistence found no macros
Init ==
    /\ session \in Sessions
    /\ running = FALSE /\ grabbed = FALSE
    /\ hw = {} /\ rep = NoKey /\ queue = <<>> /\ dropped = {} /\ lib = {}
    /\ pc = "idle" /\ cur = NoEvent /\ curApp = "OTHER" /\ loopPc = "idle"
    /\ activeApp = "OTHER" /\ appMacros = InitialMacros /\ updates = 0 /\ saved = <<>>
    /\ combos = NoProgress /\ withheld = NothingWithheld
    /\ pressedKeys = {} /\ vdown = {}
    /\ numLock = FALSE /\ gToggle = 1 /\ scrollCount = 0
    /\ pastes = 0 /\ typing = NothingTyped /\ stale = {} /\ abandoned = FALSE

-----------------------------------------------------------------------------
(* Emission, the registry of withheld events, and the resets built on them *)

\* What one event does to a set of keys that are down: a repetition changes
\* nothing, and the kernel refuses a virtual code
Emit(down, c, v) ==
    IF v = 1 /\ c <= KEY_MAX THEN down \cup {c}
    ELSE IF v = 0 THEN down \ {c} ELSE down

\* The sequence of a macro: each key is left as its last event that is no
\* repetition says.  The input thread emits it while the devices are grabbed, and
\* it is the one that ungrabs; what other threads type is written event by event
EmitSequence(down, q) ==
    {c \in down \cup {q[i][1] : i \in DOMAIN q} :
        LET told == {i \in DOMAIN q : q[i][1] = c /\ q[i][2] # 2}
        IN  IF c > KEY_MAX \/ told = {} THEN c \in down ELSE q[Max(told)][2] = 1}

\* emitSequence has uinputMutex_ from its first event to the last
MutexFree == typing["paste"] = <<>>

\* What is released once those who type have written all
Releasing ==
    UNION {{typing[by][i][1] : i \in {j \in DOMAIN typing[by] : typing[by][j][2] = 0}} :
               by \in DOMAIN typing}

\* A sequence releases what it presses
Balanced(q) ==
    \A i \in DOMAIN q : q[i][2] = 1 =>
        \E j \in DOMAIN q : j > i /\ q[j][1] = q[i][1] /\ q[j][2] = 0

\* The elements of s at the positions I, in their order
Kept(s, I) ==
    LET kept[n \in 0 .. Len(s)] ==
          IF n = 0 THEN <<>>
          ELSE IF n \in I THEN Append(kept[n - 1], s[n]) ELSE kept[n - 1]
    IN  kept[Len(s)]

\* SuppressionRegistry::claim by each of the owners: what stays
Unclaimed(reg, owners) ==
    [c \in Codes |-> Kept(reg[c], {n \in DOMAIN reg[c] : reg[c][n].owner \notin owners})]

\* What the claim of one owner returns.  remove_if moves the entries that stay
\* to the front; the tail it leaves is returned, with the values that were there
Claimed(reg, owner) ==
    [c \in Codes |->
        SubSeq(reg[c], Len(Unclaimed(reg, {owner})[c]) + 1, Len(reg[c]))]
IsBlocked(reg, c) == reg[c] # <<>>

\* Emits the claimed events of the codes in S, each code's in their order
EmitClaimed(down, claimed, S) ==
    {c \in down \cup S :
        LET told == {n \in DOMAIN claimed[c] : claimed[c][n].value # 2}
        IN  IF c \notin S \/ c > KEY_MAX \/ told = {} THEN c \in down
            ELSE claimed[c][Max(told)].value = 1}

\* A combo is given up: its withheld events are emitted, unless another combo
\* still withholds the code
BreakCombo(a, i) ==
    LET left == Unclaimed(a.withheld, {i})
    IN  [a EXCEPT !.withheld = left,
                  !.next[i] = 0,
                  !.vdown = EmitClaimed(a.vdown, Claimed(a.withheld, i),
                                        {c \in Codes : ~IsBlocked(left, c)})]

\* The indices claimed by a loop over comboProgress_
Owners == UNION {DOMAIN combos[app] : app \in Apps}
ResetCombos == [app \in Apps |-> [i \in DOMAIN combos[app] |-> 0]]

StillStale(reg) == {c \in stale : IsBlocked(reg, c)}

\* Mutant: the withheld events are not claimed
ReleaseAllKeepsWithheld(pressed) ==
    /\ combos' = ResetCombos
    /\ vdown' = vdown \ pressed
    /\ pressedKeys' = {}
    /\ UNCHANGED <<withheld, stale>>

\* releaseAllPressedKeys with pressedKeys_ = pressed: withheld events are
\* discarded, keys are released as far as they are tracked
ReleaseAllPressedKeys(pressed) ==
    /\ combos' = ResetCombos
    /\ withheld' = Unclaimed(withheld, Owners)
    /\ stale' = StillStale(withheld')
    /\ vdown' = vdown \ pressed
    /\ vdown' # vdown => MutexFree
    /\ pressedKeys' = {}

\* ghost: a step that resets nothing leaves keys behind
LeftBehind(pressed) ==
    \/ abandoned \/ (vdown \ Releasing) \cup pressed # {} \/ withheld # NothingWithheld
    \/ \E app \in Apps : \E i \in DOMAIN combos[app] : combos[app][i] > 0

UngrabDevices == grabbed' = FALSE

\* grabDevices waits for this, looking every 10 ms for 2 seconds
MayGrab == hw = {} /\ pressedKeys = {}

\* monitoringMode_ is cleared whether or not the kernel agreed
GrabDevices == grabbed' = TRUE

-----------------------------------------------------------------------------
(* The devices (external)                                                  *)

IsButton(c) == c >= BTN_MISC /\ c < KEY_OK

HwEvent(c, v) == [code |-> c, value |-> v, sync |-> FALSE]

Device(c) == IF IsButton(c) THEN "mouse" ELSE "keyboard"

\* The events of a device in its queue; those that libevdev makes up are not
Pending(d) == {n \in DOMAIN queue : Device(queue[n].code) = d /\ ~queue[n].sync}

\* An event reaches the queue of its device; a full queue is emptied and the
\* reader told that events were dropped
Arrive(c, v) ==
    \/ /\ ~running \/ Device(c) \in dropped
       /\ UNCHANGED <<queue, dropped>>
    \/ /\ running /\ Device(c) \notin dropped
       /\ Cardinality(Pending(Device(c))) < session.queue
       /\ queue' = Append(queue, HwEvent(c, v))
       /\ UNCHANGED dropped
    \/ /\ running /\ Device(c) \notin dropped
       /\ Cardinality(Pending(Device(c))) = session.queue
       /\ queue' = Kept(queue, DOMAIN queue \ Pending(Device(c)))
       /\ dropped' = dropped \cup {Device(c)}

NotTheDevices ==
    <<lib, threadVars, loopPc, activeApp, configVars, comboVars, pressedKeys,
      vdown, running, grabbed, modeVars, pastes, typing, abandoned>>

PressKey(c) ==
    /\ c \notin hw /\ hw \cup {c} \in session.chords
    /\ hw' = hw \cup {c}
    /\ rep' = IF IsButton(c) THEN rep ELSE c
    /\ Arrive(c, 1)
    /\ UNCHANGED <<session, NotTheDevices>>

ReleaseKey(c) ==
    /\ c \in hw /\ hw \ {c} \in session.chords
    /\ hw' = hw \ {c}
    /\ rep' = IF IsButton(c) THEN rep ELSE NoKey
    /\ Arrive(c, 0)
    /\ UNCHANGED <<session, NotTheDevices>>

\* The kernel repeats the key pressed last until a key is released
RepeatKey ==
    /\ session.repeats /\ rep # NoKey
    /\ Cardinality(Pending("keyboard")) < session.queue
    /\ Arrive(rep, 2)
    /\ UNCHANGED <<session, hw, rep, NotTheDevices>>

-----------------------------------------------------------------------------
(* The input thread: loop, and processEvent stage by stage                 *)

\* The loop reads the keyboard and the mouse one after the other: an event is
\* overtaken only by events of the other device, and the events of a
\* resynchronisation are read in one go
Readable ==
    {i \in DOMAIN queue :
        /\ \A j \in 1 .. i - 1 : Device(queue[j].code) # Device(queue[i].code)
        /\ queue[i].sync \/ Device(queue[i].code) \notin dropped
        /\ (\E j \in DOMAIN queue : queue[j].sync) => queue[i].sync}

\* Mutant: a release is not recorded
TrackPressOnly(pressed, e) ==
    IF e.value = 1 THEN pressed \cup {e.code} ELSE pressed

\* stageContext: the key is tracked, whatever the mode
Track(pressed, e) ==
    IF e.value = 1 THEN pressed \cup {e.code}
    ELSE IF e.value = 0 THEN pressed \ {e.code} ELSE pressed

\* The keys libevdev holds for down: a repetition counts as well
LibAfter(e) == IF e.value = 0 THEN lib \ {e.code} ELSE lib \cup {e.code}

Take(i) ==
    /\ running /\ pc = "idle"
    /\ cur' = queue[i]
    /\ queue' = RemoveAt(queue, i)
    /\ lib' = LibAfter(queue[i])
    /\ UNCHANGED <<session, hw, rep, dropped, curApp, loopPc, activeApp, configVars,
                   running, pastes, typing>>

IsPress(e, c) == e.code = c /\ e.value = 1

StageContext(i) ==
    /\ \A c \in {KEY_PAUSE, KEY_SCROLLLOCK, KEY_NUMLOCK} : ~IsPress(queue[i], c)
    /\ Take(i)
    /\ pressedKeys' = Track(pressedKeys, queue[i])
    /\ pc' = "check"
    /\ UNCHANGED <<comboVars, vdown, grabbed, modeVars, abandoned>>

\* Nothing that is down on the virtual device is released
EmergencyUngrab(e) ==
    /\ UngrabDevices
    /\ abandoned' = IF grabbed THEN LeftBehind(Track(pressedKeys, e)) ELSE abandoned

StageContextPause(i) ==
    /\ IsPress(queue[i], KEY_PAUSE)
    /\ Take(i)
    /\ EmergencyUngrab(queue[i])
    /\ pressedKeys' = Track(pressedKeys, queue[i])
    /\ pc' = "check"
    /\ UNCHANGED <<comboVars, vdown, modeVars>>

\* The third press within a second of the first
StageContextScrollLock(i) ==
    /\ IsPress(queue[i], KEY_SCROLLLOCK)
    /\ Take(i)
    /\ \/ /\ scrollCount' = 1
          /\ UNCHANGED <<grabbed, abandoned>>
       \/ /\ scrollCount = 1
          /\ scrollCount' = 2
          /\ UNCHANGED <<grabbed, abandoned>>
       \/ /\ scrollCount = 2
          /\ scrollCount' = 0
          /\ EmergencyUngrab(queue[i])
    /\ pressedKeys' = Track(pressedKeys, queue[i])
    /\ pc' = "check"
    /\ UNCHANGED <<comboVars, vdown, numLock, gToggle>>

\* setNumLockState: on ungrabs and releases, off waits for a grab
StageContextNumLock(i) ==
    /\ IsPress(queue[i], KEY_NUMLOCK)
    /\ Take(i)
    /\ numLock' = ~numLock
    /\ \/ /\ ~numLock
          /\ UngrabDevices
          /\ ReleaseAllPressedKeys(Track(pressedKeys, queue[i]))
          /\ abandoned' = (abandoned \/ vdown' \ Releasing # {})
          /\ pc' = "check"
       \/ /\ numLock
          /\ pressedKeys' = Track(pressedKeys, queue[i])
          /\ pc' = "grab"
          /\ UNCHANGED <<comboVars, vdown, grabbed, abandoned>>
    /\ UNCHANGED <<gToggle, scrollCount>>

\* The wait of setNumLockState ends, and what is tracked is released
NumLockGrab ==
    /\ pc = "grab"
    /\ IF MayGrab THEN GrabDevices ELSE UNCHANGED grabbed
    /\ ReleaseAllPressedKeys(pressedKeys)
    /\ pc' = "check"
    /\ UNCHANGED <<hwVars, lib, cur, curApp, loopPc, activeApp, configVars,
                   running, modeVars, pastes, typing, abandoned>>

\* detectGKey: Ctrl, Shift, Ctrl, Shift, digit
ToggleAfter(e) ==
    IF e.code \in {KEY_LEFTCTRL, KEY_LEFTSHIFT}
    THEN IF e.value # 1 THEN gToggle
         ELSE IF e.code = KEY_LEFTCTRL /\ gToggle \in {1, 3} THEN gToggle + 1
         ELSE IF e.code = KEY_LEFTSHIFT /\ gToggle \in {2, 4} THEN gToggle + 1
         ELSE 1
    ELSE 1

DetectGKey(e) == gToggle = 5 /\ e.code \in KEY_1 .. KEY_6

CheckVars == <<hwVars, lib, loopPc, activeApp, configVars, comboVars, vdown,
               running, grabbed, numLock, scrollCount, pastes, typing>>

\* Devices that are not grabbed are only watched
SkipMonitored ==
    /\ pc = "check" /\ ~grabbed
    /\ pc' = "idle"
    /\ cur' = NoEvent
    /\ UNCHANGED <<CheckVars, curApp, pressedKeys, gToggle, abandoned>>

\* stageGKey: the virtual event goes through processEvent in its place, also
\* where the event is the release of a digit that was pressed before
StageGKey ==
    /\ pc = "check" /\ grabbed /\ ~cur.sync /\ DetectGKey(cur)
    /\ cur' = [cur EXCEPT !.code = G(cur.code - KEY_1 + 1)]
    /\ pressedKeys' = Track(pressedKeys, cur')
    /\ gToggle' = 1
    /\ abandoned' = (abandoned \/ cur.value = 0)
    /\ UNCHANGED <<CheckVars, pc, curApp>>

\* Mutant: the mode is not looked at for the events of a resynchronisation
EnterMacrosSyncPasses ==
    /\ pc = "check"
    /\ \/ /\ cur.sync
          /\ pc' = "final"
          /\ UNCHANGED <<curApp, gToggle>>
       \/ /\ grabbed /\ ~cur.sync /\ ~DetectGKey(cur)
          /\ gToggle' = ToggleAfter(cur)
          /\ curApp' = activeApp
          /\ pc' = "macros"
    /\ UNCHANGED <<CheckVars, cur, pressedKeys, abandoned>>

\* stageMacros reads the application before it waits for macrosMutex_;
\* an event of a resynchronisation goes straight to emitFinal
EnterMacros ==
    /\ pc = "check" /\ grabbed
    /\ \/ /\ cur.sync
          /\ pc' = "final"
          /\ UNCHANGED <<curApp, gToggle>>
       \/ /\ ~cur.sync /\ ~DetectGKey(cur)
          /\ gToggle' = ToggleAfter(cur)
          /\ curApp' = activeApp
          /\ pc' = "macros"
    /\ UNCHANGED <<CheckVars, cur, pressedKeys, abandoned>>

\* Mutant: the value of the event is not compared
MatchesAnyValue(step, e) == step.code = e.code

\* A press also matches a repetition
Matches(step, e) ==
    /\ step.code = e.code
    /\ \/ step.value = 1 /\ e.value \in {1, 2}
       \/ step.value = 0 /\ e.value = 0

\* What does not match breaks a combo whose next step is n
Breaks(action, n, e) ==
    LET inCombo == \E i \in 1 .. n : action.trigger[i].code = e.code
    IN  \/ e.value = 1 /\ action.noiseBreaks
        \/ e.value = 0 /\ inCombo
        \/ e.value = 2 /\ ~inCombo /\ ~action.trigger[n + 1].ignoreRepeat

\* executeKeyAction: the sequence, or the thread of triggerChromeChatGPTMacro
ExecuteKeyAction(a, action) ==
    IF action.handler THEN [a EXCEPT !.pastes = a.pastes + 1]
    ELSE [a EXCEPT !.vdown = EmitSequence(a.vdown, action.sequence)]

\* SuppressionRegistry::add
Withhold(a, i, e) ==
    [a EXCEPT !.withheld[e.code] = Append(a.withheld[e.code],
                                          [value |-> e.value, owner |-> i]),
              !.matched = TRUE]

\* Mutant: the last step is taken for one before the last
AdvanceOneTooFar(a, i, action, e) ==
    IF a.next[i] + 1 <= Len(action.trigger)
    THEN [a EXCEPT !.next[i] = @ + 1] ELSE a

\* A step matched: its event is withheld if it says so, and the last step
\* executes the action and discards what the combo withheld
Advance(a, i, action, e) ==
    LET step == action.trigger[a.next[i] + 1]
        held == IF step.suppress THEN Withhold(a, i, e) ELSE a
    IN  IF a.next[i] + 1 < Len(action.trigger)
        THEN [held EXCEPT !.next[i] = a.next[i] + 1]
        ELSE ExecuteKeyAction([held EXCEPT !.withheld = Unclaimed(held.withheld, {i}),
                                           !.next[i] = 0], action)

\* One turn of the loop of stageMacros over the combos of an application; a
\* trigger without keys is passed over
OneCombo(a, i, action, e, timedOut) ==
    LET b == IF a.next[i] > 0 /\ timedOut THEN BreakCombo(a, i) ELSE a
    IN  IF action.trigger = <<>> THEN a
        ELSE IF numLock /\ ~IsKeyboardOnlyMacro(action)
        THEN IF b.next[i] > 0 THEN BreakCombo(b, i) ELSE b
        ELSE IF Matches(action.trigger[b.next[i] + 1], e)
             THEN Advance(b, i, action, e)
        ELSE IF b.next[i] > 0 /\ Breaks(action, b.next[i], e)
             THEN BreakCombo(b, i)
        ELSE b

\* The entries of comboProgress_ are made when an application is first visited
Visited(ms) == {i \in DOMAIN ms : ms[i].trigger # <<>>}
Progress(app) ==
    IF combos[app] # <<>> THEN combos[app]
    ELSE [i \in Visited(appMacros[app]) |-> 0]

InProgress == {i \in DOMAIN combos[curApp] : combos[curApp][i] > 0}

\* T: the combos that have not moved for two seconds
RunCombos(T) ==
    LET ms == appMacros[curApp]
        after[n \in 0 .. Len(ms)] ==
          IF n = 0 THEN [next |-> Progress(curApp), withheld |-> withheld,
                         vdown |-> vdown, pastes |-> pastes, matched |-> FALSE]
          ELSE OneCombo(after[n - 1], n, ms[n], cur, n \in T)
    IN  after[Len(ms)]

StageMacros(T) ==
    /\ pc = "macros"
    /\ LET r == RunCombos(T)
       IN  /\ r.pastes <= MaxPastes
           /\ combos' = [combos EXCEPT ![curApp] = r.next]
           /\ withheld' = r.withheld
           /\ stale' = StillStale(r.withheld)
           /\ vdown' = r.vdown
           /\ vdown' # vdown => MutexFree
           /\ pastes' = r.pastes
           /\ abandoned' = \/ abandoned
                           \/ /\ curApp # activeApp
                              /\ \E i \in DOMAIN r.next : r.next[i] > 0
           /\ \/ /\ r.matched \/ IsBlocked(r.withheld, cur.code)
                 /\ pc' = "idle" /\ cur' = NoEvent
              \/ /\ ~(r.matched \/ IsBlocked(r.withheld, cur.code))
                 /\ pc' = "final" /\ UNCHANGED cur
    /\ curApp' = "OTHER"
    /\ UNCHANGED <<hwVars, lib, loopPc, activeApp, configVars, pressedKeys,
                   running, grabbed, modeVars, typing>>

EmitFinal ==
    /\ pc = "final" /\ MutexFree
    /\ vdown' = Emit(vdown, cur.code, cur.value)
    /\ pc' = "idle" /\ cur' = NoEvent
    /\ UNCHANGED <<hwVars, lib, curApp, loopPc, activeApp, configVars, comboVars,
                   pressedKeys, running, grabbed, modeVars, pastes, typing, abandoned>>

\* flushAndResetState: every withheld event is emitted, blocked or not
FlushAll ==
    LET last == Max({Len(appMacros[app]) : app \in Apps})
        flushed[n \in 0 .. last] ==
          IF n = 0 THEN [withheld |-> withheld, vdown |-> vdown]
          ELSE IF n \notin Owners THEN flushed[n - 1]
          ELSE LET r == flushed[n - 1]
               IN  [withheld |-> Unclaimed(r.withheld, {n}),
                    vdown |-> EmitClaimed(r.vdown, Claimed(r.withheld, n), Codes)]
    IN  flushed[last]

\* The keys that changed while libevdev was not told, and the events it makes up
\* for them
Changed(d) == {c \in (hw \ lib) \cup (lib \ hw) : Device(c) = d}
SyncEvents(s) ==
    [i \in DOMAIN s |-> [code |-> s[i], value |-> IF s[i] \in hw THEN 1 ELSE 0,
                         sync |-> TRUE]]

Resynchronise ==
    /\ running /\ pc = "idle" /\ \A n \in DOMAIN queue : ~queue[n].sync
    /\ \E d \in dropped :
          /\ dropped' = dropped \ {d}
          /\ \E s \in [1 .. Cardinality(Changed(d)) -> Changed(d)] :
                /\ \A i, j \in DOMAIN s : i < j => s[i] < s[j]
                /\ queue' = SyncEvents(s) \o queue
    /\ combos' = ResetCombos
    /\ withheld' = FlushAll.withheld
    /\ stale' = StillStale(withheld')
    /\ vdown' = FlushAll.vdown
    /\ vdown' # vdown => MutexFree
    /\ gToggle' = 1
    /\ UNCHANGED <<session, hw, rep, lib, threadVars, loopPc, activeApp, configVars,
                   pressedKeys, running, grabbed, numLock, scrollCount, pastes, typing,
                   abandoned>>

\* One event of what is being typed
TypeKey(by) ==
    /\ typing[by] # <<>>
    /\ vdown' = Emit(vdown, Head(typing[by])[1], Head(typing[by])[2])
    /\ typing' = [typing EXCEPT ![by] = Tail(@)]
    /\ UNCHANGED <<hwVars, lib, threadVars, activeApp, configVars, comboVars,
                   pressedKeys, running, grabbed, modeVars, pastes, abandoned>>

\* The focus was acknowledged or 400 ms passed: the thread pastes either way, also
\* where the devices were ungrabbed meanwhile, but without a device it does nothing
Paste ==
    /\ pastes > 0 /\ MutexFree
    /\ pastes' = pastes - 1
    /\ typing' = IF running THEN [typing EXCEPT !["paste"] = CtrlTap(KEY_V)] ELSE typing
    /\ UNCHANGED <<hwVars, lib, threadVars, loopPc, activeApp, configVars, comboVars,
                   pressedKeys, vdown, running, grabbed, modeVars, abandoned>>

\* A stop takes the device from under the sequence: the next event crashes the
\* daemon (Restart), or a start has made another device before
PasteKey ==
    /\ running
    /\ TypeKey("paste")
    /\ UNCHANGED loopPc

-----------------------------------------------------------------------------
(* Commands of the event loop                                              *)

NotTheLoop ==
    <<hwVars, lib, threadVars, numLock, gToggle, scrollCount, pastes, typing>>

\* AutomationManager::onActiveWindowChanged and the first half of setContext
ActiveWindowChanged(w) ==
    /\ loopPc = "idle"
    /\ activeApp' = AppTypeOf(w)
    /\ loopPc' = "release"
    /\ abandoned' = (abandoned \/ withheld # NothingWithheld)
    /\ UNCHANGED <<NotTheLoop, configVars, comboVars, pressedKeys, vdown, running,
                   grabbed>>

\* The second half
SetContextReleases ==
    /\ loopPc = "release"
    /\ ReleaseAllPressedKeys(pressedKeys)
    /\ loopPc' = "idle"
    /\ UNCHANGED <<NotTheLoop, activeApp, configVars, running, grabbed, abandoned>>

\* toggleKeyboard with a running mapper
EnableKeyboard ==
    /\ loopPc = "idle" /\ running
    /\ loopPc' = "grab"
    /\ UNCHANGED <<NotTheLoop, activeApp, configVars, comboVars, pressedKeys, vdown,
                   running, grabbed, abandoned>>

EnableKeyboardGrab ==
    /\ loopPc = "grab"
    /\ IF MayGrab THEN GrabDevices ELSE UNCHANGED grabbed
    /\ loopPc' = "idle"
    /\ UNCHANGED <<NotTheLoop, activeApp, configVars, comboVars, pressedKeys, vdown,
                   running, abandoned>>

\* start; the keys held now are tracked
Start ==
    /\ loopPc = "idle" /\ ~running
    /\ running' = TRUE
    /\ grabbed' = FALSE
    /\ pressedKeys' = pressedKeys \cup hw
    /\ lib' = hw
    /\ UNCHANGED <<hwVars, threadVars, loopPc, activeApp, configVars, comboVars,
                   vdown, modeVars, pastes, typing, abandoned>>

\* The devices opened, the virtual device failed: what was tracked stays
StartFails ==
    /\ loopPc = "idle" /\ ~running /\ session.restarts
    /\ pressedKeys' = pressedKeys \cup hw
    /\ abandoned' = LeftBehind(hw)
    /\ UNCHANGED <<NotTheLoop, loopPc, activeApp, configVars, comboVars, vdown,
                   running, grabbed>>

\* stop joins the input thread and destroys the virtual device; it resets
\* neither the tracked keys nor the combos
Stop ==
    /\ loopPc = "idle" /\ running /\ pc = "idle" /\ session.restarts
    /\ running' = FALSE
    /\ UngrabDevices
    /\ queue' = <<>> /\ dropped' = {} /\ lib' = {}
    /\ vdown' = {}
    /\ abandoned' = LeftBehind(pressedKeys)
    /\ UNCHANGED <<session, hw, rep, threadVars, loopPc, activeApp, configVars, comboVars,
                   pressedKeys, modeVars, pastes, typing>>

\* updateMacros: comboProgress_ is cleared, the registry is not
ReplaceMacros(j) ==
    /\ loopPc = "idle" /\ updates < MaxUpdates
    /\ updates' = updates + 1
    /\ appMacros' = SetMacrosFromJsonInternal(appMacros, j)
    /\ combos' = NoProgress
    /\ stale' = {c \in Codes : IsBlocked(withheld, c)}
    /\ abandoned' = (abandoned \/ withheld # NothingWithheld)
    /\ UNCHANGED <<NotTheLoop, loopPc, activeApp, withheld, pressedKeys, vdown,
                   running, grabbed>>

UpdateMacros(j) ==
    /\ ReplaceMacros(j)
    /\ saved' = j

\* The macro after the first k of the n-th name is malformed: the exception
\* leaves what was read before it
UpdateMacrosFails(j) ==
    /\ \E n \in DOMAIN j : \E k \in 0 .. Len(j[n].list) - 1 :
          ReplaceMacros(Append(SubSeq(j, 1, n - 1),
                               [j[n] EXCEPT !.list = SubSeq(@, 1, k)]))
    /\ UNCHANGED saved

\* simulateInput (a string, a key or one event) and testIntegrity write to the
\* virtual device, if there is one,
SimulateInput(q) ==
    /\ loopPc = "idle" /\ running /\ q # <<>>
    /\ typing' = [typing EXCEPT !["loop"] = q]
    /\ loopPc' = "simulate"
    /\ abandoned' = (abandoned \/ ~Balanced(q))
    /\ UNCHANGED <<hwVars, lib, threadVars, modeVars, pastes, activeApp, configVars,
                   comboVars, pressedKeys, vdown, running, grabbed>>

\* one event after the other, each with uinputMutex_ of its own
SimulateKey ==
    /\ MutexFree
    /\ TypeKey("loop")
    /\ loopPc' = IF Len(typing["loop"]) = 1 THEN "idle" ELSE loopPc

\* The daemon is killed and started: loadPersistence applies the last document
Restart ==
    /\ session.restarts
    /\ running' = FALSE /\ grabbed' = FALSE
    /\ queue' = <<>> /\ dropped' = {} /\ lib' = {}
    /\ pc' = "idle" /\ cur' = NoEvent /\ curApp' = "OTHER" /\ loopPc' = "idle"
    /\ activeApp' = "OTHER"
    /\ appMacros' = SetMacrosFromJsonInternal(InitialMacros, saved)
    /\ combos' = NoProgress /\ withheld' = NothingWithheld
    /\ pressedKeys' = {} /\ vdown' = {}
    /\ numLock' = FALSE /\ gToggle' = 1 /\ scrollCount' = 0
    /\ pastes' = 0 /\ typing' = NothingTyped /\ stale' = {} /\ abandoned' = FALSE
    /\ UNCHANGED <<session, hw, rep, updates, saved>>
-----------------------------------------------------------------------------
InputThread ==
    \/ \E i \in Readable :
          \/ StageContext(i) \/ StageContextPause(i)
          \/ StageContextScrollLock(i) \/ StageContextNumLock(i)
    \/ NumLockGrab \/ SkipMonitored \/ StageGKey \/ EnterMacros
    \/ \E T \in SUBSET InProgress : StageMacros(T)
    \/ EmitFinal \/ Resynchronise

EventLoop ==
    \/ \E w \in session.windows : ActiveWindowChanged(w)
    \/ SetContextReleases \/ EnableKeyboard \/ EnableKeyboardGrab
    \/ Start \/ StartFails \/ Stop
    \/ \E j \in session.files : UpdateMacros(j) \/ UpdateMacrosFails(j)
    \/ \E q \in session.simulated : SimulateInput(q)
    \/ SimulateKey

Next ==
    \/ \E c \in Keys : PressKey(c) \/ ReleaseKey(c)
    \/ RepeatKey
    \/ InputThread \/ EventLoop \/ Paste \/ PasteKey \/ Restart

Spec == Init /\ [][Next]_vars

-----------------------------------------------------------------------------
Event == [code : Codes \cup {NoKey}, value : 0 .. 2, sync : BOOLEAN]

TypeOK ==
    /\ running \in BOOLEAN /\ grabbed \in BOOLEAN
    /\ hw \in session.chords /\ rep \in Keys \cup {NoKey}
    /\ queue \in Seq(Event) /\ dropped \subseteq {"keyboard", "mouse"} /\ lib \subseteq Keys
    /\ pc \in {"idle", "check", "grab", "macros", "final"}
    /\ loopPc \in {"idle", "release", "grab", "simulate"}
    /\ cur \in Event /\ curApp \in Apps /\ activeApp \in Apps
    /\ \A app \in Apps : combos[app] \in {<<>>} \cup [Visited(appMacros[app]) -> Nat]
    /\ \A app \in Apps : \A i \in DOMAIN combos[app] :
          combos[app][i] < Len(appMacros[app][i].trigger)
    /\ \A c \in Codes : withheld[c] \in Seq([value : 0 .. 2, owner : Nat \ {0}])
    /\ pressedKeys \subseteq Codes
    /\ numLock \in BOOLEAN /\ gToggle \in 1 .. 5 /\ scrollCount \in 0 .. 2
    /\ pastes \in 0 .. MaxPastes
    /\ typing \in [{"paste", "loop"} -> KeySequences]

\* A key is blocked only by a combo that has withheld it and still waits for
\* its next step, unless the macros were replaced meanwhile: setMacrosFromJson
\* clears comboProgress_ and not the registry of withheld events.
WithheldByCombo ==
    \A c \in Codes \ stale : \A n \in DOMAIN withheld[c] :
        \E app \in Apps :
            LET i == withheld[c][n].owner
            IN  /\ i \in DOMAIN combos[app]
                /\ \E k \in 1 .. combos[app][i] : appMacros[app][i].trigger[k].code = c

\* No key stays down on the virtual device after the user released it, as far
\* as the input thread has read ("Release any stuck keys on toggle",
\* setNumLockState; "to prevent stuck keys/macros", setContext), but for what a
\* paste or simulateInput is about to release.
NoStuckKeys == vdown \subseteq lib \cup {cur.code} \cup Releasing

\* A key gets stuck on the virtual device only where a change of the mode left
\* it: an ungrab or a stop that released not everything, or macros and windows
\* that changed while a key was withheld.  Between those, no path through the
\* stages swallows the release of a key whose press was emitted.
StuckOnlyIfAbandoned == ~abandoned => NoStuckKeys

\* pressedKeys_, for which grabDevices waits, holds no key that was released,
\* whatever was dropped and resynchronised: except the virtual code of a G key,
\* which no release erases, and what a stop or a failed start left.
TrackedKeysAreHeld ==
    ~abandoned => pressedKeys \subseteq lib \cup {G(n) : n \in 1 .. 6}

\* While the devices are only watched, no key of the hardware is pressed on the
\* virtual device: the desktop has it from the hardware already ("to avoid
\* double-input", processEvent).  What is pressed is what a paste thread or
\* simulateInput types, also after an ungrab within the delay of the paste; and, if
\* an emergency ungrab or a stop left withheld keys behind, a later
\* resynchronisation emits those and no others.  An event whose stages began before
\* an ungrab is not emitted after it, since only the input thread ungrabs while it
\* runs.
TypedKeys ==
    {Head(typing[by])[1] :
        by \in {b \in DOMAIN typing : typing[b] # <<>> /\ typing'[b] = Tail(typing[b])}}
FlushedKeys ==
    IF abandoned /\ dropped' \subseteq dropped /\ dropped' # dropped
    THEN {c \in Codes : IsBlocked(withheld, c)} ELSE {}

MonitoringDoublesNothing ==
    [][~grabbed => vdown' \ vdown \subseteq TypedKeys \cup FlushedKeys]_vars
=============================================================================
