--------------------------- MODULE MCInputMapper ---------------------------
EXTENDS InputMapper

MCKeys == {KEY_6, KEY_LEFTCTRL, KEY_LEFTSHIFT, KEY_V, KEY_NUMLOCK, KEY_SCROLLLOCK,
           KEY_PAUSE, BTN_LEFT}
Chrome == [class |-> "google-chrome", title |-> "none"]
ChatGPT == [class |-> "xterm", title |-> "chatgpt"]
Terminal == [class |-> "xterm", title |-> "terminal"]
Editor == [class |-> "xterm", title |-> "none"]

Entry(keys) == [keys |-> keys, noiseBreaks |-> TRUE, sequence |-> Tap(KEY_A),
                message |-> "", hasHandler |-> FALSE]

\* V, held back until 6 follows, in Chrome; and an entry without keys
HoldV == <<[name |-> "google-chrome",
            list |-> <<Entry(<<Withheld(KEY_V), Press(KEY_6)>>), Entry(<<>>)>>]>>

Session(chords, windows, files, simulated, repeats, restarts) ==
    [chords |-> chords \cup {{}}, windows |-> windows, files |-> files,
     simulated |-> simulated, repeats |-> repeats, restarts |-> restarts, queue |-> 1]

\* New macros while keys are held, and restarts
Editing == Session({{KEY_V}, {KEY_6}}, {ChatGPT}, {HoldV}, {}, TRUE, TRUE)
\* Ctrl, Shift, Ctrl, Shift, 6, where 6 may have been held before
GKeys == Session({{KEY_6}, {KEY_LEFTCTRL}, {KEY_LEFTSHIFT}, {KEY_6, KEY_LEFTCTRL},
                  {KEY_6, KEY_LEFTSHIFT}}, {}, {}, {}, TRUE, FALSE)
\* Ctrl+Click in a terminal, which is left and entered again
Clicking == Session({{KEY_LEFTCTRL}, {KEY_LEFTCTRL, BTN_LEFT}, {BTN_LEFT}},
                    {Terminal, Editor}, {}, {}, FALSE, FALSE)
\* The keys that change the grab: while V is typed by a command, in Chrome, and
\* with Ctrl+V in Chrome, whose paste may come after the change
Scrolling == Session({{KEY_V}, {KEY_SCROLLLOCK}}, {}, {}, {Tap(KEY_V)}, TRUE, FALSE)
Pausing == Session({{KEY_LEFTCTRL}, {KEY_LEFTCTRL, KEY_PAUSE}}, {Chrome}, {}, {},
                   TRUE, FALSE)
Locking == Session({{KEY_LEFTCTRL}, {KEY_LEFTCTRL, KEY_V}, {KEY_LEFTCTRL, KEY_NUMLOCK}},
                   {Chrome}, {}, {}, FALSE, FALSE)

MCSessions == {Editing, GKeys, Clicking, Pausing, Scrolling, Locking}
=============================================================================
