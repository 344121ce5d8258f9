---------------------------- MODULE MCExtensions ----------------------------
EXTENDS Extensions

Budget(runs, tabs, pastes, focuses, stops, ends, disables, tools) ==
    [runs |-> runs, tabs |-> tabs, pastes |-> pastes, focuses |-> focuses, stops |-> stops,
     ends |-> ends, disables |-> disables, tools |-> tools]

Cli(op) == [who |-> "cli", op |-> op]
Script(op) == [who |-> "script", op |-> op]

\* A paste in Chrome after the command that sets the focus, with the native
\* host's connection closed by what it sends
Pasting == Budget({"chrome"}, 1, 1, 0, 0, 0, 0, {Cli("focusChatGPT")})
Repasting == Budget({"chrome"}, 1, 2, 0, 0, 0, 0, {})
\* The daemon writes to the number of a native host that ended
Logging == Budget({"chrome"}, 1, 0, 0, 0, 1, 0, {Cli("shouldLog")})
\* The focus is set while the native host ends and its number passes to the
\* tracker
Refocusing == Budget({"chrome", "tracker"}, 0, 0, 0, 0, 1, 0, {Cli("focusChatGPT")})
\* Tabs, while the native host and the daemon end
Reloading == Budget({"chrome"}, 2, 0, 0, 1, 1, 0, {})
\* Window lists, while window-selector is disabled and the daemon ends
Listing == Budget({"selector"}, 0, 0, 0, 1, 0, 1, {Cli("listWindows"), Script("listWindows")})
\* Changes of the focus, while the daemon ends
Focusing == Budget({"tracker"}, 0, 0, 2, 1, 0, 0, {})
\* The number of window-selector passes to the tracker, or to the native host
Passing == Budget({"selector", "tracker"}, 0, 0, 0, 0, 0, 1, {Cli("listWindows")})
Mixing == Budget({"selector", "chrome"}, 0, 0, 0, 0, 0, 1, {Cli("listWindows")})

MCBudgets ==
    {Pasting, Repasting, Logging, Refocusing, Reloading, Listing, Focusing, Passing, Mixing}
=============================================================================
