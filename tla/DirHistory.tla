----------------------------- MODULE DirHistory -----------------------------
(***************************************************************************)
(* The shared directory history of the daemon: Terminal (terminal.cpp) on  *)
(* top of the tables terminal_history and terminal_sessions and of the     *)
(* setting indexOfLastTouchedDir (DatabaseTableManagers.cpp).              *)
(*                                                                         *)
(* Every shell reports its directory at each prompt (updateDirHistory),    *)
(* walks the history with cdForward and cdBackward, and all the shells     *)
(* share one list of entries.  The daemon runs one command at a time, but  *)
(* a command is several autocommitted statements: the daemon may be killed *)
(* between two of them, and the database may be away for a whole command.  *)
(***************************************************************************)
EXTENDS Integers, FiniteSets, FiniteSetsExt

CONSTANTS
    TTYs,         \* the terminals that talk to the daemon
    Dirs,         \* directory paths, standardised (they end in a slash)
    Volatile,     \* the directories that may be created and removed
    DefaultDir,   \* DIR_HISTORY_DEFAULT_DIR
    Root,         \* "/", which is also what a missing row standardises to
    MaxSize,      \* MAX_DIR_HISTORY_SIZE
    Edits,        \* what users write by hand to indexOfLastTouchedDir
    MaxIndex      \* bound of the model on history indices

ASSUME ConstantsAssumption ==
    /\ DefaultDir \in Dirs
    /\ Root \notin Dirs
    /\ Volatile \subseteq Dirs
    /\ MaxSize \in Nat \ {0}
    /\ MaxIndex \in Nat /\ MaxIndex >= MaxSize
    /\ Edits \subseteq -1 .. MaxIndex

VARIABLES
    db,         \* the persistent rows: history, sessions and last
    instances,  \* Terminal::instances, the terminals known in memory
    exists,     \* the directories that exist on disk
    shell,      \* where this daemon told a shell to go, until the shell reports
    intact      \* ghost: no emptied table and no torn prune so far

vars == <<db, instances, exists, shell, intact>>

None == -1      \* no such row, or the setting is absent

-----------------------------------------------------------------------------
(* The statements on the tables. *)

\* TerminalTable::upsertHistory
UpsertHistory(d, i, p) ==
    [d EXCEPT !.history = [x \in DOMAIN d.history \cup {i} |->
                              IF x = i THEN p ELSE d.history[x]]]

\* TerminalTable::setSessionPointer
SetSessionPointer(d, t, i) ==
    [d EXCEPT !.sessions = [d.sessions EXCEPT ![t] = i]]

\* SettingsTable::setSetting(INDEX_OF_LAST_TOUCHED_DIR_KEY, index)
SetLastTouched(d, i) == [d EXCEPT !.last = i]

\* TerminalTable::getMaxHistoryIndex
MaxHistoryIndex(d) == IF DOMAIN d.history = {} THEN None ELSE Max(DOMAIN d.history)

\* standardizePath(TerminalTable::getHistory(i)): a missing row reads as "/"
Entry(d, i) == IF i \in DOMAIN d.history THEN d.history[i] ELSE Root

\* Mutant: a missing session row is not mapped to 0
IndexRaw(d, t) == d.sessions[t]

\* Terminal::getIndex
Index(d, t) == IF d.sessions[t] >= 0 THEN d.sessions[t] ELSE 0

\* The four statements of TerminalTable::pruneHistory, in the code's order
\* (with mutants of them: the pointers are not rebased, or too far)
Cutoff(d) == Min(DOMAIN d.history) + (Cardinality(DOMAIN d.history) - MaxSize)

DeleteOldest(d) ==
    [d EXCEPT !.history = [x \in {i \in DOMAIN d.history : i >= Cutoff(d)} |->
                              d.history[x]]]

RebaseHistory(d, m) ==
    [d EXCEPT !.history = [x \in {i - m : i \in DOMAIN d.history} |->
                              d.history[x + m]]]

RebaseSessionsForgotten(d, m) == d

RebaseSessionsOneTooFar(d, m) ==
    [d EXCEPT !.sessions = [t \in TTYs |->
        IF d.sessions[t] = None THEN None
        ELSE IF d.sessions[t] > m THEN d.sessions[t] - m - 1 ELSE 0]]

RebaseSessions(d, m) ==
    [d EXCEPT !.sessions = [t \in TTYs |->
        IF d.sessions[t] = None THEN None
        ELSE IF d.sessions[t] > m THEN d.sessions[t] - m ELSE 0]]

RebaseLast(d, m) ==
    [d EXCEPT !.last = IF d.last = None THEN None
                       ELSE IF d.last > m THEN d.last - m ELSE 0]

NeedsPrune(d) == Cardinality(DOMAIN d.history) > MaxSize

Rebase(d) ==
    LET m == Min(DOMAIN d.history)
    IN  IF m <= 0 THEN d
        ELSE RebaseLast(RebaseSessions(RebaseHistory(d, m), m), m)

PruneHistory(d) == IF NeedsPrune(d) THEN Rebase(DeleteOldest(d)) ELSE d

-----------------------------------------------------------------------------
(* The handlers, as functions of the rows. *)

\* The indices whose directory exists on disk
Valid(d) == {i \in DOMAIN d.history : d.history[i] \in exists}

\* Terminal::Terminal: where a terminal the daemon does not know starts
NewTerminal(d, t) ==
    LET wanted == IF d.last >= 0 THEN d.last ELSE MaxHistoryIndex(d)
        d0     == IF wanted < 0 THEN UpsertHistory(d, 0, DefaultDir) ELSE d
        from   == IF wanted < 0 THEN 0 ELSE wanted
        below  == {i \in Valid(d0) : i <= from}
        newest == IF MaxHistoryIndex(d0) < 0 THEN 0 ELSE MaxHistoryIndex(d0)
    IN  IF below # {}
        THEN SetSessionPointer(d0, t, Max(below))
        ELSE SetSessionPointer(UpsertHistory(d0, newest, DefaultDir), t, newest)

\* getInstanceByTTY, or a new Terminal
Known(t) == IF t \in instances THEN db ELSE NewTerminal(db, t)

\* The walks of cdForward and cdBackward
Ahead(d, i) == {j \in Valid(d) : j > i}
Behind(d, i) == {j \in Valid(d) : j < i}

\* Terminal::_openedTty: the rows after it and the directory it replies with
OpenedAt(d0, t) ==
    LET d    == IF d0.sessions[t] >= 0 THEN d0
                ELSE UpsertHistory(SetSessionPointer(d0, t, 0), 0, DefaultDir)
        i    == Index(d0, t)
        dir  == Entry(d, i)
    IN  IF dir = Root
        THEN [rows |-> UpsertHistory(d, i, DefaultDir), dir |-> DefaultDir]
        ELSE IF dir \in exists THEN [rows |-> d, dir |-> dir]
        ELSE IF Behind(d, i) # {}
             THEN LET j == Max(Behind(d, i))
                  IN  [rows |-> SetSessionPointer(d, t, j), dir |-> d.history[j]]
             ELSE [rows |-> SetSessionPointer(d, t, 0), dir |-> DefaultDir]

\* Mutant: the entry is appended one index too far
AppendedOneTooFar(d, t, pwd) ==
    LET n == MaxHistoryIndex(d) + 2
    IN  SetLastTouched(SetSessionPointer(UpsertHistory(d, n, pwd), t, n), n)

\* Terminal::_updateDirHistory up to the prune: an entry is appended
Appended(d, t, pwd) ==
    LET n == MaxHistoryIndex(d) + 1
    IN  SetLastTouched(SetSessionPointer(UpsertHistory(d, n, pwd), t, n), n)

IsNew(d, t, pwd) ==
    /\ pwd # Root
    /\ pwd # Entry(d, Index(d, t))
    /\ pwd # Entry(d, Index(d, t) + 1)

\* Terminal::_updateDirHistory
Updated(d0, t, pwd) ==
    LET i == Index(d0, t)
        d == SetLastTouched(d0, i)
    IN  IF IsNew(d, t, pwd) THEN PruneHistory(Appended(d, t, pwd))
        ELSE IF pwd # Root /\ pwd # Entry(d, i)
             THEN SetSessionPointer(d, t, i + 1)
             ELSE d

-----------------------------------------------------------------------------
Init ==
    /\ db = [history  |-> [i \in {} |-> DefaultDir],
             sessions |-> [t \in TTYs |-> None],
             last     |-> None]
    /\ instances = {}
    /\ exists \in {D \in SUBSET Dirs : Dirs \ Volatile \subseteq D}
    /\ shell = [t \in TTYs |-> Root]
    /\ intact = TRUE

OpenedTty(t) ==
    LET r == OpenedAt(Known(t), t)
    IN  /\ db' = r.rows
        /\ shell' = [shell EXCEPT ![t] = r.dir]
        /\ instances' = instances \cup {t}
        /\ UNCHANGED <<exists, intact>>

\* closedTty of a terminal the daemon does not know only replies an error
ClosedTty(t) ==
    /\ t \in instances
    /\ instances' = instances \ {t}
    /\ db' = SetSessionPointer(db, t, None)
    /\ shell' = [shell EXCEPT ![t] = Root]
    /\ UNCHANGED <<exists, intact>>

\* The prompt hook reports the shell's directory; "/" is refused
UpdateDirHistory(t, pwd) ==
    /\ MaxHistoryIndex(db) < MaxIndex
    /\ db' = Updated(Known(t), t, pwd)
    /\ shell' = [shell EXCEPT ![t] = Root]
    /\ instances' = instances \cup {t}
    /\ UNCHANGED <<exists, intact>>

CdForward(t) ==
    LET d == Known(t)
        J == Ahead(d, Index(d, t))
    IN  /\ db' = IF J = {} THEN d ELSE SetSessionPointer(d, t, Min(J))
        /\ shell' = [shell EXCEPT ![t] = IF J = {} THEN @ ELSE d.history[Min(J)]]
        /\ instances' = instances \cup {t}
        /\ UNCHANGED <<exists, intact>>

\* Mutant: the pointer is not saved
CdBackwardNotSaved(t) ==
    LET d == Known(t)
        J == Behind(d, Index(d, t))
    IN  /\ db' = d
        /\ shell' = [shell EXCEPT ![t] = IF J = {} THEN @ ELSE d.history[Max(J)]]
        /\ instances' = instances \cup {t}
        /\ UNCHANGED <<exists, intact>>

CdBackward(t) ==
    LET d == Known(t)
        J == Behind(d, Index(d, t))
    IN  /\ db' = IF J = {} THEN d ELSE SetSessionPointer(d, t, Max(J))
        /\ shell' = [shell EXCEPT ![t] = IF J = {} THEN @ ELSE d.history[Max(J)]]
        /\ instances' = instances \cup {t}
        /\ UNCHANGED <<exists, intact>>

\* handleEmptyDirHistoryTable deletes the entries and nothing else
EmptyDirHistoryTable ==
    /\ db' = [db EXCEPT !.history = [i \in {} |-> DefaultDir]]
    /\ intact' = FALSE
    /\ UNCHANGED <<instances, exists, shell>>

\* handleUpsertEntry and handleDeleteEntry on indexOfLastTouchedDir
EditLastTouched(i) ==
    /\ db' = SetLastTouched(db, i)
    /\ UNCHANGED <<instances, exists, shell, intact>>

\* A command that finds no database: every read is empty, every write is lost
CommandWithoutDatabase(t) ==
    /\ \/ /\ instances' = instances \cup {t}
          /\ \/ shell' = [shell EXCEPT ![t] = DefaultDir]    \* openedTty
             \/ shell' = [shell EXCEPT ![t] = Root]          \* update
             \/ UNCHANGED shell                             \* cd
       \/ /\ t \in instances                                \* closedTty
          /\ instances' = instances \ {t}
          /\ shell' = [shell EXCEPT ![t] = Root]
    /\ UNCHANGED <<db, exists, intact>>

\* The daemon is killed and started again between two commands
Restart ==
    /\ instances' = {}
    /\ shell' = [t \in TTYs |-> Root]
    /\ UNCHANGED <<db, exists, intact>>

\* The daemon is killed inside updateDirHistory, after the entry is appended
\* and before the last statement of the prune
CrashInUpdate(t, pwd) ==
    LET d0 == SetLastTouched(Known(t), Index(Known(t), t))
        n  == MaxHistoryIndex(d0) + 1
        d1 == UpsertHistory(d0, n, pwd)
        d2 == Appended(d0, t, pwd)
        d3 == DeleteOldest(d2)
        m  == Min(DOMAIN d3.history)
        d4 == RebaseHistory(d3, m)
    IN  /\ MaxHistoryIndex(db) < MaxIndex
        /\ IsNew(d0, t, pwd)
        /\ \/ db' \in {d0, d1, SetSessionPointer(d1, t, n), d2} /\ UNCHANGED intact
           \/ /\ NeedsPrune(d2)
              /\ db' \in {d3, d4, RebaseSessions(d4, m)}
              /\ intact' = FALSE
        /\ instances' = {}
        /\ shell' = [u \in TTYs |-> Root]
        /\ UNCHANGED exists

\* Somebody creates or removes a directory
ChangeDisk(p) ==
    /\ exists' = IF p \in exists THEN exists \ {p} ELSE exists \cup {p}
    /\ UNCHANGED <<db, instances, shell, intact>>

Next ==
    \/ \E t \in TTYs :
          \/ OpenedTty(t) \/ ClosedTty(t) \/ CdForward(t) \/ CdBackward(t)
          \/ CommandWithoutDatabase(t)
          \/ \E p \in Dirs \cup {Root} : UpdateDirHistory(t, p)
          \/ \E p \in Dirs : CrashInUpdate(t, p)
    \/ EmptyDirHistoryTable
    \/ \E i \in Edits : EditLastTouched(i)
    \/ Restart
    \/ \E p \in Volatile : ChangeDisk(p)

Spec == Init /\ [][Next]_vars

-----------------------------------------------------------------------------
(* Properties. *)

\* Every row, pointer and ghost has its type.
TypeOK ==
    /\ DOMAIN db = {"history", "sessions", "last"}
    /\ DOMAIN db.history \subseteq 0 .. MaxIndex + 1
    /\ \A i \in DOMAIN db.history : db.history[i] \in Dirs
    /\ db.sessions \in [TTYs -> None .. MaxIndex + 1]
    /\ db.last \in None .. MaxIndex + 1
    /\ instances \subseteq TTYs
    /\ exists \subseteq Dirs
    /\ shell \in [TTYs -> Dirs \cup {Root}]
    /\ intact \in BOOLEAN

\* Appending, overwriting, pruning and rebasing, and a kill of the daemon
\* before the prune starts, never leave a hole in the history: its indices are
\* 0, 1, ..., n - 1, which is what the walks of cdForward and cdBackward and
\* the cutoff of pruneHistory rely on.
NoHoles ==
    intact => \A i \in DOMAIN db.history : \A j \in 0 .. i : j \in DOMAIN db.history

\* A session pointer always denotes an entry of the history, whatever the other
\* terminals append, prune and rebase.
PointersInHistory ==
    intact => \A t \in TTYs : db.sessions[t] # None => db.sessions[t] \in DOMAIN db.history

\* Until a shell reports the directory cdForward, cdBackward or openedTty sent
\* it to, its pointer keeps denoting that directory although other terminals
\* prune and rebase the list, so that the report finds currentDir == pwd and
\* appends nothing.  Only two things separate them: the entry was pruned (the
\* pointer is clamped to 0), or a starting terminal overwrote it with the
\* default directory.
ShellInStep ==
    intact => \A t \in TTYs :
        /\ shell[t] \in Dirs \ {DefaultDir}
        /\ db.sessions[t] > 0
        => Entry(db, db.sessions[t]) \in {shell[t], DefaultDir}

\* The rows as the list of module HistoryList
List == INSTANCE HistoryList WITH
    list <- IF intact THEN [i \in 1 .. Cardinality(DOMAIN db.history) |-> db.history[i - 1]]
            ELSE <<>>,
    place <- [t \in TTYs |-> IF intact THEN db.sessions[t] + 1 ELSE 0],
    known <- instances,
    damaged <- ~intact

\* The tables with their indices, pointers and rebasing implement one list in
\* which each shell has a place (HistoryList).  So updateDirHistory of one
\* terminal never moves another to another directory, unless the prune dropped
\* the entry it was on, and never leaves the list longer than
\* MAX_DIR_HISTORY_SIZE, also after a kill before a prune did.
ImplementsList == List!ListSpec
=============================================================================
