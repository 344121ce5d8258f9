---------------------------- MODULE HistoryList ----------------------------
(***************************************************************************)
(* What the shared directory history promises to its shells: one list of   *)
(* directories, oldest first, and a place in it for each shell.  A shell   *)
(* moves its own place only; a directory is added at the end, and then the *)
(* oldest ones are dropped and every place keeps its directory while that  *)
(* is in the list.  Nothing is promised once the table was emptied by hand *)
(* or the daemon was killed inside a prune.                                *)
(***************************************************************************)
EXTENDS Integers, Sequences, FiniteSetsExt

CONSTANTS TTYs, Dirs, DefaultDir, MaxSize

VARIABLES
    list,       \* the directories
    place,      \* of each shell: its position in the list, or 0
    known,      \* the shells that have talked with the daemon since it started
    damaged     \* nothing is promised any more

listVars == <<list, place, known, damaged>>

ListInit ==
    /\ list = <<>>
    /\ place = [t \in TTYs |-> 0]
    /\ known = {} /\ damaged = FALSE

\* A shell that starts, or finds its directory gone, may find the default
\* directory in the place of one that is in the list
Defaulted(l) ==
    {l} \cup {[l EXCEPT ![i] = DefaultDir] : i \in DOMAIN l}
        \cup {<<DefaultDir>> : x \in {y \in {0} : l = <<>>}}

\* A shell goes to another place, comes or leaves, or the daemon was killed
Move(t) ==
    /\ list' \in Defaulted(list)
    /\ known' \in {known \cup {t}, known \ {t}, {}}
    /\ \E i \in 0 .. Len(list') : place' = [place EXCEPT ![t] = i]
    /\ UNCHANGED damaged

\* The list without its oldest n directories, and the places in it
Dropped(l, n) == SubSeq(l, n + 1, Len(l))
PlaceAfter(i, n) == IF i = 0 THEN 0 ELSE Max({i - n, 1})

\* A shell reports a directory that is not at its place
Report(t, p) ==
    /\ \E l \in Defaulted(list) :
          LET n == Max({Len(l) + 1 - MaxSize, 0})
          IN  /\ list' = Dropped(Append(l, p), n)
              /\ place' = [u \in TTYs |-> IF u = t THEN Len(l) + 1 - n
                                          ELSE PlaceAfter(place[u], n)]
    /\ known' = known \cup {t}
    /\ UNCHANGED damaged

\* The same, and the daemon was killed before it dropped anything
ReportCut(t, p) ==
    /\ \E l \in Defaulted(list) : list' = Append(l, p)
    /\ \E i \in 0 .. Len(list') : place' = [place EXCEPT ![t] = i]
    /\ known' = {}
    /\ UNCHANGED damaged

Damage ==
    /\ damaged' = TRUE
    /\ known' \subseteq TTYs
    /\ list' = <<>> /\ place' = [t \in TTYs |-> 0]

ListNext ==
    \/ \E t \in TTYs : Move(t) \/ \E p \in Dirs : Report(t, p) \/ ReportCut(t, p)
    \/ Damage

ListSpec == ListInit /\ [][ListNext]_listVars
=============================================================================
