-------------------------- MODULE DirHistoryProofs --------------------------
(***************************************************************************)
(* The directory history for any number of terminals and directories, any  *)
(* MAX_DIR_HISTORY_SIZE and any edit of the last touched index: the types  *)
(* of the rows, the list without holes, the pointers in it, and that the   *)
(* tables implement the list of module HistoryList.                        *)
(***************************************************************************)
EXTENDS DirHistory, TLAPS, WellFoundedInduction, FiniteSetTheorems, SequenceTheorems

\* A set of naturals that is not empty has a least member, and Min is it.
LEMMA MinIsLeast ==
    ASSUME NEW S, S \subseteq Nat, S # {}
    PROVE  Min(S) \in S /\ \A y \in S : Min(S) <= y
<1>1. PICK x \in S : \A y \in S : ~(<<y, x>> \in OpToRel(<, Nat))
  BY NatLessThanWellFounded, WFMin
<1>2. ASSUME NEW y \in S PROVE x <= y
  <2>1. ~(y < x)
    BY <1>1 DEF OpToRel
  <2> QED
    BY <2>1, SMT
<1> QED
  BY <1>2 DEF Min

\* A set of numbers up to n that is not empty has a greatest member, and Max is it.
LEMMA MaxIsGreatest ==
    ASSUME NEW n \in Nat, NEW S, S \subseteq 0 .. n, S # {}
    PROVE  Max(S) \in S /\ \A y \in S : Max(S) >= y
<1> DEFINE T == {n - x : x \in S}
<1>1. T \subseteq Nat /\ T # {}
  <2>1. ASSUME NEW x \in S PROVE n - x \in Nat
    BY SMT
  <2>2. T \subseteq Nat
    BY <2>1
  <2>3. T # {}
    OBVIOUS
  <2> QED
    BY <2>2, <2>3
<1>2. Min(T) \in T /\ \A y \in T : Min(T) <= y
  <2> HIDE DEF T
  <2> QED
    BY <1>1, MinIsLeast
<1>3. PICK x \in S : Min(T) = n - x
  BY <1>2
<1>4. \A y \in S : x >= y
  BY <1>2, <1>3, SMT
<1> QED
  BY <1>4 DEF Max

Fields == {"history", "sessions", "last"}
Indices == 0 .. MaxIndex + 1
Pointers == None .. MaxIndex + 1

\* The rows have their types
RowsOK(d) ==
    /\ DOMAIN d = Fields
    /\ DOMAIN d.history \subseteq Indices
    /\ \A i \in DOMAIN d.history : d.history[i] \in Dirs
    /\ d.sessions \in [TTYs -> Pointers]
    /\ d.last \in Pointers

RestOK ==
    /\ instances \subseteq TTYs
    /\ exists \subseteq Dirs
    /\ shell \in [TTYs -> Dirs \cup {Root}]
    /\ intact \in BOOLEAN

LEMMA TypeParts ==
    /\ TypeOK <=> RowsOK(db) /\ RestOK
    /\ TypeOK' <=> RowsOK(db') /\ RestOK'
BY DEF TypeOK, RowsOK, RestOK, Fields, Indices, Pointers

-----------------------------------------------------------------------------
(* The statements on the tables *)

LEMMA UpsertRows ==
    ASSUME NEW d, RowsOK(d), NEW i, NEW p, NEW e, e = UpsertHistory(d, i, p)
    PROVE  /\ DOMAIN e = Fields /\ e.sessions = d.sessions /\ e.last = d.last
           /\ DOMAIN e.history = DOMAIN d.history \cup {i}
           /\ \A x \in DOMAIN d.history \cup {i} :
                  e.history[x] = IF x = i THEN p ELSE d.history[x]
           /\ i \in Indices /\ p \in Dirs => RowsOK(e)
BY DEF RowsOK, UpsertHistory, Fields

LEMMA SessionRows ==
    ASSUME NEW d, RowsOK(d), NEW t \in TTYs, NEW i \in Pointers,
           NEW e, e = SetSessionPointer(d, t, i)
    PROVE  /\ RowsOK(e) /\ e.history = d.history /\ e.last = d.last
           /\ e.sessions[t] = i
           /\ \A u \in TTYs \ {t} : e.sessions[u] = d.sessions[u]
BY DEF RowsOK, SetSessionPointer, Fields

LEMMA LastRows ==
    ASSUME NEW d, RowsOK(d), NEW i \in Pointers, NEW e, e = SetLastTouched(d, i)
    PROVE  /\ RowsOK(e) /\ e.history = d.history /\ e.sessions = d.sessions
           /\ e.last = i
BY DEF RowsOK, SetLastTouched, Fields

\* Numbers of rows and pointers are integers, and an index is a pointer.
LEMMA Numbers ==
    /\ MaxIndex + 1 \in Nat /\ 0 \in Indices
    /\ Indices \subseteq Nat /\ Indices \subseteq Pointers
    /\ Pointers \subseteq Int /\ None \in Pointers
    /\ \A i \in Pointers : i >= 0 => i \in Indices
    /\ \A i \in Pointers : i < 0 => i = None
BY ConstantsAssumption DEF Indices, Pointers, None

\* The greatest of some indices.
LEMMA MaxIndexOf ==
    ASSUME NEW S \in SUBSET Indices, S # {}
    PROVE  Max(S) \in S /\ \A y \in S : Max(S) >= y
BY Numbers, MaxIsGreatest DEF Indices

LEMMA MinIndexOf ==
    ASSUME NEW S \in SUBSET Indices, S # {}
    PROVE  Min(S) \in S /\ \A y \in S : Min(S) <= y
<1>1. S \subseteq Nat
  BY Numbers
<1> QED
  BY <1>1, MinIsLeast

LEMMA MaxRow ==
    ASSUME NEW d, RowsOK(d)
    PROVE  /\ MaxHistoryIndex(d) \in Pointers
           /\ DOMAIN d.history = {} => MaxHistoryIndex(d) = None
           /\ DOMAIN d.history # {} =>
                  /\ MaxHistoryIndex(d) \in DOMAIN d.history
                  /\ MaxHistoryIndex(d) >= 0
           /\ \A i \in DOMAIN d.history : i <= MaxHistoryIndex(d)
<1>1. CASE DOMAIN d.history = {}
  BY <1>1, Numbers DEF MaxHistoryIndex, None
<1>2. CASE DOMAIN d.history # {}
  <2>1. MaxHistoryIndex(d) = Max(DOMAIN d.history)
    BY <1>2 DEF MaxHistoryIndex
  <2>2. DOMAIN d.history \in SUBSET Indices
    BY DEF RowsOK
  <2> DEFINE D == DOMAIN d.history
  <2>3. Max(D) \in D /\ \A y \in D : Max(D) >= y
    BY <1>2, <2>2, MaxIndexOf
  <2>4. \A y \in D : y \in Nat
    BY <2>2, Numbers
  <2>5. \A y \in D : y <= Max(D)
    BY <2>3, <2>4
  <2>6. Max(D) >= 0 /\ Max(D) \in Pointers
    BY <2>2, <2>3, <2>4, Numbers
  <2> QED
    BY <1>2, <2>1, <2>3, <2>5, <2>6
<1> QED
  BY <1>1, <1>2

\* An entry is a directory when it is in the table, and Root only when it is not.
LEMMA EntryRow ==
    ASSUME NEW d, RowsOK(d), NEW i
    PROVE  /\ Entry(d, i) \in Dirs \cup {Root}
           /\ Entry(d, i) = Root <=> i \notin DOMAIN d.history
           /\ i \in DOMAIN d.history => Entry(d, i) = d.history[i]
BY ConstantsAssumption DEF RowsOK, Entry

LEMMA IndexRow ==
    ASSUME NEW d, RowsOK(d), NEW t \in TTYs
    PROVE  /\ Index(d, t) \in Indices
           /\ d.sessions[t] >= 0 => Index(d, t) = d.sessions[t]
           /\ d.sessions[t] < 0 => Index(d, t) = 0
           /\ d.sessions[t] \in Pointers
<1>1. d.sessions[t] \in Pointers
  BY DEF RowsOK
<1>2. d.sessions[t] \in Int /\ 0 \in Indices /\ (d.sessions[t] >= 0 => d.sessions[t] \in Indices)
  BY <1>1, Numbers
<1> QED
  BY <1>1, <1>2 DEF Index

-----------------------------------------------------------------------------
(* What a starting terminal does to the rows *)

\* The entries of e are those of d
SameEntries(d, e) ==
    /\ DOMAIN e.history = DOMAIN d.history
    /\ \A x \in DOMAIN d.history : e.history[x] = d.history[x]

\* ... but entry k is the default directory
DefaultAt(d, e, k) ==
    /\ DOMAIN e.history = DOMAIN d.history \cup {k}
    /\ \A x \in DOMAIN e.history : e.history[x] = IF x = k THEN DefaultDir ELSE d.history[x]

\* At most one entry became the default directory, or the first was written
Overwrites(d, e) ==
    SameEntries(d, e) \/ \E k \in DOMAIN d.history \cup {0} : DefaultAt(d, e, k)

\* The session of t may have changed, and no other
OthersStay(d, e, t) == \A u \in TTYs \ {t} : e.sessions[u] = d.sessions[u]

LEMMA NewTerminalRows ==
    ASSUME NEW d, RowsOK(d), NEW t \in TTYs
    PROVE  /\ RowsOK(NewTerminal(d, t))
           /\ Overwrites(d, NewTerminal(d, t))
           /\ OthersStay(d, NewTerminal(d, t), t)
           /\ NewTerminal(d, t).last = d.last
           /\ NewTerminal(d, t).sessions[t] \in DOMAIN NewTerminal(d, t).history
<1> DEFINE wanted == IF d.last >= 0 THEN d.last ELSE MaxHistoryIndex(d)
           d0     == IF wanted < 0 THEN UpsertHistory(d, 0, DefaultDir) ELSE d
           from   == IF wanted < 0 THEN 0 ELSE wanted
           below  == {i \in Valid(d0) : i <= from}
           newest == IF MaxHistoryIndex(d0) < 0 THEN 0 ELSE MaxHistoryIndex(d0)
           d1     == UpsertHistory(d0, newest, DefaultDir)
           e      == NewTerminal(d, t)
<1>1. e = IF below # {} THEN SetSessionPointer(d0, t, Max(below))
          ELSE SetSessionPointer(d1, t, newest)
  BY DEF NewTerminal
<1>0. DefaultDir \in Dirs /\ 0 \in Indices
  BY ConstantsAssumption, Numbers
<1>2. /\ RowsOK(d0) /\ d0.sessions = d.sessions /\ d0.last = d.last
      /\ \/ SameEntries(d, d0)
         \/ DOMAIN d.history = {} /\ DefaultAt(d, d0, 0)
  <2>1. CASE wanted < 0
    <3>1. MaxHistoryIndex(d) < 0
      <4>1. d.last \in Int /\ MaxHistoryIndex(d) \in Int
        BY MaxRow, Numbers DEF RowsOK
      <4> QED
        BY <2>1, <4>1
    <3>2. DOMAIN d.history = {}
      <4>1. MaxHistoryIndex(d) \in Int /\ (DOMAIN d.history # {} => MaxHistoryIndex(d) >= 0)
        BY MaxRow, Numbers
      <4> QED
        BY <3>1, <4>1
    <3>3. d0 = UpsertHistory(d, 0, DefaultDir)
      BY <2>1
    <3> HIDE DEF d0
    <3> QED
      BY <1>0, <3>2, <3>3, UpsertRows DEF DefaultAt
  <2>2. CASE ~(wanted < 0)
    BY <2>2 DEF SameEntries
  <2> QED
    BY <2>1, <2>2
<1> HIDE DEF d0, e
<1>3. /\ newest \in Indices
      /\ newest \in DOMAIN d0.history \/ (newest = 0 /\ DOMAIN d0.history = {})
  <2>1. MaxHistoryIndex(d0) \in Pointers /\ MaxHistoryIndex(d0) \in Int
    BY <1>2, MaxRow, Numbers
  <2>2. CASE DOMAIN d0.history = {}
    <3>1. MaxHistoryIndex(d0) = None /\ None < 0
      BY <1>2, <2>2, MaxRow DEF None
    <3> QED
      BY <1>0, <2>2, <3>1
  <2>3. CASE DOMAIN d0.history # {}
    <3>1. MaxHistoryIndex(d0) \in DOMAIN d0.history /\ MaxHistoryIndex(d0) >= 0
      BY <1>2, <2>3, MaxRow
    <3>2. newest = MaxHistoryIndex(d0)
      BY <2>1, <3>1
    <3> QED
      BY <1>2, <3>1, <3>2 DEF RowsOK
  <2> QED
    BY <2>2, <2>3
<1> HIDE DEF newest
<1>4. CASE below # {}
  <2>1. below \in SUBSET Indices /\ below \subseteq DOMAIN d0.history
    BY <1>2 DEF Valid, RowsOK
  <2> DEFINE m == Max(below)
  <2>2. m \in below
    BY <1>4, <2>1, MaxIndexOf
  <2> HIDE DEF below, m
  <2>3. e = SetSessionPointer(d0, t, m)
    BY <1>1, <1>4 DEF m
  <2>4. m \in Pointers /\ m \in DOMAIN d0.history
    BY <2>1, <2>2, Numbers
  <2>5. /\ RowsOK(e) /\ e.history = d0.history /\ e.last = d0.last /\ e.sessions[t] = m
        /\ \A u \in TTYs \ {t} : e.sessions[u] = d0.sessions[u]
    BY <1>2, <2>3, <2>4, SessionRows
  <2>6. Overwrites(d, e)
    BY <1>2, <2>5 DEF Overwrites, SameEntries, DefaultAt
  <2>7. OthersStay(d, e, t)
    BY <1>2, <2>5 DEF OthersStay
  <2> QED
    BY <1>2, <2>4, <2>5, <2>6, <2>7 DEF e
<1>5. CASE ~(below # {})
  <2>1. /\ RowsOK(d1) /\ d1.sessions = d0.sessions /\ d1.last = d0.last
        /\ DOMAIN d1.history = DOMAIN d0.history \cup {newest}
        /\ \A x \in DOMAIN d0.history \cup {newest} :
               d1.history[x] = IF x = newest THEN DefaultDir ELSE d0.history[x]
    BY <1>0, <1>2, <1>3, UpsertRows
  <2>2. e = SetSessionPointer(d1, t, newest)
    BY <1>1, <1>5
  <2> HIDE DEF d1
  <2>3. newest \in Pointers
    BY <1>3, Numbers
  <2>4. /\ RowsOK(e) /\ e.history = d1.history /\ e.last = d1.last /\ e.sessions[t] = newest
        /\ \A u \in TTYs \ {t} : e.sessions[u] = d1.sessions[u]
    BY <2>1, <2>2, <2>3, SessionRows
  <2>5. newest \in DOMAIN d.history \cup {0} /\ DefaultAt(d, e, newest)
    <3>1. CASE SameEntries(d, d0)
      BY <1>3, <2>1, <2>4, <3>1 DEF SameEntries, DefaultAt
    <3>2. CASE DOMAIN d.history = {} /\ DefaultAt(d, d0, 0)
      <4>1. DOMAIN d0.history = {0} /\ newest = 0
        BY <1>3, <3>2 DEF DefaultAt
      <4> QED
        BY <2>1, <2>4, <3>2, <4>1 DEF DefaultAt
    <3> QED
      BY <1>2, <3>1, <3>2
  <2>6. OthersStay(d, e, t)
    BY <1>2, <2>1, <2>4 DEF OthersStay
  <2> QED
    BY <1>2, <2>1, <2>4, <2>5, <2>6 DEF Overwrites, e
<1> QED
  BY <1>4, <1>5

-----------------------------------------------------------------------------
(* The rows of an intact history *)

Dense(d) == \A i \in DOMAIN d.history : \A j \in 0 .. i : j \in DOMAIN d.history

PointersIn(d) ==
    \A t \in TTYs : d.sessions[t] # None => d.sessions[t] \in DOMAIN d.history

Whole(d) == Dense(d) /\ PointersIn(d)

LEMMA DenseFirst ==
    ASSUME NEW d, RowsOK(d), Dense(d), DOMAIN d.history # {}
    PROVE  0 \in DOMAIN d.history
<1>1. PICK i \in DOMAIN d.history : TRUE
  OBVIOUS
<1>2. i \in Nat
  BY Numbers DEF RowsOK
<1> QED
  BY <1>2 DEF Dense

\* An overwritten entry leaves no hole and takes no entry from a pointer.
LEMMA OverwritesWhole ==
    ASSUME NEW d, RowsOK(d), Whole(d), NEW e, RowsOK(e), Overwrites(d, e),
           NEW t \in TTYs, OthersStay(d, e, t),
           e.sessions[t] = None \/ e.sessions[t] \in DOMAIN e.history
    PROVE  Whole(e)
<1>1. PICK K \in SUBSET (DOMAIN d.history \cup {0}) : DOMAIN e.history = DOMAIN d.history \cup K
  <2>1. CASE SameEntries(d, e)
    BY <2>1, DOMAIN e.history = DOMAIN d.history \cup {} DEF SameEntries
  <2>2. ASSUME NEW k \in DOMAIN d.history \cup {0}, DefaultAt(d, e, k)
        PROVE  \E K \in SUBSET (DOMAIN d.history \cup {0}) :
                   DOMAIN e.history = DOMAIN d.history \cup K
    <3>1. {k} \in SUBSET (DOMAIN d.history \cup {0})
      OBVIOUS
    <3> QED
      BY <2>2, <3>1 DEF DefaultAt
  <2> QED
    BY <2>1, <2>2 DEF Overwrites
<1>2. Dense(e)
  <2> SUFFICES ASSUME NEW i \in DOMAIN e.history, NEW j \in 0 .. i
               PROVE  j \in DOMAIN e.history
    BY DEF Dense
  <2>1. CASE i \in DOMAIN d.history
    BY <1>1, <2>1 DEF Whole, Dense
  <2>2. CASE i = 0
    BY <2>2
  <2> QED
    BY <1>1, <2>1, <2>2
<1>3. PointersIn(e)
  <2> SUFFICES ASSUME NEW u \in TTYs, e.sessions[u] # None
               PROVE  e.sessions[u] \in DOMAIN e.history
    BY DEF PointersIn
  <2>1. CASE u # t
    BY <1>1, <2>1 DEF OthersStay, Whole, PointersIn
  <2> QED
    BY <2>1
<1> QED
  BY <1>2, <1>3 DEF Whole

\* What getInstanceByTTY or a new Terminal starts from.
LEMMA KnownRows ==
    ASSUME TypeOK, NEW t \in TTYs, NEW d, d = Known(t)
    PROVE  /\ RowsOK(d) /\ Overwrites(db, d) /\ OthersStay(db, d, t) /\ d.last = db.last
           /\ t \in instances => d = db
           /\ t \notin instances => d.sessions[t] \in DOMAIN d.history
           /\ Whole(db) => Whole(d)
<1>1. RowsOK(db)
  BY TypeParts
<1>2. CASE t \in instances
  BY <1>1, <1>2 DEF Known, Overwrites, SameEntries, OthersStay
<1>3. CASE t \notin instances
  <2>1. d = NewTerminal(db, t)
    BY <1>3 DEF Known
  <2>2. /\ RowsOK(d) /\ Overwrites(db, d) /\ OthersStay(db, d, t) /\ d.last = db.last
        /\ d.sessions[t] \in DOMAIN d.history
    BY <1>1, <2>1, NewTerminalRows
  <2> QED
    BY <1>1, <1>3, <2>2, OverwritesWhole
<1> QED
  BY <1>2, <1>3

-----------------------------------------------------------------------------
(* openedTty *)

\* The rows before the pointer is followed.
OpenedRows(d0, t) ==
    IF d0.sessions[t] >= 0 THEN d0
    ELSE UpsertHistory(SetSessionPointer(d0, t, 0), 0, DefaultDir)

LEMMA OpenedRowsFacts ==
    ASSUME NEW d0, RowsOK(d0), NEW t \in TTYs, NEW d, d = OpenedRows(d0, t)
    PROVE  /\ RowsOK(d) /\ OthersStay(d0, d, t) /\ d.last = d0.last
           /\ d.sessions[t] = Index(d0, t)
           /\ Overwrites(d0, d)
           /\ d0.sessions[t] >= 0 => d = d0
           /\ ~(d0.sessions[t] >= 0) => 0 \in DOMAIN d.history
<1>1. CASE d0.sessions[t] >= 0
  BY <1>1 DEF OpenedRows, OthersStay, Index, Overwrites, SameEntries
<1>2. CASE ~(d0.sessions[t] >= 0)
  <2> DEFINE f == SetSessionPointer(d0, t, 0)
  <2>0. 0 \in Pointers /\ 0 \in Indices /\ DefaultDir \in Dirs
    BY Numbers, ConstantsAssumption
  <2>1. /\ RowsOK(f) /\ f.history = d0.history /\ f.last = d0.last /\ f.sessions[t] = 0
        /\ \A u \in TTYs \ {t} : f.sessions[u] = d0.sessions[u]
    BY <2>0, SessionRows
  <2>2. d = UpsertHistory(f, 0, DefaultDir)
    BY <1>2 DEF OpenedRows
  <2> HIDE DEF f
  <2>3. /\ RowsOK(d) /\ d.sessions = f.sessions /\ d.last = f.last
        /\ DOMAIN d.history = DOMAIN f.history \cup {0}
        /\ \A x \in DOMAIN f.history \cup {0} :
               d.history[x] = IF x = 0 THEN DefaultDir ELSE f.history[x]
    BY <2>0, <2>1, <2>2, UpsertRows
  <2>4. Overwrites(d0, d)
    BY <2>1, <2>3 DEF Overwrites, DefaultAt
  <2> QED
    BY <1>2, <2>1, <2>3, <2>4 DEF OthersStay, Index
<1> QED
  BY <1>1, <1>2

\* openedTty replies with a directory, and with the one the pointer denotes.
LEMMA OpenedAtRows ==
    ASSUME NEW d0, RowsOK(d0), NEW t \in TTYs, NEW e, e = OpenedAt(d0, t).rows
    PROVE  /\ RowsOK(e) /\ OthersStay(d0, e, t) /\ e.last = d0.last
           /\ OpenedAt(d0, t).dir \in Dirs
           /\ Whole(d0) =>
                /\ Overwrites(d0, e)
                /\ d0.sessions[t] >= 0 => SameEntries(d0, e)
                /\ e.sessions[t] \in DOMAIN e.history
                /\ e.sessions[t] > 0 => Entry(e, e.sessions[t]) = OpenedAt(d0, t).dir
<1> DEFINE d == OpenedRows(d0, t)
           i == Index(d0, t)
           r == OpenedAt(d0, t)
           B == Behind(d, i)
<1>1. r = IF Entry(d, i) = Root
          THEN [rows |-> UpsertHistory(d, i, DefaultDir), dir |-> DefaultDir]
          ELSE IF Entry(d, i) \in exists THEN [rows |-> d, dir |-> Entry(d, i)]
          ELSE IF B # {}
               THEN [rows |-> SetSessionPointer(d, t, Max(B)), dir |-> d.history[Max(B)]]
               ELSE [rows |-> SetSessionPointer(d, t, 0), dir |-> DefaultDir]
  BY DEF OpenedAt, OpenedRows
<1>2. /\ RowsOK(d) /\ OthersStay(d0, d, t) /\ d.last = d0.last
      /\ d.sessions[t] = i /\ Overwrites(d0, d)
      /\ d0.sessions[t] >= 0 => d = d0
      /\ ~(d0.sessions[t] >= 0) => 0 \in DOMAIN d.history
  BY OpenedRowsFacts
<1>3. i \in Indices /\ (~(d0.sessions[t] >= 0) => i = 0)
  BY IndexRow DEF Index
<1>0. DefaultDir \in Dirs /\ 0 \in Pointers /\ i \in Pointers
  BY <1>3, Numbers, ConstantsAssumption
<1>4. ASSUME Whole(d0) PROVE i \in DOMAIN d.history /\ Whole(d)
  <2>1. i \in DOMAIN d.history
    <3>1. CASE d0.sessions[t] >= 0
      <4>1. i = d0.sessions[t] /\ i # None /\ d = d0
        BY <1>2, <1>3, <3>1, IndexRow DEF None, Index
      <4> QED
        BY <1>4, <4>1 DEF Whole, PointersIn
    <3>2. CASE ~(d0.sessions[t] >= 0)
      BY <1>2, <1>3, <3>2
    <3> QED
      BY <3>1, <3>2
  <2>2. d.sessions[t] = None \/ d.sessions[t] \in DOMAIN d.history
    BY <1>2, <2>1
  <2> HIDE DEF d
  <2>3. Whole(d)
    BY <1>2, <1>4, <2>2, OverwritesWhole
  <2> QED
    BY <2>1, <2>3
<1> HIDE DEF d, i, r
<1>5. CASE Entry(d, i) = Root
  <2>1. e = UpsertHistory(d, i, DefaultDir) /\ r.dir = DefaultDir
    BY <1>1, <1>5 DEF r
  <2>2. RowsOK(e) /\ e.sessions = d.sessions /\ e.last = d.last
    BY <1>0, <1>2, <1>3, <2>1, UpsertRows
  <2>3. ~Whole(d0)
    BY <1>2, <1>4, <1>5, EntryRow
  <2> QED
    BY <1>0, <1>2, <2>1, <2>2, <2>3 DEF OthersStay, r
<1>6. CASE Entry(d, i) # Root /\ Entry(d, i) \in exists
  <2>1. e = d /\ r.dir = Entry(d, i)
    BY <1>1, <1>6 DEF r
  <2>2. Entry(d, i) \in Dirs
    BY <1>2, <1>6, EntryRow
  <2>3. Whole(d0) => i \in DOMAIN d.history
    BY <1>4
  <2>4. d0.sessions[t] >= 0 => SameEntries(d0, d)
    BY <1>2 DEF SameEntries
  <2> QED
    BY <1>2, <2>1, <2>2, <2>3, <2>4 DEF r
<1>7. CASE Entry(d, i) # Root /\ Entry(d, i) \notin exists
  <2>1. PICK j \in Pointers :
            /\ e = SetSessionPointer(d, t, j)
            /\ j \in DOMAIN d.history \/ (j = 0 /\ r.dir = DefaultDir)
            /\ j \in DOMAIN d.history /\ j # 0 => r.dir = d.history[j]
            /\ r.dir \in Dirs
    <3>1. CASE B # {}
      <4>1. B \in SUBSET Indices /\ B \subseteq DOMAIN d.history
        BY <1>2 DEF Behind, Valid, RowsOK
      <4> HIDE DEF B
      <4> DEFINE j == Max(B)
      <4>2. j \in B
        BY <3>1, <4>1, MaxIndexOf
      <4>3. j \in Pointers /\ j \in DOMAIN d.history
        BY <4>1, <4>2, Numbers
      <4>4. e = SetSessionPointer(d, t, j) /\ r.dir = d.history[j]
        BY <1>1, <1>7, <3>1 DEF r
      <4>5. d.history[j] \in Dirs
        BY <1>2, <4>3 DEF RowsOK
      <4> QED
        BY <4>3, <4>4, <4>5
    <3>2. CASE B = {}
      <4>1. e = SetSessionPointer(d, t, 0) /\ r.dir = DefaultDir
        BY <1>1, <1>7, <3>2 DEF r
      <4> QED
        BY <1>0, <4>1
    <3> QED
      BY <3>1, <3>2
  <2>2. /\ RowsOK(e) /\ e.history = d.history /\ e.last = d.last /\ e.sessions[t] = j
        /\ \A u \in TTYs \ {t} : e.sessions[u] = d.sessions[u]
    BY <1>2, <2>1, SessionRows
  <2>3. OthersStay(d0, e, t)
    BY <1>2, <2>2 DEF OthersStay
  <2>4. ASSUME Whole(d0)
        PROVE  /\ Overwrites(d0, e)
               /\ d0.sessions[t] >= 0 => SameEntries(d0, e)
               /\ j \in DOMAIN e.history
               /\ j > 0 => Entry(e, j) = r.dir
    <3>1. 0 \in DOMAIN d.history
      BY <1>2, <1>4, <2>4, DenseFirst DEF Whole
    <3>2. j \in DOMAIN e.history /\ j \in Int
      BY <2>1, <2>2, <3>1, Numbers
    <3>3. j > 0 => Entry(e, j) = r.dir
      BY <2>1, <2>2, <3>2, EntryRow
    <3>4. Overwrites(d0, e) /\ (d0.sessions[t] >= 0 => SameEntries(d0, e))
      BY <1>2, <2>2 DEF Overwrites, SameEntries, DefaultAt
    <3> QED
      BY <3>2, <3>3, <3>4
  <2> QED
    BY <1>2, <2>1, <2>2, <2>3, <2>4 DEF r
<1> QED
  BY <1>5, <1>6, <1>7

-----------------------------------------------------------------------------
(* updateDirHistory: an entry is appended *)

LEMMA AppendedRows ==
    ASSUME NEW d, RowsOK(d), NEW t \in TTYs, NEW pwd \in Dirs,
           NEW n \in Indices, n = MaxHistoryIndex(d) + 1,
           NEW d1, d1 = UpsertHistory(d, n, pwd),
           NEW d2, d2 = SetSessionPointer(d1, t, n),
           NEW e, e = Appended(d, t, pwd)
    PROVE  /\ RowsOK(d1) /\ RowsOK(d2) /\ RowsOK(e)
           /\ d1.history = e.history /\ d2.history = e.history
           /\ d1.sessions = d.sessions /\ d2.sessions = e.sessions
           /\ n \notin DOMAIN d.history
           /\ DOMAIN e.history = DOMAIN d.history \cup {n}
           /\ \A x \in DOMAIN d.history : e.history[x] = d.history[x]
           /\ e.history[n] = pwd /\ e.sessions[t] = n /\ OthersStay(d, e, t)
<1>0. n \in Pointers /\ MaxHistoryIndex(d) \in Int
  BY Numbers, MaxRow
<1>1. n \notin DOMAIN d.history
  <2>1. \A i \in DOMAIN d.history : i <= MaxHistoryIndex(d) /\ i \in Nat
    BY MaxRow, Numbers DEF RowsOK
  <2> QED
    BY <1>0, <2>1
<1>2. /\ RowsOK(d1) /\ d1.sessions = d.sessions /\ d1.last = d.last
      /\ DOMAIN d1.history = DOMAIN d.history \cup {n}
      /\ \A x \in DOMAIN d.history \cup {n} :
             d1.history[x] = IF x = n THEN pwd ELSE d.history[x]
  BY UpsertRows
<1>3. /\ RowsOK(d2) /\ d2.history = d1.history /\ d2.sessions[t] = n
      /\ \A u \in TTYs \ {t} : d2.sessions[u] = d1.sessions[u]
  BY <1>0, <1>2, SessionRows
<1>4. e = SetLastTouched(d2, n)
  BY DEF Appended
<1>5. RowsOK(e) /\ e.history = d2.history /\ e.sessions = d2.sessions
  BY <1>0, <1>3, <1>4, LastRows
<1> QED
  BY <1>1, <1>2, <1>3, <1>5 DEF OthersStay

-----------------------------------------------------------------------------
(* The prune *)

\* The indices of a list without holes.
LEMMA DenseSize ==
    ASSUME NEW d, RowsOK(d), Dense(d), NEW n, n = Cardinality(DOMAIN d.history)
    PROVE  n \in Nat /\ DOMAIN d.history = 0 .. n - 1 /\ MaxHistoryIndex(d) = n - 1
<1>1. CASE DOMAIN d.history = {}
  <2>1. n = 0 /\ MaxHistoryIndex(d) = -1
    BY <1>1, FS_EmptySet DEF MaxHistoryIndex, None
  <2> QED
    BY <1>1, <2>1
<1>2. CASE DOMAIN d.history # {}
  <2> DEFINE D == DOMAIN d.history
             M == MaxHistoryIndex(d)
  <2>1. M \in D /\ (\A i \in D : i <= M) /\ D \subseteq Nat
    BY <1>2, MaxRow, Numbers DEF RowsOK
  <2>2. \A j \in 0 .. M : j \in D
    BY <2>1 DEF Dense
  <2> HIDE DEF D, M
  <2>3. D = 0 .. M
    <3>1. M \in Nat /\ \A i \in D : i \in Nat /\ i <= M
      BY <2>1
    <3>2. \A i \in D : i \in 0 .. M
      BY <3>1
    <3> QED
      BY <2>2, <3>2
  <2>4. Cardinality(0 .. M) = M + 1
    BY <2>1, FS_Interval
  <2>5. n = M + 1 /\ M \in Nat
    BY <2>1, <2>3, <2>4 DEF D
  <2>6. n \in Nat /\ n - 1 = M
    BY <2>5
  <2> QED
    BY <2>3, <2>6 DEF D, M
<1> QED
  BY <1>1, <1>2

\* Something is left when the oldest rows are deleted.
LEMMA DeleteOldestRows ==
    ASSUME NEW d, RowsOK(d), NeedsPrune(d), NEW e, e = DeleteOldest(d)
    PROVE  /\ RowsOK(e) /\ e.sessions = d.sessions /\ e.last = d.last
           /\ DOMAIN e.history = {i \in DOMAIN d.history : i >= Cutoff(d)}
           /\ DOMAIN e.history # {}
           /\ \A i \in DOMAIN e.history : e.history[i] = d.history[i]
<1> DEFINE D == DOMAIN d.history
           lo == Min(D)
           hi == Max(D)
           n  == Cardinality(D)
<1>1. D \in SUBSET Indices /\ D \subseteq Nat
  BY Numbers DEF RowsOK
<1>2. IsFiniteSet(D) /\ n \in Nat
  <2>1. IsFiniteSet(Indices)
    BY Numbers, FS_Interval DEF Indices
  <2>2. IsFiniteSet(D)
    BY <1>1, <2>1, FS_Subset
  <2> QED
    BY <2>2, FS_CardinalityType
<1>3. n > MaxSize
  BY DEF NeedsPrune
<1>4. D # {}
  <2> SUFFICES ASSUME D = {} PROVE FALSE
    OBVIOUS
  <2>1. n = 0
    BY FS_EmptySet
  <2> QED
    BY <1>3, <2>1, ConstantsAssumption
<1>5. lo \in D /\ hi \in D /\ \A y \in D : lo <= y /\ hi >= y
  BY <1>1, <1>4, MinIndexOf, MaxIndexOf
<1>6. n <= hi - lo + 1
  <2>1. D \in SUBSET (lo .. hi)
    BY <1>1, <1>5
  <2>2. lo \in Int /\ hi \in Int /\ lo <= hi
    BY <1>1, <1>5
  <2> HIDE DEF D, lo, hi, n
  <2>3. IsFiniteSet(lo .. hi) /\ Cardinality(lo .. hi) = hi - lo + 1
    BY <2>2, FS_Interval
  <2> QED
    BY <2>1, <2>3, FS_Subset DEF n
<1>7. hi >= Cutoff(d)
  <2>1. Cutoff(d) = lo + (n - MaxSize)
    BY DEF Cutoff
  <2> HIDE DEF D, lo, hi, n
  <2>2. lo \in Nat /\ hi \in Nat
    BY <1>1, <1>5
  <2> QED
    BY <1>2, <1>6, <2>1, <2>2, ConstantsAssumption
<1> HIDE DEF lo, hi, n
<1>8. /\ DOMAIN e = Fields /\ e.sessions = d.sessions /\ e.last = d.last
      /\ DOMAIN e.history = {i \in DOMAIN d.history : i >= Cutoff(d)}
      /\ \A i \in {x \in DOMAIN d.history : x >= Cutoff(d)} : e.history[i] = d.history[i]
  BY DEF DeleteOldest, RowsOK, Fields
<1>9. DOMAIN e.history # {}
  BY <1>5, <1>7, <1>8
<1>10. RowsOK(e)
  BY <1>8 DEF RowsOK
<1> QED
  BY <1>8, <1>9, <1>10

LEMMA RebaseHistoryRows ==
    ASSUME NEW d, RowsOK(d), NEW m \in Nat, \A i \in DOMAIN d.history : i >= m,
           NEW e, e = RebaseHistory(d, m)
    PROVE  /\ RowsOK(e) /\ e.sessions = d.sessions /\ e.last = d.last
           /\ \A x \in Int : x \in DOMAIN e.history <=> x + m \in DOMAIN d.history
           /\ \A i \in DOMAIN e.history : e.history[i] = d.history[i + m]
<1>1. /\ DOMAIN e = Fields /\ e.sessions = d.sessions /\ e.last = d.last
      /\ DOMAIN e.history = {i - m : i \in DOMAIN d.history}
      /\ \A x \in {i - m : i \in DOMAIN d.history} : e.history[x] = d.history[x + m]
  BY DEF RebaseHistory, RowsOK, Fields
<1>2. \A i \in DOMAIN d.history : (i - m) + m = i /\ i - m \in Indices
  <2>1. \A i \in DOMAIN d.history : i \in Indices /\ i >= m
    BY DEF RowsOK
  <2> QED
    BY <2>1, ConstantsAssumption DEF Indices
<1>3. \A x \in {i - m : i \in DOMAIN d.history} : x + m \in DOMAIN d.history /\ x \in Indices
  BY <1>2
<1>4. RowsOK(e)
  BY <1>1, <1>3 DEF RowsOK
<1>5. ASSUME NEW x \in Int, x + m \in DOMAIN d.history PROVE x \in DOMAIN e.history
  <2>1. x = (x + m) - m
    OBVIOUS
  <2> QED
    BY <1>1, <1>5, <2>1
<1> QED
  BY <1>1, <1>3, <1>4, <1>5

Rebased(i, m) == IF i = None THEN None ELSE IF i > m THEN i - m ELSE 0

LEMMA RebasedPointer ==
    ASSUME NEW m \in Nat, NEW i \in Pointers
    PROVE  Rebased(i, m) \in Pointers
BY ConstantsAssumption DEF Rebased, Pointers, None

LEMMA RebaseSessionsRows ==
    ASSUME NEW d, RowsOK(d), NEW m \in Nat, NEW e, e = RebaseSessions(d, m)
    PROVE  /\ RowsOK(e) /\ e.history = d.history /\ e.last = d.last
           /\ \A u \in TTYs : e.sessions[u] = Rebased(d.sessions[u], m)
<1>1. /\ DOMAIN e = Fields /\ e.history = d.history /\ e.last = d.last
      /\ e.sessions = [u \in TTYs |-> Rebased(d.sessions[u], m)]
  BY DEF RebaseSessions, Rebased, RowsOK, Fields
<1>2. \A u \in TTYs : Rebased(d.sessions[u], m) \in Pointers
  BY RebasedPointer DEF RowsOK
<1>3. RowsOK(e)
  BY <1>1, <1>2 DEF RowsOK
<1> QED
  BY <1>1, <1>3

LEMMA RebaseLastRows ==
    ASSUME NEW d, RowsOK(d), NEW m \in Nat, NEW e, e = RebaseLast(d, m)
    PROVE  RowsOK(e) /\ e.history = d.history /\ e.sessions = d.sessions
<1>1. /\ DOMAIN e = Fields /\ e.history = d.history /\ e.sessions = d.sessions
      /\ e.last = Rebased(d.last, m)
  BY DEF RebaseLast, Rebased, RowsOK, Fields
<1>2. Rebased(d.last, m) \in Pointers
  BY RebasedPointer DEF RowsOK
<1> QED
  BY <1>1, <1>2 DEF RowsOK

\* The three statements that move the rows down to index 0.
LEMMA RebaseRows ==
    ASSUME NEW d, RowsOK(d), DOMAIN d.history # {},
           NEW m, m = Min(DOMAIN d.history), NEW e, e = Rebase(d)
    PROVE  /\ m \in DOMAIN d.history /\ m \in Nat /\ \A i \in DOMAIN d.history : i >= m
           /\ RowsOK(RebaseHistory(d, m)) /\ RowsOK(RebaseSessions(RebaseHistory(d, m), m))
           /\ RowsOK(e)
           /\ m > 0 => /\ \A x \in Int : x \in DOMAIN e.history <=> x + m \in DOMAIN d.history
                       /\ \A i \in DOMAIN e.history : e.history[i] = d.history[i + m]
                       /\ \A u \in TTYs : e.sessions[u] = Rebased(d.sessions[u], m)
<1>1. DOMAIN d.history \in SUBSET Indices /\ DOMAIN d.history \subseteq Nat
  BY Numbers DEF RowsOK
<1>2. m \in DOMAIN d.history /\ \A i \in DOMAIN d.history : m <= i
  BY <1>1, MinIndexOf
<1>3. m \in Nat /\ \A i \in DOMAIN d.history : i >= m
  BY <1>1, <1>2
<1> DEFINE f == RebaseHistory(d, m)
           g == RebaseSessions(f, m)
           h == RebaseLast(g, m)
<1>4. /\ RowsOK(f) /\ f.sessions = d.sessions
      /\ \A x \in Int : x \in DOMAIN f.history <=> x + m \in DOMAIN d.history
      /\ \A i \in DOMAIN f.history : f.history[i] = d.history[i + m]
  BY <1>3, RebaseHistoryRows
<1> HIDE DEF f
<1>5. /\ RowsOK(g) /\ g.history = f.history
      /\ \A u \in TTYs : g.sessions[u] = Rebased(f.sessions[u], m)
  <2>1. RowsOK(f)
    BY <1>4
  <2> QED
    BY <1>3, <2>1, RebaseSessionsRows
<1> HIDE DEF g
<1>6. RowsOK(h) /\ h.history = g.history /\ h.sessions = g.sessions
  BY <1>3, <1>5, RebaseLastRows
<1> HIDE DEF h
<1>7. e = IF m <= 0 THEN d ELSE h
  BY DEF Rebase, f, g, h
<1>8. RowsOK(e)
  BY <1>6, <1>7
<1>9. m > 0 => e = h
  BY <1>3, <1>7
<1> QED
  BY <1>2, <1>3, <1>4, <1>5, <1>6, <1>8, <1>9 DEF f, g

LEMMA PruneRows ==
    ASSUME NEW d, RowsOK(d), NEW e, e = PruneHistory(d)
    PROVE  RowsOK(e)
<1>1. CASE NeedsPrune(d)
  <2> DEFINE f == DeleteOldest(d)
  <2>1. RowsOK(f) /\ DOMAIN f.history # {}
    BY <1>1, DeleteOldestRows
  <2>2. e = Rebase(f)
    BY <1>1 DEF PruneHistory
  <2> HIDE DEF f
  <2> QED
    BY <2>1, <2>2, RebaseRows
<1>2. CASE ~NeedsPrune(d)
  BY <1>2 DEF PruneHistory
<1> QED
  BY <1>1, <1>2

\* How many entries a list of n entries loses
Excess(n) == IF n > MaxSize THEN n - MaxSize ELSE 0

LEMMA ExcessRange ==
    ASSUME NEW n \in Nat
    PROVE  Excess(n) \in Nat /\ Excess(n) <= n /\ (n > 0 => Excess(n) < n)
BY ConstantsAssumption DEF Excess

\* The prune of a list without holes drops its first entries and moves every
\* pointer with its entry.
LEMMA PruneWhole ==
    ASSUME NEW d, RowsOK(d), Whole(d), NEW n, n = Cardinality(DOMAIN d.history),
           NEW e, e = PruneHistory(d)
    PROVE  /\ n \in Nat
           /\ DOMAIN e.history = 0 .. (n - Excess(n)) - 1
           /\ \A i \in DOMAIN e.history :
                  /\ i + Excess(n) \in DOMAIN d.history
                  /\ e.history[i] = d.history[i + Excess(n)]
           /\ \A u \in TTYs : e.sessions[u] = Rebased(d.sessions[u], Excess(n))
           /\ Whole(e)
<1> DEFINE k == Excess(n)
<1>1. n \in Nat /\ DOMAIN d.history = 0 .. n - 1
  BY DenseSize DEF Whole
<1>2. k \in Nat /\ k <= n /\ (n > 0 => k < n)
  BY <1>1, ExcessRange
<1>3. /\ DOMAIN e.history = 0 .. (n - k) - 1
      /\ \A i \in DOMAIN e.history :
             i + k \in DOMAIN d.history /\ e.history[i] = d.history[i + k]
      /\ \A u \in TTYs : e.sessions[u] = Rebased(d.sessions[u], k)
  <2>1. CASE ~NeedsPrune(d)
    <3>1. k = 0 /\ e = d
      BY <1>1, <2>1, ConstantsAssumption DEF NeedsPrune, PruneHistory, Excess
    <3>2. \A i \in 0 .. n - 1 : i + 0 = i
      BY <1>1
    <3>3. \A u \in TTYs : d.sessions[u] = Rebased(d.sessions[u], 0)
      <4>1. \A i \in Pointers : i = Rebased(i, 0)
        BY ConstantsAssumption DEF Rebased, Pointers, None
      <4> QED
        BY <4>1 DEF RowsOK
    <3>4. (n - k) - 1 = n - 1
      BY <1>1, <3>1
    <3> HIDE DEF k
    <3> QED
      BY <1>1, <3>1, <3>2, <3>3, <3>4
  <2>2. CASE NeedsPrune(d)
    <3>1. n > MaxSize /\ k = n - MaxSize /\ k > 0 /\ n > 0 /\ k < n
      BY <1>1, <1>2, <2>2, ConstantsAssumption DEF NeedsPrune, Excess
    <3>2. Min(DOMAIN d.history) = 0
      <4>0. 0 \in 0 .. n - 1
        BY <1>1, <3>1
      <4>1. DOMAIN d.history \in SUBSET Indices /\ 0 \in DOMAIN d.history
        BY <1>1, <4>0 DEF RowsOK
      <4>2. /\ Min(DOMAIN d.history) \in DOMAIN d.history
            /\ Min(DOMAIN d.history) <= 0
        BY <4>1, MinIndexOf
      <4>3. Min(DOMAIN d.history) \in Nat
        BY <4>1, <4>2, Numbers
      <4> QED
        BY <4>2, <4>3
    <3>3. Cutoff(d) = k
      BY <1>1, <3>1, <3>2, ConstantsAssumption DEF Cutoff
    <3> DEFINE f == DeleteOldest(d)
               m == Min(DOMAIN f.history)
    <3>4. /\ RowsOK(f) /\ f.sessions = d.sessions /\ DOMAIN f.history # {}
          /\ DOMAIN f.history = {i \in DOMAIN d.history : i >= Cutoff(d)}
          /\ \A i \in DOMAIN f.history : f.history[i] = d.history[i]
      BY <2>2, DeleteOldestRows
    <3>5. e = Rebase(f)
      BY <2>2 DEF PruneHistory
    <3> HIDE DEF f, k
    <3>6. DOMAIN f.history = k .. n - 1
      <4>1. DOMAIN f.history = {i \in 0 .. n - 1 : i >= k}
        BY <1>1, <3>3, <3>4
      <4>2. \A i : i \in 0 .. n - 1 /\ i >= k <=> i \in k .. n - 1
        BY <1>1, <1>2
      <4> QED
        BY <4>1, <4>2
    <3>7. /\ m \in DOMAIN f.history /\ m \in Nat /\ (\A i \in DOMAIN f.history : i >= m)
          /\ RowsOK(e)
          /\ m > 0 => /\ \A x \in Int : x \in DOMAIN e.history <=> x + m \in DOMAIN f.history
                      /\ \A i \in DOMAIN e.history : e.history[i] = f.history[i + m]
                      /\ \A u \in TTYs : e.sessions[u] = Rebased(f.sessions[u], m)
      <4>1. RowsOK(f) /\ DOMAIN f.history # {}
        BY <3>4
      <4>2. m = Min(DOMAIN f.history)
        OBVIOUS
      <4> HIDE DEF m
      <4> QED
        BY <3>5, <4>1, <4>2, RebaseRows
    <3> HIDE DEF m
    <3>8. m = k
      <4>0. n > 0
        BY <3>1
      <4>1. k \in k .. n - 1
        BY <1>1, <1>2, <4>0
      <4>2. k \in DOMAIN f.history
        BY <3>6, <4>1
      <4>3. m \in k .. n - 1 /\ k >= m
        BY <3>6, <3>7, <4>2
      <4> QED
        BY <1>1, <1>2, <3>7, <4>3
    <3>9. /\ \A x \in Int : x \in DOMAIN e.history <=> x + k \in k .. n - 1
          /\ \A i \in DOMAIN e.history : e.history[i] = f.history[i + k]
          /\ \A u \in TTYs : e.sessions[u] = Rebased(f.sessions[u], k)
      BY <3>1, <3>6, <3>7, <3>8
    <3>10. DOMAIN e.history \subseteq Int
      BY <3>7, Numbers DEF RowsOK
    <3>11. \A x \in Int : x + k \in k .. n - 1 <=> x \in 0 .. (n - k) - 1
      BY <1>1, <1>2
    <3>12. DOMAIN e.history = 0 .. (n - k) - 1
      <4>1. \A x \in DOMAIN e.history : x \in 0 .. (n - k) - 1
        BY <3>9, <3>10, <3>11
      <4>2. \A x \in 0 .. (n - k) - 1 : x \in DOMAIN e.history
        BY <3>9, <3>11
      <4> QED
        BY <4>1, <4>2
    <3>13. \A i \in DOMAIN e.history : i + k \in DOMAIN d.history /\ e.history[i] = d.history[i + k]
      BY <3>4, <3>6, <3>9, <3>10
    <3> QED
      BY <3>4, <3>9, <3>12, <3>13
  <2> QED
    BY <2>1, <2>2
<1> HIDE DEF k
<1>4. Dense(e)
  <2> SUFFICES ASSUME NEW i \in 0 .. (n - k) - 1, NEW j \in 0 .. i
               PROVE  j \in 0 .. (n - k) - 1
    BY <1>3 DEF Dense
  <2> QED
    BY <1>1, <1>2
<1>5. PointersIn(e)
  <2> SUFFICES ASSUME NEW u \in TTYs, e.sessions[u] # None
               PROVE  e.sessions[u] \in 0 .. (n - k) - 1
    BY <1>3 DEF PointersIn
  <2> DEFINE x == d.sessions[u]
  <2>1. x # None /\ e.sessions[u] = Rebased(x, k)
    BY <1>3 DEF Rebased
  <2>2. x \in 0 .. n - 1
    BY <1>1, <2>1 DEF Whole, PointersIn
  <2> HIDE DEF x
  <2>3. n > 0 /\ k < n
    BY <1>1, <1>2, <2>2
  <2> QED
    BY <1>1, <1>2, <2>1, <2>2, <2>3 DEF Rebased
<1> QED
  BY <1>1, <1>3, <1>4, <1>5 DEF Whole, k

-----------------------------------------------------------------------------
(* Types *)

\* There is room for one more entry.
LEMMA RoomForOne ==
    ASSUME TypeOK, NEW t \in TTYs, MaxHistoryIndex(db) < MaxIndex, NEW d, d = Known(t)
    PROVE  MaxHistoryIndex(d) + 1 \in Indices
<1>1. RowsOK(db) /\ RowsOK(d) /\ Overwrites(db, d)
  BY KnownRows, TypeParts
<1>2. MaxHistoryIndex(db) \in Int /\ MaxHistoryIndex(d) \in Pointers
  BY <1>1, MaxRow, Numbers
<1>3. \A i \in DOMAIN d.history : i \in DOMAIN db.history \/ i = 0
  BY <1>1 DEF Overwrites, SameEntries, DefaultAt
<1>4. \A i \in DOMAIN db.history : i <= MaxHistoryIndex(db) /\ i \in Nat
  BY <1>1, MaxRow, Numbers DEF RowsOK
<1>5. MaxHistoryIndex(d) \in DOMAIN d.history \/ MaxHistoryIndex(d) = -1
  BY <1>1, MaxRow DEF None
<1>6. CASE MaxHistoryIndex(d) \in DOMAIN db.history
  BY <1>2, <1>4, <1>6, ConstantsAssumption DEF Indices
<1>7. CASE MaxHistoryIndex(d) = 0 \/ MaxHistoryIndex(d) = -1
  BY <1>7, ConstantsAssumption DEF Indices
<1> QED
  BY <1>3, <1>5, <1>6, <1>7

LEMMA UpdatedRows ==
    ASSUME NEW d0, RowsOK(d0), NEW t \in TTYs, NEW pwd \in Dirs \cup {Root},
           MaxHistoryIndex(d0) + 1 \in Indices, NEW e, e = Updated(d0, t, pwd)
    PROVE  RowsOK(e)
<1> DEFINE i == Index(d0, t)
           d == SetLastTouched(d0, i)
<1>1. i \in Pointers /\ i \in Nat
  BY IndexRow, Numbers
<1>2. RowsOK(d) /\ d.history = d0.history /\ d.sessions = d0.sessions
  BY <1>1, LastRows
<1>3. MaxHistoryIndex(d) = MaxHistoryIndex(d0)
  BY <1>2 DEF MaxHistoryIndex
<1>4. e = IF IsNew(d, t, pwd) THEN PruneHistory(Appended(d, t, pwd))
          ELSE IF pwd # Root /\ pwd # Entry(d, i) THEN SetSessionPointer(d, t, i + 1)
          ELSE d
  BY DEF Updated
<1>5. Index(d, t) = i
  BY <1>2 DEF Index
<1> HIDE DEF i, d
<1>6. CASE IsNew(d, t, pwd)
  <2>1. pwd \in Dirs
    BY <1>6 DEF IsNew
  <2> DEFINE f == Appended(d, t, pwd)
  <2>2. RowsOK(f)
    BY <1>2, <1>3, <2>1, AppendedRows
  <2> HIDE DEF f
  <2> QED
    BY <1>4, <1>6, <2>2, PruneRows DEF f
<1>7. CASE ~IsNew(d, t, pwd) /\ pwd # Root /\ pwd # Entry(d, i)
  <2>1. Entry(d, i + 1) # Root
    BY <1>5, <1>7 DEF IsNew
  <2>2. i + 1 \in DOMAIN d.history
    BY <1>2, <2>1, EntryRow
  <2>3. i + 1 \in Pointers
    BY <1>2, <2>2, Numbers DEF RowsOK
  <2> QED
    BY <1>2, <1>4, <1>7, <2>3, SessionRows
<1>8. CASE ~IsNew(d, t, pwd) /\ ~(pwd # Root /\ pwd # Entry(d, i))
  BY <1>2, <1>4, <1>8
<1> QED
  BY <1>6, <1>7, <1>8

\* The shells and the rest.
LEMMA ShellType ==
    ASSUME RestOK, NEW t \in TTYs, NEW p \in Dirs \cup {Root},
           shell' = [shell EXCEPT ![t] = p],
           instances' \in {instances, instances \cup {t}, instances \ {t}},
           UNCHANGED <<exists, intact>>
    PROVE  RestOK'
BY DEF RestOK

LEMMA CdRows ==
    ASSUME TypeOK, NEW t \in TTYs, CdForward(t) \/ CdBackward(t), NEW d, d = Known(t)
    PROVE  /\ TypeOK'
           /\ db'.history = d.history /\ OthersStay(d, db', t)
           /\ \/ db' = d /\ shell' = shell
              \/ /\ db'.sessions[t] \in DOMAIN d.history
                 /\ shell' = [shell EXCEPT ![t] = d.history[db'.sessions[t]]]
           /\ instances' = instances \cup {t} /\ UNCHANGED <<exists, intact>>
<1>1. RowsOK(d) /\ RestOK
  BY KnownRows, TypeParts
<1>2. shell = [shell EXCEPT ![t] = shell[t]] /\ shell[t] \in Dirs \cup {Root}
  BY <1>1 DEF RestOK
<1>3. PICK J, j :
          /\ J \in SUBSET DOMAIN d.history /\ (J # {} => j \in J)
          /\ db' = IF J = {} THEN d ELSE SetSessionPointer(d, t, j)
          /\ shell' = [shell EXCEPT ![t] = IF J = {} THEN @ ELSE d.history[j]]
          /\ instances' = instances \cup {t} /\ UNCHANGED <<exists, intact>>
  <2>0. \A K \in SUBSET DOMAIN d.history : K # {} => Min(K) \in K /\ Max(K) \in K
    <3>1. \A K \in SUBSET DOMAIN d.history : K \in SUBSET Indices
      BY <1>1 DEF RowsOK
    <3> QED
      BY <3>1, MinIndexOf, MaxIndexOf
  <2>1. CASE CdForward(t)
    <3> DEFINE J == Ahead(d, Index(d, t))
    <3>1. J \in SUBSET DOMAIN d.history
      BY DEF Ahead, Valid
    <3>2. /\ db' = IF J = {} THEN d ELSE SetSessionPointer(d, t, Min(J))
          /\ shell' = [shell EXCEPT ![t] = IF J = {} THEN @ ELSE d.history[Min(J)]]
          /\ instances' = instances \cup {t} /\ UNCHANGED <<exists, intact>>
      BY <2>1 DEF CdForward
    <3> HIDE DEF J
    <3> QED
      BY <2>0, <3>1, <3>2
  <2>2. CASE CdBackward(t)
    <3> DEFINE J == Behind(d, Index(d, t))
    <3>1. J \in SUBSET DOMAIN d.history
      BY DEF Behind, Valid
    <3>2. /\ db' = IF J = {} THEN d ELSE SetSessionPointer(d, t, Max(J))
          /\ shell' = [shell EXCEPT ![t] = IF J = {} THEN @ ELSE d.history[Max(J)]]
          /\ instances' = instances \cup {t} /\ UNCHANGED <<exists, intact>>
      BY <2>2 DEF CdBackward
    <3> HIDE DEF J
    <3> QED
      BY <2>0, <3>1, <3>2
  <2> QED
    BY <2>1, <2>2
<1>4. CASE J = {}
  <2>1. db' = d /\ shell' = shell
    BY <1>2, <1>3, <1>4
  <2>2. RestOK'
    BY <1>1, <1>3, <2>1 DEF RestOK
  <2>3. OthersStay(d, d, t)
    BY DEF OthersStay
  <2> QED
    BY <1>1, <1>3, <2>1, <2>2, <2>3, TypeParts
<1>5. CASE J # {}
  <2>1. /\ j \in DOMAIN d.history /\ db' = SetSessionPointer(d, t, j)
        /\ shell' = [shell EXCEPT ![t] = d.history[j]]
    BY <1>3, <1>5
  <2>2. j \in Pointers /\ d.history[j] \in Dirs
    BY <1>1, <2>1, Numbers DEF RowsOK
  <2>3. /\ RowsOK(db') /\ db'.history = d.history /\ db'.sessions[t] = j
        /\ \A u \in TTYs \ {t} : db'.sessions[u] = d.sessions[u]
    BY <1>1, <2>1, <2>2, SessionRows
  <2>4. RestOK'
    BY <1>1, <1>3, <2>1, <2>2, ShellType
  <2> QED
    BY <1>3, <2>1, <2>3, <2>4, TypeParts DEF OthersStay
<1> QED
  BY <1>4, <1>5

\* The entries of e are those of d and one more at the end
Extended(d, e, p) ==
    LET n == MaxHistoryIndex(d) + 1
    IN  /\ n \in Indices /\ n \notin DOMAIN d.history
        /\ DOMAIN e.history = DOMAIN d.history \cup {n}
        /\ \A x \in DOMAIN d.history : e.history[x] = d.history[x]
        /\ e.history[n] = p

\* A kill before the prune leaves the entries as they were or extended, and one
\* inside the prune is not intact.
LEMMA CrashRows ==
    ASSUME TypeOK, NEW t \in TTYs, NEW p \in Dirs, CrashInUpdate(t, p), NEW K, K = Known(t)
    PROVE  /\ TypeOK'
           /\ intact' => /\ intact /\ OthersStay(K, db', t)
                         /\ \/ SameEntries(K, db') /\ db'.sessions[t] = K.sessions[t]
                            \/ /\ Extended(K, db', p)
                               /\ db'.sessions[t] \in {K.sessions[t], MaxHistoryIndex(K) + 1}
<1> DEFINE d0 == SetLastTouched(K, Index(K, t))
           n  == MaxHistoryIndex(d0) + 1
           d1 == UpsertHistory(d0, n, p)
           ds == SetSessionPointer(d1, t, n)
           d2 == Appended(d0, t, p)
           d3 == DeleteOldest(d2)
           m  == Min(DOMAIN d3.history)
           d4 == RebaseHistory(d3, m)
           d5 == RebaseSessions(d4, m)
<1>1. /\ MaxHistoryIndex(db) < MaxIndex /\ instances' = {}
      /\ shell' = [u \in TTYs |-> Root] /\ exists' = exists
      /\ \/ db' \in {d0, d1, ds, d2} /\ intact' = intact
         \/ NeedsPrune(d2) /\ db' \in {d3, d4, d5} /\ intact' = FALSE
  BY DEF CrashInUpdate
<1>2. RowsOK(K) /\ RestOK
  BY KnownRows, TypeParts
<1>3. RestOK'
  BY <1>1, <1>2 DEF RestOK
<1>4. Index(K, t) \in Pointers
  BY <1>2, IndexRow, Numbers
<1>5. RowsOK(d0) /\ d0.history = K.history /\ d0.sessions = K.sessions
  BY <1>2, <1>4, LastRows
<1>6. n = MaxHistoryIndex(K) + 1 /\ n \in Indices
  <2>1. MaxHistoryIndex(d0) = MaxHistoryIndex(K)
    BY <1>5 DEF MaxHistoryIndex
  <2> QED
    BY <1>1, <2>1, RoomForOne
<1> HIDE DEF d0
<1>7. n = MaxHistoryIndex(d0) + 1
  OBVIOUS
<1> HIDE DEF n
<1>8. /\ RowsOK(d1) /\ RowsOK(ds) /\ RowsOK(d2)
      /\ d1.history = d2.history /\ ds.history = d2.history
      /\ d1.sessions = d0.sessions /\ ds.sessions = d2.sessions
      /\ n \notin DOMAIN d0.history
      /\ DOMAIN d2.history = DOMAIN d0.history \cup {n}
      /\ \A x \in DOMAIN d0.history : d2.history[x] = d0.history[x]
      /\ d2.history[n] = p /\ d2.sessions[t] = n /\ OthersStay(d0, d2, t)
  BY <1>5, <1>6, <1>7, AppendedRows
<1> HIDE DEF d1, ds, d2
<1>9. CASE NeedsPrune(d2) /\ db' \in {d3, d4, d5} /\ intact' = FALSE
  <2>1. RowsOK(d2)
    BY <1>8
  <2>2. RowsOK(d3) /\ DOMAIN d3.history # {}
    BY <1>9, <2>1, DeleteOldestRows
  <2> HIDE DEF d3
  <2>3. RowsOK(d4) /\ RowsOK(d5)
    BY <2>2, RebaseRows
  <2> QED
    BY <1>3, <1>9, <2>2, <2>3, TypeParts
<1>10. CASE db' = d0 /\ intact' = intact
  <2>1. SameEntries(K, d0) /\ OthersStay(K, d0, t)
    BY <1>5 DEF SameEntries, OthersStay
  <2> QED
    BY <1>3, <1>5, <1>10, <2>1, TypeParts
<1>11. CASE db' \in {d1, ds, d2} /\ intact' = intact
  <2>1. RowsOK(db') /\ db'.history = d2.history
        /\ (db'.sessions = K.sessions \/ db'.sessions = d2.sessions)
    BY <1>5, <1>8, <1>11
  <2>2. Extended(K, db', p)
    BY <1>5, <1>6, <1>8, <2>1 DEF Extended
  <2>3. OthersStay(K, db', t) /\ db'.sessions[t] \in {K.sessions[t], n}
    BY <1>5, <1>8, <2>1 DEF OthersStay
  <2> QED
    BY <1>3, <1>6, <1>11, <2>1, <2>2, <2>3, TypeParts
<1> QED
  BY <1>1, <1>9, <1>10, <1>11

LEMMA InitType == Init => TypeOK
<1> SUFFICES ASSUME Init PROVE TypeOK
  OBVIOUS
<1>1. None \in None .. MaxIndex + 1
  BY ConstantsAssumption DEF None
<1> QED
  BY <1>1 DEF Init, TypeOK

LEMMA StepType == TypeOK /\ [Next]_vars => TypeOK'
<1> SUFFICES ASSUME TypeOK, [Next]_vars PROVE TypeOK'
  OBVIOUS
<1>0. RowsOK(db) /\ RestOK
  BY TypeParts
<1>1. ASSUME NEW t \in TTYs, OpenedTty(t) PROVE TypeOK'
  <2> DEFINE d == Known(t)
  <2>1. RowsOK(d)
    BY KnownRows
  <2>2. RowsOK(OpenedAt(d, t).rows) /\ OpenedAt(d, t).dir \in Dirs
    BY <2>1, OpenedAtRows
  <2>3. RestOK'
    BY <1>0, <1>1, <2>2, ShellType DEF OpenedTty
  <2> QED
    BY <1>1, <2>2, <2>3, TypeParts DEF OpenedTty
<1>2. ASSUME NEW t \in TTYs, ClosedTty(t) PROVE TypeOK'
  <2>1. RowsOK(db')
    BY <1>0, <1>2, Numbers, SessionRows DEF ClosedTty
  <2>2. RestOK'
    BY <1>0, <1>2, ShellType DEF ClosedTty
  <2> QED
    BY <2>1, <2>2, TypeParts
<1>3. ASSUME NEW t \in TTYs, CdForward(t) \/ CdBackward(t) PROVE TypeOK'
  BY <1>3, CdRows
<1>4. ASSUME NEW t \in TTYs, CommandWithoutDatabase(t) PROVE TypeOK'
  <2>1. shell = [shell EXCEPT ![t] = shell[t]] /\ shell[t] \in Dirs \cup {Root}
    BY <1>0 DEF RestOK
  <2>2. PICK p \in Dirs \cup {Root} : shell' = [shell EXCEPT ![t] = p]
    BY <1>4, <2>1, ConstantsAssumption DEF CommandWithoutDatabase
  <2>3. RestOK'
    BY <1>0, <1>4, <2>2, ShellType DEF CommandWithoutDatabase
  <2> QED
    BY <1>0, <1>4, <2>3, TypeParts DEF CommandWithoutDatabase
<1>5. ASSUME NEW t \in TTYs, NEW p \in Dirs \cup {Root}, UpdateDirHistory(t, p) PROVE TypeOK'
  <2> DEFINE d == Known(t)
  <2>1. RowsOK(d) /\ MaxHistoryIndex(d) + 1 \in Indices
    BY <1>5, KnownRows, RoomForOne DEF UpdateDirHistory
  <2>2. db' = Updated(d, t, p)
    BY <1>5 DEF UpdateDirHistory
  <2> HIDE DEF d
  <2>3. RowsOK(db')
    BY <2>1, <2>2, UpdatedRows
  <2>4. RestOK'
    BY <1>0, <1>5, ShellType DEF UpdateDirHistory
  <2> QED
    BY <2>3, <2>4, TypeParts
<1>6. ASSUME NEW t \in TTYs, NEW p \in Dirs, CrashInUpdate(t, p) PROVE TypeOK'
  BY <1>6, CrashRows
<1>7. CASE EmptyDirHistoryTable
  <2>1. RowsOK(db')
    BY <1>0, <1>7 DEF EmptyDirHistoryTable, RowsOK, Fields
  <2> QED
    BY <1>0, <1>7, <2>1, TypeParts DEF EmptyDirHistoryTable, RestOK
<1>8. ASSUME NEW i \in Edits, EditLastTouched(i) PROVE TypeOK'
  <2>1. i \in Pointers
    BY ConstantsAssumption DEF Pointers, None
  <2>2. RowsOK(db')
    BY <1>0, <1>8, <2>1, LastRows DEF EditLastTouched
  <2> QED
    BY <1>0, <1>8, <2>2, TypeParts DEF EditLastTouched, RestOK
<1>9. CASE Restart
  BY <1>0, <1>9, TypeParts DEF Restart, RestOK
<1>10. ASSUME NEW p \in Volatile, ChangeDisk(p) PROVE TypeOK'
  BY <1>0, <1>10, TypeParts, ConstantsAssumption DEF ChangeDisk, RestOK
<1>11. CASE UNCHANGED vars
  BY <1>11 DEF vars, TypeOK
<1> QED
  BY <1>1, <1>2, <1>3, <1>4, <1>5, <1>6, <1>7, <1>8, <1>9, <1>10, <1>11 DEF Next

\* Every row, pointer and ghost keeps its type: also on a history with holes an
\* index is never negative and a prune always leaves an entry to rebase on.
THEOREM HistoryTypes == Spec => []TypeOK
BY InitType, StepType, PTL DEF Spec

-----------------------------------------------------------------------------
(* updateDirHistory on an intact history *)

\* A new directory is at the end, the first entries may be gone, and each
\* other pointer went with its entry
Reported(d, e, t, pwd, n) ==
    LET x == Excess(n + 1)
    IN  /\ pwd \in Dirs
        /\ DOMAIN e.history = 0 .. n - x
        /\ \A i \in DOMAIN e.history :
               e.history[i] = IF i + x = n THEN pwd ELSE d.history[i + x]
        /\ e.sessions[t] = n - x
        /\ \A u \in TTYs \ {t} : e.sessions[u] = Rebased(d.sessions[u], x)

LEMMA UpdatedWhole ==
    ASSUME NEW d0, RowsOK(d0), Whole(d0), NEW t \in TTYs, NEW pwd \in Dirs \cup {Root},
           MaxHistoryIndex(d0) + 1 \in Indices,
           NEW n, n = Cardinality(DOMAIN d0.history), NEW e, e = Updated(d0, t, pwd)
    PROVE  /\ Whole(e)
           /\ \/ /\ SameEntries(d0, e) /\ OthersStay(d0, e, t)
                 /\ e.sessions[t] = d0.sessions[t] \/ e.sessions[t] \in DOMAIN e.history
              \/ Reported(d0, e, t, pwd, n)
<1> DEFINE i == Index(d0, t)
           d == SetLastTouched(d0, i)
<1>1. i \in Pointers /\ i \in Nat
  BY IndexRow, Numbers
<1>2. RowsOK(d) /\ d.history = d0.history /\ d.sessions = d0.sessions
  BY <1>1, LastRows
<1>3. MaxHistoryIndex(d) = MaxHistoryIndex(d0)
  BY <1>2 DEF MaxHistoryIndex
<1>4. e = IF IsNew(d, t, pwd) THEN PruneHistory(Appended(d, t, pwd))
          ELSE IF pwd # Root /\ pwd # Entry(d, i) THEN SetSessionPointer(d, t, i + 1)
          ELSE d
  BY DEF Updated
<1>5. Index(d, t) = i
  BY <1>2 DEF Index
<1> HIDE DEF i, d
<1>0. n \in Nat /\ DOMAIN d0.history = 0 .. n - 1 /\ MaxHistoryIndex(d0) = n - 1
  BY DenseSize DEF Whole
<1>6. CASE IsNew(d, t, pwd)
  <2>0. pwd \in Dirs /\ n = MaxHistoryIndex(d) + 1 /\ n \in Indices
    <3>1. (n - 1) + 1 = n
      BY <1>0
    <3> QED
      BY <1>0, <1>3, <1>6, <3>1 DEF IsNew
  <2> DEFINE f == Appended(d, t, pwd)
             x == Excess(n + 1)
  <2>1. /\ RowsOK(f)
        /\ DOMAIN f.history = DOMAIN d.history \cup {n}
        /\ \A y \in DOMAIN d.history : f.history[y] = d.history[y]
        /\ f.history[n] = pwd /\ f.sessions[t] = n /\ OthersStay(d, f, t)
    BY <1>2, <2>0, AppendedRows
  <2> HIDE DEF f
  <2>2. DOMAIN f.history = 0 .. n
    <3>1. \A y : y \in 0 .. n <=> y \in 0 .. n - 1 \/ y = n
      BY <1>0
    <3> QED
      BY <1>0, <1>2, <2>1, <3>1
  <2>3. Whole(f)
    <3>1. Dense(f)
      <4>1. \A a \in 0 .. n : \A b \in 0 .. a : b \in 0 .. n
        BY <1>0
      <4> QED
        BY <2>2, <4>1 DEF Dense
    <3>2. ASSUME NEW u \in TTYs, f.sessions[u] # None PROVE f.sessions[u] \in DOMAIN f.history
      <4>1. CASE u = t
        BY <2>1, <4>1
      <4>2. CASE u # t
        BY <1>2, <2>1, <3>2, <4>2 DEF OthersStay, Whole, PointersIn
      <4> QED
        BY <4>1, <4>2
    <3> QED
      BY <3>1, <3>2 DEF Whole, PointersIn
  <2>4. Cardinality(DOMAIN f.history) = n + 1
    <3>1. Cardinality(0 .. n) = n + 1
      BY <1>0, FS_Interval
    <3> QED
      BY <2>2, <3>1
  <2>5. e = PruneHistory(f)
    BY <1>4, <1>6 DEF f
  <2>6. /\ DOMAIN e.history = 0 .. ((n + 1) - x) - 1
        /\ \A y \in DOMAIN e.history :
               y + x \in DOMAIN f.history /\ e.history[y] = f.history[y + x]
        /\ \A u \in TTYs : e.sessions[u] = Rebased(f.sessions[u], x)
        /\ Whole(e)
    <3>1. RowsOK(f)
      BY <2>1
    <3> QED
      BY <2>3, <2>4, <2>5, <3>1, PruneWhole
  <2>7. x \in Nat /\ x <= n
    <3>1. n + 1 \in Nat /\ n + 1 > 0
      BY <1>0
    <3>2. x \in Nat /\ x < n + 1
      BY <3>1, ExcessRange
    <3> HIDE DEF x
    <3> QED
      BY <1>0, <3>2
  <2> HIDE DEF x
  <2>8. DOMAIN e.history = 0 .. n - x
    <3>1. ((n + 1) - x) - 1 = n - x
      BY <1>0, <2>7
    <3> QED
      BY <2>6, <3>1
  <2>9. ASSUME NEW y \in DOMAIN e.history
        PROVE  e.history[y] = IF y + x = n THEN pwd ELSE d0.history[y + x]
    <3>1. y + x \in 0 .. n /\ e.history[y] = f.history[y + x]
      BY <2>2, <2>6, <2>9
    <3>2. CASE y + x = n
      BY <2>1, <3>1, <3>2
    <3>3. CASE y + x # n
      <4>0. \A z \in 0 .. n : z # n => z \in 0 .. n - 1
        BY <1>0
      <4>1. y + x \in DOMAIN d.history
        BY <1>0, <1>2, <3>1, <3>3, <4>0
      <4> QED
        BY <1>2, <2>1, <3>1, <3>3, <4>1
    <3> QED
      BY <3>2, <3>3
  <2>10. e.sessions[t] = n - x
    <3>1. e.sessions[t] = Rebased(n, x)
      BY <2>1, <2>6
    <3>2. n # None
      BY <1>0 DEF None
    <3>3. n > x \/ n - x = 0
      BY <1>0, <2>7
    <3> QED
      BY <3>1, <3>2, <3>3 DEF Rebased
  <2>11. \A u \in TTYs \ {t} : e.sessions[u] = Rebased(d0.sessions[u], x)
    BY <1>2, <2>1, <2>6 DEF OthersStay
  <2> QED
    BY <2>0, <2>6, <2>8, <2>9, <2>10, <2>11 DEF Reported, x
<1>7. CASE ~IsNew(d, t, pwd) /\ pwd # Root /\ pwd # Entry(d, i)
  <2>1. Entry(d, i + 1) # Root
    BY <1>5, <1>7 DEF IsNew
  <2>2. i + 1 \in DOMAIN d.history
    BY <1>2, <2>1, EntryRow
  <2>3. i + 1 \in Pointers
    BY <1>2, <2>2, Numbers DEF RowsOK
  <2>4. e = SetSessionPointer(d, t, i + 1)
    BY <1>4, <1>7
  <2>5. /\ RowsOK(e) /\ e.history = d.history /\ e.sessions[t] = i + 1
        /\ \A u \in TTYs \ {t} : e.sessions[u] = d.sessions[u]
    BY <1>2, <2>3, <2>4, SessionRows
  <2>6. SameEntries(d0, e) /\ OthersStay(d0, e, t) /\ e.sessions[t] \in DOMAIN e.history
    BY <1>2, <2>2, <2>5 DEF SameEntries, OthersStay
  <2>7. Whole(e)
    BY <2>5, <2>6, OverwritesWhole DEF Overwrites
  <2> QED
    BY <2>6, <2>7
<1>8. CASE ~IsNew(d, t, pwd) /\ ~(pwd # Root /\ pwd # Entry(d, i))
  <2>1. e = d
    BY <1>4, <1>8
  <2>2. SameEntries(d0, d) /\ OthersStay(d0, d, t)
    BY <1>2 DEF SameEntries, OthersStay
  <2>3. Whole(d)
    BY <1>2 DEF Whole, Dense, PointersIn
  <2> QED
    BY <1>2, <2>1, <2>2, <2>3
<1> QED
  BY <1>6, <1>7, <1>8

-----------------------------------------------------------------------------
(* The invariant of an intact history *)

\* Directory dir, where shell t was sent, is the one its pointer denotes
Follows(d, t, dir) ==
    dir \in Dirs \ {DefaultDir} /\ d.sessions[t] > 0 =>
        Entry(d, d.sessions[t]) \in {dir, DefaultDir}

\* A terminal the daemon does not know was sent nowhere
UnknownUnsent == \A t \in TTYs : t \notin instances => shell[t] = Root

HistoryInv ==
    /\ TypeOK /\ UnknownUnsent
    /\ intact => Whole(db) /\ \A t \in TTYs : Follows(db, t, shell[t])

LEMMA UnknownStep == TypeOK /\ UnknownUnsent /\ [Next]_vars => UnknownUnsent'
<1> SUFFICES ASSUME TypeOK, UnknownUnsent, [Next]_vars, NEW u \in TTYs, u \notin instances'
             PROVE  shell'[u] = Root
  BY DEF UnknownUnsent
<1>0. shell \in [TTYs -> Dirs \cup {Root}] /\ (u \notin instances => shell[u] = Root)
  BY DEF TypeOK, UnknownUnsent
<1>1. ASSUME NEW t \in TTYs, OpenedTty(t) \/ CdForward(t) \/ CdBackward(t) PROVE shell'[u] = Root
  BY <1>0, <1>1 DEF OpenedTty, CdForward, CdBackward
<1>2. ASSUME NEW t \in TTYs, ClosedTty(t) PROVE shell'[u] = Root
  BY <1>0, <1>2 DEF ClosedTty
<1>3. ASSUME NEW t \in TTYs, CommandWithoutDatabase(t) PROVE shell'[u] = Root
  BY <1>0, <1>3 DEF CommandWithoutDatabase
<1>4. ASSUME NEW t \in TTYs, NEW p, UpdateDirHistory(t, p) \/ CrashInUpdate(t, p)
      PROVE  shell'[u] = Root
  BY <1>0, <1>4 DEF UpdateDirHistory, CrashInUpdate
<1>5. CASE Restart
  BY <1>5 DEF Restart
<1>6. ASSUME UNCHANGED <<instances, shell>> PROVE shell'[u] = Root
  BY <1>0, <1>6
<1> QED
  BY <1>1, <1>2, <1>3, <1>4, <1>5, <1>6
     DEF Next, vars, EmptyDirHistoryTable, EditLastTouched, ChangeDisk

LEMMA HistoryInvImplies == HistoryInv => NoHoles /\ PointersInHistory /\ ShellInStep
BY DEF HistoryInv, NoHoles, PointersInHistory, ShellInStep, Whole, Dense, PointersIn, Follows

\* An overwrite leaves a pointer on its directory or on the default directory.
LEMMA FollowsOverwrite ==
    ASSUME NEW d, RowsOK(d), Whole(d), NEW e, RowsOK(e), Overwrites(d, e),
           NEW u \in TTYs, e.sessions[u] = d.sessions[u], NEW dir, Follows(d, u, dir)
    PROVE  Follows(e, u, dir)
<1> SUFFICES ASSUME dir \in Dirs \ {DefaultDir}, e.sessions[u] > 0
             PROVE  Entry(e, e.sessions[u]) \in {dir, DefaultDir}
  BY DEF Follows
<1> DEFINE x == d.sessions[u]
<1>1. x \in DOMAIN d.history
  BY DEF Whole, PointersIn, None
<1>2. Entry(d, x) \in {dir, DefaultDir} /\ Entry(d, x) = d.history[x]
  BY <1>1, EntryRow DEF Follows
<1>3. x \in DOMAIN e.history /\ e.history[x] \in {d.history[x], DefaultDir}
  BY <1>1 DEF Overwrites, SameEntries, DefaultAt
<1>4. Entry(e, x) = e.history[x]
  BY <1>3, EntryRow
<1> QED
  BY <1>2, <1>3, <1>4

\* So does an appended entry with its prune, as long as the entry is there.
LEMMA FollowsReport ==
    ASSUME NEW d, RowsOK(d), Whole(d), NEW e, RowsOK(e), NEW t \in TTYs, NEW pwd,
           NEW n, n = Cardinality(DOMAIN d.history), Reported(d, e, t, pwd, n),
           NEW u \in TTYs \ {t}, NEW dir, Follows(d, u, dir)
    PROVE  Follows(e, u, dir)
<1> SUFFICES ASSUME dir \in Dirs \ {DefaultDir}, e.sessions[u] > 0
             PROVE  Entry(e, e.sessions[u]) \in {dir, DefaultDir}
  BY DEF Follows
<1> DEFINE x == Excess(n + 1)
           s == d.sessions[u]
<1>0. n \in Nat /\ DOMAIN d.history = 0 .. n - 1
  BY DenseSize DEF Whole
<1>1. x \in Nat
  <2>1. n + 1 \in Nat
    BY <1>0
  <2> QED
    BY <2>1, ExcessRange
<1>2. /\ DOMAIN e.history = 0 .. n - x
      /\ \A i \in DOMAIN e.history :
             e.history[i] = IF i + x = n THEN pwd ELSE d.history[i + x]
      /\ e.sessions[u] = Rebased(s, x)
  BY DEF Reported
<1> HIDE DEF x, s
<1>3. s # None /\ s > x /\ e.sessions[u] = s - x
  BY <1>2 DEF Rebased, None
<1>4. s \in DOMAIN d.history
  BY <1>3 DEF Whole, PointersIn, s
<1>5. s \in Nat /\ s > 0 /\ s < n
  <2>1. s \in 0 .. n - 1 /\ s > x
    BY <1>0, <1>3, <1>4
  <2> QED
    BY <1>0, <1>1, <2>1
<1>6. s - x \in 0 .. n - x /\ (s - x) + x = s /\ s # n
  BY <1>0, <1>1, <1>3, <1>5
<1>7. s - x \in DOMAIN e.history /\ e.history[s - x] = d.history[s]
  BY <1>2, <1>6
<1>8. Entry(d, s) \in {dir, DefaultDir} /\ Entry(d, s) = d.history[s]
  BY <1>4, <1>5, EntryRow DEF Follows, s
<1>9. Entry(e, s - x) = e.history[s - x]
  BY <1>7, EntryRow
<1> QED
  BY <1>3, <1>7, <1>8, <1>9

\* Nothing follows from a shell that was sent nowhere, or home.
LEMMA FollowsNowhere ==
    ASSUME NEW d, NEW t PROVE Follows(d, t, Root) /\ Follows(d, t, DefaultDir)
BY ConstantsAssumption DEF Follows

\* What terminal t does to its own pointer, when at most an entry is overwritten.
LEMMA OwnStep ==
    ASSUME HistoryInv, TypeOK', UnknownUnsent', intact, NEW t \in TTYs,
           Overwrites(db, db'), OthersStay(db, db', t),
           db'.sessions[t] = None \/ db'.sessions[t] \in DOMAIN db'.history,
           \A u \in TTYs \ {t} : shell'[u] = shell[u] \/ shell'[u] = Root,
           Follows(db', t, shell'[t])
    PROVE  HistoryInv'
<1>1. RowsOK(db) /\ RowsOK(db') /\ Whole(db) /\ \A u \in TTYs : Follows(db, u, shell[u])
  BY TypeParts DEF HistoryInv
<1>2. Whole(db')
  BY <1>1, OverwritesWhole
<1>3. ASSUME NEW u \in TTYs PROVE Follows(db', u, shell'[u])
  <2>1. CASE u = t
    BY <2>1
  <2>2. CASE u # t /\ shell'[u] = shell[u]
    BY <1>1, <2>2, FollowsOverwrite DEF OthersStay
  <2>3. CASE shell'[u] = Root
    BY <2>3, FollowsNowhere
  <2> QED
    BY <2>1, <2>2, <2>3
<1>4. Whole(db)' /\ \A u \in TTYs : Follows(db, u, shell[u])'
  BY <1>2, <1>3 DEF Whole, Dense, PointersIn, Follows, Entry
<1> QED
  BY <1>4 DEF HistoryInv

\* Two overwrites of which one changes no entry.
LEMMA OverwritesTwice ==
    ASSUME NEW d, NEW f, NEW e, Overwrites(d, f), SameEntries(f, e)
    PROVE  Overwrites(d, e)
BY DEF Overwrites, SameEntries, DefaultAt

LEMMA InitHistory == Init => HistoryInv
<1> SUFFICES ASSUME Init PROVE HistoryInv
  OBVIOUS
<1>1. Whole(db)
  BY DEF Init, Whole, Dense, PointersIn
<1>2. \A t \in TTYs : Follows(db, t, shell[t])
  BY FollowsNowhere DEF Init
<1>3. UnknownUnsent
  BY DEF Init, UnknownUnsent
<1> QED
  BY <1>1, <1>2, <1>3, InitType DEF HistoryInv

LEMMA OpenedHistory ==
    ASSUME HistoryInv, TypeOK', UnknownUnsent', intact, NEW t \in TTYs, OpenedTty(t)
    PROVE  /\ HistoryInv' /\ Overwrites(db, db') /\ OthersStay(db, db', t)
           /\ db'.sessions[t] \in DOMAIN db'.history
<1> DEFINE d == Known(t)
           r == OpenedAt(d, t)
<1>1. /\ RowsOK(d) /\ Overwrites(db, d) /\ OthersStay(db, d, t) /\ Whole(d)
      /\ t \in instances => d = db
      /\ t \notin instances => d.sessions[t] \in DOMAIN d.history
  BY KnownRows DEF HistoryInv
<1>2. db' = r.rows /\ shell' = [shell EXCEPT ![t] = r.dir]
  BY DEF OpenedTty
<1> HIDE DEF d
<1>3. /\ OthersStay(d, db', t)
      /\ Overwrites(d, db')
      /\ d.sessions[t] >= 0 => SameEntries(d, db')
      /\ db'.sessions[t] \in DOMAIN db'.history
      /\ db'.sessions[t] > 0 => Entry(db', db'.sessions[t]) = r.dir
  BY <1>1, <1>2, OpenedAtRows
<1>4. Overwrites(db, db')
  <2>1. CASE t \in instances
    BY <1>1, <1>3, <2>1
  <2>2. CASE t \notin instances
    <3>1. d.sessions[t] >= 0
      <4>1. d.sessions[t] \in DOMAIN d.history /\ DOMAIN d.history \subseteq Nat
        BY <1>1, <2>2, Numbers DEF RowsOK
      <4> QED
        BY <4>1
    <3> QED
      BY <1>1, <1>3, <3>1, OverwritesTwice
  <2> QED
    BY <2>1, <2>2
<1>5. OthersStay(db, db', t)
  BY <1>1, <1>3 DEF OthersStay
<1>6. shell'[t] = r.dir /\ \A u \in TTYs \ {t} : shell'[u] = shell[u]
  BY <1>2 DEF HistoryInv, TypeOK
<1>7. Follows(db', t, shell'[t])
  BY <1>3, <1>6 DEF Follows
<1> QED
  BY <1>3, <1>4, <1>5, <1>6, <1>7, OwnStep

LEMMA CdHistory ==
    ASSUME HistoryInv, TypeOK', UnknownUnsent', intact, NEW t \in TTYs,
           CdForward(t) \/ CdBackward(t)
    PROVE  /\ HistoryInv' /\ Overwrites(db, db') /\ OthersStay(db, db', t)
           /\ db'.sessions[t] = None \/ db'.sessions[t] \in DOMAIN db'.history
<1> DEFINE d == Known(t)
<1>0. TypeOK /\ UnknownUnsent /\ Whole(db) /\ \A u \in TTYs : Follows(db, u, shell[u])
  BY DEF HistoryInv
<1>1. /\ RowsOK(d) /\ Overwrites(db, d) /\ OthersStay(db, d, t) /\ Whole(d)
      /\ t \in instances => d = db
  BY <1>0, KnownRows
<1>2. /\ db'.history = d.history /\ OthersStay(d, db', t)
      /\ \/ db' = d /\ shell' = shell
         \/ /\ db'.sessions[t] \in DOMAIN d.history
            /\ shell' = [shell EXCEPT ![t] = d.history[db'.sessions[t]]]
  BY <1>0, CdRows
<1> HIDE DEF d
<1>3. RowsOK(db') /\ shell \in [TTYs -> Dirs \cup {Root}]
  BY <1>0, TypeParts DEF RestOK
<1>4. Overwrites(db, db') /\ OthersStay(db, db', t)
  BY <1>1, <1>2, OverwritesTwice DEF SameEntries, OthersStay
<1>5. CASE db' = d /\ shell' = shell
  <2>1. Follows(db', t, shell[t])
    <3>1. CASE t \in instances
      BY <1>0, <1>1, <1>5, <3>1
    <3>2. CASE t \notin instances
      BY <1>0, <3>2, FollowsNowhere DEF UnknownUnsent
    <3> QED
      BY <3>1, <3>2
  <2>2. db'.sessions[t] = None \/ db'.sessions[t] \in DOMAIN db'.history
    BY <1>1, <1>5 DEF Whole, PointersIn
  <2> QED
    BY <1>4, <1>5, <2>1, <2>2, OwnStep
<1>6. CASE /\ db'.sessions[t] \in DOMAIN d.history
           /\ shell' = [shell EXCEPT ![t] = d.history[db'.sessions[t]]]
  <2>1. db'.sessions[t] \in DOMAIN db'.history
    BY <1>2, <1>6
  <2>2. shell'[t] = db'.history[db'.sessions[t]] /\ \A u \in TTYs \ {t} : shell'[u] = shell[u]
    BY <1>2, <1>3, <1>6
  <2>3. Follows(db', t, shell'[t])
    BY <1>3, <2>1, <2>2, EntryRow DEF Follows
  <2> QED
    BY <1>4, <2>1, <2>2, <2>3, OwnStep
<1> QED
  BY <1>2, <1>5, <1>6

\* updateDirHistory, seen from the rows db before it and K with the terminal.
LEMMA UpdateHistory ==
    ASSUME HistoryInv, TypeOK', UnknownUnsent', intact, NEW t \in TTYs,
           NEW p \in Dirs \cup {Root}, UpdateDirHistory(t, p),
           NEW K, K = Known(t), NEW n, n = Cardinality(DOMAIN K.history)
    PROVE  /\ HistoryInv'
           /\ \/ /\ Overwrites(db, db') /\ OthersStay(db, db', t)
                 /\ db'.sessions[t] = None \/ db'.sessions[t] \in DOMAIN db'.history
              \/ Reported(K, db', t, p, n)
<1>0. TypeOK /\ UnknownUnsent /\ Whole(db) /\ \A u \in TTYs : Follows(db, u, shell[u])
  BY DEF HistoryInv
<1>1. /\ RowsOK(db) /\ RowsOK(K) /\ Overwrites(db, K) /\ OthersStay(db, K, t) /\ Whole(K)
      /\ MaxHistoryIndex(K) + 1 \in Indices
  BY <1>0, KnownRows, RoomForOne, TypeParts DEF UpdateDirHistory
<1>2. /\ db' = Updated(K, t, p) /\ shell' = [shell EXCEPT ![t] = Root] /\ intact' = intact
  BY DEF UpdateDirHistory
<1>3. /\ Whole(db')
      /\ \/ /\ SameEntries(K, db') /\ OthersStay(K, db', t)
            /\ db'.sessions[t] = K.sessions[t] \/ db'.sessions[t] \in DOMAIN db'.history
         \/ Reported(K, db', t, p, n)
  BY <1>1, <1>2, UpdatedWhole
<1>4. shell'[t] = Root /\ \A u \in TTYs \ {t} : shell'[u] = shell[u]
  BY <1>0, <1>2 DEF TypeOK
<1>5. RowsOK(db')
  BY TypeParts
<1>6. CASE /\ SameEntries(K, db') /\ OthersStay(K, db', t)
           /\ db'.sessions[t] = K.sessions[t] \/ db'.sessions[t] \in DOMAIN db'.history
  <2>1. Overwrites(db, db') /\ OthersStay(db, db', t)
    BY <1>1, <1>6, OverwritesTwice DEF OthersStay
  <2>2. db'.sessions[t] = None \/ db'.sessions[t] \in DOMAIN db'.history
    BY <1>3 DEF Whole, PointersIn
  <2>3. Follows(db', t, shell'[t])
    BY <1>4, FollowsNowhere
  <2> QED
    BY <1>4, <2>1, <2>2, <2>3, OwnStep
<1>7. CASE Reported(K, db', t, p, n)
  <2>1. ASSUME NEW u \in TTYs PROVE Follows(db', u, shell'[u])
    <3>1. CASE u = t
      BY <1>4, <3>1, FollowsNowhere
    <3>2. CASE u # t
      <4>1. Follows(K, u, shell[u])
        BY <1>0, <1>1, <3>2, FollowsOverwrite DEF OthersStay
      <4>2. Follows(db', u, shell[u])
        BY <1>1, <1>5, <1>7, <3>2, <4>1, FollowsReport
      <4> QED
        BY <1>4, <3>2, <4>2
    <3> QED
      BY <3>1, <3>2
  <2>2. Whole(db)' /\ \A u \in TTYs : Follows(db, u, shell[u])'
    BY <1>3, <2>1 DEF Whole, Dense, PointersIn, Follows, Entry
  <2> QED
    BY <1>7, <2>2 DEF HistoryInv
<1> QED
  BY <1>3, <1>6, <1>7

\* One more entry leaves no hole.
LEMMA ExtendedWhole ==
    ASSUME NEW d, RowsOK(d), Whole(d), NEW e, NEW p, Extended(d, e, p),
           NEW t \in TTYs, OthersStay(d, e, t),
           e.sessions[t] \in {d.sessions[t], MaxHistoryIndex(d) + 1}
    PROVE  Whole(e)
<1> DEFINE n == MaxHistoryIndex(d) + 1
           c == Cardinality(DOMAIN d.history)
<1>1. c \in Nat /\ DOMAIN d.history = 0 .. c - 1 /\ MaxHistoryIndex(d) = c - 1
  BY DenseSize DEF Whole
<1> HIDE DEF c
<1>2. n = c
  BY <1>1
<1>3. DOMAIN e.history = DOMAIN d.history \cup {n}
  BY DEF Extended
<1> HIDE DEF n
<1>4. \A a \in 0 .. c : \A b \in 0 .. a : b \in 0 .. c
  BY <1>1
<1>5. \A a : a \in 0 .. c <=> a \in 0 .. c - 1 \/ a = c
  BY <1>1
<1>6. Dense(e)
  BY <1>1, <1>2, <1>3, <1>4, <1>5 DEF Dense
<1>7. PointersIn(e)
  BY <1>3 DEF PointersIn, Whole, OthersStay, n
<1> QED
  BY <1>6, <1>7 DEF Whole

LEMMA CrashHistory ==
    ASSUME HistoryInv, TypeOK', UnknownUnsent', intact', NEW t \in TTYs, NEW p \in Dirs,
           CrashInUpdate(t, p)
    PROVE  HistoryInv' /\ intact
<1> DEFINE K == Known(t)
<1>0. TypeOK
  BY DEF HistoryInv
<1>1. /\ intact /\ OthersStay(K, db', t)
      /\ \/ SameEntries(K, db') /\ db'.sessions[t] = K.sessions[t]
         \/ /\ Extended(K, db', p)
            /\ db'.sessions[t] \in {K.sessions[t], MaxHistoryIndex(K) + 1}
  BY <1>0, CrashRows
<1>2. Whole(db)
  BY <1>1 DEF HistoryInv
<1>3. RowsOK(K) /\ Whole(K)
  BY <1>0, <1>2, KnownRows
<1> HIDE DEF K
<1>4. Whole(db')
  <2>1. CASE SameEntries(K, db') /\ db'.sessions[t] = K.sessions[t]
    <3>1. RowsOK(db') /\ Overwrites(K, db')
      BY <2>1, TypeParts DEF Overwrites
    <3>2. db'.sessions[t] = None \/ db'.sessions[t] \in DOMAIN db'.history
      BY <1>3, <2>1 DEF Whole, PointersIn, SameEntries
    <3> QED
      BY <1>1, <1>3, <3>1, <3>2, OverwritesWhole
  <2>2. CASE /\ Extended(K, db', p)
             /\ db'.sessions[t] \in {K.sessions[t], MaxHistoryIndex(K) + 1}
    BY <1>1, <1>3, <2>2, ExtendedWhole
  <2> QED
    BY <1>1, <2>1, <2>2
<1>5. ASSUME NEW u \in TTYs PROVE Follows(db', u, shell'[u])
  BY FollowsNowhere DEF CrashInUpdate
<1>6. Whole(db)' /\ \A u \in TTYs : Follows(db, u, shell[u])'
  BY <1>4, <1>5 DEF Whole, Dense, PointersIn, Follows, Entry
<1> QED
  BY <1>1, <1>6 DEF HistoryInv

\* closedTty, and a command without a database.
LEMMA LeaveHistory ==
    ASSUME HistoryInv, TypeOK', UnknownUnsent', intact, NEW t \in TTYs,
           ClosedTty(t) \/ CommandWithoutDatabase(t)
    PROVE  /\ HistoryInv' /\ Overwrites(db, db') /\ OthersStay(db, db', t)
           /\ db'.sessions[t] = None \/ db'.sessions[t] \in DOMAIN db'.history
<1>0. RowsOK(db) /\ Whole(db) /\ (\A u \in TTYs : Follows(db, u, shell[u]))
      /\ shell \in [TTYs -> Dirs \cup {Root}]
  BY TypeParts DEF HistoryInv, RestOK
<1>1. CASE ClosedTty(t)
  <2>1. db' = SetSessionPointer(db, t, None) /\ shell' = [shell EXCEPT ![t] = Root]
    BY <1>1 DEF ClosedTty
  <2>2. /\ db'.history = db.history /\ db'.sessions[t] = None
        /\ \A u \in TTYs \ {t} : db'.sessions[u] = db.sessions[u]
    BY <1>0, <2>1, Numbers, SessionRows
  <2>3. Overwrites(db, db') /\ OthersStay(db, db', t)
    BY <2>2 DEF Overwrites, SameEntries, OthersStay
  <2>4. shell'[t] = Root /\ \A u \in TTYs \ {t} : shell'[u] = shell[u]
    BY <1>0, <2>1
  <2>5. Follows(db', t, shell'[t])
    BY <2>4, FollowsNowhere
  <2> QED
    BY <2>2, <2>3, <2>4, <2>5, OwnStep
<1>2. CASE CommandWithoutDatabase(t)
  <2>1. db' = db
    BY <1>2 DEF CommandWithoutDatabase
  <2>2. Overwrites(db, db') /\ OthersStay(db, db', t)
    BY <2>1 DEF Overwrites, SameEntries, OthersStay
  <2>3. db'.sessions[t] = None \/ db'.sessions[t] \in DOMAIN db'.history
    BY <1>0, <2>1 DEF Whole, PointersIn
  <2>4. (\A u \in TTYs \ {t} : shell'[u] = shell[u]) /\ shell'[t] \in {Root, DefaultDir, shell[t]}
    BY <1>0, <1>2 DEF CommandWithoutDatabase
  <2>5. Follows(db', t, shell'[t])
    BY <1>0, <2>1, <2>4, FollowsNowhere
  <2> QED
    BY <2>2, <2>3, <2>4, <2>5, OwnStep
<1> QED
  BY <1>1, <1>2

LEMMA StepHistory == HistoryInv /\ [Next]_vars => HistoryInv'
<1> SUFFICES ASSUME HistoryInv, [Next]_vars PROVE HistoryInv'
  OBVIOUS
<1>0. TypeOK' /\ UnknownUnsent' /\ TypeOK
  BY StepType, UnknownStep DEF HistoryInv
<1>1. CASE ~intact'
  BY <1>0, <1>1 DEF HistoryInv
<1>2. CASE intact'
  <2>1. intact
    <3>1. ASSUME NEW t \in TTYs, NEW p \in Dirs, CrashInUpdate(t, p) PROVE intact
      BY <1>0, <1>2, <3>1, CrashHistory
    <3>2. ASSUME UNCHANGED intact PROVE intact
      BY <1>2, <3>2
    <3>3. ~EmptyDirHistoryTable
      BY <1>2 DEF EmptyDirHistoryTable
    <3> QED
      BY <3>1, <3>2, <3>3
         DEF Next, vars, OpenedTty, ClosedTty, CdForward, CdBackward, CommandWithoutDatabase,
             UpdateDirHistory, EditLastTouched, Restart, ChangeDisk
  <2>2. Whole(db) /\ \A u \in TTYs : Follows(db, u, shell[u])
    BY <2>1 DEF HistoryInv
  <2>3. ASSUME NEW t \in TTYs, NEW p \in Dirs \cup {Root}, UpdateDirHistory(t, p)
        PROVE  HistoryInv'
    BY <1>0, <2>1, <2>3, UpdateHistory
  <2>4. ASSUME NEW t \in TTYs, NEW p \in Dirs, CrashInUpdate(t, p) PROVE HistoryInv'
    BY <1>0, <1>2, <2>4, CrashHistory
  <2>5. ASSUME /\ db'.history = db.history /\ db'.sessions = db.sessions
               /\ shell' = shell \/ shell' = [u \in TTYs |-> Root]
        PROVE  HistoryInv'
    <3>1. Whole(db)'
      BY <2>2, <2>5 DEF Whole, Dense, PointersIn
    <3>2. CASE shell' = shell
      <4>1. \A u \in TTYs : Follows(db, u, shell[u])'
        BY <2>2, <2>5, <3>2 DEF Follows, Entry
      <4> QED
        BY <1>0, <3>1, <4>1 DEF HistoryInv
    <3>3. CASE shell' = [u \in TTYs |-> Root]
      <4>1. \A u \in TTYs : Follows(db, u, shell[u])'
        BY <3>3, FollowsNowhere DEF Follows
      <4> QED
        BY <1>0, <3>1, <4>1 DEF HistoryInv
    <3> QED
      BY <2>5, <3>2, <3>3
  <2>6. ASSUME NEW i \in Edits, EditLastTouched(i) PROVE HistoryInv'
    <3>1. RowsOK(db) /\ i \in Pointers
      BY <1>0, TypeParts, ConstantsAssumption DEF Pointers, None
    <3>2. db'.history = db.history /\ db'.sessions = db.sessions
      BY <2>6, <3>1, LastRows DEF EditLastTouched
    <3> QED
      BY <2>5, <2>6, <3>2 DEF EditLastTouched
  <2>7. CASE Restart
    BY <2>5, <2>7 DEF Restart
  <2>8. ASSUME NEW p, ChangeDisk(p) PROVE HistoryInv'
    BY <2>5, <2>8 DEF ChangeDisk
  <2>9. CASE UNCHANGED vars
    BY <2>5, <2>9 DEF vars
  <2>10. ~EmptyDirHistoryTable
    BY <1>2 DEF EmptyDirHistoryTable
  <2>11. ASSUME NEW t \in TTYs, OpenedTty(t) \/ CdForward(t) \/ CdBackward(t)
                                \/ ClosedTty(t) \/ CommandWithoutDatabase(t)
         PROVE  HistoryInv'
    BY <1>0, <2>1, <2>11, OpenedHistory, CdHistory, LeaveHistory
  <2> QED
    BY <2>3, <2>4, <2>6, <2>7, <2>8, <2>9, <2>10, <2>11 DEF Next
<1> QED
  BY <1>1, <1>2

LEMMA HistoryInvariant == Spec => []HistoryInv
BY InitHistory, StepHistory, PTL DEF Spec

\* Appending, overwriting, pruning and rebasing, and a kill before a prune,
\* leave no hole among the indices of the history.
THEOREM HistoryHasNoHoles == Spec => []NoHoles
BY HistoryInvariant, HistoryInvImplies, PTL

\* Every session pointer denotes an entry, whatever the other terminals do.
THEOREM PointersStayInHistory == Spec => []PointersInHistory
BY HistoryInvariant, HistoryInvImplies, PTL

\* The pointer of a shell keeps denoting the directory cdForward, cdBackward or
\* openedTty sent it to, until the entry is pruned or a starting terminal
\* overwrites it with the default directory.
THEOREM ShellStaysInStep == Spec => []ShellInStep
BY HistoryInvariant, HistoryInvImplies, PTL

-----------------------------------------------------------------------------
(* The tables implement the list *)

Size(d) == Cardinality(DOMAIN d.history)
ListOf(d) == [i \in 1 .. Size(d) |-> d.history[i - 1]]
PlaceOf(d) == [t \in TTYs |-> d.sessions[t] + 1]

LEMMA ListOfSeq ==
    ASSUME NEW d, RowsOK(d), Dense(d)
    PROVE  /\ ListOf(d) \in Seq(Dirs) /\ Len(ListOf(d)) = Size(d) /\ Size(d) \in Nat
           /\ DOMAIN ListOf(d) = 1 .. Size(d)
           /\ DOMAIN d.history = 0 .. Size(d) - 1
<1>1. Size(d) \in Nat /\ DOMAIN d.history = 0 .. Size(d) - 1
  BY DenseSize DEF Size
<1> DEFINE n == Size(d)
<1> HIDE DEF n
<1>2. \A i \in 1 .. n : i - 1 \in 0 .. n - 1
  BY <1>1 DEF n
<1>3. ListOf(d) = [i \in 1 .. n |-> d.history[i - 1]]
  BY DEF ListOf, n
<1>4. \A i \in 1 .. n : d.history[i - 1] \in Dirs
  BY <1>1, <1>2 DEF n, RowsOK
<1>5. ListOf(d) \in [1 .. n -> Dirs]
  BY <1>3, <1>4
<1>6. ListOf(d) \in Seq(Dirs) /\ Len(ListOf(d)) = n /\ DOMAIN ListOf(d) = 1 .. n
  <2>1. n \in Nat
    BY <1>1 DEF n
  <2>2. ListOf(d) \in Seq(Dirs)
    BY <1>5, <2>1, IsASeq
  <2> QED
    BY <1>5, <2>1, <2>2, LenProperties
<1> QED
  BY <1>1, <1>6 DEF n

\* An overwritten entry is one of the changes the list allows.
LEMMA OverwritesList ==
    ASSUME NEW d, RowsOK(d), Dense(d), NEW e, RowsOK(e), Dense(e), Overwrites(d, e)
    PROVE  ListOf(e) \in List!Defaulted(ListOf(d))
<1> DEFINE n == Size(d)
           l == ListOf(d)
<1>1. /\ n \in Nat /\ DOMAIN l = 1 .. n /\ DOMAIN d.history = 0 .. n - 1
      /\ l = [i \in 1 .. n |-> d.history[i - 1]]
  BY ListOfSeq DEF ListOf
<1>2. /\ Size(e) \in Nat /\ DOMAIN e.history = 0 .. Size(e) - 1
      /\ ListOf(e) = [i \in 1 .. Size(e) |-> e.history[i - 1]]
  BY ListOfSeq DEF ListOf
<1>3. \A i \in 1 .. n : i - 1 \in 0 .. n - 1
  BY <1>1
<1> HIDE DEF l, n
<1>4. ASSUME DOMAIN e.history = DOMAIN d.history PROVE Size(e) = n
  BY <1>4 DEF Size, n
<1>5. CASE SameEntries(d, e)
  <2>1. Size(e) = n /\ \A i \in 1 .. n : e.history[i - 1] = d.history[i - 1]
    BY <1>1, <1>3, <1>4, <1>5 DEF SameEntries
  <2>2. ListOf(e) = l
    BY <1>1, <1>2, <2>1
  <2> QED
    BY <2>2 DEF List!Defaulted, l
<1>6. ASSUME NEW k \in DOMAIN d.history, DefaultAt(d, e, k)
      PROVE  ListOf(e) \in List!Defaulted(l)
  <2>1. DOMAIN e.history = DOMAIN d.history
    BY <1>6 DEF DefaultAt
  <2>2. k \in Nat /\ k + 1 \in 1 .. n
    BY <1>1, <1>6
  <2>3. ASSUME NEW i \in 1 .. n
        PROVE  e.history[i - 1] = IF i = k + 1 THEN DefaultDir ELSE d.history[i - 1]
    <3>1. i - 1 \in DOMAIN e.history /\ (i - 1 = k <=> i = k + 1)
      BY <1>1, <1>3, <2>1, <2>2
    <3> QED
      BY <1>6, <3>1 DEF DefaultAt
  <2>4. ListOf(e) = [l EXCEPT ![k + 1] = DefaultDir]
    BY <1>1, <1>2, <1>4, <2>1, <2>3
  <2> QED
    BY <1>1, <2>2, <2>4 DEF List!Defaulted
<1>7. ASSUME DefaultAt(d, e, 0), 0 \notin DOMAIN d.history
      PROVE  ListOf(e) \in List!Defaulted(l)
  <2>1. n = 0
    BY <1>1, <1>7
  <2>2. DOMAIN d.history = {} /\ DOMAIN e.history = {0} /\ e.history[0] = DefaultDir
    BY <1>1, <1>7, <2>1 DEF DefaultAt
  <2>3. Size(e) = 1
    BY <2>2, FS_Singleton DEF Size
  <2>4. ListOf(e) = <<DefaultDir>>
    BY <1>2, <2>2, <2>3
  <2>5. l = <<>>
    BY <1>1, <2>1
  <2> QED
    BY <2>4, <2>5 DEF List!Defaulted
<1> QED
  BY <1>5, <1>6, <1>7 DEF Overwrites, l

\* A terminal's own move of its pointer.
LEMMA OthersPlace ==
    ASSUME NEW d, RowsOK(d), NEW e, RowsOK(e), Dense(e), NEW t \in TTYs, OthersStay(d, e, t),
           e.sessions[t] = None \/ e.sessions[t] \in DOMAIN e.history
    PROVE  \E i \in 0 .. Len(ListOf(e)) : PlaceOf(e) = [PlaceOf(d) EXCEPT ![t] = i]
<1>1. /\ Len(ListOf(e)) = Size(e) /\ Size(e) \in Nat
      /\ DOMAIN e.history = 0 .. Size(e) - 1
  BY ListOfSeq
<1> DEFINE i == e.sessions[t] + 1
<1>2. i \in 0 .. Size(e)
  BY <1>1 DEF None
<1>3. PlaceOf(e) = [PlaceOf(d) EXCEPT ![t] = i]
  BY DEF PlaceOf, OthersStay
<1> QED
  BY <1>1, <1>2, <1>3

LEMMA ListMax ==
    ASSUME NEW a \in Int, NEW b \in Int
    PROVE  List!Max({a, b}) = IF a >= b THEN a ELSE b
<1> DEFINE M(z) == z \in {a, b} /\ \A y \in {a, b} : z >= y
<1>1. List!Max({a, b}) = CHOOSE z \in {a, b} : \A y \in {a, b} : z >= y
  BY DEF List!Max
<1> DEFINE c == IF a >= b THEN a ELSE b
<1>2. c \in {a, b} /\ \A y \in {a, b} : c >= y
  OBVIOUS
<1>3. \A z \in {a, b} : (\A y \in {a, b} : z >= y) => z = c
  OBVIOUS
<1> HIDE DEF c
<1> QED
  BY <1>1, <1>2, <1>3 DEF c

\* How many directories the list drops is how many the prune deletes.
LEMMA ListExcess ==
    ASSUME NEW n \in Nat
    PROVE  List!Max({n + 1 - MaxSize, 0}) = Excess(n + 1)
<1>1. n + 1 - MaxSize \in Int /\ 0 \in Int
  BY ConstantsAssumption
<1>2. List!Max({n + 1 - MaxSize, 0}) = IF n + 1 - MaxSize >= 0 THEN n + 1 - MaxSize ELSE 0
  BY <1>1, ListMax
<1>3. (IF n + 1 - MaxSize >= 0 THEN n + 1 - MaxSize ELSE 0) = Excess(n + 1)
  BY ConstantsAssumption DEF Excess
<1> QED
  BY <1>2, <1>3

\* A rebased pointer is the place after the drop.
LEMMA RebasedPlace ==
    ASSUME NEW s \in Pointers, NEW x \in Nat
    PROVE  Rebased(s, x) + 1 = List!PlaceAfter(s + 1, x)
<1>1. s \in Int /\ s >= -1 /\ (s = None <=> s + 1 = 0)
  BY ConstantsAssumption DEF Pointers, None
<1>2. (s + 1) - x \in Int /\ 1 \in Int
  BY <1>1
<1>3. List!Max({(s + 1) - x, 1}) = IF (s + 1) - x >= 1 THEN (s + 1) - x ELSE 1
  BY <1>2, ListMax
<1>4. List!PlaceAfter(s + 1, x) = IF s + 1 = 0 THEN 0 ELSE List!Max({(s + 1) - x, 1})
  BY DEF List!PlaceAfter
<1>5. CASE s = None
  BY <1>1, <1>4, <1>5 DEF Rebased, None
<1>6. CASE s # None
  <2>1. List!PlaceAfter(s + 1, x) = IF (s + 1) - x >= 1 THEN (s + 1) - x ELSE 1
    BY <1>1, <1>3, <1>4, <1>6
  <2>2. Rebased(s, x) = IF s > x THEN s - x ELSE 0
    BY <1>6 DEF Rebased
  <2>3. (IF s > x THEN s - x ELSE 0) + 1 = IF (s + 1) - x >= 1 THEN (s + 1) - x ELSE 1
    BY <1>1
  <2> QED
    BY <2>1, <2>2, <2>3
<1> QED
  BY <1>5, <1>6

LEMMA ExtendedList ==
    ASSUME NEW d, RowsOK(d), Dense(d), NEW e, RowsOK(e), Dense(e),
           NEW p \in Dirs, Extended(d, e, p)
    PROVE  ListOf(e) = Append(ListOf(d), p)
<1> DEFINE n == Size(d)
           l == ListOf(d)
           a == Append(l, p)
<1>1. l \in Seq(Dirs) /\ Len(l) = n /\ n \in Nat /\ DOMAIN d.history = 0 .. n - 1
      /\ l = [i \in 1 .. n |-> d.history[i - 1]]
  BY ListOfSeq DEF ListOf
<1>2. /\ a \in Seq(Dirs) /\ Len(a) = n + 1
      /\ \A i \in 1 .. n : a[i] = l[i]
      /\ a[n + 1] = p
  BY <1>1, AppendProperties
<1>3. MaxHistoryIndex(d) = n - 1
  BY DenseSize DEF Size
<1>4. (n - 1) + 1 = n
  BY <1>1
<1>5. /\ DOMAIN e.history = DOMAIN d.history \cup {n}
      /\ \A x \in DOMAIN d.history : e.history[x] = d.history[x]
      /\ e.history[n] = p
  BY <1>3, <1>4 DEF Extended
<1>6. /\ ListOf(e) \in Seq(Dirs) /\ Len(ListOf(e)) = Size(e) /\ Size(e) \in Nat
      /\ DOMAIN e.history = 0 .. Size(e) - 1
      /\ ListOf(e) = [i \in 1 .. Size(e) |-> e.history[i - 1]]
  BY ListOfSeq DEF ListOf
<1> HIDE DEF l, n, a
<1>7. Size(e) = n + 1
  <2>1. n \in 0 .. Size(e) - 1
    BY <1>5, <1>6
  <2>2. Size(e) - 1 \in 0 .. n - 1 \/ Size(e) - 1 = n
    BY <1>1, <1>5, <1>6, <2>1
  <2> QED
    BY <1>1, <1>6, <2>1, <2>2
<1>8. ASSUME NEW i \in 1 .. n + 1 PROVE ListOf(e)[i] = a[i]
  <2>1. ListOf(e)[i] = e.history[i - 1]
    BY <1>6, <1>7
  <2>2. CASE i = n + 1
    <3>1. i - 1 = n
      BY <1>1, <2>2
    <3> QED
      BY <1>2, <1>5, <2>1, <2>2, <3>1
  <2>3. CASE i # n + 1
    <3>1. i \in 1 .. n /\ i - 1 \in 0 .. n - 1
      BY <1>1, <2>3
    <3> QED
      BY <1>1, <1>2, <1>5, <2>1, <3>1
  <2> QED
    BY <2>2, <2>3
<1>9. ListOf(e) = a
  BY <1>2, <1>6, <1>7, <1>8, SeqEqual
<1> QED
  BY <1>9 DEF a, l

LEMMA ReportList ==
    ASSUME NEW d, RowsOK(d), Whole(d), NEW e, RowsOK(e), Whole(e), NEW t \in TTYs, NEW p,
           NEW n, n = Size(d), Reported(d, e, t, p, n),
           NEW x, x = List!Max({n + 1 - MaxSize, 0})
    PROVE  /\ ListOf(e) = List!Dropped(Append(ListOf(d), p), x)
           /\ PlaceOf(e) = [u \in TTYs |-> IF u = t THEN n + 1 - x
                                           ELSE List!PlaceAfter(PlaceOf(d)[u], x)]
<1> DEFINE l == ListOf(d)
           a == Append(l, p)
           b == List!Dropped(a, x)
<1>1. l \in Seq(Dirs) /\ Len(l) = n /\ n \in Nat /\ DOMAIN d.history = 0 .. n - 1
      /\ l = [i \in 1 .. n |-> d.history[i - 1]]
  BY ListOfSeq DEF ListOf, Whole
<1>2. x = Excess(n + 1) /\ x \in Nat /\ x <= n
  <2>1. x = Excess(n + 1)
    BY <1>1, ListExcess
  <2>2. n + 1 \in Nat /\ n + 1 > 0
    BY <1>1
  <2>3. x \in Nat /\ x < n + 1
    BY <2>1, <2>2, ExcessRange
  <2> QED
    BY <1>1, <2>1, <2>3
<1>3. /\ p \in Dirs
      /\ DOMAIN e.history = 0 .. n - x
      /\ \A i \in DOMAIN e.history :
             e.history[i] = IF i + x = n THEN p ELSE d.history[i + x]
      /\ e.sessions[t] = n - x
      /\ \A u \in TTYs \ {t} : e.sessions[u] = Rebased(d.sessions[u], x)
  BY <1>2 DEF Reported
<1>4. /\ a \in Seq(Dirs) /\ Len(a) = n + 1
      /\ \A i \in 1 .. n : a[i] = l[i]
      /\ a[n + 1] = p
  BY <1>1, <1>3, AppendProperties
<1>5. /\ ListOf(e) \in Seq(Dirs) /\ Len(ListOf(e)) = Size(e) /\ Size(e) \in Nat
      /\ DOMAIN e.history = 0 .. Size(e) - 1
      /\ ListOf(e) = [i \in 1 .. Size(e) |-> e.history[i - 1]]
  BY ListOfSeq DEF ListOf, Whole
<1>6. b = SubSeq(a, x + 1, n + 1)
  BY <1>4 DEF List!Dropped
<1> HIDE DEF l, a, b
<1>7. Size(e) = (n - x) + 1
  <2>1. n - x \in 0 .. n - x
    BY <1>1, <1>2
  <2>2. n - x \in 0 .. Size(e) - 1
    BY <1>3, <1>5, <2>1
  <2>3. Size(e) - 1 \in 0 .. Size(e) - 1
    BY <1>1, <1>2, <1>5, <2>2
  <2>4. Size(e) - 1 \in 0 .. n - x
    BY <1>3, <1>5, <2>3
  <2> QED
    BY <1>1, <1>2, <1>5, <2>2, <2>4
<1>0. n \in Nat /\ x \in Nat /\ x <= n
  BY <1>1, <1>2
<1>8. /\ b \in Seq(Dirs) /\ Len(b) = (n - x) + 1
      /\ \A i \in 1 .. (n - x) + 1 : b[i] = a[i + x]
  <2>1. x + 1 \in Int /\ n + 1 \in Int /\ x + 1 <= n + 1
    BY <1>0
  <2>2. \A i \in x + 1 .. n + 1 : a[i] \in Dirs
    <3>1. \A i \in 1 .. Len(a) : a[i] \in Dirs
      BY <1>4, LenProperties
    <3>2. \A i \in x + 1 .. n + 1 : i \in 1 .. Len(a)
      BY <1>0, <1>4
    <3> QED
      BY <3>1, <3>2
  <2>3. \A lo, hi \in Int : (\A i \in lo .. hi : a[i] \in Dirs) =>
            /\ SubSeq(a, lo, hi) \in Seq(Dirs)
            /\ Len(SubSeq(a, lo, hi)) = IF lo <= hi THEN hi - lo + 1 ELSE 0
            /\ \A i \in 1 .. hi - lo + 1 : SubSeq(a, lo, hi)[i] = a[lo + i - 1]
    BY SubSeqProperties
  <2>4. /\ b \in Seq(Dirs)
        /\ Len(b) = (n + 1) - (x + 1) + 1
        /\ \A i \in 1 .. (n + 1) - (x + 1) + 1 : b[i] = a[(x + 1) + i - 1]
    BY <1>6, <2>1, <2>2, <2>3
  <2>5. (n + 1) - (x + 1) + 1 = (n - x) + 1
    BY <1>0
  <2>6. \A i \in 1 .. (n - x) + 1 : (x + 1) + i - 1 = i + x
    BY <1>0
  <2>7. ASSUME NEW i \in 1 .. (n - x) + 1 PROVE b[i] = a[i + x]
    <3>1. i \in 1 .. (n + 1) - (x + 1) + 1
      BY <2>5
    <3>2. b[i] = a[(x + 1) + i - 1]
      BY <2>4, <3>1
    <3> QED
      BY <2>6, <3>2
  <2>8. b \in Seq(Dirs) /\ Len(b) = (n - x) + 1
    BY <2>4, <2>5
  <2> QED
    BY <2>7, <2>8
<1>9. ASSUME NEW i \in 1 .. (n - x) + 1 PROVE ListOf(e)[i] = b[i]
  <2>1. ListOf(e)[i] = e.history[i - 1] /\ b[i] = a[i + x]
    BY <1>5, <1>7, <1>8
  <2>2. i - 1 \in 0 .. n - x /\ i \in Int /\ i >= 1 /\ i <= (n - x) + 1
    BY <1>0
  <2>3. e.history[i - 1] = IF (i - 1) + x = n THEN p ELSE d.history[(i - 1) + x]
    BY <1>3, <2>2
  <2>4. CASE i + x = n + 1
    <3>1. (i - 1) + x = n
      BY <1>0, <2>2, <2>4
    <3> QED
      BY <1>4, <2>1, <2>3, <2>4, <3>1
  <2>5. CASE i + x # n + 1
    <3>1. i + x \in 1 .. n /\ (i - 1) + x # n /\ (i - 1) + x = (i + x) - 1
      BY <1>0, <2>2, <2>5
    <3>2. a[i + x] = d.history[(i + x) - 1]
      BY <1>1, <1>4, <3>1
    <3> QED
      BY <2>1, <2>3, <3>1, <3>2
  <2> QED
    BY <2>4, <2>5
<1>10. ListOf(e) = b
  BY <1>5, <1>7, <1>8, <1>9, SeqEqual
<1>11. ASSUME NEW u \in TTYs
       PROVE  e.sessions[u] + 1 = IF u = t THEN n + 1 - x
                                  ELSE List!PlaceAfter(d.sessions[u] + 1, x)
  <2>1. CASE u = t
    BY <1>1, <1>2, <1>3, <2>1
  <2>2. CASE u # t
    <3>1. d.sessions[u] \in Pointers
      BY DEF RowsOK
    <3>2. Rebased(d.sessions[u], x) + 1 = List!PlaceAfter(d.sessions[u] + 1, x)
      BY <1>2, <3>1, RebasedPlace
    <3> QED
      BY <1>3, <2>2, <3>2
  <2> QED
    BY <2>1, <2>2
<1>12. \A u \in TTYs : PlaceOf(d)[u] = d.sessions[u] + 1
  BY DEF PlaceOf
<1>13. PlaceOf(e) = [u \in TTYs |-> IF u = t THEN n + 1 - x
                                    ELSE List!PlaceAfter(PlaceOf(d)[u], x)]
  BY <1>11, <1>12 DEF PlaceOf
<1> QED
  BY <1>10, <1>13 DEF a, b, l

\* The list and the places the tables stand for, as the mapping of List has them
TheList ==
    IF intact THEN [i \in 1 .. Cardinality(DOMAIN db.history) |-> db.history[i - 1]]
    ELSE <<>>
ThePlaces == [t \in TTYs |-> IF intact THEN db.sessions[t] + 1 ELSE 0]

LEMMA MappedState ==
    /\ intact => TheList = ListOf(db) /\ ThePlaces = PlaceOf(db)
    /\ ~intact => TheList = <<>> /\ ThePlaces = [t \in TTYs |-> 0]
    /\ intact' => TheList' = ListOf(db') /\ ThePlaces' = PlaceOf(db')
    /\ ~intact' => TheList' = <<>> /\ ThePlaces' = [t \in TTYs |-> 0]
BY DEF TheList, ThePlaces, ListOf, PlaceOf, Size

\* A step that changes at most one terminal's pointer and overwrites at most an
\* entry is a Move of the list.
LEMMA MoveStep ==
    ASSUME HistoryInv, HistoryInv', intact, intact', NEW t \in TTYs,
           Overwrites(db, db'), OthersStay(db, db', t),
           db'.sessions[t] = None \/ db'.sessions[t] \in DOMAIN db'.history,
           instances' \in {instances \cup {t}, instances \ {t}, {}}
    PROVE  List!ListNext
<1>1. RowsOK(db) /\ Whole(db) /\ RowsOK(db') /\ Dense(db')
  <2>1. Whole(db)' /\ TypeOK /\ TypeOK' /\ Whole(db)
    BY DEF HistoryInv
  <2> QED
    BY <2>1, TypeParts DEF Whole, Dense, PointersIn
<1>2. TheList' \in List!Defaulted(TheList)
  BY <1>1, OverwritesList, MappedState DEF Whole
<1>3. \E i \in 0 .. Len(TheList') : ThePlaces' = [ThePlaces EXCEPT ![t] = i]
  BY <1>1, OthersPlace, MappedState
<1>4. List!Move(t)
  BY <1>2, <1>3 DEF List!Move, TheList, ThePlaces
<1> QED
  BY <1>4 DEF List!ListNext

\* A report of a new directory is a Report of the list.
LEMMA ReportStep ==
    ASSUME HistoryInv, HistoryInv', intact, intact', NEW t \in TTYs, NEW p \in Dirs,
           NEW K, K = Known(t), Reported(K, db', t, p, Size(K)),
           instances' = instances \cup {t}
    PROVE  List!ListNext
<1>1. TypeOK /\ RowsOK(db) /\ Whole(db) /\ RowsOK(db') /\ Whole(db')
  <2>1. Whole(db)' /\ TypeOK /\ TypeOK' /\ Whole(db)
    BY DEF HistoryInv
  <2> QED
    BY <2>1, TypeParts DEF Whole, Dense, PointersIn
<1>2. RowsOK(K) /\ Overwrites(db, K) /\ OthersStay(db, K, t) /\ Whole(K)
  BY <1>1, KnownRows
<1> DEFINE l == ListOf(K)
           n == List!Max({Len(l) + 1 - MaxSize, 0})
<1>3. l \in List!Defaulted(TheList)
  BY <1>1, <1>2, OverwritesList, MappedState DEF Whole
<1>4. Len(l) = Size(K)
  BY <1>2, ListOfSeq DEF Whole
<1>5. /\ TheList' = List!Dropped(Append(l, p), n)
      /\ ThePlaces' = [u \in TTYs |-> IF u = t THEN Size(K) + 1 - n
                                      ELSE List!PlaceAfter(PlaceOf(K)[u], n)]
  BY <1>1, <1>2, <1>4, ReportList, MappedState
<1>6. ASSUME NEW u \in TTYs, u # t PROVE PlaceOf(K)[u] = ThePlaces[u]
  BY <1>2, <1>6, MappedState DEF PlaceOf, OthersStay
<1>7. ThePlaces' = [u \in TTYs |-> IF u = t THEN Len(l) + 1 - n
                                   ELSE List!PlaceAfter(ThePlaces[u], n)]
  BY <1>4, <1>5, <1>6
<1> HIDE DEF l
<1>8. \E k \in List!Defaulted(TheList) :
          LET m == List!Max({Len(k) + 1 - MaxSize, 0})
          IN  /\ TheList' = List!Dropped(Append(k, p), m)
              /\ ThePlaces' = [u \in TTYs |-> IF u = t THEN Len(k) + 1 - m
                                              ELSE List!PlaceAfter(ThePlaces[u], m)]
  BY <1>3, <1>5, <1>7
<1>9. List!Report(t, p)
  BY <1>8 DEF List!Report, TheList, ThePlaces
<1> QED
  BY <1>9 DEF List!ListNext

\* The list is damaged, or was.
LEMMA DamageStep ==
    ASSUME TypeOK', ~intact'
    PROVE  List!ListNext
<1>1. TheList' = <<>> /\ ThePlaces' = [t \in TTYs |-> 0] /\ instances' \subseteq TTYs
  BY MappedState DEF TypeOK
<1>2. List!Damage
  BY <1>1 DEF List!Damage, TheList, ThePlaces
<1> QED
  BY <1>2 DEF List!ListNext

\* A kill before the prune is a ReportCut, or a Move when the entry was not
\* written yet.
LEMMA CrashStep ==
    ASSUME HistoryInv, HistoryInv', intact, intact', NEW t \in TTYs, NEW p \in Dirs,
           CrashInUpdate(t, p)
    PROVE  List!ListNext
<1> DEFINE K == Known(t)
<1>1. TypeOK /\ RowsOK(db) /\ Whole(db) /\ RowsOK(db') /\ Whole(db')
  <2>1. Whole(db)' /\ TypeOK /\ TypeOK' /\ Whole(db)
    BY DEF HistoryInv
  <2> QED
    BY <2>1, TypeParts DEF Whole, Dense, PointersIn
<1>2. RowsOK(K) /\ Overwrites(db, K) /\ OthersStay(db, K, t) /\ Whole(K)
  BY <1>1, KnownRows
<1>3. /\ OthersStay(K, db', t) /\ instances' = {}
      /\ \/ SameEntries(K, db') /\ db'.sessions[t] = K.sessions[t]
         \/ /\ Extended(K, db', p)
            /\ db'.sessions[t] \in {K.sessions[t], MaxHistoryIndex(K) + 1}
  BY <1>1, CrashRows DEF CrashInUpdate
<1> HIDE DEF K
<1>4. OthersStay(db, db', t)
  BY <1>2, <1>3 DEF OthersStay
<1>5. db'.sessions[t] = None \/ db'.sessions[t] \in DOMAIN db'.history
  BY <1>1 DEF Whole, PointersIn
<1>6. CASE SameEntries(K, db')
  BY <1>2, <1>3, <1>4, <1>5, <1>6, OverwritesTwice, MoveStep
<1>7. CASE Extended(K, db', p)
  <2>1. ListOf(K) \in List!Defaulted(TheList) /\ TheList' = Append(ListOf(K), p)
    BY <1>1, <1>2, <1>7, OverwritesList, ExtendedList, MappedState DEF Whole
  <2>2. \E i \in 0 .. Len(TheList') : ThePlaces' = [ThePlaces EXCEPT ![t] = i]
    BY <1>1, <1>4, <1>5, OthersPlace, MappedState DEF Whole
  <2>3. \E l \in List!Defaulted(TheList) : TheList' = Append(l, p)
    BY <2>1
  <2>4. List!ReportCut(t, p)
    BY <1>3, <2>2, <2>3 DEF List!ReportCut, TheList, ThePlaces
  <2> QED
    BY <2>4 DEF List!ListNext
<1> QED
  BY <1>3, <1>6, <1>7

\* Every step of the tables is a step of the list, or changes nothing of it.
LEMMA ListStep ==
    ASSUME HistoryInv, HistoryInv', [Next]_vars
    PROVE  [List!ListNext]_List!listVars
<1>0. TypeOK /\ TypeOK'
  BY DEF HistoryInv
<1>1. CASE ~intact'
  BY <1>0, <1>1, DamageStep
<1>2. CASE intact' /\ ~intact
  <2>1. \A t \in TTYs, p \in Dirs : ~CrashInUpdate(t, p)
    BY <1>0, <1>2, CrashRows
  <2> QED
    BY <1>2, <2>1
       DEF Next, vars, OpenedTty, ClosedTty, CdForward, CdBackward, CommandWithoutDatabase,
           UpdateDirHistory, EmptyDirHistoryTable, EditLastTouched, Restart, ChangeDisk
<1>3. CASE intact' /\ intact
  <2>0. UnknownUnsent' /\ RowsOK(db) /\ Whole(db)
    BY <1>0, <1>3, TypeParts DEF HistoryInv
  <2>1. ASSUME NEW t \in TTYs, OpenedTty(t) PROVE List!ListNext
    BY <1>0, <1>3, <2>0, <2>1, OpenedHistory, MoveStep DEF OpenedTty
  <2>2. ASSUME NEW t \in TTYs, CdForward(t) \/ CdBackward(t) PROVE List!ListNext
    <3>1. instances' = instances \cup {t}
      BY <2>2 DEF CdForward, CdBackward
    <3> QED
      BY <1>0, <1>3, <2>0, <2>2, <3>1, CdHistory, MoveStep
  <2>3. ASSUME NEW t \in TTYs, ClosedTty(t) \/ CommandWithoutDatabase(t) PROVE List!ListNext
    <3>1. instances' \in {instances \cup {t}, instances \ {t}, {}}
      BY <2>3 DEF ClosedTty, CommandWithoutDatabase
    <3> QED
      BY <1>0, <1>3, <2>0, <2>3, <3>1, LeaveHistory, MoveStep
  <2>4. ASSUME NEW t \in TTYs, NEW p \in Dirs \cup {Root}, UpdateDirHistory(t, p)
        PROVE  List!ListNext
    <3> DEFINE K == Known(t)
    <3>1. instances' = instances \cup {t}
      BY <2>4 DEF UpdateDirHistory
    <3>2. \/ /\ Overwrites(db, db') /\ OthersStay(db, db', t)
             /\ db'.sessions[t] = None \/ db'.sessions[t] \in DOMAIN db'.history
          \/ Reported(K, db', t, p, Size(K))
      BY <1>0, <1>3, <2>0, <2>4, UpdateHistory DEF Size
    <3>3. CASE Reported(K, db', t, p, Size(K))
      <4>1. p \in Dirs
        BY <3>3 DEF Reported
      <4> QED
        BY <1>3, <3>1, <3>3, <4>1, ReportStep
    <3> QED
      BY <1>3, <3>1, <3>2, <3>3, MoveStep
  <2>5. ASSUME NEW t \in TTYs, NEW p \in Dirs, CrashInUpdate(t, p) PROVE List!ListNext
    BY <1>3, <2>5, CrashStep
  <2>6. ~EmptyDirHistoryTable
    BY <1>3 DEF EmptyDirHistoryTable
  <2>7. ASSUME db'.history = db.history, db'.sessions = db.sessions, instances' = instances
        PROVE  UNCHANGED List!listVars
    <3>1. TheList' = TheList /\ ThePlaces' = ThePlaces
      BY <1>3, <2>7 DEF TheList, ThePlaces
    <3> QED
      BY <1>3, <2>7, <3>1 DEF List!listVars, TheList, ThePlaces
  <2>8. ASSUME NEW i \in Edits, EditLastTouched(i) PROVE UNCHANGED List!listVars
    <3>1. i \in Pointers
      BY ConstantsAssumption DEF Pointers, None
    <3>2. db'.history = db.history /\ db'.sessions = db.sessions
      BY <2>0, <2>8, <3>1, LastRows DEF EditLastTouched
    <3> QED
      BY <2>7, <2>8, <3>2 DEF EditLastTouched
  <2>9. CASE Restart
    <3>1. db' = db /\ instances' = {}
      BY <2>9 DEF Restart
    <3>2. CASE instances = {}
      BY <2>7, <3>1, <3>2
    <3>3. CASE instances # {}
      <4>1. PICK t \in TTYs : t \in instances
        BY <1>0, <3>3 DEF TypeOK
      <4>2. Overwrites(db, db') /\ OthersStay(db, db', t)
        BY <3>1 DEF Overwrites, SameEntries, OthersStay
      <4>3. db'.sessions[t] = None \/ db'.sessions[t] \in DOMAIN db'.history
        BY <2>0, <3>1 DEF Whole, PointersIn
      <4> QED
        BY <1>3, <3>1, <4>2, <4>3, MoveStep
    <3> QED
      BY <3>2, <3>3
  <2>10. ASSUME NEW p, ChangeDisk(p) PROVE UNCHANGED List!listVars
    BY <2>7, <2>10 DEF ChangeDisk
  <2>11. CASE UNCHANGED vars
    BY <2>7, <2>11 DEF vars
  <2> QED
    BY <2>1, <2>2, <2>3, <2>4, <2>5, <2>6, <2>8, <2>9, <2>10, <2>11 DEF Next
<1> QED
  BY <1>1, <1>2, <1>3

LEMMA ListStart == Init => List!ListInit
<1> SUFFICES ASSUME Init PROVE List!ListInit
  OBVIOUS
<1>1. Cardinality({}) = 0
  BY FS_EmptySet
<1>2. DOMAIN db.history = {} /\ intact
  BY DEF Init
<1>3. TheList = <<>>
  BY <1>1, <1>2 DEF TheList
<1>4. ThePlaces = [t \in TTYs |-> 0]
  BY DEF Init, ThePlaces, None
<1> QED
  BY <1>3, <1>4 DEF Init, List!ListInit, TheList, ThePlaces

\* The tables terminal_history and terminal_sessions with their prune and
\* rebase implement one list in which each shell has a place (HistoryList), for
\* any number of shells and any MAX_DIR_HISTORY_SIZE: a report never moves
\* another shell to another directory unless the prune dropped its entry.
THEOREM TablesImplementList == Spec => ImplementsList
<1>1. HistoryInv /\ HistoryInv' /\ [Next]_vars => [List!ListNext]_List!listVars
  BY ListStep
<1> QED
  BY <1>1, ListStart, HistoryInvariant, PTL DEF Spec, ImplementsList, List!ListSpec
=============================================================================
