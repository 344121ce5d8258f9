------------------------- MODULE InputMapperProofs -------------------------
(***************************************************************************)
(* Theorems about the macro engine, for any keys, sessions and documents.  *)
(***************************************************************************)
EXTENDS InputMapper, TLAPS, WellFoundedInduction, FiniteSetTheorems,
        SequenceTheorems

-----------------------------------------------------------------------------
(* Numbers, and functions that are defined by recursion on them            *)

\* A set of naturals that is not empty has a least member, and Min is it.
LEMMA MinIsLeast ==
    ASSUME NEW S, S \subseteq Nat, S # {}
    PROVE  Min(S) \in S /\ \A y \in S : Min(S) <= y
<1>1. PICK x \in S : \A y \in S : ~(<<y, x>> \in OpToRel(<, Nat))
  BY NatLessThanWellFounded, WFMin
<1>2. ASSUME NEW y \in S PROVE x <= y
  <2>1. ~(y < x)
    BY <1>1 DEF OpToRel
  <2> QED
    BY <2>1, SMT
<1> QED
  BY <1>2 DEF Min

\* A set of numbers up to n that is not empty has a greatest member, and Max is it.
LEMMA MaxIsGreatest ==
    ASSUME NEW n \in Nat, NEW S, S \subseteq 0 .. n, S # {}
    PROVE  Max(S) \in S /\ \A y \in S : Max(S) >= y
<1> DEFINE T == {n - x : x \in S}
<1>1. T \subseteq Nat /\ T # {}
  <2>1. ASSUME NEW x \in S PROVE n - x \in Nat
    BY SMT
  <2>2. T \subseteq Nat
    BY <2>1
  <2>3. T # {}
    OBVIOUS
  <2> QED
    BY <2>2, <2>3
<1>2. Min(T) \in T /\ \A y \in T : Min(T) <= y
  <2> HIDE DEF T
  <2> QED
    BY <1>1, MinIsLeast
<1>3. PICK x \in S : Min(T) = n - x
  BY <1>2
<1>4. \A y \in S : x >= y
  BY <1>2, <1>3, SMT
<1> QED
  BY <1>4 DEF Max

\* What holds of 0, and of each number whose predecessor it holds of, holds up to N.
LEMMA UpTo ==
    ASSUME NEW N \in Nat, NEW S, 0 \in S, \A n \in 1 .. N : n - 1 \in S => n \in S
    PROVE  0 .. N \subseteq S
<1> DEFINE Missing == {n \in 0 .. N : n \notin S}
<1>1. SUFFICES ASSUME Missing # {} PROVE FALSE
  OBVIOUS
<1>2. Missing \subseteq Nat
  OBVIOUS
<1>3. PICK m \in Missing : \A y \in Missing : m <= y
  <2> HIDE DEF Missing
  <2> QED
    BY <1>1, <1>2, MinIsLeast
<1>4. m \in 1 .. N
  BY SMT
<1>5. m - 1 \notin Missing
  BY <1>3, <1>4, SMT
<1>6. m - 1 \in S
  BY <1>4, <1>5, SMT
<1> QED
  BY <1>4, <1>6

\* A function on 0 .. N that begins with base and goes on by step.
Run(f, N, T, base, step) ==
    /\ f \in [0 .. N -> T]
    /\ f[0] = base
    /\ \A n \in 1 .. N : f[n] = step[n][f[n - 1]]

\* There is one.
LEMMA Recursion ==
    ASSUME NEW N \in Nat, NEW T, NEW base \in T, NEW step \in [1 .. N -> [T -> T]]
    PROVE  \E f : Run(f, N, T, base, step)
<1> DEFINE Fits(f, k) == f[0] = base /\ \A n \in 1 .. k : f[n] = step[n][f[n - 1]]
           S == {k \in 0 .. N : \E f \in [0 .. k -> T] : Fits(f, k)}
<1>1. 0 \in S
  <2> DEFINE g == [n \in 0 .. 0 |-> base]
  <2>1. g \in [0 .. 0 -> T] /\ g[0] = base
    OBVIOUS
  <2> HIDE DEF g
  <2>2. \A n \in 1 .. 0 : g[n] = step[n][g[n - 1]]
    BY SMT
  <2>3. \E f \in [0 .. 0 -> T] : Fits(f, 0)
    BY <2>1, <2>2
  <2>4. 0 \in 0 .. N
    BY SMT
  <2> HIDE DEF Fits
  <2> QED
    BY <2>3, <2>4
<1>2. ASSUME NEW k \in 1 .. N, k - 1 \in S PROVE k \in S
  <2>1. PICK f \in [0 .. k - 1 -> T] : Fits(f, k - 1)
    BY <1>2
  <2> DEFINE g == [n \in 0 .. k |-> IF n = k THEN step[k][f[k - 1]] ELSE f[n]]
  <2>2. step[k][f[k - 1]] \in T
    BY SMT
  <2>3. g \in [0 .. k -> T]
    BY <2>2, SMT
  <2>4. \A n \in 0 .. k - 1 : g[n] = f[n]
    BY SMT
  <2>5. g[0] = base
    BY <2>1, <2>4, SMT
  <2>6. g[k] = step[k][f[k - 1]]
    BY SMT
  <2>7. ASSUME NEW n \in 1 .. k PROVE g[n] = step[n][g[n - 1]]
    <3> HIDE DEF g
    <3>1. CASE n = k
      BY <3>1, <2>4, <2>6, SMT
    <3>2. CASE n # k
      <4>1. n \in 1 .. k - 1 /\ n - 1 \in 0 .. k - 1 /\ n \in 0 .. k - 1
        BY <3>2, SMT
      <4> QED
        BY <4>1, <2>1, <2>4
    <3> QED
      BY <3>1, <3>2
  <2> HIDE DEF g
  <2>8. \E h \in [0 .. k -> T] : Fits(h, k)
    BY <2>3, <2>5, <2>7
  <2>9. k \in 0 .. N
    BY SMT
  <2> HIDE DEF Fits
  <2> QED
    BY <2>8, <2>9
<1>3. 0 .. N \subseteq S
  <2> HIDE DEF S
  <2> QED
    BY <1>1, <1>2, UpTo
<1>4. N \in S
  BY <1>3
<1> QED
  BY <1>4 DEF Run

-----------------------------------------------------------------------------
(* Sequences: what a filter keeps, and what is left after one event        *)

\* The recursion in Kept.
KeptRun(f, T, s, I) ==
    /\ f \in [0 .. Len(s) -> Seq(T)]
    /\ f[0] = <<>>
    /\ \A n \in 1 .. Len(s) :
          f[n] = IF n \in I THEN Append(f[n - 1], s[n]) ELSE f[n - 1]
    /\ Kept(s, I) = f[Len(s)]

\* Kept is the end of it.
LEMMA KeptSteps ==
    ASSUME NEW T, NEW s \in Seq(T), NEW I
    PROVE  \E f : KeptRun(f, T, s, I)
<1> DEFINE N == Len(s)
           step == [n \in 1 .. N |->
                      [t \in Seq(T) |-> IF n \in I THEN Append(t, s[n]) ELSE t]]
           K == CHOOSE g : g = [n \in 0 .. N |->
                    IF n = 0 THEN <<>>
                    ELSE IF n \in I THEN Append(g[n - 1], s[n]) ELSE g[n - 1]]
<1>1. N \in Nat
  OBVIOUS
<1>2. Kept(s, I) = K[N]
  BY DEF Kept
<1>3. step \in [1 .. N -> [Seq(T) -> Seq(T)]]
  OBVIOUS
<1>4. <<>> \in Seq(T)
  OBVIOUS
<1>5. PICK f \in [0 .. N -> Seq(T)] :
         f[0] = <<>> /\ \A n \in 1 .. N : f[n] = step[n][f[n - 1]]
  <2> DEFINE U == Seq(T)
             base == <<>>
  <2>1. base \in U /\ step \in [1 .. N -> [U -> U]]
    BY <1>3, <1>4
  <2> HIDE DEF step, N, U, base
  <2>2. \E f : Run(f, N, U, base, step)
    BY <1>1, <2>1, Recursion
  <2> QED
    BY <2>2 DEF Run, U, base
<1>6. \A n \in 1 .. N :
         f[n] = IF n \in I THEN Append(f[n - 1], s[n]) ELSE f[n - 1]
  <2>1. ASSUME NEW n \in 1 .. N PROVE f[n - 1] \in Seq(T)
    <3>1. n - 1 \in 0 .. N
      BY SMT
    <3> QED
      BY <3>1
  <2> QED
    BY <1>5, <2>1
<1>7. f = [n \in 0 .. N |->
             IF n = 0 THEN <<>>
             ELSE IF n \in I THEN Append(f[n - 1], s[n]) ELSE f[n - 1]]
  <2>1. ASSUME NEW n \in 0 .. N
        PROVE  f[n] = IF n = 0 THEN <<>>
                      ELSE IF n \in I THEN Append(f[n - 1], s[n]) ELSE f[n - 1]
    <3>1. CASE n = 0
      BY <3>1, <1>5
    <3>2. CASE n # 0
      <4>1. n \in 1 .. N
        BY <3>2, SMT
      <4> QED
        BY <4>1, <3>2, <1>6
    <3> QED
      BY <3>1, <3>2
  <2> QED
    BY <2>1
<1>8. K = [n \in 0 .. N |->
             IF n = 0 THEN <<>>
             ELSE IF n \in I THEN Append(K[n - 1], s[n]) ELSE K[n - 1]]
  BY <1>7
<1> HIDE DEF K, step
<1>9. K[0] = <<>>
  BY <1>8
<1>10. ASSUME NEW n \in 1 .. N
       PROVE  K[n] = IF n \in I THEN Append(K[n - 1], s[n]) ELSE K[n - 1]
  <2>1. n \in 0 .. N /\ n # 0
    BY SMT
  <2> QED
    BY <1>8, <2>1
<1> DEFINE S == {n \in 0 .. N : K[n] \in Seq(T)}
<1>11. 0 \in S
  BY <1>9
<1>12. ASSUME NEW n \in 1 .. N, n - 1 \in S PROVE n \in S
  <2>1. n \in 0 .. N /\ s[n] \in T
    BY SMT
  <2>2. K[n - 1] \in Seq(T)
    BY <1>12
  <2>3. K[n] = IF n \in I THEN Append(K[n - 1], s[n]) ELSE K[n - 1]
    BY <1>10
  <2>4. K[n] \in Seq(T)
    BY <2>1, <2>2, <2>3
  <2> QED
    BY <2>1, <2>4
<1>13. 0 .. N \subseteq S
  <2> HIDE DEF S, N
  <2> QED
    BY <1>1, <1>11, <1>12, UpTo
<1>14. K \in [0 .. N -> Seq(T)]
  <2>1. \A n \in 0 .. N : K[n] \in Seq(T)
    BY <1>13
  <2> DEFINE body(n) == IF n = 0 THEN <<>>
                        ELSE IF n \in I THEN Append(K[n - 1], s[n]) ELSE K[n - 1]
  <2>2. K = [n \in 0 .. N |-> body(n)]
    BY <1>8
  <2> HIDE DEF body, N
  <2> QED
    BY <2>1, <2>2
<1> QED
  BY <1>2, <1>9, <1>10, <1>14 DEF KeptRun

\* What a filter keeps are elements at the positions it is to keep.
LEMMA KeptElements ==
    ASSUME NEW T, NEW s \in Seq(T), NEW I
    PROVE  /\ Kept(s, I) \in Seq(T)
           /\ Len(Kept(s, I)) \in 0 .. Len(s)
           /\ \A m \in DOMAIN Kept(s, I) : \E i \in DOMAIN s \cap I : Kept(s, I)[m] = s[i]
<1>1. PICK f \in [0 .. Len(s) -> Seq(T)] :
              /\ f[0] = <<>>
              /\ \A n \in 1 .. Len(s) :
                    f[n] = IF n \in I THEN Append(f[n - 1], s[n]) ELSE f[n - 1]
              /\ Kept(s, I) = f[Len(s)]
  <2>1. \E f : KeptRun(f, T, s, I)
    BY KeptSteps
  <2> QED
    BY <2>1 DEF KeptRun
<1> DEFINE From(n) == \A m \in 1 .. Len(f[n]) : \E i \in 1 .. n : i \in I /\ f[n][m] = s[i]
           S == {n \in 0 .. Len(s) : Len(f[n]) <= n /\ From(n)}
<1>2. 0 \in S
  BY <1>1
<1>3. ASSUME NEW n \in 1 .. Len(s), n - 1 \in S PROVE n \in S
  <2>1. n \in 0 .. Len(s) /\ n - 1 \in 0 .. Len(s) /\ s[n] \in T
    BY SMT
  <2>2. PICK old \in Seq(T) : old = f[n - 1]
    BY <2>1
  <2>3. Len(old) <= n - 1 /\ \A m \in 1 .. Len(old) : \E i \in 1 .. n - 1 : i \in I /\ old[m] = s[i]
    BY <1>3, <2>2
  <2>4. CASE n \in I
    <3>1. f[n] = Append(old, s[n])
      BY <2>4, <2>2, <1>1
    <3>2. Len(f[n]) = Len(old) + 1 /\ f[n][Len(old) + 1] = s[n]
      BY <3>1, <2>1
    <3>3. \A m \in 1 .. Len(old) : f[n][m] = old[m]
      BY <3>1, <2>1
    <3>4. ASSUME NEW m \in 1 .. Len(f[n]) PROVE \E i \in 1 .. n : i \in I /\ f[n][m] = s[i]
      <4>1. CASE m = Len(old) + 1
        BY <4>1, <3>2, <2>4, SMT
      <4>2. CASE m # Len(old) + 1
        <5>1. m \in 1 .. Len(old)
          BY <4>2, <3>2, SMT
        <5>2. PICK i \in 1 .. n - 1 : i \in I /\ old[m] = s[i]
          BY <5>1, <2>3
        <5>3. i \in 1 .. n
          BY SMT
        <5> QED
          BY <5>1, <5>2, <5>3, <3>3
      <4> QED
        BY <4>1, <4>2
    <3>5. Len(f[n]) <= n
      BY <3>2, <2>3, SMT
    <3> QED
      BY <3>4, <3>5, <2>1
  <2>5. CASE n \notin I
    <3>1. f[n] = old
      BY <2>5, <2>2, <1>1
    <3>2. Len(old) <= n
      BY <2>3, SMT
    <3>3. 1 .. n - 1 \subseteq 1 .. n
      BY SMT
    <3> QED
      BY <3>1, <3>2, <3>3, <2>1, <2>3
  <2> QED
    BY <2>4, <2>5
<1>4. Len(s) \in Nat
  OBVIOUS
<1>5. 0 .. Len(s) \subseteq S
  <2> HIDE DEF S
  <2> QED
    BY <1>2, <1>3, <1>4, UpTo
<1>6. Len(s) \in S
  BY <1>4, <1>5
<1>7. f[Len(s)] \in Seq(T)
  BY <1>4
<1> QED
  BY <1>1, <1>6, <1>7, SMT

\* What a sequence leaves down is down after it, and nothing else but what was.
LEMMA EmitsAtMost ==
    ASSUME NEW down, NEW q
    PROVE  EmitSequence(down, q) \subseteq down \cup EmitSequence({}, q)
BY DEF EmitSequence

\* A sequence presses codes it names.
LEMMA EmitsCodes ==
    ASSUME NEW down, down \subseteq Nat, NEW q \in KeySequences
    PROVE  EmitSequence(down, q) \subseteq Nat
<1>1. ASSUME NEW i \in DOMAIN q PROVE q[i][1] \in Nat
  <2>1. q[i] \in Nat \X Int
    BY DEF KeySequences
  <2> QED
    BY <2>1
<1> QED
  BY <1>1 DEF EmitSequence

\* A sequence that releases after each press what it pressed, but for codes in C,
\* leaves nothing down but codes in C.
LEMMA BalancedLeavesNothing ==
    ASSUME NEW C, NEW q \in KeySequences,
           \A i \in DOMAIN q : q[i][2] = 1 =>
              \/ q[i][1] \in C
              \/ \E j \in DOMAIN q : j > i /\ q[j][1] = q[i][1] /\ q[j][2] = 0
    PROVE  EmitSequence({}, q) \subseteq C
<1>1. SUFFICES ASSUME NEW c \in EmitSequence({}, q), c \notin C PROVE FALSE
  OBVIOUS
<1> DEFINE told == {i \in DOMAIN q : q[i][1] = c /\ q[i][2] # 2}
<1>2. told # {} /\ q[Max(told)][2] = 1
  BY <1>1 DEF EmitSequence
<1>3. Len(q) \in Nat /\ told \subseteq 0 .. Len(q)
  BY DEF KeySequences
<1>4. Max(told) \in told /\ \A y \in told : Max(told) >= y
  <2> HIDE DEF told
  <2> QED
    BY <1>2, <1>3, MaxIsGreatest
<1>5. PICK j \in DOMAIN q : j > Max(told) /\ q[j][1] = c /\ q[j][2] = 0
  BY <1>1, <1>2, <1>4
<1>6. j \in told
  BY <1>5
<1>7. j \in Nat /\ Max(told) \in Nat
  BY <1>3, <1>4, <1>6
<1> QED
  <2> HIDE DEF told
  <2> QED
    BY <1>4, <1>5, <1>6, <1>7, SMT

-----------------------------------------------------------------------------
(* The registry of withheld events                                         *)

Entries == [value : 0 .. 2, owner : Nat \ {0}]
Registries == [Codes -> Seq(Entries)]

\* A claim leaves entries of the others.
LEMMA UnclaimedEntries ==
    ASSUME NEW reg \in Registries, NEW owners
    PROVE  /\ Unclaimed(reg, owners) \in Registries
           /\ \A c \in Codes : \A m \in DOMAIN Unclaimed(reg, owners)[c] :
                 /\ Unclaimed(reg, owners)[c][m].owner \notin owners
                 /\ \E n \in DOMAIN reg[c] : Unclaimed(reg, owners)[c][m] = reg[c][n]
<1>1. ASSUME NEW c \in Codes
      PROVE  /\ Unclaimed(reg, owners)[c] \in Seq(Entries)
             /\ \A m \in DOMAIN Unclaimed(reg, owners)[c] :
                   /\ Unclaimed(reg, owners)[c][m].owner \notin owners
                   /\ \E n \in DOMAIN reg[c] : Unclaimed(reg, owners)[c][m] = reg[c][n]
  <2> DEFINE I == {n \in DOMAIN reg[c] : reg[c][n].owner \notin owners}
  <2>1. reg[c] \in Seq(Entries)
    BY DEF Registries
  <2>2. Unclaimed(reg, owners)[c] = Kept(reg[c], I)
    BY DEF Unclaimed
  <2>3. /\ Kept(reg[c], I) \in Seq(Entries)
        /\ \A m \in DOMAIN Kept(reg[c], I) :
              \E i \in DOMAIN reg[c] \cap I : Kept(reg[c], I)[m] = reg[c][i]
    <3> HIDE DEF I
    <3> QED
      BY <2>1, KeptElements
  <2> QED
    BY <2>2, <2>3
<1>2. Unclaimed(reg, owners) = [c \in Codes |-> Unclaimed(reg, owners)[c]]
  BY DEF Unclaimed
<1> QED
  BY <1>1, <1>2 DEF Registries

\* The codes of the device that are withheld.
Withholding(reg) == {c \in Codes : c <= KEY_MAX /\ reg[c] # <<>>}

\* A claim returns events of codes that were withheld.
LEMMA ClaimedCodes ==
    ASSUME NEW reg \in Registries, NEW i, NEW c \in Codes, Claimed(reg, i)[c] # <<>>
    PROVE  reg[c] # <<>>
<1>1. reg[c] \in Seq(Entries) /\ Unclaimed(reg, {i})[c] \in Seq(Entries)
  BY UnclaimedEntries DEF Registries
<1>2. Claimed(reg, i)[c] = SubSeq(reg[c], Len(Unclaimed(reg, {i})[c]) + 1, Len(reg[c]))
  BY DEF Claimed
<1>3. ASSUME reg[c] = <<>> PROVE Claimed(reg, i)[c] = <<>>
  <2>1. Len(reg[c]) = 0 /\ Len(Unclaimed(reg, {i})[c]) \in Nat
    BY <1>1, <1>3
  <2> QED
    BY <1>1, <1>2, <2>1, SMT
<1> QED
  BY <1>3

\* Emitting what was claimed presses keys that were withheld.
LEMMA EmitsWithheld ==
    ASSUME NEW reg \in Registries, NEW i, NEW down, NEW S \in SUBSET Codes
    PROVE  EmitClaimed(down, Claimed(reg, i), S) \subseteq down \cup Withholding(reg)
<1>1. SUFFICES ASSUME NEW c \in EmitClaimed(down, Claimed(reg, i), S), c \notin down
               PROVE  c \in Withholding(reg)
  OBVIOUS
<1>2. c \in S /\ ~(c > KEY_MAX) /\ \E n \in DOMAIN Claimed(reg, i)[c] : TRUE
  BY <1>1 DEF EmitClaimed
<1>3. c \in Codes /\ Claimed(reg, i)[c] # <<>>
  BY <1>2
<1>4. c <= KEY_MAX
  BY <1>2, <1>3, ConstantsAssumption DEF Codes, KEY_MAX, G
<1> QED
  BY <1>3, <1>4, ClaimedCodes DEF Withholding

-----------------------------------------------------------------------------
(* The macros: their types, and what StuckOnlyIfAbandoned needs of them    *)

KeyActions ==
    [trigger : Seq(Steps), noiseBreaks : BOOLEAN, hasSuppressedKeys : BOOLEAN,
     sequence : KeySequences, handler : BOOLEAN]

\* A trigger waits for presses only.
PressOnly(a) == \A k \in DOMAIN a.trigger : a.trigger[k].value = 1

\* A sequence leaves no key down that is not a key of the trigger.
SelfContained(a) ==
    EmitSequence({}, a.sequence) \subseteq {a.trigger[k].code : k \in DOMAIN a.trigger}

GoodActions == {a \in KeyActions : PressOnly(a) /\ SelfContained(a)}

\* An action whose sequence releases what it presses, but for keys of the
\* trigger, is one of those.
LEMMA GoodAction ==
    ASSUME NEW t \in Seq(Steps), \A k \in DOMAIN t : t[k].value = 1,
           NEW noise \in BOOLEAN, NEW cached \in BOOLEAN, NEW h \in BOOLEAN,
           NEW q \in KeySequences,
           \A i \in DOMAIN q : q[i][2] = 1 =>
              \/ q[i][1] \in {t[k].code : k \in DOMAIN t}
              \/ \E j \in DOMAIN q : j > i /\ q[j][1] = q[i][1] /\ q[j][2] = 0
    PROVE  KeyAction(t, noise, cached, q, h) \in GoodActions
<1> DEFINE a == KeyAction(t, noise, cached, q, h)
           C == {t[k].code : k \in DOMAIN t}
<1>1. a \in KeyActions /\ a.trigger = t /\ a.sequence = q
  BY DEF KeyAction, KeyActions
<1>2. EmitSequence({}, q) \subseteq C
  <2> HIDE DEF C
  <2>1. \A i \in DOMAIN q : q[i][2] = 1 =>
              \/ q[i][1] \in C
              \/ \E j \in DOMAIN q : j > i /\ q[j][1] = q[i][1] /\ q[j][2] = 0
    BY DEF C
  <2> QED
    BY <2>1, BalancedLeavesNothing
<1>3. a \in GoodActions
  <2> HIDE DEF a
  <2> QED
    BY <1>1, <1>2 DEF GoodActions, PressOnly, SelfContained
<1> QED
  BY <1>3

\* A press of one key that is not withheld.
LEMMA OnePress ==
    ASSUME NEW c \in Nat, NEW s \in BOOLEAN, NEW r \in BOOLEAN
    PROVE  /\ Step(c, 1, s, r) \in Steps
           /\ Step(c, 1, s, r).value = 1
           /\ <<Step(c, 1, s, r)>> \in Seq(Steps)
           /\ \A k \in DOMAIN <<Step(c, 1, s, r)>> : <<Step(c, 1, s, r)>>[k].value = 1
BY DEF Step, Steps

\* The sequence of a key that is pressed and released is balanced.
LEMMA TapBalanced ==
    ASSUME NEW c \in Nat
    PROVE  /\ Tap(c) \in KeySequences
           /\ \A i \in DOMAIN Tap(c) : Tap(c)[i][2] = 1 =>
                 \E j \in DOMAIN Tap(c) :
                    j > i /\ Tap(c)[j][1] = Tap(c)[i][1] /\ Tap(c)[j][2] = 0
BY DEF Tap, KeySequences

\* So is the one of a key pressed with Ctrl.
LEMMA CtrlTapBalanced ==
    ASSUME NEW c \in Nat
    PROVE  /\ CtrlTap(c) \in KeySequences
           /\ \A i \in DOMAIN CtrlTap(c) : CtrlTap(c)[i][2] = 1 =>
                 \E j \in DOMAIN CtrlTap(c) :
                    j > i /\ CtrlTap(c)[j][1] = CtrlTap(c)[i][1] /\ CtrlTap(c)[j][2] = 0
BY DEF CtrlTap, KeySequences, KEY_LEFTCTRL

\* Every macro of the table is one of those: the keys of CtrlClick's sequence
\* that stay down are keys of its trigger.
LEMMA TableEntries ==
    /\ DefaultMacros \in Seq(GoodActions)
    /\ CtrlClick \in GoodActions
    /\ KeyAction(<<Press(G(1))>>, TRUE, FALSE, CtrlAltC, FALSE) \in GoodActions
    /\ KeyAction(<<Press(G(2))>>, TRUE, FALSE, Tap(KEY_ENTER), FALSE) \in GoodActions
    /\ KeyAction(<<Press(G(2))>>, TRUE, FALSE, Tap(KEY_END), FALSE) \in GoodActions
    /\ KeyAction(<<Press(BTN_FORWARD)>>, TRUE, FALSE, Tap(KEY_A), FALSE) \in GoodActions
    /\ KeyAction(<<Step(KEY_LEFTCTRL, 1, FALSE, TRUE), Withheld(KEY_V)>>,
                 TRUE, FALSE, <<>>, TRUE) \in GoodActions
<1>1. ASSUME NEW c \in Nat, NEW d \in Nat
      PROVE  KeyAction(<<Press(c)>>, TRUE, FALSE, Tap(d), FALSE) \in GoodActions
  <2>1. <<Press(c)>> \in Seq(Steps) /\ \A k \in DOMAIN <<Press(c)>> : <<Press(c)>>[k].value = 1
    BY OnePress DEF Press
  <2> DEFINE t == <<Press(c)>>
             q == Tap(d)
  <2>2. /\ q \in KeySequences
        /\ \A i \in DOMAIN q : q[i][2] = 1 =>
                 \E j \in DOMAIN q : j > i /\ q[j][1] = q[i][1] /\ q[j][2] = 0
    BY TapBalanced
  <2>3. t \in Seq(Steps) /\ \A k \in DOMAIN t : t[k].value = 1
    BY <2>1
  <2> HIDE DEF t, q
  <2>4. KeyAction(t, TRUE, FALSE, q, FALSE) \in GoodActions
    BY <2>2, <2>3, GoodAction
  <2> QED
    BY <2>4 DEF t, q
<1>2. ASSUME NEW c \in Nat, NEW d \in Nat
      PROVE  KeyAction(<<Press(c)>>, TRUE, FALSE, CtrlTap(d), FALSE) \in GoodActions
  <2>1. <<Press(c)>> \in Seq(Steps) /\ \A k \in DOMAIN <<Press(c)>> : <<Press(c)>>[k].value = 1
    BY OnePress DEF Press
  <2> DEFINE t == <<Press(c)>>
             q == CtrlTap(d)
  <2>2. /\ q \in KeySequences
        /\ \A i \in DOMAIN q : q[i][2] = 1 =>
                 \E j \in DOMAIN q : j > i /\ q[j][1] = q[i][1] /\ q[j][2] = 0
    BY CtrlTapBalanced
  <2>3. t \in Seq(Steps) /\ \A k \in DOMAIN t : t[k].value = 1
    BY <2>1
  <2> HIDE DEF t, q
  <2>4. KeyAction(t, TRUE, FALSE, q, FALSE) \in GoodActions
    BY <2>2, <2>3, GoodAction
  <2> QED
    BY <2>4 DEF t, q
<1>3. /\ G(1) \in Nat /\ G(2) \in Nat /\ G(6) \in Nat /\ KEY_C \in Nat /\ KEY_A \in Nat
      /\ KEY_ENTER \in Nat /\ KEY_END \in Nat /\ BTN_FORWARD \in Nat
  BY DEF G, KEY_C, KEY_A, KEY_ENTER, KEY_END, BTN_FORWARD
<1>4. DefaultMacros \in Seq(GoodActions)
  <2>1. KeyAction(<<Press(BTN_FORWARD)>>, TRUE, FALSE, Tap(KEY_ENTER), FALSE) \in GoodActions
    BY <1>1, <1>3
  <2>2. KeyAction(<<Press(G(6))>>, TRUE, FALSE, CtrlTap(KEY_C), FALSE) \in GoodActions
    BY <1>2, <1>3
  <2>3. \A a, b \in GoodActions : <<a, b>> \in Seq(GoodActions)
    OBVIOUS
  <2> QED
    BY <2>1, <2>2, <2>3, Zenon DEF DefaultMacros
<1>5. CtrlClick \in GoodActions
  <2> DEFINE t == <<Press(KEY_LEFTCTRL), Withheld(BTN_LEFT)>>
             q == <<<<KEY_LEFTCTRL, 0>>, <<KEY_7, 1>>, <<KEY_7, 0>>, <<KEY_LEFTCTRL, 1>>>>
  <2>1. t \in Seq(Steps) /\ \A k \in DOMAIN t : t[k].value = 1
    BY DEF Steps, Press, Withheld, Step, KEY_LEFTCTRL, BTN_LEFT
  <2>2. q \in KeySequences
    BY DEF KeySequences, KEY_LEFTCTRL, KEY_7
  <2>3. KEY_LEFTCTRL \in {t[k].code : k \in DOMAIN t}
    <3>1. 1 \in DOMAIN t /\ t[1].code = KEY_LEFTCTRL
      BY DEF Press, Step
    <3> QED
      BY <3>1
  <2>4. ASSUME NEW i \in DOMAIN q, q[i][2] = 1
        PROVE  \/ q[i][1] = KEY_LEFTCTRL
               \/ \E j \in DOMAIN q : j > i /\ q[j][1] = q[i][1] /\ q[j][2] = 0
    BY <2>4 DEF KEY_LEFTCTRL, KEY_7
  <2> HIDE DEF t, q
  <2>5. KeyAction(t, FALSE, TRUE, q, FALSE) \in GoodActions
    BY <2>1, <2>2, <2>3, <2>4, GoodAction
  <2> QED
    BY <2>5 DEF CtrlClick, t, q
<1>6. KeyAction(<<Press(G(1))>>, TRUE, FALSE, CtrlAltC, FALSE) \in GoodActions
  <2> DEFINE t == <<Press(G(1))>>
  <2>1. t \in Seq(Steps) /\ \A k \in DOMAIN t : t[k].value = 1
    BY <1>3, OnePress DEF Press
  <2>2. CtrlAltC \in KeySequences
    BY DEF CtrlAltC, KeySequences, KEY_LEFTCTRL, KEY_LEFTALT, KEY_C
  <2>3. \A i \in DOMAIN CtrlAltC : CtrlAltC[i][2] = 1 =>
                 \E j \in DOMAIN CtrlAltC :
                    j > i /\ CtrlAltC[j][1] = CtrlAltC[i][1] /\ CtrlAltC[j][2] = 0
    BY DEF CtrlAltC, KEY_LEFTCTRL, KEY_LEFTALT, KEY_C
  <2> HIDE DEF t
  <2>4. KeyAction(t, TRUE, FALSE, CtrlAltC, FALSE) \in GoodActions
    BY <2>1, <2>2, <2>3, GoodAction
  <2> QED
    BY <2>4 DEF t
<1>7. KeyAction(<<Step(KEY_LEFTCTRL, 1, FALSE, TRUE), Withheld(KEY_V)>>,
                TRUE, FALSE, <<>>, TRUE) \in GoodActions
  <2> DEFINE t == <<Step(KEY_LEFTCTRL, 1, FALSE, TRUE), Withheld(KEY_V)>>
             q == <<>>
  <2>1. t \in Seq(Steps) /\ \A k \in DOMAIN t : t[k].value = 1
    BY DEF Steps, Withheld, Step, KEY_LEFTCTRL, KEY_V
  <2>2. q \in KeySequences /\ DOMAIN q = {}
    BY DEF KeySequences
  <2> HIDE DEF t, q
  <2>3. KeyAction(t, TRUE, FALSE, q, TRUE) \in GoodActions
    BY <2>1, <2>2, GoodAction
  <2> QED
    BY <2>3 DEF t, q
<1> QED
  BY <1>1, <1>3, <1>4, <1>5, <1>6, <1>7

\* Overriding the defaults keeps to a set of actions.
LEMMA OverridesFrom ==
    ASSUME NEW M, DefaultMacros \in Seq(M), NEW specific \in Seq(M)
    PROVE  ApplyOverrides(specific) \in Seq(M)
<1> DEFINE N == Len(specific)
           U == Seq(M)
           same(ms, a) == {i \in DOMAIN ms : SameTrigger(ms[i], a)}
           over(ms, a) == IF same(ms, a) # {} THEN [ms EXCEPT ![Min(same(ms, a))] = a]
                          ELSE Append(ms, a)
           step == [n \in 1 .. N |-> [ms \in U |-> over(ms, specific[n])]]
           K == CHOOSE g : g = [n \in 0 .. N |->
                    IF n = 0 THEN DefaultMacros
                    ELSE IF same(g[n - 1], specific[n]) # {}
                    THEN [g[n - 1] EXCEPT ![Min(same(g[n - 1], specific[n]))] = specific[n]]
                    ELSE Append(g[n - 1], specific[n])]
<1>1. N \in Nat
  OBVIOUS
<1>2. ApplyOverrides(specific) = K[N]
  BY DEF ApplyOverrides
<1>3. ASSUME NEW ms \in U, NEW a \in M PROVE over(ms, a) \in U
  <2>1. CASE same(ms, a) # {}
    <3>1. same(ms, a) \subseteq Nat /\ same(ms, a) \subseteq DOMAIN ms
      OBVIOUS
    <3>2. Min(same(ms, a)) \in DOMAIN ms
      <4> HIDE DEF same
      <4> QED
        BY <2>1, <3>1, MinIsLeast
    <3>3. PICK m \in DOMAIN ms : m = Min(same(ms, a))
      BY <3>2
    <3>4. [ms EXCEPT ![m] = a] \in Seq(M)
      BY SMT
    <3> QED
      BY <2>1, <3>3, <3>4
  <2>2. CASE same(ms, a) = {}
    BY <2>2
  <2> QED
    BY <2>1, <2>2
<1> HIDE DEF over
<1>4. step \in [1 .. N -> [U -> U]]
  <2>1. \A n \in 1 .. N : specific[n] \in M
    OBVIOUS
  <2> HIDE DEF N, U
  <2> QED
    BY <1>3, <2>1
<1>5. DefaultMacros \in U
  OBVIOUS
<1>6. PICK f : Run(f, N, U, DefaultMacros, step)
  <2> HIDE DEF step, N, U
  <2> QED
    BY <1>1, <1>4, <1>5, Recursion
<1>7. /\ f \in [0 .. N -> U] /\ f[0] = DefaultMacros
      /\ \A n \in 1 .. N : f[n] = step[n][f[n - 1]]
  BY <1>6 DEF Run
<1>8. \A n \in 1 .. N : n - 1 \in 0 .. N /\ n \in 0 .. N
  BY SMT
<1>9. \A n \in 1 .. N : f[n] = over(f[n - 1], specific[n])
  <2> HIDE DEF U, N
  <2> QED
    BY <1>7, <1>8
<1>10. f = [n \in 0 .. N |->
              IF n = 0 THEN DefaultMacros ELSE over(f[n - 1], specific[n])]
  <2>1. ASSUME NEW n \in 0 .. N
        PROVE  f[n] = IF n = 0 THEN DefaultMacros ELSE over(f[n - 1], specific[n])
    <3>1. CASE n = 0
      BY <3>1, <1>7
    <3>2. CASE n # 0
      <4>1. n \in 1 .. N
        BY <3>2, SMT
      <4> QED
        BY <4>1, <3>2, <1>9
    <3> QED
      BY <3>1, <3>2
  <2> QED
    BY <1>7, <2>1
<1>11. K = [n \in 0 .. N |-> IF n = 0 THEN DefaultMacros ELSE over(K[n - 1], specific[n])]
  BY <1>10 DEF over
<1> HIDE DEF K
<1> DEFINE S == {n \in 0 .. N : K[n] \in U}
<1>12. 0 \in S
  BY <1>5, <1>11
<1>13. ASSUME NEW n \in 1 .. N, n - 1 \in S PROVE n \in S
  <2>1. n \in 0 .. N /\ specific[n] \in M /\ n # 0
    BY SMT
  <2>2. K[n - 1] \in U
    BY <1>13
  <2>3. K[n] = over(K[n - 1], specific[n])
    BY <1>11, <2>1
  <2>4. K[n] \in U
    <3> HIDE DEF U
    <3> QED
      BY <2>1, <2>2, <2>3, <1>3
  <2> QED
    BY <2>1, <2>4
<1>14. 0 .. N \subseteq S
  <2> HIDE DEF S, N
  <2> QED
    BY <1>1, <1>12, <1>13, UpTo
<1>15. N \in S
  BY <1>1, <1>14
<1> QED
  BY <1>2, <1>15

\* So the table has only such macros.
LEMMA TableMacros == InitialMacros \in [Apps -> Seq(GoodActions)]
<1> DEFINE M == GoodActions
<1>1. ApplyOverrides(<<KeyAction(<<Press(G(1))>>, TRUE, FALSE, CtrlAltC, FALSE),
                       KeyAction(<<Press(G(2))>>, TRUE, FALSE, Tap(KEY_ENTER), FALSE),
                       CtrlClick>>) \in Seq(M)
  <2>1. \A a, b, c \in M : <<a, b, c>> \in Seq(M)
    OBVIOUS
  <2>2. <<KeyAction(<<Press(G(1))>>, TRUE, FALSE, CtrlAltC, FALSE),
          KeyAction(<<Press(G(2))>>, TRUE, FALSE, Tap(KEY_ENTER), FALSE),
          CtrlClick>> \in Seq(M)
    BY <2>1, TableEntries, Zenon
  <2> HIDE DEF M
  <2>3. \A s \in Seq(M) : ApplyOverrides(s) \in Seq(M)
    <3>1. DefaultMacros \in Seq(M)
      BY TableEntries DEF M
    <3> QED
      BY <3>1, OverridesFrom
  <2> QED
    BY <2>2, <2>3, Zenon
<1>2. ApplyOverrides(<<KeyAction(<<Press(G(2))>>, TRUE, FALSE, Tap(KEY_END), FALSE),
                       KeyAction(<<Press(BTN_FORWARD)>>, TRUE, FALSE, Tap(KEY_A), FALSE)>>)
         \in Seq(M)
  <2>1. \A a, b \in M : <<a, b>> \in Seq(M)
    OBVIOUS
  <2>2. <<KeyAction(<<Press(G(2))>>, TRUE, FALSE, Tap(KEY_END), FALSE),
          KeyAction(<<Press(BTN_FORWARD)>>, TRUE, FALSE, Tap(KEY_A), FALSE)>> \in Seq(M)
    BY <2>1, TableEntries, Zenon
  <2> HIDE DEF M
  <2>3. \A s \in Seq(M) : ApplyOverrides(s) \in Seq(M)
    <3>1. DefaultMacros \in Seq(M)
      BY TableEntries DEF M
    <3> QED
      BY <3>1, OverridesFrom
  <2> QED
    BY <2>2, <2>3, Zenon
<1>3. ApplyOverrides(<<KeyAction(<<Step(KEY_LEFTCTRL, 1, FALSE, TRUE), Withheld(KEY_V)>>,
                                 TRUE, FALSE, <<>>, TRUE)>>) \in Seq(M)
  <2>1. \A a \in M : <<a>> \in Seq(M)
    OBVIOUS
  <2>2. <<KeyAction(<<Step(KEY_LEFTCTRL, 1, FALSE, TRUE), Withheld(KEY_V)>>,
                    TRUE, FALSE, <<>>, TRUE)>> \in Seq(M)
    BY <2>1, TableEntries, Zenon
  <2> HIDE DEF M
  <2>3. \A s \in Seq(M) : ApplyOverrides(s) \in Seq(M)
    <3>1. DefaultMacros \in Seq(M)
      BY TableEntries DEF M
    <3> QED
      BY <3>1, OverridesFrom
  <2> QED
    BY <2>2, <2>3, Zenon
<1>4. DefaultMacros \in Seq(M)
  BY TableEntries
<1>5. /\ InitialMacros = [app \in Apps |-> InitialMacros[app]]
      /\ \A app \in Apps : app \in {"TERMINAL", "CODE", "CHROME", "OTHER"}
  BY DEF InitialMacros, Apps
<1>6. InitialMacros["TERMINAL"] \in Seq(M)
  BY <1>1 DEF InitialMacros, Apps
<1>7. InitialMacros["CODE"] \in Seq(M)
  BY <1>2 DEF InitialMacros, Apps
<1>8. InitialMacros["CHROME"] \in Seq(M)
  BY <1>3 DEF InitialMacros, Apps
<1>9. InitialMacros["OTHER"] \in Seq(M)
  BY <1>4 DEF InitialMacros, Apps
<1> HIDE DEF M
<1>10. \A app \in Apps : InitialMacros[app] \in Seq(M)
  BY <1>5, <1>6, <1>7, <1>8, <1>9
<1> QED
  BY <1>5, <1>10 DEF M

\* The documents whose macros are in M.
DocumentsOf(M) ==
    {j \in Documents : \A n \in DOMAIN j : \A m \in DOMAIN j[n].list :
                          ParsedMacro(j[n].list[m]) \in M}

\* A document is typed.
LEMMA DocumentTypes ==
    ASSUME NEW j \in Documents, NEW n \in DOMAIN j
    PROVE  /\ j[n].list \in Seq([keys : Seq(Steps), noiseBreaks : BOOLEAN,
                                 sequence : KeySequences, message : STRING,
                                 hasHandler : BOOLEAN])
           /\ \A m \in DOMAIN j[n].list : ParsedMacro(j[n].list[m]) \in KeyActions
<1> DEFINE E == [keys : Seq(Steps), noiseBreaks : BOOLEAN, sequence : KeySequences,
                 message : STRING, hasHandler : BOOLEAN]
<1>1. j[n] \in [name : STRING, list : Seq(E)]
  <2> DEFINE R == [name : STRING, list : Seq(E)]
  <2>1. j \in Seq(R)
    BY DEF Documents
  <2> HIDE DEF R
  <2>2. j[n] \in R
    BY <2>1
  <2> QED
    BY <2>2 DEF R
<1>2. ASSUME NEW ma \in E PROVE ParsedMacro(ma) \in KeyActions
  BY DEF ParsedMacro, KeyAction, KeyActions
<1>3. j[n].list \in Seq(E)
  BY <1>1
<1> HIDE DEF E
<1>4. \A m \in DOMAIN j[n].list : j[n].list[m] \in E
  BY <1>3
<1> QED
  BY <1>2, <1>3, <1>4 DEF E

\* Macros that a document replaces are the ones it names.
LEMMA ReplacedMacros ==
    ASSUME NEW M, NEW macros \in [Apps -> Seq(M)], NEW j \in DocumentsOf(M)
    PROVE  SetMacrosFromJsonInternal(macros, j) \in [Apps -> Seq(M)]
<1>1. ASSUME NEW app \in Apps
      PROVE  SetMacrosFromJsonInternal(macros, j)[app] \in Seq(M)
  <2> DEFINE given == {n \in DOMAIN j : StringToAppType(j[n].name) = app /\ j[n].list # <<>>}
  <2>1. CASE given = {}
    <3>1. SetMacrosFromJsonInternal(macros, j)[app] = macros[app]
      BY <2>1 DEF SetMacrosFromJsonInternal
    <3> QED
      BY <3>1
  <2>2. CASE given # {}
    <3>1. j \in Documents /\ Len(j) \in Nat /\ given \subseteq 0 .. Len(j)
          /\ given \subseteq DOMAIN j
      BY DEF DocumentsOf, Documents
    <3>2. Max(given) \in given
      <4> HIDE DEF given
      <4> QED
        BY <2>2, <3>1, MaxIsGreatest
    <3>3. PICK n \in DOMAIN j : n = Max(given)
      BY <3>1, <3>2
    <3>4. SetMacrosFromJsonInternal(macros, j)[app] = ParsedMacros(j[n].list)
      BY <2>2, <3>3 DEF SetMacrosFromJsonInternal
    <3>5. PICK s : s = j[n].list
      OBVIOUS
    <3>6. Len(s) \in Nat /\ DOMAIN s = 1 .. Len(s)
      BY <3>1, <3>5, DocumentTypes
    <3>7. \A m \in 1 .. Len(s) : ParsedMacro(s[m]) \in M
      BY <3>5, <3>6 DEF DocumentsOf
    <3>8. ParsedMacros(s) = [m \in 1 .. Len(s) |-> ParsedMacro(s[m])]
      BY <3>6 DEF ParsedMacros
    <3>9. ParsedMacros(s) \in Seq(M)
      BY <3>6, <3>7, <3>8
    <3> QED
      BY <3>4, <3>5, <3>9
  <2> QED
    BY <2>1, <2>2
<1>2. SetMacrosFromJsonInternal(macros, j) =
         [app \in Apps |-> SetMacrosFromJsonInternal(macros, j)[app]]
  BY DEF SetMacrosFromJsonInternal
<1> QED
  BY <1>1, <1>2

\* What was read of a document before a malformed macro is a document.
LEMMA ReadSoFar ==
    ASSUME NEW M, NEW j \in DocumentsOf(M), NEW n \in DOMAIN j,
           NEW k \in 0 .. Len(j[n].list) - 1
    PROVE  Append(SubSeq(j, 1, n - 1), [j[n] EXCEPT !.list = SubSeq(@, 1, k)])
              \in DocumentsOf(M)
<1> DEFINE E == [keys : Seq(Steps), noiseBreaks : BOOLEAN, sequence : KeySequences,
                 message : STRING, hasHandler : BOOLEAN]
           R == [name : STRING, list : Seq(E)]
           last == [j[n] EXCEPT !.list = SubSeq(@, 1, k)]
           front == SubSeq(j, 1, n - 1)
<1>1. j \in Seq(R) /\ j \in Documents /\ n \in 1 .. Len(j)
  BY DEF DocumentsOf, Documents
<1> HIDE DEF E
<1>2. j[n] \in R
  <2> HIDE DEF R
  <2> QED
    BY <1>1
<1>3. PICK s \in Seq(E) : s = j[n].list
  BY <1>2
<1>4. SubSeq(s, 1, k) \in Seq(E) /\ Len(SubSeq(s, 1, k)) = k
      /\ \A m \in 1 .. k : SubSeq(s, 1, k)[m] = s[m] /\ m \in DOMAIN s
  <2>1. k \in 0 .. Len(s) - 1 /\ Len(s) \in Nat
    BY <1>3
  <2> QED
    BY <1>3, <2>1, SMT
<1>5. last \in R /\ last.list = SubSeq(s, 1, k)
  BY <1>2, <1>3, <1>4
<1> HIDE DEF R, last
<1>6. front \in Seq(R) /\ Len(front) = n - 1
      /\ \A m \in 1 .. n - 1 : front[m] = j[m] /\ m \in DOMAIN j
  BY <1>1, SMT
<1> HIDE DEF front
<1> DEFINE d == Append(front, last)
<1>7. d \in Seq(R) /\ Len(d) = n /\ \A m \in 1 .. n : d[m] = IF m < n THEN front[m] ELSE last
  BY <1>1, <1>5, <1>6
<1>8. ASSUME NEW i \in DOMAIN d, NEW m \in DOMAIN d[i].list
      PROVE  ParsedMacro(d[i].list[m]) \in M
  <2>1. i \in 1 .. n
    BY <1>7
  <2>2. CASE i < n
    <3>1. d[i] = j[i] /\ i \in DOMAIN j
      BY <1>6, <1>7, <2>1, <2>2
    <3> QED
      BY <3>1, <1>8 DEF DocumentsOf
  <2>3. CASE ~(i < n)
    <3>1. d[i] = last
      BY <1>7, <2>1, <2>3
    <3>2. m \in 1 .. k
      BY <3>1, <1>4, <1>5, <1>8
    <3>3. d[i].list[m] = s[m] /\ m \in DOMAIN s
      BY <3>1, <3>2, <1>4, <1>5
    <3> QED
      BY <3>3, <1>3 DEF DocumentsOf
  <2> QED
    BY <2>2, <2>3
<1>9. d \in Documents
  BY <1>7 DEF R, E, Documents
<1>10. d \in DocumentsOf(M)
  <2> HIDE DEF d
  <2> QED
    BY <1>8, <1>9 DEF DocumentsOf
<1> QED
  BY <1>10 DEF front, last

-----------------------------------------------------------------------------
(* One turn of the loop of stageMacros                                     *)

Events == [code : Codes, value : 0 .. 2, sync : BOOLEAN]

\* What the loop works on for the macros ms: no combo has taken its last step.
Accs(ms) ==
    {a \in [next : [Visited(ms) -> Nat], withheld : Registries,
            vdown : SUBSET Nat, pastes : Nat, matched : BOOLEAN] :
        \A i \in Visited(ms) : a.next[i] < Len(ms[i].trigger)}

\* What a turn does to combo i: it is given up,
Broken(a, b, i) ==
    /\ b.next = [a.next EXCEPT ![i] = 0]
    /\ b.withheld = Unclaimed(a.withheld, {i})
    /\ b.vdown \subseteq a.vdown \cup Withholding(a.withheld)
    /\ b.matched = a.matched

\* or it takes a step, whose event may be withheld,
Added(reg, c, x) == [reg EXCEPT ![c] = Append(reg[c], x)]
MayWithhold(a, reg, i, e) ==
    reg \in {a.withheld, Added(a.withheld, e.code, [value |-> e.value, owner |-> i])}

Advanced(a, b, i, action, e) ==
    /\ Matches(action.trigger[a.next[i] + 1], e)
    /\ a.next[i] + 1 < Len(action.trigger)
    /\ b.next = [a.next EXCEPT ![i] = a.next[i] + 1]
    /\ MayWithhold(a, b.withheld, i, e)
    /\ b.vdown = a.vdown

\* or the last one, which executes the action.
Completed(a, b, i, action, e) ==
    /\ Matches(action.trigger[a.next[i] + 1], e)
    /\ a.next[i] + 1 = Len(action.trigger)
    /\ b.next = [a.next EXCEPT ![i] = 0]
    /\ \E reg \in Registries : MayWithhold(a, reg, i, e) /\ b.withheld = Unclaimed(reg, {i})
    /\ b.vdown \subseteq a.vdown \cup EmitSequence({}, action.sequence)

\* Adding an entry keeps the type of the registry.
LEMMA AddedType ==
    ASSUME NEW reg \in Registries, NEW c \in Codes, NEW x \in Entries
    PROVE  /\ Added(reg, c, x) \in Registries
           /\ \A d \in Codes : \A n \in DOMAIN Added(reg, c, x)[d] :
                 \/ n \in DOMAIN reg[d] /\ Added(reg, c, x)[d][n] = reg[d][n]
                 \/ d = c /\ Added(reg, c, x)[d][n] = x
<1> DEFINE s == Append(reg[c], x)
<1>1. reg \in [Codes -> Seq(Entries)] /\ reg[c] \in Seq(Entries)
  BY DEF Registries
<1>2. s \in Seq(Entries) /\ Len(s) = Len(reg[c]) + 1 /\ s[Len(reg[c]) + 1] = x
      /\ \A n \in 1 .. Len(reg[c]) : s[n] = reg[c][n]
  BY <1>1
<1>3. Added(reg, c, x) = [reg EXCEPT ![c] = s]
  BY DEF Added
<1> HIDE DEF s
<1>4. Added(reg, c, x) \in [Codes -> Seq(Entries)]
  BY <1>1, <1>2, <1>3
<1>5. ASSUME NEW d \in Codes, NEW n \in DOMAIN Added(reg, c, x)[d]
      PROVE  \/ n \in DOMAIN reg[d] /\ Added(reg, c, x)[d][n] = reg[d][n]
             \/ d = c /\ Added(reg, c, x)[d][n] = x
  <2>1. CASE d # c
    <3>1. Added(reg, c, x)[d] = reg[d]
      BY <1>1, <1>3, <2>1
    <3> QED
      BY <3>1, <1>5
  <2>2. CASE d = c
    <3>1. Added(reg, c, x)[d] = s
      BY <1>1, <1>3, <2>2
    <3>2. n \in 1 .. Len(reg[c]) + 1 /\ Len(reg[c]) \in Nat
      BY <3>1, <1>1, <1>2, <1>5
    <3>3. CASE n = Len(reg[c]) + 1
      BY <3>1, <3>3, <1>2, <2>2
    <3>4. CASE n # Len(reg[c]) + 1
      <4>1. n \in 1 .. Len(reg[c])
        BY <3>2, <3>4, SMT
      <4>2. n \in DOMAIN reg[c]
        BY <4>1, <1>1
      <4> QED
        BY <3>1, <4>1, <4>2, <1>2, <2>2
    <3> QED
      BY <3>3, <3>4
  <2> QED
    BY <2>1, <2>2
<1> QED
  BY <1>4, <1>5 DEF Registries

\* Codes are numbers; the virtual ones are none of the device.
LEMMA CodesAreNumbers ==
    /\ Codes \subseteq Nat /\ Keys \subseteq Nat /\ KEY_MAX \in Nat
    /\ \A c \in Keys : c <= KEY_MAX
    /\ \A n \in 1 .. 6 : G(n) \in Nat /\ G(n) > KEY_MAX
<1>1. Keys \subseteq 0 .. KEY_MAX
  BY ConstantsAssumption
<1>2. \A n \in 1 .. 6 : G(n) \in Nat /\ G(n) > KEY_MAX
  BY DEF G, KEY_MAX
<1>3. 0 .. KEY_MAX \subseteq Nat /\ KEY_MAX \in Nat /\ \A c \in 0 .. KEY_MAX : c <= KEY_MAX
  BY DEF KEY_MAX
<1> QED
  BY <1>1, <1>2, <1>3 DEF Codes

\* The trigger of a visited macro has a step.
LEMMA VisitedTriggers ==
    ASSUME NEW ms \in Seq(KeyActions), NEW i \in Visited(ms)
    PROVE  /\ i \in DOMAIN ms /\ ms[i] \in KeyActions
           /\ ms[i].trigger \in Seq(Steps) /\ Len(ms[i].trigger) \in Nat \ {0}
<1>1. i \in DOMAIN ms /\ ms[i].trigger # <<>>
  BY DEF Visited
<1>2. ms[i] \in KeyActions
  BY <1>1
<1>3. ms[i].trigger \in Seq(Steps)
  BY <1>2 DEF KeyActions
<1>4. Len(ms[i].trigger) # 0
  BY <1>1, <1>3
<1> QED
  BY <1>1, <1>2, <1>3, <1>4

\* Giving up a combo.
LEMMA BreakComboBreaks ==
    ASSUME NEW ms \in Seq(KeyActions), NEW a \in Accs(ms), NEW i \in Visited(ms),
           NEW b, b = BreakCombo(a, i)
    PROVE  b \in Accs(ms) /\ Broken(a, b, i)
<1> DEFINE left == Unclaimed(a.withheld, {i})
           S == {c \in Codes : ~IsBlocked(left, c)}
           down == EmitClaimed(a.vdown, Claimed(a.withheld, i), S)
           next == [a.next EXCEPT ![i] = 0]
<1>1. /\ a.next \in [Visited(ms) -> Nat] /\ a.withheld \in Registries /\ a.vdown \subseteq Nat
      /\ a.pastes \in Nat /\ a.matched \in BOOLEAN
      /\ a = [next |-> a.next, withheld |-> a.withheld, vdown |-> a.vdown,
              pastes |-> a.pastes, matched |-> a.matched]
      /\ \A n \in Visited(ms) : a.next[n] < Len(ms[n].trigger)
  BY DEF Accs
<1>2. b = [next |-> next, withheld |-> left, vdown |-> down, pastes |-> a.pastes,
           matched |-> a.matched]
  <2> HIDE DEF left, next, down
  <2>1. BreakCombo(a, i) = [[[a EXCEPT !.withheld = left] EXCEPT !.next = next] EXCEPT !.vdown = down]
    BY <1>1 DEF BreakCombo, left, next, down, S
  <2> QED
    BY <1>1, <2>1
<1>3. left \in Registries
  BY <1>1, UnclaimedEntries
<1>4. down \subseteq a.vdown \cup Withholding(a.withheld)
  <2>1. S \in SUBSET Codes
    OBVIOUS
  <2> HIDE DEF S
  <2> QED
    BY <1>1, <2>1, EmitsWithheld
<1>5. Withholding(a.withheld) \subseteq Nat
  BY CodesAreNumbers DEF Withholding
<1>6. next \in [Visited(ms) -> Nat] /\ \A n \in Visited(ms) : next[n] < Len(ms[n].trigger)
  <2>2. 0 < Len(ms[i].trigger)
    BY VisitedTriggers, SMT
  <2> QED
    BY <1>1, <2>2
<1> HIDE DEF left, S, down, next
<1>7. b \in Accs(ms)
  <2>1. down \in SUBSET Nat
    BY <1>1, <1>4, <1>5
  <2> QED
    BY <1>1, <1>2, <1>3, <1>6, <2>1 DEF Accs
<1>8. b.next = next /\ b.withheld = left /\ b.vdown = down /\ b.matched = a.matched
  BY <1>2
<1> QED
  BY <1>4, <1>7, <1>8 DEF Broken, next, left

\* Withholding the event of a step.
LEMMA WithholdAdds ==
    ASSUME NEW ms \in Seq(KeyActions), NEW a \in Accs(ms), NEW i \in Visited(ms),
           NEW e \in Events, NEW b, b = Withhold(a, i, e)
    PROVE  /\ b \in Accs(ms) /\ b.next = a.next /\ b.vdown = a.vdown /\ b.pastes = a.pastes
           /\ MayWithhold(a, b.withheld, i, e)
<1> DEFINE x == [value |-> e.value, owner |-> i]
           reg == [a.withheld EXCEPT ![e.code] = Append(a.withheld[e.code], x)]
<1>1. /\ a.next \in [Visited(ms) -> Nat] /\ a.withheld \in Registries /\ a.vdown \subseteq Nat
      /\ a.pastes \in Nat /\ a.matched \in BOOLEAN
      /\ a = [next |-> a.next, withheld |-> a.withheld, vdown |-> a.vdown,
              pastes |-> a.pastes, matched |-> a.matched]
      /\ \A n \in Visited(ms) : a.next[n] < Len(ms[n].trigger)
  BY DEF Accs
<1>2. i \in Nat \ {0}
  <2>1. i \in DOMAIN ms
    BY VisitedTriggers
  <2> QED
    BY <2>1
<1>3. x \in Entries /\ e.code \in Codes
  BY <1>2 DEF Entries, Events
<1>4. reg = Added(a.withheld, e.code, x)
  BY DEF Added
<1>5. reg \in Registries
  <2> HIDE DEF reg, x
  <2> QED
    BY <1>1, <1>3, <1>4, AddedType
<1>6. b = [next |-> a.next, withheld |-> reg, vdown |-> a.vdown, pastes |-> a.pastes,
           matched |-> TRUE]
  <2>1. Withhold(a, i, e) = [[a EXCEPT !.withheld = reg] EXCEPT !.matched = TRUE]
    <3> HIDE DEF x
    <3>1. [a EXCEPT !.withheld[e.code] = Append(a.withheld[e.code], x), !.matched = TRUE]
             = [[a EXCEPT !.withheld = reg] EXCEPT !.matched = TRUE]
      BY <1>1
    <3> QED
      BY <3>1 DEF Withhold, x
  <2> HIDE DEF reg
  <2> QED
    BY <1>1, <2>1
<1> HIDE DEF reg, x
<1>7. b \in Accs(ms)
  BY <1>1, <1>5, <1>6 DEF Accs
<1>8. b.next = a.next /\ b.vdown = a.vdown /\ b.pastes = a.pastes /\ b.withheld = reg
  BY <1>6
<1> QED
  BY <1>4, <1>7, <1>8 DEF MayWithhold, x

\* A step that matches.
LEMMA AdvanceAdvances ==
    ASSUME NEW ms \in Seq(KeyActions), NEW a \in Accs(ms), NEW i \in Visited(ms),
           NEW e \in Events, NEW b, b = Advance(a, i, ms[i], e),
           Matches(ms[i].trigger[a.next[i] + 1], e)
    PROVE  b \in Accs(ms) /\ (Advanced(a, b, i, ms[i], e) \/ Completed(a, b, i, ms[i], e))
<1> DEFINE step == ms[i].trigger[a.next[i] + 1]
           held == IF step.suppress THEN Withhold(a, i, e) ELSE a
<1>1. held \in Accs(ms) /\ held.next = a.next /\ held.vdown = a.vdown
      /\ held.pastes = a.pastes /\ MayWithhold(a, held.withheld, i, e)
  <2>1. CASE step.suppress
    BY <2>1, WithholdAdds
  <2>2. CASE ~step.suppress
    BY <2>2 DEF MayWithhold
  <2> QED
    BY <2>1, <2>2
<1>2. ms[i] \in KeyActions /\ Len(ms[i].trigger) \in Nat \ {0}
      /\ ms[i].sequence \in KeySequences /\ ms[i].handler \in BOOLEAN
  <2>1. ms[i] \in KeyActions /\ Len(ms[i].trigger) \in Nat \ {0}
    BY VisitedTriggers
  <2> QED
    BY <2>1 DEF KeyActions
<1>3. b = IF a.next[i] + 1 < Len(ms[i].trigger)
          THEN [held EXCEPT !.next[i] = a.next[i] + 1]
          ELSE ExecuteKeyAction([held EXCEPT !.withheld = Unclaimed(held.withheld, {i}),
                                             !.next[i] = 0], ms[i])
  BY DEF Advance
<1> HIDE DEF held
<1>4. PICK h \in Accs(ms) : h = held
  BY <1>1
<1>5. /\ h.next \in [Visited(ms) -> Nat] /\ h.withheld \in Registries /\ h.vdown \subseteq Nat
      /\ h.pastes \in Nat /\ h.matched \in BOOLEAN
      /\ h = [next |-> h.next, withheld |-> h.withheld, vdown |-> h.vdown,
              pastes |-> h.pastes, matched |-> h.matched]
      /\ \A n \in Visited(ms) : h.next[n] < Len(ms[n].trigger)
  BY DEF Accs
<1>6. h.next = a.next /\ h.vdown = a.vdown /\ h.pastes = a.pastes
      /\ MayWithhold(a, h.withheld, i, e)
  BY <1>1, <1>4
<1>7. a.next[i] \in Nat /\ a.next[i] < Len(ms[i].trigger)
  BY DEF Accs
<1>8. CASE a.next[i] + 1 < Len(ms[i].trigger)
  <2> DEFINE next == [h.next EXCEPT ![i] = a.next[i] + 1]
  <2>1. b = [h EXCEPT !.next = next]
    BY <1>3, <1>4, <1>5, <1>8
  <2>2. next \in [Visited(ms) -> Nat] /\ \A n \in Visited(ms) : next[n] < Len(ms[n].trigger)
    BY <1>5, <1>7, <1>8
  <2>3. next = [a.next EXCEPT ![i] = a.next[i] + 1]
    BY <1>6
  <2> HIDE DEF next
  <2>4. b = [next |-> next, withheld |-> h.withheld, vdown |-> h.vdown,
              pastes |-> h.pastes, matched |-> h.matched]
    BY <1>5, <2>1
  <2>5. b \in Accs(ms)
    BY <1>5, <2>2, <2>4 DEF Accs
  <2>6. b.next = next /\ b.withheld = h.withheld /\ b.vdown = h.vdown
    BY <2>4
  <2> QED
    BY <1>6, <1>8, <2>3, <2>5, <2>6 DEF Advanced
<1>9. CASE ~(a.next[i] + 1 < Len(ms[i].trigger))
  <2> DEFINE next == [h.next EXCEPT ![i] = 0]
             left == Unclaimed(h.withheld, {i})
             m == [next |-> next, withheld |-> left, vdown |-> h.vdown,
                   pastes |-> h.pastes, matched |-> h.matched]
  <2>1. a.next[i] + 1 = Len(ms[i].trigger)
    BY <1>2, <1>7, <1>9, SMT
  <2>2. next \in [Visited(ms) -> Nat] /\ \A n \in Visited(ms) : next[n] < Len(ms[n].trigger)
    BY <1>2, <1>5
  <2>3. left \in Registries
    BY <1>5, UnclaimedEntries
  <2>4. [h EXCEPT !.withheld = Unclaimed(h.withheld, {i}), !.next[i] = 0] = m
    <3>1. [h EXCEPT !.withheld = left, !.next[i] = 0]
             = [[h EXCEPT !.withheld = left] EXCEPT !.next = next]
      BY <1>5
    <3>2. [[h EXCEPT !.withheld = left] EXCEPT !.next = next] = m
      <4>1. ASSUME NEW x, NEW y, NEW z, z = [[h EXCEPT !.withheld = x] EXCEPT !.next = y]
            PROVE  z = [next |-> y, withheld |-> x, vdown |-> h.vdown,
                        pastes |-> h.pastes, matched |-> h.matched]
        BY <1>5, <4>1
      <4> QED
        BY <4>1
    <3> QED
      BY <3>1, <3>2
  <2>5. b = ExecuteKeyAction(m, ms[i])
    <3> HIDE DEF m
    <3> QED
      BY <1>3, <1>4, <1>9, <2>4
  <2>6. next = [a.next EXCEPT ![i] = 0]
    BY <1>6
  <2>7. \E reg \in Registries : MayWithhold(a, reg, i, e) /\ left = Unclaimed(reg, {i})
    BY <1>5, <1>6
  <2> HIDE DEF next, left
  <2>8. CASE ms[i].handler
    <3>1. b = [next |-> next, withheld |-> left, vdown |-> h.vdown,
                pastes |-> h.pastes + 1, matched |-> h.matched]
      BY <2>5, <2>8 DEF ExecuteKeyAction
    <3>2. b \in Accs(ms)
      BY <1>5, <2>2, <2>3, <3>1 DEF Accs
    <3>3. b.next = next /\ b.withheld = left /\ b.vdown = h.vdown
      BY <3>1
    <3> QED
      BY <1>6, <2>1, <2>6, <2>7, <3>2, <3>3 DEF Completed
  <2>9. CASE ~ms[i].handler
    <3> DEFINE down == EmitSequence(h.vdown, ms[i].sequence)
    <3>1. b = [next |-> next, withheld |-> left, vdown |-> down,
                pastes |-> h.pastes, matched |-> h.matched]
      BY <2>5, <2>9 DEF ExecuteKeyAction
    <3>2. down \subseteq Nat /\ down \subseteq h.vdown \cup EmitSequence({}, ms[i].sequence)
      BY <1>2, <1>5, EmitsCodes, EmitsAtMost
    <3> HIDE DEF down
    <3>3. b \in Accs(ms)
      BY <1>5, <2>2, <2>3, <3>1, <3>2 DEF Accs
    <3>4. b.next = next /\ b.withheld = left /\ b.vdown = down
      BY <3>1
    <3> QED
      BY <1>6, <2>1, <2>6, <2>7, <3>2, <3>3, <3>4 DEF Completed
  <2> QED
    BY <2>8, <2>9
<1> QED
  BY <1>8, <1>9

\* A combo that neither moved nor was given up waits for no key that was released.
Passed(a, i, action, e) ==
    e.value = 0 => \A k \in 1 .. a.next[i] : action.trigger[k].code # e.code

Moved(a, b, i, action, e) ==
    \/ b = a /\ Passed(a, i, action, e)
    \/ Broken(a, b, i)
    \/ Advanced(a, b, i, action, e)
    \/ Completed(a, b, i, action, e)

\* A turn: a timeout gives the combo up before it is asked for the event.
Turned(ms, a, b, i, e) ==
    \E m \in Accs(ms) : (m = a \/ Broken(a, m, i)) /\ Moved(m, b, i, ms[i], e)

\* OneCombo makes a turn.
LEMMA OneComboTurns ==
    ASSUME NEW ms \in Seq(KeyActions), NEW a \in Accs(ms), NEW i \in Visited(ms),
           NEW e \in Events, NEW timedOut \in BOOLEAN,
           NEW b, b = OneCombo(a, i, ms[i], e, timedOut)
    PROVE  b \in Accs(ms) /\ Turned(ms, a, b, i, e)
<1> DEFINE first == IF a.next[i] > 0 /\ timedOut THEN BreakCombo(a, i) ELSE a
<1>1. first \in Accs(ms) /\ (first = a \/ Broken(a, first, i))
  <2>1. BreakCombo(a, i) \in Accs(ms) /\ Broken(a, BreakCombo(a, i), i)
    BY BreakComboBreaks
  <2> QED
    BY <2>1
<1>2. ms[i].trigger # <<>>
  BY DEF Visited
<1>3. b = IF numLock /\ ~IsKeyboardOnlyMacro(ms[i])
          THEN IF first.next[i] > 0 THEN BreakCombo(first, i) ELSE first
          ELSE IF Matches(ms[i].trigger[first.next[i] + 1], e)
               THEN Advance(first, i, ms[i], e)
          ELSE IF first.next[i] > 0 /\ Breaks(ms[i], first.next[i], e)
               THEN BreakCombo(first, i)
          ELSE first
  BY <1>2 DEF OneCombo
<1> HIDE DEF first
<1>4. PICK m \in Accs(ms) : m = first
  BY <1>1
<1>5. m.next[i] \in Nat
  BY DEF Accs
<1>6. BreakCombo(m, i) \in Accs(ms) /\ Broken(m, BreakCombo(m, i), i)
  BY BreakComboBreaks
<1>7. b \in Accs(ms) /\ Moved(m, b, i, ms[i], e)
  <2>1. CASE b = BreakCombo(m, i)
    BY <1>6, <2>1 DEF Moved
  <2>2. CASE b = m /\ Passed(m, i, ms[i], e)
    BY <2>2 DEF Moved
  <2>3. CASE Matches(ms[i].trigger[m.next[i] + 1], e) /\ b = Advance(m, i, ms[i], e)
    BY <2>3, AdvanceAdvances DEF Moved
  <2>4. CASE b = m /\ ~(m.next[i] > 0)
    <3>1. Passed(m, i, ms[i], e)
      BY <1>5, <2>4, SMT DEF Passed
    <3> QED
      BY <2>2, <2>4, <3>1
  <2>5. CASE b = m /\ ~Breaks(ms[i], m.next[i], e)
    <3>1. Passed(m, i, ms[i], e)
      BY <2>5 DEF Passed, Breaks
    <3> QED
      BY <2>2, <2>5, <3>1
  <2> QED
    BY <1>3, <1>4, <2>1, <2>2, <2>3, <2>4, <2>5
<1> QED
  BY <1>1, <1>4, <1>7 DEF Turned

\* A trigger without keys is passed over.
LEMMA OneComboPasses ==
    ASSUME NEW ms \in Seq(KeyActions), NEW a, NEW i \in DOMAIN ms \ Visited(ms),
           NEW e, NEW timedOut
    PROVE  OneCombo(a, i, ms[i], e, timedOut) = a
BY DEF OneCombo, Visited

-----------------------------------------------------------------------------
(* What the loop keeps                                                     *)

\* Combo o has taken a step with the code c.
Waits(ms, a, c, o) ==
    o \in Visited(ms) /\ \E k \in 1 .. a.next[o] : ms[o].trigger[k].code = c

\* Who has an entry in the registry is in O, or waits for the next step; codes
\* in X are excepted.
HasOwners(ms, a, X, O) ==
    \A c \in Codes \ X : \A n \in DOMAIN a.withheld[c] :
        \/ <<c, a.withheld[c][n].owner>> \in O
        \/ Waits(ms, a, c, a.withheld[c][n].owner)

\* What is left after the claim of combo i was there before, of another owner.
Outlast(left, reg, i) ==
    \A c \in Codes : \A n \in DOMAIN left[c] :
        \E m \in DOMAIN reg[c] : left[c][n] = reg[c][m] /\ reg[c][m].owner # i

LEMMA UnclaimedOwners ==
    ASSUME NEW reg \in Registries, NEW i
    PROVE  Outlast(Unclaimed(reg, {i}), reg, i)
<1> DEFINE O == {i}
           left == Unclaimed(reg, O)
<1>1. \A c \in Codes : \A m \in DOMAIN left[c] :
         /\ left[c][m].owner \notin O
         /\ \E n \in DOMAIN reg[c] : left[c][m] = reg[c][n]
  <2> HIDE DEF O
  <2> QED
    BY UnclaimedEntries
<1>2. \A c \in Codes : \A m \in DOMAIN left[c] :
         \E n \in DOMAIN reg[c] : left[c][m] = reg[c][n] /\ reg[c][n].owner # i
  <2> HIDE DEF left
  <2> QED
    BY <1>1
<1> QED
  BY <1>2 DEF Outlast

LEMMA BrokenHasOwners ==
    ASSUME NEW ms \in Seq(KeyActions), NEW a \in Accs(ms), NEW b \in Accs(ms),
           NEW i \in Visited(ms), NEW X, NEW O, HasOwners(ms, a, X, O), Broken(a, b, i)
    PROVE  HasOwners(ms, b, X, O)
<1>1. a.next \in [Visited(ms) -> Nat] /\ a.withheld \in Registries
  BY DEF Accs
<1>2. b.next = [a.next EXCEPT ![i] = 0] /\ b.withheld = Unclaimed(a.withheld, {i})
  BY DEF Broken
<1>3. SUFFICES ASSUME NEW c \in Codes \ X, NEW n \in DOMAIN b.withheld[c],
                      <<c, b.withheld[c][n].owner>> \notin O
               PROVE  Waits(ms, b, c, b.withheld[c][n].owner)
  BY DEF HasOwners
<1>4. PICK reg \in Registries : reg = a.withheld
  BY <1>1
<1>5. PICK m \in DOMAIN reg[c] : b.withheld[c][n] = reg[c][m] /\ reg[c][m].owner # i
  <2>1. Outlast(Unclaimed(reg, {i}), reg, i)
    BY UnclaimedOwners
  <2>2. Outlast(b.withheld, reg, i)
    BY <1>2, <1>4, <2>1
  <2> QED
    BY <2>2 DEF Outlast
<1>6. PICK o : o = b.withheld[c][n].owner
  OBVIOUS
<1>7. Waits(ms, a, c, o) /\ o # i
  BY <1>3, <1>4, <1>5, <1>6 DEF HasOwners
<1>8. b.next[o] = a.next[o]
  BY <1>1, <1>2, <1>7 DEF Waits
<1> QED
  BY <1>6, <1>7, <1>8 DEF Waits

\* The entry a step may add belongs to the combo that takes the step.
LEMMA WithholdHasOwners ==
    ASSUME NEW ms \in Seq(KeyActions), NEW a \in Accs(ms), NEW i \in Visited(ms),
           NEW X, NEW O, HasOwners(ms, a, X, O), NEW e \in Events,
           NEW reg \in Registries, MayWithhold(a, reg, i, e),
           NEW c \in Codes \ X, NEW n \in DOMAIN reg[c]
    PROVE  \/ <<c, reg[c][n].owner>> \in O
           \/ Waits(ms, a, c, reg[c][n].owner)
           \/ c = e.code /\ reg[c][n].owner = i
<1> DEFINE x == [value |-> e.value, owner |-> i]
<1>1. a.withheld \in Registries
  BY DEF Accs
<1>2. CASE reg = a.withheld
  BY <1>2 DEF HasOwners
<1>3. CASE reg = Added(a.withheld, e.code, x)
  <2>1. i \in Nat \ {0}
    <3>1. i \in DOMAIN ms
      BY VisitedTriggers
    <3> QED
      BY <3>1
  <2>2. x \in Entries /\ e.code \in Codes /\ x.owner = i
    BY <2>1 DEF Entries, Events
  <2> HIDE DEF x
  <2>3. \/ n \in DOMAIN a.withheld[c] /\ reg[c][n] = a.withheld[c][n]
        \/ c = e.code /\ reg[c][n] = x
    BY <1>1, <1>3, <2>2, AddedType
  <2> QED
    BY <2>2, <2>3 DEF HasOwners
<1> QED
  BY <1>2, <1>3 DEF MayWithhold

LEMMA AdvancedHasOwners ==
    ASSUME NEW ms \in Seq(KeyActions), NEW a \in Accs(ms), NEW b \in Accs(ms),
           NEW i \in Visited(ms), NEW X, NEW O, HasOwners(ms, a, X, O), NEW e \in Events,
           Advanced(a, b, i, ms[i], e)
    PROVE  HasOwners(ms, b, X, O)
<1>1. a.next \in [Visited(ms) -> Nat] /\ b.withheld \in Registries
  BY DEF Accs
<1>2. b.next = [a.next EXCEPT ![i] = a.next[i] + 1] /\ MayWithhold(a, b.withheld, i, e)
      /\ ms[i].trigger[a.next[i] + 1].code = e.code
  BY DEF Advanced, Matches
<1>3. b.next[i] = a.next[i] + 1 /\ a.next[i] \in Nat
      /\ \A o \in Visited(ms) : o # i => b.next[o] = a.next[o]
  BY <1>1, <1>2
<1>4. ASSUME NEW c, NEW o, Waits(ms, a, c, o) PROVE Waits(ms, b, c, o)
  <2>1. PICK k \in 1 .. a.next[o] : ms[o].trigger[k].code = c
    BY <1>4 DEF Waits
  <2>2. o \in Visited(ms)
    BY <1>4 DEF Waits
  <2>3. k \in 1 .. b.next[o]
    <3>1. CASE o = i
      BY <3>1, <1>3, SMT
    <3>2. CASE o # i
      BY <3>2, <2>2, <1>3
    <3> QED
      BY <3>1, <3>2
  <2> QED
    BY <2>1, <2>2, <2>3 DEF Waits
<1>5. Waits(ms, b, e.code, i)
  <2>1. a.next[i] + 1 \in 1 .. b.next[i]
    BY <1>3, SMT
  <2> QED
    BY <1>2, <2>1 DEF Waits
<1>6. SUFFICES ASSUME NEW c \in Codes \ X, NEW n \in DOMAIN b.withheld[c]
               PROVE  \/ <<c, b.withheld[c][n].owner>> \in O
                      \/ Waits(ms, b, c, b.withheld[c][n].owner)
  BY DEF HasOwners
<1>7. \/ <<c, b.withheld[c][n].owner>> \in O
      \/ Waits(ms, a, c, b.withheld[c][n].owner)
      \/ c = e.code /\ b.withheld[c][n].owner = i
  <2>1. PICK reg \in Registries : reg = b.withheld
    BY <1>1
  <2>2. MayWithhold(a, reg, i, e) /\ n \in DOMAIN reg[c]
    BY <1>2, <2>1
  <2>3. \/ <<c, reg[c][n].owner>> \in O
        \/ Waits(ms, a, c, reg[c][n].owner)
        \/ c = e.code /\ reg[c][n].owner = i
    BY <2>2, WithholdHasOwners
  <2> QED
    BY <2>1, <2>3
<1> QED
  BY <1>4, <1>5, <1>7

LEMMA CompletedHasOwners ==
    ASSUME NEW ms \in Seq(KeyActions), NEW a \in Accs(ms), NEW b \in Accs(ms),
           NEW i \in Visited(ms), NEW X, NEW O, HasOwners(ms, a, X, O), NEW e \in Events,
           Completed(a, b, i, ms[i], e)
    PROVE  HasOwners(ms, b, X, O)
<1>1. a.next \in [Visited(ms) -> Nat]
  BY DEF Accs
<1>2. b.next = [a.next EXCEPT ![i] = 0]
  BY DEF Completed
<1>3. PICK reg \in Registries : MayWithhold(a, reg, i, e) /\ b.withheld = Unclaimed(reg, {i})
  BY DEF Completed
<1>4. SUFFICES ASSUME NEW c \in Codes \ X, NEW n \in DOMAIN b.withheld[c],
                      <<c, b.withheld[c][n].owner>> \notin O
               PROVE  Waits(ms, b, c, b.withheld[c][n].owner)
  BY DEF HasOwners
<1>5. PICK m \in DOMAIN reg[c] : b.withheld[c][n] = reg[c][m] /\ reg[c][m].owner # i
  <2>1. Outlast(Unclaimed(reg, {i}), reg, i)
    BY UnclaimedOwners
  <2>2. Outlast(b.withheld, reg, i)
    BY <1>3, <2>1
  <2> QED
    BY <2>2 DEF Outlast
<1>7. \/ <<c, reg[c][m].owner>> \in O
      \/ Waits(ms, a, c, reg[c][m].owner)
      \/ c = e.code /\ reg[c][m].owner = i
  BY <1>3, WithholdHasOwners
<1>8. PICK o : o = b.withheld[c][n].owner
  OBVIOUS
<1>9. Waits(ms, a, c, o) /\ o # i
  BY <1>4, <1>5, <1>7, <1>8
<1>10. b.next[o] = a.next[o]
  BY <1>1, <1>2, <1>9 DEF Waits
<1> QED
  BY <1>8, <1>9, <1>10 DEF Waits

\* No turn leaves an entry without its owner.
LEMMA TurnedHasOwners ==
    ASSUME NEW ms \in Seq(KeyActions), NEW a \in Accs(ms), NEW b \in Accs(ms),
           NEW i \in Visited(ms), NEW X, NEW O, HasOwners(ms, a, X, O), NEW e \in Events,
           Turned(ms, a, b, i, e)
    PROVE  HasOwners(ms, b, X, O)
<1>1. PICK m \in Accs(ms) : (m = a \/ Broken(a, m, i)) /\ Moved(m, b, i, ms[i], e)
  BY DEF Turned
<1>2. HasOwners(ms, m, X, O)
  BY <1>1, BrokenHasOwners
<1> QED
  BY <1>1, <1>2, BrokenHasOwners, AdvancedHasOwners, CompletedHasOwners DEF Moved

\* The keys of the steps the combos have taken are held.
HeldBy(ms, a, L) ==
    \A o \in Visited(ms) : \A k \in 1 .. a.next[o] :
        ms[o].trigger[k].code <= KEY_MAX => ms[o].trigger[k].code \in L

LEMMA TurnedKeepsHeld ==
    ASSUME NEW ms \in Seq(KeyActions), NEW a \in Accs(ms), NEW b \in Accs(ms),
           NEW i \in Visited(ms), NEW e \in Events, NEW L, e.code <= KEY_MAX => e.code \in L,
           HeldBy(ms, a, L), Broken(a, b, i) \/ Moved(a, b, i, ms[i], e)
    PROVE  HeldBy(ms, b, L)
<1>1. a.next \in [Visited(ms) -> Nat]
  BY DEF Accs
<1>2. CASE b.next = [a.next EXCEPT ![i] = 0]
  <2>1. SUFFICES ASSUME NEW o \in Visited(ms), NEW k \in 1 .. b.next[o],
                        ms[o].trigger[k].code <= KEY_MAX
                 PROVE  ms[o].trigger[k].code \in L
    BY DEF HeldBy
  <2>2. CASE o = i
    <3>1. b.next[o] = 0
      BY <1>1, <1>2, <2>2
    <3> QED
      BY <3>1, SMT
  <2>3. CASE o # i
    <3>1. b.next[o] = a.next[o]
      BY <1>1, <1>2, <2>3
    <3> QED
      BY <3>1, <2>1 DEF HeldBy
  <2> QED
    BY <2>2, <2>3
<1>3. CASE Advanced(a, b, i, ms[i], e)
  <2>1. b.next = [a.next EXCEPT ![i] = a.next[i] + 1]
        /\ ms[i].trigger[a.next[i] + 1].code = e.code
    BY <1>3 DEF Advanced, Matches
  <2>2. SUFFICES ASSUME NEW o \in Visited(ms), NEW k \in 1 .. b.next[o],
                        ms[o].trigger[k].code <= KEY_MAX
                 PROVE  ms[o].trigger[k].code \in L
    BY DEF HeldBy
  <2>3. CASE k \in 1 .. a.next[o]
    BY <2>2, <2>3 DEF HeldBy
  <2>4. CASE k \notin 1 .. a.next[o]
    <3>1. o = i
      BY <1>1, <2>1, <2>4
    <3>2. b.next[i] = a.next[i] + 1 /\ a.next[i] \in Nat
      BY <1>1, <2>1
    <3>3. k = a.next[i] + 1
      BY <2>4, <3>1, <3>2, SMT
    <3> QED
      BY <2>1, <2>2, <3>1, <3>3
  <2> QED
    BY <2>3, <2>4
<1>4. CASE b = a
  BY <1>4
<1> QED
  BY <1>2, <1>3, <1>4 DEF Moved, Broken, Completed

\* What a combo that is given up emits is a key that it or another waits with.
LEMMA HeldWithheld ==
    ASSUME NEW ms \in Seq(KeyActions), NEW a \in Accs(ms), NEW L, HeldBy(ms, a, L),
           HasOwners(ms, a, {}, {})
    PROVE  Withholding(a.withheld) \subseteq L
<1>1. SUFFICES ASSUME NEW c \in Codes, c <= KEY_MAX, a.withheld[c] # <<>>
               PROVE  c \in L
  BY DEF Withholding
<1>2. a.withheld[c] \in Seq(Entries)
  BY DEF Accs, Registries
<1>3. 1 \in DOMAIN a.withheld[c]
  <2>1. Len(a.withheld[c]) # 0 /\ Len(a.withheld[c]) \in Nat
    BY <1>1, <1>2
  <2> QED
    BY <1>2, <2>1
<1>4. Waits(ms, a, c, a.withheld[c][1].owner)
  BY <1>3 DEF HasOwners
<1>5. PICK o \in Visited(ms), k \in 1 .. a.next[a.withheld[c][1].owner] :
         o = a.withheld[c][1].owner /\ ms[o].trigger[k].code = c
  BY <1>4 DEF Waits
<1> QED
  BY <1>1, <1>5 DEF HeldBy

\* What an action that is executed leaves down is a key of its trigger, whose
\* steps were taken, the last one by this event.
LEMMA HeldSequence ==
    ASSUME NEW ms \in Seq(KeyActions), NEW a \in Accs(ms), NEW i \in Visited(ms),
           ms[i] \in GoodActions, NEW e \in Events, NEW L,
           e.code <= KEY_MAX => e.code \in L, HeldBy(ms, a, L),
           Matches(ms[i].trigger[a.next[i] + 1], e), a.next[i] + 1 = Len(ms[i].trigger)
    PROVE  EmitSequence({}, ms[i].sequence) \subseteq L
<1>1. SUFFICES ASSUME NEW c \in EmitSequence({}, ms[i].sequence)
               PROVE  c \in L
  OBVIOUS
<1>2. ~(c > KEY_MAX)
  BY <1>1 DEF EmitSequence
<1>3. PICK k \in DOMAIN ms[i].trigger : ms[i].trigger[k].code = c
  BY <1>1 DEF GoodActions, SelfContained
<1>4. ms[i].trigger \in Seq(Steps)
  BY VisitedTriggers
<1>5. c \in Nat
  <2>1. ms[i].trigger[k] \in Steps
    BY <1>4
  <2> QED
    BY <1>3, <2>1 DEF Steps
<1>6. c <= KEY_MAX
  BY <1>2, <1>5 DEF KEY_MAX
<1>7. a.next[i] \in Nat
  BY DEF Accs
<1>8. k \in 1 .. a.next[i] + 1
  BY <1>4, <1>7
<1>9. CASE k \in 1 .. a.next[i]
  BY <1>3, <1>6, <1>9 DEF HeldBy
<1>10. CASE k = a.next[i] + 1
  BY <1>3, <1>6, <1>10 DEF Matches
<1>11. k \in 1 .. a.next[i] \/ k = a.next[i] + 1
  BY <1>7, <1>8, SMT
<1> QED
  BY <1>9, <1>10, <1>11

\* So a turn presses no key that is not held.
LEMMA TurnedPressesHeld ==
    ASSUME NEW ms \in Seq(KeyActions), NEW a \in Accs(ms), NEW b \in Accs(ms),
           NEW i \in Visited(ms), ms[i] \in GoodActions, NEW e \in Events, NEW L, NEW X,
           e.code <= KEY_MAX => e.code \in L, HeldBy(ms, a, L),
           HasOwners(ms, a, {}, {}), a.vdown \subseteq L \cup X, Turned(ms, a, b, i, e)
    PROVE  HeldBy(ms, b, L) /\ b.vdown \subseteq L \cup X
<1>1. PICK m \in Accs(ms) : (m = a \/ Broken(a, m, i)) /\ Moved(m, b, i, ms[i], e)
  BY DEF Turned
<1>2. HeldBy(ms, m, L) /\ HasOwners(ms, m, {}, {})
  BY <1>1, TurnedKeepsHeld, BrokenHasOwners
<1>3. m.vdown \subseteq L \cup X
  BY <1>1, HeldWithheld DEF Broken
<1>4. HeldBy(ms, b, L)
  BY <1>1, <1>2, TurnedKeepsHeld
<1>5. CASE Broken(m, b, i)
  <2>1. Withholding(m.withheld) \subseteq L
    BY <1>2, HeldWithheld
  <2> QED
    BY <1>3, <1>4, <1>5, <2>1 DEF Broken
<1>6. CASE Completed(m, b, i, ms[i], e)
  <2>1. EmitSequence({}, ms[i].sequence) \subseteq L
    BY <1>2, <1>6, HeldSequence DEF Completed
  <2> QED
    BY <1>3, <1>4, <1>6, <2>1 DEF Completed
<1>7. CASE Advanced(m, b, i, ms[i], e)
  BY <1>3, <1>4, <1>7 DEF Advanced
<1>8. CASE b = m
  BY <1>3, <1>4, <1>8
<1> QED
  BY <1>1, <1>5, <1>6, <1>7, <1>8 DEF Moved

\* A turn for a release leaves no combo that waits with the key.
LEMMA TurnedPasses ==
    ASSUME NEW ms \in Seq(KeyActions), NEW a \in Accs(ms), NEW b \in Accs(ms),
           NEW i \in Visited(ms), ms[i] \in GoodActions, NEW e \in Events, e.value = 0,
           Turned(ms, a, b, i, e)
    PROVE  /\ Passed(b, i, ms[i], e) /\ b.matched = a.matched
           /\ \A o \in Visited(ms) : o # i => b.next[o] = a.next[o]
<1>1. PICK m \in Accs(ms) : (m = a \/ Broken(a, m, i)) /\ Moved(m, b, i, ms[i], e)
  BY DEF Turned
<1>2. a.next \in [Visited(ms) -> Nat] /\ m.next \in [Visited(ms) -> Nat]
      /\ m.next[i] < Len(ms[i].trigger)
  BY DEF Accs
<1>3. \A o \in Visited(ms) : o # i => m.next[o] = a.next[o]
  BY <1>1, <1>2 DEF Broken
<1>4. ~Matches(ms[i].trigger[m.next[i] + 1], e)
  <2>1. ms[i].trigger \in Seq(Steps) /\ Len(ms[i].trigger) \in Nat
    BY VisitedTriggers
  <2>2. m.next[i] + 1 \in DOMAIN ms[i].trigger
    BY <1>2, <2>1
  <2>3. ms[i].trigger[m.next[i] + 1].value = 1
    BY <2>2 DEF GoodActions, PressOnly
  <2> QED
    BY <2>3 DEF Matches
<1>5. (b = m /\ Passed(m, i, ms[i], e)) \/ Broken(m, b, i)
  BY <1>1, <1>4 DEF Moved, Advanced, Completed
<1>6. CASE Broken(m, b, i)
  <2>1. b.next[i] = 0 /\ \A o \in Visited(ms) : o # i => b.next[o] = m.next[o]
    BY <1>2, <1>6 DEF Broken
  <2>2. 1 .. b.next[i] = {}
    BY <2>1, SMT
  <2>3. b.matched = m.matched
    BY <1>6 DEF Broken
  <2> QED
    BY <1>1, <1>3, <2>1, <2>2, <2>3 DEF Passed, Broken
<1> QED
  BY <1>1, <1>3, <1>5, <1>6 DEF Broken

-----------------------------------------------------------------------------
(* The loop of stageMacros                                                 *)

\* Where the loop begins in the macros of an application.
Acc(app) == [next |-> Progress(app), withheld |-> withheld, vdown |-> vdown,
             pastes |-> pastes, matched |-> FALSE]

\* f[n] is what the loop has after n combos.
LoopRun(f, T) ==
    /\ f \in [0 .. Len(appMacros[curApp]) -> Accs(appMacros[curApp])]
    /\ f[0] = Acc(curApp)
    /\ \A n \in 1 .. Len(appMacros[curApp]) :
          f[n] = OneCombo(f[n - 1], n, appMacros[curApp][n], cur, n \in T)
    /\ RunCombos(T) = f[Len(appMacros[curApp])]

\* One pass of the loop, whether it visits the combo or not.
LEMMA OnePass ==
    ASSUME NEW ms \in Seq(KeyActions), NEW a \in Accs(ms), NEW i \in DOMAIN ms,
           NEW e \in Events, NEW late \in BOOLEAN,
           NEW b, b = OneCombo(a, i, ms[i], e, late)
    PROVE  /\ b \in Accs(ms)
           /\ IF i \in Visited(ms) THEN Turned(ms, a, b, i, e) ELSE b = a
<1>1. CASE i \in Visited(ms)
  BY <1>1, OneComboTurns
<1>2. CASE i \notin Visited(ms)
  <2>1. OneCombo(a, i, ms[i], e, late) = a
    BY <1>2, OneComboPasses
  <2> QED
    BY <1>2, <2>1
<1> QED
  BY <1>1, <1>2

LEMMA LoopSteps ==
    ASSUME appMacros[curApp] \in Seq(KeyActions), cur \in Events, NEW T,
           Acc(curApp) \in Accs(appMacros[curApp])
    PROVE  \E f : LoopRun(f, T)
<1> DEFINE ms == appMacros[curApp]
           N == Len(ms)
           U == Accs(ms)
           base == Acc(curApp)
           turn(a, n) == OneCombo(a, n, ms[n], cur, n \in T)
           step == [n \in 1 .. N |-> [a \in U |-> turn(a, n)]]
           K == CHOOSE g : g = [n \in 0 .. N |->
                    IF n = 0 THEN base ELSE turn(g[n - 1], n)]
<1>1. N \in Nat /\ base \in U /\ DOMAIN ms = 1 .. N
  OBVIOUS
<1>2. RunCombos(T) = K[N]
  BY DEF RunCombos, Acc
<1>3. ASSUME NEW a \in U, NEW n \in 1 .. N PROVE turn(a, n) \in U
  <2>1. PICK b : b = turn(a, n)
    OBVIOUS
  <2>2. ms \in Seq(KeyActions) /\ n \in DOMAIN ms
    BY <1>1
  <2>3. PICK late \in BOOLEAN : b = OneCombo(a, n, ms[n], cur, late)
    <3>1. CASE n \in T
      <4>1. b = OneCombo(a, n, ms[n], cur, TRUE)
        BY <2>1, <3>1
      <4> QED
        BY <4>1
    <3>2. CASE n \notin T
      <4>1. (n \in T) = FALSE
        BY <3>2
      <4>2. b = OneCombo(a, n, ms[n], cur, FALSE)
        BY <2>1, <4>1, Zenon
      <4> QED
        BY <4>2
    <3> QED
      BY <3>1, <3>2
  <2>4. b \in Accs(ms)
    <3> HIDE DEF ms, N
    <3> QED
      BY <2>2, <2>3, OnePass
  <2> QED
    BY <2>1, <2>4
<1>4. step \in [1 .. N -> [U -> U]]
  <2> HIDE DEF N, U, turn
  <2> QED
    BY <1>3
<1>5. PICK f : Run(f, N, U, base, step)
  <2> HIDE DEF step, N, U, base
  <2> QED
    BY <1>1, <1>4, Recursion
<1>6. /\ f \in [0 .. N -> U] /\ f[0] = base
      /\ \A n \in 1 .. N : f[n] = step[n][f[n - 1]]
  BY <1>5 DEF Run
<1>7. \A n \in 1 .. N : n - 1 \in 0 .. N /\ n \in 0 .. N /\ n # 0
  <2> HIDE DEF N
  <2> QED
    BY <1>1, SMT
<1>8. \A n \in 1 .. N : f[n] = turn(f[n - 1], n)
  <2> HIDE DEF U, N, turn
  <2> QED
    BY <1>6, <1>7
<1>9. f = [n \in 0 .. N |-> IF n = 0 THEN base ELSE turn(f[n - 1], n)]
  <2> HIDE DEF U, N, turn, base, step
  <2>1. ASSUME NEW n \in 0 .. N
        PROVE  f[n] = IF n = 0 THEN base ELSE turn(f[n - 1], n)
    <3>1. CASE n = 0
      BY <3>1, <1>6
    <3>2. CASE n # 0
      <4>1. n \in 1 .. N
        BY <3>2, <1>1, SMT
      <4> QED
        BY <4>1, <3>2, <1>8
    <3> QED
      BY <3>1, <3>2
  <2> QED
    BY <1>6, <2>1
<1>10. K = [n \in 0 .. N |-> IF n = 0 THEN base ELSE turn(K[n - 1], n)]
  <2> HIDE DEF U, N, turn, base, step
  <2> QED
    BY <1>9
<1> HIDE DEF K, step, turn, base, U, N
<1>11. K[0] = base
  BY <1>1, <1>10
<1>12. \A n \in 1 .. N : K[n] = turn(K[n - 1], n)
  BY <1>7, <1>10
<1> DEFINE S == {n \in 0 .. N : K[n] \in U}
<1>13. 0 \in S
  BY <1>1, <1>11
<1>14. ASSUME NEW n \in 1 .. N, n - 1 \in S PROVE n \in S
  BY <1>3, <1>7, <1>12, <1>14
<1>15. 0 .. N \subseteq S
  <2> HIDE DEF S
  <2> QED
    BY <1>1, <1>13, <1>14, UpTo
<1>16. K \in [0 .. N -> U]
  <2>1. \A n \in 0 .. N : K[n] \in U
    BY <1>15
  <2>2. K = [n \in 0 .. N |-> K[n]]
    BY <1>10
  <2> QED
    BY <2>1, <2>2
<1>17. /\ K \in [0 .. Len(appMacros[curApp]) -> Accs(appMacros[curApp])]
       /\ K[0] = Acc(curApp)
       /\ RunCombos(T) = K[Len(appMacros[curApp])]
  BY <1>2, <1>11, <1>16 DEF N, U, base
<1>18. \A n \in 1 .. Len(appMacros[curApp]) :
          K[n] = OneCombo(K[n - 1], n, appMacros[curApp][n], cur, n \in T)
  BY <1>12 DEF N, turn
<1> QED
  BY <1>17, <1>18 DEF LoopRun

\* A sequence of turns, one for each combo that is visited.
Turns(f, ms, e) ==
    /\ f \in [0 .. Len(ms) -> Accs(ms)]
    /\ \A n \in 1 .. Len(ms) :
          IF n \in Visited(ms) THEN Turned(ms, f[n - 1], f[n], n, e) ELSE f[n] = f[n - 1]

\* The loop is one.
LEMMA LoopTurns ==
    ASSUME appMacros[curApp] \in Seq(KeyActions), cur \in Events, NEW T,
           Acc(curApp) \in Accs(appMacros[curApp])
    PROVE  \E f : /\ Turns(f, appMacros[curApp], cur)
                  /\ f[0] = Acc(curApp)
                  /\ f[Len(appMacros[curApp])] = RunCombos(T)
<1>1. PICK f : LoopRun(f, T)
  BY LoopSteps
<1> DEFINE ms == appMacros[curApp]
<1>2. /\ f \in [0 .. Len(ms) -> Accs(ms)] /\ f[0] = Acc(curApp)
      /\ f[Len(ms)] = RunCombos(T)
      /\ \A n \in 1 .. Len(ms) : f[n] = OneCombo(f[n - 1], n, ms[n], cur, n \in T)
  BY <1>1 DEF LoopRun
<1>3. ms \in Seq(KeyActions) /\ DOMAIN ms = 1 .. Len(ms) /\ Len(ms) \in Nat
  OBVIOUS
<1> HIDE DEF ms
<1>4. ASSUME NEW n \in 1 .. Len(ms)
      PROVE  IF n \in Visited(ms) THEN Turned(ms, f[n - 1], f[n], n, cur)
             ELSE f[n] = f[n - 1]
  <2>1. PICK a \in Accs(ms) : a = f[n - 1]
    <3>1. n - 1 \in 0 .. Len(ms)
      BY <1>3, SMT
    <3> QED
      BY <1>2, <3>1
  <2>2. PICK b : b = f[n]
    OBVIOUS
  <2>3. PICK late \in BOOLEAN : b = OneCombo(a, n, ms[n], cur, late)
    <3>1. b = OneCombo(a, n, ms[n], cur, n \in T)
      BY <1>2, <2>1, <2>2
    <3>2. CASE n \in T
      <4>1. (n \in T) = TRUE
        BY <3>2
      <4>2. b = OneCombo(a, n, ms[n], cur, TRUE)
        BY <3>1, <4>1, Zenon
      <4> QED
        BY <4>2
    <3>3. CASE n \notin T
      <4>1. (n \in T) = FALSE
        BY <3>3
      <4>2. b = OneCombo(a, n, ms[n], cur, FALSE)
        BY <3>1, <4>1, Zenon
      <4> QED
        BY <4>2
    <3> QED
      BY <3>2, <3>3
  <2>4. IF n \in Visited(ms) THEN Turned(ms, a, b, n, cur) ELSE b = a
    <3>1. n \in DOMAIN ms
      BY <1>3
    <3> QED
      BY <1>3, <2>3, <3>1, OnePass
  <2> QED
    BY <2>1, <2>2, <2>4
<1>5. Turns(f, ms, cur)
  BY <1>2, <1>4 DEF Turns
<1> QED
  BY <1>2, <1>5 DEF ms

\* After the loop, every entry has its owner.
LEMMA TurnsKeepOwners ==
    ASSUME NEW ms \in Seq(KeyActions), NEW e \in Events, NEW f, Turns(f, ms, e),
           NEW X, NEW O, HasOwners(ms, f[0], X, O)
    PROVE  f[Len(ms)] \in Accs(ms) /\ HasOwners(ms, f[Len(ms)], X, O)
<1> DEFINE S == {n \in 0 .. Len(ms) : HasOwners(ms, f[n], X, O)}
<1>1. Len(ms) \in Nat /\ 0 \in S
  <2>1. Len(ms) \in Nat
    OBVIOUS
  <2>2. 0 \in 0 .. Len(ms)
    BY <2>1, SMT
  <2> QED
    BY <2>1, <2>2
<1>2. ASSUME NEW n \in 1 .. Len(ms), n - 1 \in S PROVE n \in S
  <2>1. n \in 0 .. Len(ms) /\ n - 1 \in 0 .. Len(ms)
    BY <1>1, SMT
  <2>2. PICK a \in Accs(ms), b \in Accs(ms) : a = f[n - 1] /\ b = f[n]
    BY <2>1 DEF Turns
  <2>3. HasOwners(ms, a, X, O)
    BY <1>2, <2>2
  <2>4. IF n \in Visited(ms) THEN Turned(ms, a, b, n, e) ELSE b = a
    BY <2>2 DEF Turns
  <2>5. HasOwners(ms, b, X, O)
    <3>1. CASE n \in Visited(ms)
      BY <2>3, <2>4, <3>1, TurnedHasOwners
    <3>2. CASE n \notin Visited(ms)
      BY <2>3, <2>4, <3>2
    <3> QED
      BY <3>1, <3>2
  <2> QED
    BY <2>1, <2>2, <2>5
<1>3. 0 .. Len(ms) \subseteq S
  <2> HIDE DEF S
  <2> QED
    BY <1>1, <1>2, UpTo
<1>4. Len(ms) \in 0 .. Len(ms)
  BY <1>1, SMT
<1> QED
  BY <1>3, <1>4 DEF Turns

\* And the loop has pressed only keys that are held.
LEMMA TurnsPressHeld ==
    ASSUME NEW ms \in Seq(KeyActions), \A i \in DOMAIN ms : ms[i] \in GoodActions,
           NEW e \in Events, NEW f, Turns(f, ms, e), NEW L, NEW X,
           e.code <= KEY_MAX => e.code \in L, HeldBy(ms, f[0], L),
           HasOwners(ms, f[0], {}, {}), f[0].vdown \subseteq L \cup X
    PROVE  HeldBy(ms, f[Len(ms)], L) /\ f[Len(ms)].vdown \subseteq L \cup X
<1> DEFINE S == {n \in 0 .. Len(ms) : /\ HasOwners(ms, f[n], {}, {})
                                      /\ HeldBy(ms, f[n], L)
                                      /\ f[n].vdown \subseteq L \cup X}
<1>1. Len(ms) \in Nat /\ 0 \in S
  <2>1. Len(ms) \in Nat
    OBVIOUS
  <2>2. 0 \in 0 .. Len(ms)
    BY <2>1, SMT
  <2> QED
    BY <2>1, <2>2
<1>2. ASSUME NEW n \in 1 .. Len(ms), n - 1 \in S PROVE n \in S
  <2>1. n \in 0 .. Len(ms) /\ n - 1 \in 0 .. Len(ms)
    BY <1>1, SMT
  <2>2. PICK a \in Accs(ms), b \in Accs(ms) : a = f[n - 1] /\ b = f[n]
    BY <2>1 DEF Turns
  <2>3. HasOwners(ms, a, {}, {}) /\ HeldBy(ms, a, L) /\ a.vdown \subseteq L \cup X
    BY <1>2, <2>2
  <2>4. IF n \in Visited(ms) THEN Turned(ms, a, b, n, e) ELSE b = a
    BY <2>2 DEF Turns
  <2>5. HasOwners(ms, b, {}, {}) /\ HeldBy(ms, b, L) /\ b.vdown \subseteq L \cup X
    <3>1. CASE n \in Visited(ms)
      <4>1. ms[n] \in GoodActions
        BY <3>1 DEF Visited
      <4> QED
        BY <2>3, <2>4, <3>1, <4>1, TurnedHasOwners, TurnedPressesHeld
    <3>2. CASE n \notin Visited(ms)
      BY <2>3, <2>4, <3>2
    <3> QED
      BY <3>1, <3>2
  <2> QED
    BY <2>1, <2>2, <2>5
<1>3. 0 .. Len(ms) \subseteq S
  <2> HIDE DEF S
  <2> QED
    BY <1>1, <1>2, UpTo
<1>4. Len(ms) \in 0 .. Len(ms)
  BY <1>1, SMT
<1> QED
  BY <1>3, <1>4

\* After the loop for a release, no combo waits with the key.
LEMMA TurnsPass ==
    ASSUME NEW ms \in Seq(KeyActions), \A i \in DOMAIN ms : ms[i] \in GoodActions,
           NEW e \in Events, e.value = 0, NEW f, Turns(f, ms, e), NEW o \in Visited(ms)
    PROVE  Passed(f[Len(ms)], o, ms[o], e)
<1> DEFINE S == {n \in 0 .. Len(ms) : n >= o => Passed(f[n], o, ms[o], e)}
<1>1. Len(ms) \in Nat /\ o \in 1 .. Len(ms)
  BY DEF Visited
<1>2. 0 \in S
  BY <1>1, SMT
<1>3. ASSUME NEW n \in 1 .. Len(ms), n - 1 \in S PROVE n \in S
  <2>1. n \in 0 .. Len(ms) /\ n - 1 \in 0 .. Len(ms)
    BY <1>1, SMT
  <2>2. PICK a \in Accs(ms), b \in Accs(ms) : a = f[n - 1] /\ b = f[n]
    BY <2>1 DEF Turns
  <2>3. IF n \in Visited(ms) THEN Turned(ms, a, b, n, e) ELSE b = a
    BY <2>2 DEF Turns
  <2>4. ASSUME n >= o PROVE Passed(b, o, ms[o], e)
    <3>1. CASE n = o
      <4>1. Turned(ms, a, b, o, e) /\ ms[o] \in GoodActions
        BY <2>3, <3>1 DEF Visited
      <4> QED
        BY <4>1, TurnedPasses
    <3>2. CASE n # o
      <4>1. n - 1 >= o
        BY <1>1, <2>4, <3>2, SMT
      <4>2. Passed(a, o, ms[o], e)
        BY <1>3, <2>2, <4>1
      <4>3. b.next[o] = a.next[o]
        <5>1. CASE n \in Visited(ms)
          <6>1. ms[n] \in GoodActions
            BY <5>1 DEF Visited
          <6> QED
            BY <2>3, <3>2, <5>1, <6>1, TurnedPasses
        <5>2. CASE n \notin Visited(ms)
          BY <2>3, <5>2
        <5> QED
          BY <5>1, <5>2
      <4> QED
        BY <4>2, <4>3 DEF Passed
    <3> QED
      BY <3>1, <3>2
  <2> QED
    BY <2>1, <2>2, <2>4
<1>4. 0 .. Len(ms) \subseteq S
  <2> HIDE DEF S
  <2> QED
    BY <1>1, <1>2, <1>3, UpTo
<1>5. Len(ms) \in S
  <2>1. Len(ms) \in 0 .. Len(ms)
    BY <1>1, SMT
  <2> HIDE DEF S
  <2> QED
    BY <1>4, <2>1
<1>6. Len(ms) >= o
  BY <1>1, SMT
<1> QED
  BY <1>5, <1>6

\* And none has matched.
LEMMA TurnsMatchNothing ==
    ASSUME NEW ms \in Seq(KeyActions), \A i \in DOMAIN ms : ms[i] \in GoodActions,
           NEW e \in Events, e.value = 0, NEW f, Turns(f, ms, e)
    PROVE  f[Len(ms)].matched = f[0].matched
<1> DEFINE S == {n \in 0 .. Len(ms) : f[n].matched = f[0].matched}
<1>1. Len(ms) \in Nat
  OBVIOUS
<1>2. 0 \in S
  BY <1>1, SMT
<1>3. ASSUME NEW n \in 1 .. Len(ms), n - 1 \in S PROVE n \in S
  <2>1. n \in 0 .. Len(ms) /\ n - 1 \in 0 .. Len(ms)
    BY <1>1, SMT
  <2>2. PICK a \in Accs(ms), b \in Accs(ms) : a = f[n - 1] /\ b = f[n]
    BY <2>1 DEF Turns
  <2>3. IF n \in Visited(ms) THEN Turned(ms, a, b, n, e) ELSE b = a
    BY <2>2 DEF Turns
  <2>4. b.matched = a.matched
    <3>1. CASE n \in Visited(ms)
      <4>1. ms[n] \in GoodActions
        BY <3>1 DEF Visited
      <4> QED
        BY <2>3, <3>1, <4>1, TurnedPasses
    <3>2. CASE n \notin Visited(ms)
      BY <2>3, <3>2
    <3> QED
      BY <3>1, <3>2
  <2> QED
    BY <1>3, <2>1, <2>2, <2>4
<1>4. 0 .. Len(ms) \subseteq S
  <2> HIDE DEF S
  <2> QED
    BY <1>1, <1>2, <1>3, UpTo
<1>5. Len(ms) \in 0 .. Len(ms)
  BY <1>1, SMT
<1> QED
  BY <1>4, <1>5

-----------------------------------------------------------------------------
(* flushAndResetState                                                      *)

\* What the combos of the indices below n have flushed.
Flushed(r, n) ==
    /\ r.withheld \in Registries
    /\ r.vdown \subseteq vdown \cup Withholding(withheld)
    /\ \A c \in Codes : \A m \in DOMAIN r.withheld[c] :
          /\ ~(r.withheld[c][m].owner \in Owners /\ r.withheld[c][m].owner <= n)
          /\ \E k \in DOMAIN withheld[c] : r.withheld[c][m] = withheld[c][k]

\* What the registry holds only shrinks.
LEMMA WithholdingShrinks ==
    ASSUME NEW reg \in Registries, NEW left \in Registries,
           \A c \in Codes : \A m \in DOMAIN left[c] :
              \E k \in DOMAIN reg[c] : left[c][m] = reg[c][k]
    PROVE  Withholding(left) \subseteq Withholding(reg)
<1>1. SUFFICES ASSUME NEW c \in Codes, left[c] # <<>> PROVE reg[c] # <<>>
  BY DEF Withholding
<1>2. left[c] \in Seq(Entries) /\ reg[c] \in Seq(Entries)
  BY DEF Registries
<1>3. 1 \in DOMAIN left[c]
  <2>1. Len(left[c]) # 0 /\ Len(left[c]) \in Nat
    BY <1>1, <1>2
  <2> QED
    BY <1>2, <2>1
<1>4. PICK k \in DOMAIN reg[c] : left[c][1] = reg[c][k]
  BY <1>3
<1> QED
  BY <1>2, <1>4

\* One turn of the loop over the indices.
LEMMA OneFlush ==
    ASSUME withheld \in Registries, NEW r, NEW n \in Nat \ {0}, Flushed(r, n - 1),
           NEW s, s = IF n \notin Owners THEN r
                      ELSE [withheld |-> Unclaimed(r.withheld, {n}),
                            vdown |-> EmitClaimed(r.vdown, Claimed(r.withheld, n), Codes)]
    PROVE  Flushed(s, n)
<1>1. PICK reg \in Registries : reg = r.withheld
  BY DEF Flushed
<1>2. \A c \in Codes : \A m \in DOMAIN reg[c] :
         /\ ~(reg[c][m].owner \in Owners /\ reg[c][m].owner <= n - 1)
         /\ \E k \in DOMAIN withheld[c] : reg[c][m] = withheld[c][k]
  BY <1>1 DEF Flushed
<1>3. r.vdown \subseteq vdown \cup Withholding(withheld)
  BY DEF Flushed
<1>4. \A c \in Codes : \A m \in DOMAIN reg[c] : reg[c][m].owner \in Nat
  <2>1. ASSUME NEW c \in Codes, NEW m \in DOMAIN reg[c] PROVE reg[c][m].owner \in Nat
    <3>1. reg[c] \in Seq(Entries)
      BY DEF Registries
    <3>2. reg[c][m] \in Entries
      BY <3>1
    <3> QED
      BY <3>2 DEF Entries
  <2> QED
    BY <2>1
<1>5. \A o \in Nat : o <= n => o <= n - 1 \/ o = n
  BY SMT
<1>6. CASE n \notin Owners
  <2>1. \A c \in Codes : \A m \in DOMAIN reg[c] :
           ~(reg[c][m].owner \in Owners /\ reg[c][m].owner <= n)
    BY <1>2, <1>4, <1>5, <1>6
  <2>2. \A c \in Codes : \A m \in DOMAIN reg[c] :
           /\ ~(reg[c][m].owner \in Owners /\ reg[c][m].owner <= n)
           /\ \E k \in DOMAIN withheld[c] : reg[c][m] = withheld[c][k]
    BY <1>2, <2>1
  <2>3. \A c \in Codes : \A m \in DOMAIN r.withheld[c] :
           /\ ~(r.withheld[c][m].owner \in Owners /\ r.withheld[c][m].owner <= n)
           /\ \E k \in DOMAIN withheld[c] : r.withheld[c][m] = withheld[c][k]
    BY <1>1, <2>2, Zenon
  <2>4. Flushed(r, n)
    BY <1>1, <1>3, <2>3 DEF Flushed
  <2>5. s = r
    BY <1>6
  <2> QED
    BY <2>4, <2>5
<1>7. CASE n \in Owners
  <2> DEFINE left == Unclaimed(reg, {n})
             down == EmitClaimed(r.vdown, Claimed(reg, n), Codes)
  <2>1. s = [withheld |-> left, vdown |-> down]
    BY <1>1, <1>7
  <2>2. left \in Registries
    BY UnclaimedEntries
  <2>3. Outlast(left, reg, n)
    BY UnclaimedOwners
  <2>4. down \subseteq r.vdown \cup Withholding(reg)
    <3>1. Codes \in SUBSET Codes
      OBVIOUS
    <3> QED
      BY <3>1, EmitsWithheld
  <2>5. Withholding(reg) \subseteq Withholding(withheld)
    BY <1>2, WithholdingShrinks
  <2> HIDE DEF left, down
  <2>6. ASSUME NEW c \in Codes, NEW m \in DOMAIN left[c]
        PROVE  /\ ~(left[c][m].owner \in Owners /\ left[c][m].owner <= n)
               /\ \E k \in DOMAIN withheld[c] : left[c][m] = withheld[c][k]
    <3>1. PICK k \in DOMAIN reg[c] : left[c][m] = reg[c][k] /\ reg[c][k].owner # n
      BY <2>3 DEF Outlast
    <3> QED
      BY <1>2, <1>4, <1>5, <3>1
  <2>7. s.withheld = left /\ s.vdown = down
    BY <2>1
  <2>8. down \subseteq vdown \cup Withholding(withheld)
    BY <1>3, <2>4, <2>5
  <2>9. s.withheld \in Registries /\ s.vdown \subseteq vdown \cup Withholding(withheld)
    BY <2>2, <2>7, <2>8
  <2>10. \A c \in Codes : \A m \in DOMAIN left[c] :
            /\ ~(left[c][m].owner \in Owners /\ left[c][m].owner <= n)
            /\ \E k \in DOMAIN withheld[c] : left[c][m] = withheld[c][k]
    BY <2>6
  <2>11. \A c \in Codes : \A m \in DOMAIN s.withheld[c] :
            /\ ~(s.withheld[c][m].owner \in Owners /\ s.withheld[c][m].owner <= n)
            /\ \E k \in DOMAIN withheld[c] : s.withheld[c][m] = withheld[c][k]
    BY <2>7, <2>10, Zenon
  <2> QED
    BY <2>9, <2>11 DEF Flushed
<1> QED
  BY <1>6, <1>7

\* FlushAll runs that loop over all indices.
LEMMA FlushSteps ==
    ASSUME withheld \in Registries, vdown \subseteq Nat, NEW N \in Nat,
           N = Max({Len(appMacros[app]) : app \in Apps})
    PROVE  Flushed(FlushAll, N)
<1> DEFINE U == {r \in [withheld : Registries, vdown : SUBSET Nat] :
                    r.vdown \subseteq vdown \cup Withholding(withheld)
                    /\ \A c \in Codes : \A m \in DOMAIN r.withheld[c] :
                          \E k \in DOMAIN withheld[c] : r.withheld[c][m] = withheld[c][k]}
           base == [withheld |-> withheld, vdown |-> vdown]
           turn(r, n) ==
             IF n \notin Owners THEN r
             ELSE [withheld |-> Unclaimed(r.withheld, {n}),
                   vdown |-> EmitClaimed(r.vdown, Claimed(r.withheld, n), Codes)]
           step == [n \in 1 .. N |-> [r \in U |-> turn(r, n)]]
           K == CHOOSE g : g = [n \in 0 .. N |->
                    IF n = 0 THEN base ELSE turn(g[n - 1], n)]
<1>1. FlushAll = K[N]
  <2> DEFINE k(x) == CHOOSE g : g = [n \in 0 .. x |->
                        IF n = 0 THEN [withheld |-> withheld, vdown |-> vdown]
                        ELSE IF n \notin Owners THEN g[n - 1]
                        ELSE [withheld |-> Unclaimed(g[n - 1].withheld, {n}),
                              vdown |-> EmitClaimed(g[n - 1].vdown,
                                          Claimed(g[n - 1].withheld, n), Codes)]]
  <2>1. FlushAll = k(Max({Len(appMacros[app]) : app \in Apps}))
                      [Max({Len(appMacros[app]) : app \in Apps})]
    BY DEF FlushAll
  <2>2. FlushAll = k(N)[N]
    <3> HIDE DEF k
    <3> QED
      BY <2>1
  <2>3. k(N) = K
    OBVIOUS
  <2> HIDE DEF k, K
  <2> QED
    BY <2>2, <2>3
<1>2. Withholding(withheld) \subseteq Nat
  BY CodesAreNumbers DEF Withholding
<1>3. base \in U
  BY DEF Registries
<1>4. ASSUME NEW r \in U, NEW n \in 1 .. N PROVE turn(r, n) \in U
  <2>1. CASE n \notin Owners
    BY <2>1
  <2>2. CASE n \in Owners
    <3> DEFINE left == Unclaimed(r.withheld, {n})
               down == EmitClaimed(r.vdown, Claimed(r.withheld, n), Codes)
    <3>1. /\ r.withheld \in Registries /\ r.vdown \subseteq vdown \cup Withholding(withheld)
          /\ \A c \in Codes : \A m \in DOMAIN r.withheld[c] :
                \E k \in DOMAIN withheld[c] : r.withheld[c][m] = withheld[c][k]
      OBVIOUS
    <3>2. left \in Registries
      BY <3>1, UnclaimedEntries
    <3>3. Outlast(left, r.withheld, n)
      BY <3>1, UnclaimedOwners
    <3>4. down \subseteq r.vdown \cup Withholding(r.withheld)
      <4>1. Codes \in SUBSET Codes
        OBVIOUS
      <4> QED
        BY <3>1, <4>1, EmitsWithheld
    <3>5. Withholding(r.withheld) \subseteq Withholding(withheld)
      BY <3>1, WithholdingShrinks
    <3>6. turn(r, n) = [withheld |-> left, vdown |-> down]
      BY <2>2
    <3> HIDE DEF left, down, turn
    <3>7. \A c \in Codes : \A m \in DOMAIN left[c] :
             \E k \in DOMAIN withheld[c] : left[c][m] = withheld[c][k]
      BY <3>1, <3>3 DEF Outlast
    <3>8. down \subseteq vdown \cup Withholding(withheld)
      BY <3>1, <3>4, <3>5
    <3>9. down \in SUBSET Nat
      BY <3>8, <1>2
    <3>10. [withheld |-> left, vdown |-> down] \in U
      BY <3>2, <3>7, <3>8, <3>9
    <3> HIDE DEF U
    <3> QED
      BY <3>6, <3>10
  <2> QED
    BY <2>1, <2>2
<1>5. step \in [1 .. N -> [U -> U]]
  <2> HIDE DEF U, turn
  <2> QED
    BY <1>4
<1>6. PICK f : Run(f, N, U, base, step)
  <2> HIDE DEF step, U, base
  <2> QED
    BY <1>3, <1>5, Recursion
<1>7. /\ f \in [0 .. N -> U] /\ f[0] = base
      /\ \A n \in 1 .. N : f[n] = step[n][f[n - 1]]
  BY <1>6 DEF Run
<1>8. \A n \in 1 .. N : n - 1 \in 0 .. N /\ n \in 0 .. N /\ n # 0 /\ n \in Nat
  BY SMT
<1>9. \A n \in 1 .. N : f[n] = turn(f[n - 1], n)
  <2> HIDE DEF U, turn
  <2> QED
    BY <1>7, <1>8
<1>10. f = [n \in 0 .. N |-> IF n = 0 THEN base ELSE turn(f[n - 1], n)]
  <2> HIDE DEF U, turn, base, step
  <2>1. ASSUME NEW n \in 0 .. N
        PROVE  f[n] = IF n = 0 THEN base ELSE turn(f[n - 1], n)
    <3>1. CASE n = 0
      BY <3>1, <1>7
    <3>2. CASE n # 0
      <4>1. n \in 1 .. N
        BY <3>2, SMT
      <4> QED
        BY <4>1, <3>2, <1>9
    <3> QED
      BY <3>1, <3>2
  <2> QED
    BY <1>7, <2>1
<1>11. K = [n \in 0 .. N |-> IF n = 0 THEN base ELSE turn(K[n - 1], n)]
  <2> HIDE DEF U, turn, base, step
  <2> QED
    BY <1>10
<1> HIDE DEF K, step, U
<1>12. K[0] = base
  BY <1>11
<1>13. \A n \in 1 .. N : K[n] = turn(K[n - 1], n)
  <2> HIDE DEF turn, base
  <2> QED
    BY <1>8, <1>11
<1> DEFINE S == {n \in 0 .. N : Flushed(K[n], n)}
<1>14. 0 \in S
  <2>1. base.withheld = withheld /\ base.vdown = vdown
    OBVIOUS
  <2>2. \A c \in Codes : \A m \in DOMAIN withheld[c] : ~(withheld[c][m].owner <= 0)
    <3>1. ASSUME NEW c \in Codes, NEW m \in DOMAIN withheld[c]
          PROVE  ~(withheld[c][m].owner <= 0)
      <4>1. withheld[c] \in Seq(Entries)
        BY DEF Registries
      <4>2. withheld[c][m] \in Entries
        BY <4>1
      <4>3. withheld[c][m].owner \in Nat \ {0}
        BY <4>2 DEF Entries
      <4> QED
        BY <4>3
    <3> QED
      BY <3>1
  <2> HIDE DEF base
  <2>3. Flushed(base, 0)
    BY <2>1, <2>2 DEF Flushed
  <2>4. 0 \in 0 .. N
    BY SMT
  <2> QED
    BY <1>12, <2>3, <2>4
<1>15. ASSUME NEW n \in 1 .. N, n - 1 \in S PROVE n \in S
  <2>1. PICK r : r = K[n - 1]
    OBVIOUS
  <2>2. PICK s : s = K[n]
    OBVIOUS
  <2>3. Flushed(r, n - 1) /\ n \in Nat \ {0} /\ n \in 0 .. N
    BY <1>8, <1>15, <2>1
  <2>4. s = turn(r, n)
    <3> HIDE DEF turn
    <3> QED
      BY <1>13, <2>1, <2>2
  <2>5. Flushed(s, n)
    BY <2>3, <2>4, OneFlush
  <2> QED
    BY <2>2, <2>3, <2>5
<1>16. 0 .. N \subseteq S
  <2> HIDE DEF S
  <2> QED
    BY <1>14, <1>15, UpTo
<1>17. N \in 0 .. N
  BY SMT
<1> QED
  BY <1>1, <1>16, <1>17

-----------------------------------------------------------------------------
(* The queues of the devices                                               *)

Devices == {"keyboard", "mouse"}
Typists == {"paste", "loop"}
HwEvents == [code : Keys, value : 0 .. 2, sync : BOOLEAN]

\* An event that is taken leaves the others.
LEMMA Removed ==
    ASSUME NEW s \in Seq(HwEvents), NEW i \in DOMAIN s
    PROVE  /\ RemoveAt(s, i) \in Seq(HwEvents)
           /\ \A n \in DOMAIN RemoveAt(s, i) : \E m \in DOMAIN s : RemoveAt(s, i)[n] = s[m]
<1> DEFINE front == SubSeq(s, 1, i - 1)
           rest == SubSeq(s, i + 1, Len(s))
<1>1. Len(s) \in Nat /\ i \in 1 .. Len(s)
  OBVIOUS
<1>2. front \in Seq(HwEvents) /\ Len(front) = i - 1
      /\ \A n \in 1 .. i - 1 : front[n] = s[n] /\ n \in 1 .. Len(s)
  BY <1>1, SMT
<1>3. rest \in Seq(HwEvents) /\ Len(rest) = Len(s) - i
      /\ \A n \in 1 .. Len(s) - i : rest[n] = s[n + i] /\ n + i \in 1 .. Len(s)
  BY <1>1, SMT
<1>4. RemoveAt(s, i) = front \o rest
  BY DEF RemoveAt
<1> HIDE DEF front, rest
<1> DEFINE q == front \o rest
<1>5. q \in Seq(HwEvents) /\ Len(q) = Len(s) - 1
  BY <1>1, <1>2, <1>3
<1>6. \A n \in 1 .. Len(q) : q[n] = IF n <= Len(front) THEN front[n] ELSE rest[n - Len(front)]
  BY <1>2, <1>3
<1> HIDE DEF q
<1>7. ASSUME NEW n \in 1 .. Len(q) PROVE \E m \in 1 .. Len(s) : q[n] = s[m]
  <2>1. CASE n <= i - 1
    <3>1. n \in 1 .. i - 1
      BY <1>1, <1>5, <2>1, SMT
    <3> QED
      BY <1>2, <1>6, <3>1
  <2>2. CASE ~(n <= i - 1)
    <3>1. n - (i - 1) \in 1 .. Len(s) - i
      BY <1>1, <1>5, <2>2, SMT
    <3>2. q[n] = rest[n - (i - 1)]
      BY <1>2, <1>6, <2>2
    <3> QED
      BY <1>3, <3>1, <3>2
  <2> QED
    BY <2>1, <2>2
<1>8. q = RemoveAt(s, i) /\ DOMAIN q = 1 .. Len(q) /\ DOMAIN s = 1 .. Len(s)
  BY <1>4, <1>5 DEF q
<1> QED
  BY <1>5, <1>7, <1>8

\* A resynchronisation puts its events before the others.
LEMMA Resynchronised ==
    ASSUME NEW q \in Seq(HwEvents), NEW C, C \subseteq Keys, NEW k \in Nat,
           NEW s \in [1 .. k -> C]
    PROVE  SyncEvents(s) \o q \in Seq(HwEvents)
<1> DEFINE t == SyncEvents(s)
<1>1. t = [i \in 1 .. k |-> [code |-> s[i], value |-> IF s[i] \in hw THEN 1 ELSE 0,
                             sync |-> TRUE]]
  BY DEF SyncEvents
<1>2. \A i \in 1 .. k : t[i] \in HwEvents
  BY <1>1 DEF HwEvents
<1>3. t \in Seq(HwEvents)
  <2>1. t = [i \in 1 .. k |-> t[i]]
    BY <1>1
  <2> HIDE DEF t
  <2> QED
    BY <1>2, <2>1
<1> HIDE DEF t
<1>4. t \o q \in Seq(HwEvents)
  BY <1>3
<1> QED
  BY <1>4 DEF t

\* What arrives is appended, or the queue is cleared of the keyboard's events.
LEMMA Arrived ==
    ASSUME queue \in Seq(HwEvents), dropped \subseteq Devices, NEW c \in Keys, NEW v \in 0 .. 2,
           Arrive(c, v)
    PROVE  /\ queue' \in Seq(HwEvents) /\ dropped' \subseteq Devices
           /\ \A n \in DOMAIN queue' :
                 \/ ~queue'[n].sync
                 \/ \E m \in DOMAIN queue : queue'[n] = queue[m]
<1>1. CASE queue' = queue /\ dropped' = dropped
  BY <1>1
<1>2. CASE queue' = Append(queue, HwEvent(c, v)) /\ dropped' = dropped
  <2> DEFINE x == HwEvent(c, v)
  <2>1. x \in HwEvents /\ ~x.sync
    BY DEF HwEvent, HwEvents
  <2> HIDE DEF x
  <2>2. queue' = Append(queue, x)
    BY <1>2 DEF x
  <2>3. queue' \in Seq(HwEvents)
    BY <2>1, <2>2
  <2>4. ASSUME NEW n \in DOMAIN queue'
        PROVE  ~queue'[n].sync \/ \E m \in DOMAIN queue : queue'[n] = queue[m]
    <3>1. n \in 1 .. Len(queue) + 1 /\ Len(queue) \in Nat
      BY <2>1, <2>2
    <3>2. CASE n = Len(queue) + 1
      <4>1. queue'[n] = x
        BY <2>1, <2>2, <3>2
      <4> QED
        BY <2>1, <4>1
    <3>3. CASE n # Len(queue) + 1
      <4>1. n \in 1 .. Len(queue)
        BY <3>1, <3>3, SMT
      <4>2. queue'[n] = queue[n] /\ n \in DOMAIN queue
        BY <2>1, <2>2, <4>1
      <4> QED
        BY <4>2
    <3> QED
      BY <3>2, <3>3
  <2> QED
    BY <1>2, <2>3, <2>4
<1>3. CASE queue' = Kept(queue, DOMAIN queue \ Pending(Device(c)))
           /\ dropped' = dropped \cup {Device(c)}
  <2> DEFINE I == DOMAIN queue \ Pending(Device(c))
  <2>1. queue' = Kept(queue, I)
    BY <1>3
  <2> HIDE DEF I
  <2>2. Kept(queue, I) \in Seq(HwEvents)
        /\ \A m \in DOMAIN Kept(queue, I) :
              \E i \in DOMAIN queue \cap I : Kept(queue, I)[m] = queue[i]
    BY KeptElements
  <2>3. \A m \in DOMAIN queue' : \E i \in DOMAIN queue : queue'[m] = queue[i]
    BY <2>1, <2>2
  <2>4. dropped' \subseteq Devices
    BY <1>3 DEF Device, Devices
  <2> QED
    BY <2>1, <2>2, <2>3, <2>4
<1> QED
  BY <1>1, <1>2, <1>3 DEF Arrive

-----------------------------------------------------------------------------
(* The types, part by part                                                 *)

\* The progress of the combos of an application: none yet, or the steps taken.
Progresses(ms) ==
    {<<>>} \cup {f \in [Visited(ms) -> Nat] :
                    \A i \in Visited(ms) : f[i] < Len(ms[i].trigger)}

DeviceType ==
    /\ session \in Sessions /\ hw \in session.chords /\ rep \in Keys \cup {NoKey}
    /\ queue \in Seq(HwEvents) /\ dropped \subseteq Devices /\ lib \subseteq Keys

ThreadType ==
    /\ pc \in {"idle", "check", "grab", "macros", "final"}
    /\ IF pc = "idle" THEN cur = NoEvent ELSE cur \in Events
    /\ curApp \in Apps

LoopType == loopPc \in {"idle", "release", "grab", "simulate"} /\ activeApp \in Apps

ConfigType ==
    /\ appMacros \in [Apps -> Seq(KeyActions)] /\ updates \in Nat
    /\ saved \in DocumentsOf(KeyActions)

ComboType ==
    /\ combos = [app \in Apps |-> combos[app]]
    /\ \A app \in Apps : combos[app] \in Progresses(appMacros[app])
    /\ withheld \in Registries /\ vdown \in SUBSET Nat

ModeType ==
    /\ running \in BOOLEAN /\ grabbed \in BOOLEAN /\ abandoned \in BOOLEAN
    /\ pressedKeys \subseteq Codes
    /\ numLock \in BOOLEAN /\ gToggle \in 1 .. 5 /\ scrollCount \in 0 .. 2
    /\ pastes \in 0 .. MaxPastes /\ typing \in [Typists -> KeySequences]

Types == DeviceType /\ ThreadType /\ LoopType /\ ConfigType /\ ComboType /\ ModeType

LEMMA EmptyFunction == ASSUME NEW f, f = [i \in {} |-> 0] PROVE f = <<>>
OBVIOUS

\* The empty progress is one, and so is that of an application never visited.
LEMMA ProgressType ==
    ASSUME Types, NEW app \in Apps
    PROVE  /\ DOMAIN combos[app] \subseteq Visited(appMacros[app])
           /\ Progress(app) \in [Visited(appMacros[app]) -> Nat]
           /\ \A i \in Visited(appMacros[app]) :
                 /\ Progress(app)[i] < Len(appMacros[app][i].trigger)
                 /\ combos[app] = <<>> => Progress(app)[i] = 0
           /\ combos[app] # <<>> => combos[app] = Progress(app)
                                    /\ DOMAIN combos[app] = Visited(appMacros[app])
           /\ \A i \in DOMAIN combos[app] : combos[app][i] = Progress(app)[i]
<1> DEFINE ms == appMacros[app]
<1>1. ms \in Seq(KeyActions) /\ combos[app] \in Progresses(ms)
  BY DEF Types, ConfigType, ComboType
<1>2. \A i \in Visited(ms) : 0 < Len(ms[i].trigger)
  <2> HIDE DEF ms
  <2>1. ASSUME NEW i \in Visited(ms) PROVE 0 < Len(ms[i].trigger)
    <3>1. Len(ms[i].trigger) \in Nat \ {0}
      BY <1>1, VisitedTriggers
    <3> QED
      BY <3>1
  <2> QED
    BY <2>1
<1> HIDE DEF ms
<1>3. CASE combos[app] = <<>>
  <2>1. DOMAIN combos[app] = {}
    BY <1>3
  <2>2. Progress(app) = [i \in Visited(ms) |-> 0]
    BY <1>3 DEF Progress, ms
  <2> QED
    BY <1>2, <1>3, <2>1, <2>2 DEF ms
<1>4. CASE combos[app] # <<>>
  <2>1. Progress(app) = combos[app]
    BY <1>4 DEF Progress
  <2>2. combos[app] \in [Visited(ms) -> Nat]
        /\ \A i \in Visited(ms) : combos[app][i] < Len(ms[i].trigger)
    BY <1>1, <1>4 DEF Progresses
  <2> QED
    BY <1>4, <2>1, <2>2 DEF ms
<1> QED
  BY <1>3, <1>4

LEMMA AccType ==
    ASSUME Types, NEW app \in Apps
    PROVE  Acc(app) \in Accs(appMacros[app])
<1>1. Progress(app) \in [Visited(appMacros[app]) -> Nat]
      /\ \A i \in Visited(appMacros[app]) : Progress(app)[i] < Len(appMacros[app][i].trigger)
  BY ProgressType
<1>2. withheld \in Registries /\ vdown \in SUBSET Nat /\ pastes \in Nat
  BY ConstantsAssumption DEF Types, ComboType, ModeType
<1> DEFINE a == Acc(app)
<1>3. a = [next |-> Progress(app), withheld |-> withheld, vdown |-> vdown,
           pastes |-> pastes, matched |-> FALSE]
  BY DEF Acc
<1> HIDE DEF a
<1>4. a \in [next : [Visited(appMacros[app]) -> Nat], withheld : Registries,
             vdown : SUBSET Nat, pastes : Nat, matched : BOOLEAN]
      /\ a.next = Progress(app)
  BY <1>1, <1>2, <1>3
<1>5. a \in Accs(appMacros[app])
  BY <1>1, <1>4 DEF Accs
<1> QED
  BY <1>5 DEF a

\* The parts say what TypeOK says.
LEMMA TypesOK == Types => TypeOK
<1>1. SUFFICES ASSUME Types PROVE TypeOK
  OBVIOUS
<1>2. /\ running \in BOOLEAN /\ grabbed \in BOOLEAN
      /\ hw \in session.chords /\ rep \in Keys \cup {NoKey}
      /\ dropped \subseteq {"keyboard", "mouse"} /\ lib \subseteq Keys
      /\ pc \in {"idle", "check", "grab", "macros", "final"}
      /\ loopPc \in {"idle", "release", "grab", "simulate"}
      /\ curApp \in Apps /\ activeApp \in Apps
      /\ pressedKeys \subseteq Codes
      /\ numLock \in BOOLEAN /\ gToggle \in 1 .. 5 /\ scrollCount \in 0 .. 2
      /\ pastes \in 0 .. MaxPastes
      /\ typing \in [{"paste", "loop"} -> KeySequences]
  BY <1>1 DEF Types, DeviceType, ThreadType, LoopType, ModeType, Devices, Typists
<1>3. queue \in Seq(Event)
  <2>1. HwEvents \subseteq Event
    BY DEF HwEvents, Event, Codes
  <2>2. queue \in Seq(HwEvents)
    BY <1>1 DEF Types, DeviceType
  <2> HIDE DEF HwEvents
  <2> QED
    BY <2>1, <2>2
<1>4. cur \in Event
  <2>1. NoEvent \in Event
    BY DEF NoEvent, Event
  <2>2. Events \subseteq Event
    BY DEF Events, Event
  <2>3. cur = NoEvent \/ cur \in Events
    BY <1>1 DEF Types, ThreadType
  <2> QED
    BY <2>1, <2>2, <2>3
<1>5. \A app \in Apps : combos[app] \in {<<>>} \cup [Visited(appMacros[app]) -> Nat]
  BY <1>1 DEF Types, ComboType, Progresses
<1>6. \A app \in Apps : \A i \in DOMAIN combos[app] :
         combos[app][i] < Len(appMacros[app][i].trigger)
  BY <1>1, ProgressType
<1>7. \A c \in Codes : withheld[c] \in Seq([value : 0 .. 2, owner : Nat \ {0}])
  BY <1>1 DEF Types, ComboType, Registries, Entries
<1> QED
  BY <1>2, <1>3, <1>4, <1>5, <1>6, <1>7 DEF TypeOK

\* The combos reset.
LEMMA ResetType ==
    ASSUME Types
    PROVE  /\ ResetCombos = [app \in Apps |-> ResetCombos[app]]
           /\ \A app \in Apps : ResetCombos[app] \in Progresses(appMacros[app])
           /\ \A app \in Apps : \A i \in DOMAIN ResetCombos[app] : ResetCombos[app][i] = 0
<1>1. ResetCombos = [app \in Apps |-> [i \in DOMAIN combos[app] |-> 0]]
  BY DEF ResetCombos
<1>2. ASSUME NEW app \in Apps PROVE ResetCombos[app] \in Progresses(appMacros[app])
  <2>1. ResetCombos[app] = [i \in DOMAIN combos[app] |-> 0]
    BY <1>1
  <2>2. CASE combos[app] = <<>>
    <3>1. DOMAIN combos[app] = {}
      BY <2>2
    <3>2. ResetCombos[app] = [i \in {} |-> 0]
      BY <2>1, <3>1
    <3>3. ResetCombos[app] = <<>>
      <4> DEFINE f == ResetCombos[app]
      <4> HIDE DEF f
      <4>1. f = <<>>
        BY <3>2, EmptyFunction DEF f
      <4> QED
        BY <4>1 DEF f
    <3> QED
      BY <3>3 DEF Progresses
  <2>3. CASE combos[app] # <<>>
    <3> DEFINE ms == appMacros[app]
    <3>1. DOMAIN combos[app] = Visited(ms) /\ ms \in Seq(KeyActions)
      BY <2>3, ProgressType DEF Types, ConfigType
    <3> HIDE DEF ms
    <3>2. ASSUME NEW i \in Visited(ms) PROVE 0 < Len(ms[i].trigger)
      <4>1. Len(ms[i].trigger) \in Nat \ {0}
        BY <3>1, VisitedTriggers
      <4> QED
        BY <4>1
    <3>3. ResetCombos[app] \in Progresses(ms)
      BY <2>1, <3>1, <3>2 DEF Progresses
    <3> QED
      BY <3>3 DEF ms
  <2> QED
    BY <2>2, <2>3
<1> QED
  BY <1>1, <1>2

\* No combo at all.
LEMMA NoProgressType ==
    /\ NoProgress = [app \in Apps |-> NoProgress[app]]
    /\ \A app \in Apps : NoProgress[app] = <<>> /\ DOMAIN NoProgress[app] = {}
    /\ \A app \in Apps : \A ms : NoProgress[app] \in Progresses(ms)
BY DEF NoProgress, Progresses

\* releaseAllPressedKeys keeps the types.
LEMMA ReleaseType ==
    ASSUME Types, NEW pressed, ReleaseAllPressedKeys(pressed), appMacros' = appMacros
    PROVE  ComboType' /\ pressedKeys' = {}
<1>1. /\ combos' = ResetCombos /\ withheld' = Unclaimed(withheld, Owners)
      /\ vdown' = vdown \ pressed /\ pressedKeys' = {}
  BY DEF ReleaseAllPressedKeys
<1>2. withheld \in Registries /\ vdown \in SUBSET Nat
  BY DEF Types, ComboType
<1>3. withheld' \in Registries
  <2>1. Unclaimed(withheld, Owners) \in Registries
    BY <1>2, UnclaimedEntries
  <2> QED
    BY <1>1, <2>1
<1>4. combos' = [app \in Apps |-> combos'[app]]
      /\ \A app \in Apps : combos'[app] \in Progresses(appMacros'[app])
  <2>1. /\ ResetCombos = [app \in Apps |-> ResetCombos[app]]
        /\ \A app \in Apps : ResetCombos[app] \in Progresses(appMacros[app])
    BY ResetType
  <2> QED
    BY <1>1, <2>1, Zenon
<1> QED
  BY <1>1, <1>2, <1>3, <1>4 DEF ComboType

\* A step that leaves the variables of a part alone keeps its types.
LEMMA SameDevice == ASSUME DeviceType, UNCHANGED <<hwVars, lib>> PROVE DeviceType'
BY DEF DeviceType, hwVars

LEMMA SameThread == ASSUME ThreadType, UNCHANGED threadVars PROVE ThreadType'
BY DEF ThreadType, threadVars

LEMMA SameLoop == ASSUME LoopType, UNCHANGED <<loopPc, activeApp>> PROVE LoopType'
BY DEF LoopType

LEMMA SameConfig == ASSUME ConfigType, UNCHANGED configVars PROVE ConfigType'
BY DEF ConfigType, configVars

LEMMA SameCombos ==
    ASSUME ComboType, UNCHANGED <<combos, withheld, vdown, appMacros>>
    PROVE  ComboType'
BY DEF ComboType

\* The virtual device alone.
LEMMA OnlyDown ==
    ASSUME ComboType, UNCHANGED <<combos, withheld, appMacros>>, vdown' \in SUBSET Nat
    PROVE  ComboType'
BY DEF ComboType

LEMMA SameMode ==
    ASSUME ModeType,
           UNCHANGED <<running, grabbed, pressedKeys, modeVars, pastes, typing,
                       abandoned>>
    PROVE  ModeType'
BY DEF ModeType, modeVars

\* A key that is tracked is the code of an event.
LEMMA TrackType ==
    ASSUME NEW pressed, pressed \subseteq Codes, NEW e \in Events
    PROVE  Track(pressed, e) \subseteq Codes
BY DEF Track, Events

\* An event that is taken.
LEMMA TakeType ==
    ASSUME Types, NEW i \in Readable, Take(i)
    PROVE  /\ cur' = queue[i] /\ cur' \in Events /\ cur' \in HwEvents
           /\ i \in DOMAIN queue /\ DeviceType' /\ curApp' \in Apps
           /\ LoopType' /\ ConfigType'
<1>1. i \in DOMAIN queue /\ queue \in Seq(HwEvents)
  BY DEF Readable, Types, DeviceType
<1>2. PICK e \in HwEvents : e = queue[i]
  BY <1>1
<1>3. e \in Events
  BY DEF HwEvents, Events, Codes
<1>4. queue' \in Seq(HwEvents) /\ cur' = e
  BY <1>1, <1>2, Removed DEF Take
<1>5. lib' \subseteq Keys
  <2>1. lib' = LibAfter(e)
    BY <1>2 DEF Take
  <2> QED
    BY <2>1 DEF LibAfter, HwEvents, Types, DeviceType
<1>6. DeviceType'
  BY <1>4, <1>5 DEF Take, Types, DeviceType
<1>7. curApp' \in Apps /\ LoopType' /\ ConfigType'
  BY SameLoop, SameConfig DEF Take, Types, ThreadType, LoopType
<1> QED
  BY <1>1, <1>2, <1>3, <1>4, <1>6, <1>7

\* The session names subsets of the keys, documents and sequences.
LEMMA SessionType ==
    ASSUME Types
    PROVE  /\ session.chords \subseteq SUBSET Keys /\ hw \subseteq Keys
           /\ session.files \subseteq DocumentsOf(KeyActions)
           /\ session.simulated \subseteq KeySequences
<1>1. session \in Sessions /\ hw \in session.chords
  BY DEF Types, DeviceType
<1>2. /\ session.chords \subseteq SUBSET Keys
      /\ session.files \subseteq Documents /\ session.simulated \subseteq KeySequences
  BY <1>1, ConstantsAssumption
<1>3. Documents \subseteq DocumentsOf(KeyActions)
  <2>1. ASSUME NEW j \in Documents PROVE j \in DocumentsOf(KeyActions)
    BY DocumentTypes DEF DocumentsOf
  <2> QED
    BY <2>1
<1> QED
  BY <1>1, <1>2, <1>3

\* The macros of a document are macros.
LEMMA ReplaceType ==
    ASSUME Types, NEW j \in DocumentsOf(KeyActions), ReplaceMacros(j)
    PROVE  /\ appMacros' \in [Apps -> Seq(KeyActions)] /\ updates' \in Nat
           /\ ComboType'
<1>1. appMacros' \in [Apps -> Seq(KeyActions)]
  <2>1. SetMacrosFromJsonInternal(appMacros, j) \in [Apps -> Seq(KeyActions)]
    BY ReplacedMacros DEF Types, ConfigType
  <2> QED
    BY <2>1 DEF ReplaceMacros
<1>2. updates' \in Nat
  BY DEF ReplaceMacros, Types, ConfigType
<1>3. combos' = NoProgress /\ withheld' = withheld /\ vdown' = vdown
  BY DEF ReplaceMacros
<1>4. combos' = [app \in Apps |-> combos'[app]]
      /\ \A app \in Apps : combos'[app] \in Progresses(appMacros'[app])
  BY <1>3, NoProgressType, Zenon
<1> QED
  BY <1>1, <1>2, <1>3, <1>4 DEF Types, ComboType

\* Executing macros keeps the types.
LEMMA MacrosType ==
    ASSUME Types, NEW T, StageMacros(T), pc # "idle"
    PROVE  /\ RunCombos(T) \in Accs(appMacros[curApp])
           /\ ComboType' /\ pastes' \in 0 .. MaxPastes
<1> DEFINE r == RunCombos(T)
           ms == appMacros[curApp]
<1>1. curApp \in Apps /\ ms \in Seq(KeyActions) /\ cur \in Events
      /\ Acc(curApp) \in Accs(ms)
  BY AccType DEF Types, ThreadType, ConfigType
<1>2. \E f : Turns(f, ms, cur) /\ f[Len(ms)] = r
  <2> HIDE DEF r
  <2> QED
    BY <1>1, LoopTurns DEF r
<1>3. PICK f : Turns(f, ms, cur) /\ f[Len(ms)] = r
  BY <1>2
<1>4. r \in Accs(ms)
  <2>1. Len(ms) \in 0 .. Len(ms)
    <3>1. Len(ms) \in Nat
      BY <1>1
    <3> QED
      BY <3>1, SMT
  <2> HIDE DEF r, ms
  <2> QED
    BY <1>3, <2>1 DEF Turns
<1>5. /\ combos' = [combos EXCEPT ![curApp] = r.next] /\ withheld' = r.withheld
      /\ vdown' = r.vdown /\ pastes' = r.pastes /\ r.pastes <= MaxPastes
      /\ appMacros' = appMacros
  BY DEF StageMacros, configVars
<1>6. /\ r.next \in [Visited(ms) -> Nat]
      /\ \A i \in Visited(ms) : r.next[i] < Len(ms[i].trigger)
      /\ r.withheld \in Registries /\ r.vdown \in SUBSET Nat /\ r.pastes \in Nat
  <2> HIDE DEF r, ms
  <2> QED
    BY <1>4 DEF Accs
<1>7. r.next \in Progresses(ms)
  <2> HIDE DEF r, ms
  <2> QED
    BY <1>6 DEF Progresses
<1> HIDE DEF r
<1>8. combos' = [app \in Apps |-> combos'[app]]
      /\ \A app \in Apps : combos'[app] = IF app = curApp THEN r.next ELSE combos[app]
  <2>1. combos = [app \in Apps |-> combos[app]]
    BY DEF Types, ComboType
  <2> QED
    BY <1>1, <1>5, <2>1
<1>9. \A app \in Apps : combos'[app] \in Progresses(appMacros'[app])
  <2>1. ASSUME NEW app \in Apps PROVE combos'[app] \in Progresses(appMacros[app])
    <3>1. CASE app = curApp
      BY <1>7, <1>8, <3>1
    <3>2. CASE app # curApp
      BY <1>8, <3>2 DEF Types, ComboType
    <3> QED
      BY <3>1, <3>2
  <2> QED
    BY <1>5, <2>1
<1>10. ComboType'
  BY <1>5, <1>6, <1>8, <1>9 DEF ComboType
<1>11. pastes' \in 0 .. MaxPastes
  BY <1>5, <1>6, ConstantsAssumption, SMT
<1> QED
  BY <1>4, <1>10, <1>11 DEF r

\* The longest list of macros reaches every combo.
LEMMA LastIndex ==
    ASSUME Types
    PROVE  /\ Max({Len(appMacros[app]) : app \in Apps}) \in Nat
           /\ \A o \in Owners : o \in Nat /\ o <= Max({Len(appMacros[app]) : app \in Apps})
<1> DEFINE S == {Len(appMacros[app]) : app \in Apps}
<1>1. \A app \in Apps : Len(appMacros[app]) \in Nat
                        /\ DOMAIN appMacros[app] = 1 .. Len(appMacros[app])
  <2>1. ASSUME NEW app \in Apps
        PROVE  Len(appMacros[app]) \in Nat /\ DOMAIN appMacros[app] = 1 .. Len(appMacros[app])
    <3>1. appMacros[app] \in Seq(KeyActions)
      BY DEF Types, ConfigType
    <3> QED
      BY <3>1
  <2> QED
    BY <2>1
<1>2. /\ Len(appMacros["TERMINAL"]) \in Nat /\ Len(appMacros["CODE"]) \in Nat
      /\ Len(appMacros["CHROME"]) \in Nat /\ Len(appMacros["OTHER"]) \in Nat
  BY <1>1 DEF Apps
<1>3. ASSUME NEW a \in Nat, NEW b \in Nat, NEW c \in Nat, NEW d \in Nat
      PROVE  \E n \in Nat : a <= n /\ b <= n /\ c <= n /\ d <= n
  <2> DEFINE n == a + b + c + d
  <2>1. n \in Nat /\ a <= n /\ b <= n /\ c <= n /\ d <= n
    BY SMT
  <2> QED
    BY <2>1
<1>4. PICK n \in Nat : \A app \in Apps : Len(appMacros[app]) <= n
  <2>1. \E n \in Nat : /\ Len(appMacros["TERMINAL"]) <= n /\ Len(appMacros["CODE"]) <= n
                       /\ Len(appMacros["CHROME"]) <= n /\ Len(appMacros["OTHER"]) <= n
    BY <1>2, <1>3
  <2> QED
    BY <2>1 DEF Apps
<1>5. S \subseteq 0 .. n
  <2>1. ASSUME NEW app \in Apps PROVE Len(appMacros[app]) \in 0 .. n
    BY <1>1, <1>4, SMT
  <2> QED
    BY <2>1
<1>6. S # {}
  <2>1. "OTHER" \in Apps
    BY DEF Apps
  <2> QED
    BY <2>1
<1>7. Max(S) \in S /\ \A y \in S : Max(S) >= y
  <2> HIDE DEF S
  <2> QED
    BY <1>5, <1>6, MaxIsGreatest
<1>8. PICK N \in Nat : N = Max(S)
  BY <1>5, <1>7
<1>9. \A app \in Apps : Len(appMacros[app]) <= N
  <2>1. \A app \in Apps : Len(appMacros[app]) \in S
    OBVIOUS
  <2>2. ASSUME NEW app \in Apps PROVE Len(appMacros[app]) <= N
    <3>1. Len(appMacros[app]) \in Nat /\ N >= Len(appMacros[app])
      BY <1>1, <1>7, <1>8, <2>1
    <3> QED
      BY <3>1, SMT
  <2> QED
    BY <2>2
<1>10. ASSUME NEW o \in Owners PROVE o \in Nat /\ o <= N
  <2>1. PICK app \in Apps : o \in DOMAIN combos[app]
    BY DEF Owners
  <2>2. o \in DOMAIN appMacros[app]
    BY <2>1, ProgressType DEF Visited
  <2>3. o \in 1 .. Len(appMacros[app]) /\ Len(appMacros[app]) \in Nat
        /\ Len(appMacros[app]) <= N
    BY <1>1, <1>9, <2>2
  <2> QED
    BY <2>3, SMT
<1> QED
  BY <1>8, <1>10

\* After the flush no entry has an owner that is a combo.
LEMMA FlushType ==
    ASSUME Types
    PROVE  /\ FlushAll.withheld \in Registries
           /\ FlushAll.vdown \subseteq vdown \cup Withholding(withheld)
           /\ FlushAll.vdown \in SUBSET Nat
           /\ \A c \in Codes : \A m \in DOMAIN FlushAll.withheld[c] :
                 \E k \in DOMAIN withheld[c] :
                    withheld[c][k].owner \notin Owners
<1>1. withheld \in Registries /\ vdown \subseteq Nat
  BY DEF Types, ComboType
<1>2. PICK N \in Nat : N = Max({Len(appMacros[app]) : app \in Apps})
  BY LastIndex
<1>3. \A o \in Owners : o <= N
  BY <1>2, LastIndex
<1>4. PICK r : r = FlushAll
  OBVIOUS
<1>5. Flushed(FlushAll, N)
  BY <1>1, <1>2, FlushSteps
<1>6. Flushed(r, N)
  BY <1>4, <1>5
<1>7. r.withheld \in Registries /\ r.vdown \subseteq vdown \cup Withholding(withheld)
      /\ \A c \in Codes : \A m \in DOMAIN r.withheld[c] :
          /\ ~(r.withheld[c][m].owner \in Owners /\ r.withheld[c][m].owner <= N)
          /\ \E k \in DOMAIN withheld[c] : r.withheld[c][m] = withheld[c][k]
  BY <1>6 DEF Flushed
<1>8. ASSUME NEW c \in Codes, NEW m \in DOMAIN r.withheld[c]
      PROVE  \E k \in DOMAIN withheld[c] : withheld[c][k].owner \notin Owners
  <2>1. PICK k \in DOMAIN withheld[c] : r.withheld[c][m] = withheld[c][k]
    BY <1>7
  <2>2. r.withheld[c][m].owner \notin Owners
    BY <1>3, <1>7
  <2> QED
    BY <2>1, <2>2
<1>9. Withholding(withheld) \subseteq Nat
  BY CodesAreNumbers DEF Withholding
<1>10. r.vdown \in SUBSET Nat
  BY <1>1, <1>7, <1>9
<1> QED
  BY <1>4, <1>7, <1>8, <1>10

\* The keys that changed are finitely many.
LEMMA ChangedFinite ==
    ASSUME Types, NEW d
    PROVE  Changed(d) \subseteq Keys /\ Cardinality(Changed(d)) \in Nat
<1>1. Changed(d) \subseteq Keys
  BY SessionType DEF Changed, Types, DeviceType
<1>2. IsFiniteSet(0 .. KEY_MAX)
  <2>1. 0 \in Int /\ KEY_MAX \in Int
    BY DEF KEY_MAX
  <2> QED
    BY <2>1, FS_Interval
<1>3. IsFiniteSet(Changed(d))
  <2>1. Changed(d) \subseteq 0 .. KEY_MAX
    BY <1>1, ConstantsAssumption
  <2> QED
    BY <1>2, <2>1, FS_Subset
<1> QED
  BY <1>1, <1>3, FS_CardinalityType

LEMMA ResynchroniseType ==
    ASSUME Types, Resynchronise
    PROVE  /\ queue' \in Seq(HwEvents) /\ DeviceType' /\ ComboType'
<1>1. queue \in Seq(HwEvents)
  BY DEF Types, DeviceType
<1>2. PICK d \in dropped : /\ dropped' = dropped \ {d}
                           /\ \E s \in [1 .. Cardinality(Changed(d)) -> Changed(d)] :
                                 queue' = SyncEvents(s) \o queue
  BY DEF Resynchronise
<1>3. queue' \in Seq(HwEvents)
  <2>1. PICK s \in [1 .. Cardinality(Changed(d)) -> Changed(d)] :
           queue' = SyncEvents(s) \o queue
    BY <1>2
  <2>2. PICK k \in Nat, C \in SUBSET Keys : s \in [1 .. k -> C]
    BY ChangedFinite
  <2>3. SyncEvents(s) \o queue \in Seq(HwEvents)
    BY <1>1, <2>2, Resynchronised
  <2> QED
    BY <2>1, <2>3
<1>4. DeviceType'
  BY <1>2, <1>3 DEF Resynchronise, Types, DeviceType
<1>5. /\ combos' = ResetCombos /\ withheld' = FlushAll.withheld /\ vdown' = FlushAll.vdown
      /\ appMacros' = appMacros
  BY DEF Resynchronise, configVars
<1>6. combos' = [app \in Apps |-> combos'[app]]
      /\ \A app \in Apps : combos'[app] \in Progresses(appMacros'[app])
  <2>1. /\ ResetCombos = [app \in Apps |-> ResetCombos[app]]
        /\ \A app \in Apps : ResetCombos[app] \in Progresses(appMacros[app])
    BY ResetType
  <2> QED
    BY <1>5, <2>1, Zenon
<1>7. withheld' \in Registries /\ vdown' \in SUBSET Nat
  BY <1>5, FlushType
<1> QED
  BY <1>3, <1>4, <1>6, <1>7 DEF ComboType

\* The table, no document and an empty registry have their types.
LEMMA InitialMacrosType == InitialMacros \in [Apps -> Seq(KeyActions)]
<1>1. ASSUME NEW ms \in Seq(GoodActions) PROVE ms \in Seq(KeyActions)
  <2>1. ms = [i \in 1 .. Len(ms) |-> ms[i]] /\ Len(ms) \in Nat
    OBVIOUS
  <2>2. \A i \in 1 .. Len(ms) : ms[i] \in KeyActions
    BY DEF GoodActions
  <2> QED
    BY <2>1, <2>2
<1>2. InitialMacros = [app \in Apps |-> InitialMacros[app]]
      /\ \A app \in Apps : InitialMacros[app] \in Seq(GoodActions)
  BY TableMacros
<1>3. \A app \in Apps : InitialMacros[app] \in Seq(KeyActions)
  BY <1>1, <1>2
<1> QED
  BY <1>2, <1>3

\* Nothing is typed, and a tap with Ctrl is a sequence.
LEMMA NothingTypedType == NothingTyped \in [Typists -> KeySequences]
BY DEF NothingTyped, Typists, KeySequences

LEMMA NoDocument == ASSUME NEW M PROVE <<>> \in DocumentsOf(M)
BY DEF DocumentsOf, Documents

LEMMA NothingWithheldType ==
    NothingWithheld \in Registries /\ \A c \in Codes : NothingWithheld[c] = <<>>
BY DEF NothingWithheld, Registries

\* The initial state.
LEMMA TypesInit == Init => Types
<1>1. SUFFICES ASSUME Init PROVE Types
  OBVIOUS
<1>2. DeviceType
  <2>1. hw \in session.chords /\ session \in Sessions
    BY <1>1, ConstantsAssumption DEF Init
  <2>2. /\ queue = <<>> /\ rep = NoKey /\ dropped = {} /\ lib = {}
    BY <1>1 DEF Init
  <2>3. queue \in Seq(HwEvents)
    BY <2>2
  <2> QED
    BY <2>1, <2>2, <2>3 DEF DeviceType
<1>3. ThreadType /\ LoopType
  BY <1>1 DEF Init, ThreadType, LoopType, Apps
<1>4. ConfigType
  <2>1. InitialMacros \in [Apps -> Seq(KeyActions)]
    BY InitialMacrosType
  <2>2. <<>> \in DocumentsOf(KeyActions)
    BY NoDocument
  <2> QED
    BY <1>1, <2>1, <2>2 DEF Init, ConfigType
<1>5. ComboType
  <2>1. NothingWithheld \in Registries
    BY NothingWithheldType
  <2>2. combos = NoProgress /\ withheld = NothingWithheld /\ vdown = {}
    BY <1>1 DEF Init
  <2>3. combos = [app \in Apps |-> combos[app]]
        /\ \A app \in Apps : combos[app] \in Progresses(appMacros[app])
    BY <2>2, NoProgressType, Zenon
  <2> QED
    BY <2>1, <2>2, <2>3 DEF ComboType
<1>6. ModeType
  <2>1. pastes \in 0 .. MaxPastes
    BY <1>1, ConstantsAssumption DEF Init
  <2>2. /\ running = FALSE /\ grabbed = FALSE /\ abandoned = FALSE /\ pressedKeys = {}
        /\ numLock = FALSE /\ gToggle \in 1 .. 5 /\ scrollCount \in 0 .. 2
    BY <1>1 DEF Init
  <2>3. typing \in [Typists -> KeySequences]
    BY <1>1, NothingTypedType DEF Init
  <2> QED
    BY <2>1, <2>2, <2>3 DEF ModeType
<1> QED
  BY <1>2, <1>3, <1>4, <1>5, <1>6 DEF Types

\* The stages of the input thread up to the macros.
LEMMA StagesKeepTypes ==
    ASSUME Types,
           \/ \E i \in Readable : \/ StageContext(i) \/ StageContextPause(i)
                                  \/ StageContextScrollLock(i) \/ StageContextNumLock(i)
           \/ NumLockGrab \/ SkipMonitored \/ StageGKey \/ EnterMacros
    PROVE  Types'
<1> USE DEF Types
<1>1. ASSUME NEW i \in Readable, StageContext(i) PROVE Types'
  <2>1. Take(i)
    BY <1>1 DEF StageContext
  <2>2. cur' \in Events /\ cur' = queue[i] /\ DeviceType' /\ curApp' \in Apps
        /\ LoopType' /\ ConfigType'
    BY <2>1, TakeType
  <2>3. ThreadType'
    BY <1>1, <2>2 DEF StageContext, ThreadType
  <2>4. ComboType'
    BY <1>1, <2>1, SameCombos DEF StageContext, Take, comboVars, configVars
  <2>5. pressedKeys' \subseteq Codes
    BY <1>1, <2>2, TrackType DEF StageContext, ModeType
  <2>6. ModeType'
    BY <1>1, <2>1, <2>5 DEF StageContext, Take, ModeType, modeVars
  <2> QED
    BY <2>2, <2>3, <2>4, <2>6
<1>2. ASSUME NEW i \in Readable, StageContextPause(i) PROVE Types'
  <2>1. Take(i)
    BY <1>2 DEF StageContextPause
  <2>2. cur' \in Events /\ cur' = queue[i] /\ DeviceType' /\ curApp' \in Apps
        /\ LoopType' /\ ConfigType'
    BY <2>1, TakeType
  <2>3. ThreadType'
    BY <1>2, <2>2 DEF StageContextPause, ThreadType
  <2>4. ComboType'
    BY <1>2, <2>1, SameCombos DEF StageContextPause, Take, comboVars, configVars
  <2>5. pressedKeys' \subseteq Codes
    BY <1>2, <2>2, TrackType DEF StageContextPause, ModeType
  <2>6. ModeType'
    BY <1>2, <2>1, <2>5 DEF StageContextPause, EmergencyUngrab, UngrabDevices, LeftBehind,
                            Take, ModeType, modeVars
  <2> QED
    BY <2>2, <2>3, <2>4, <2>6
<1>3. ASSUME NEW i \in Readable, StageContextScrollLock(i) PROVE Types'
  <2>1. Take(i)
    BY <1>3 DEF StageContextScrollLock
  <2>2. cur' \in Events /\ cur' = queue[i] /\ DeviceType' /\ curApp' \in Apps
        /\ LoopType' /\ ConfigType'
    BY <2>1, TakeType
  <2>3. ThreadType'
    BY <1>3, <2>2 DEF StageContextScrollLock, ThreadType
  <2>4. ComboType'
    BY <1>3, <2>1, SameCombos DEF StageContextScrollLock, Take, comboVars, configVars
  <2>5. pressedKeys' \subseteq Codes
    BY <1>3, <2>2, TrackType DEF StageContextScrollLock, ModeType
  <2>6. grabbed' \in BOOLEAN /\ abandoned' \in BOOLEAN
    <3>1. EmergencyUngrab(queue[i]) \/ UNCHANGED <<grabbed, abandoned>>
      BY <1>3 DEF StageContextScrollLock
    <3> QED
      BY <3>1 DEF EmergencyUngrab, UngrabDevices, LeftBehind, ModeType
  <2>7. scrollCount' \in 0 .. 2
    BY <1>3 DEF StageContextScrollLock
  <2>8. UNCHANGED <<running, numLock, gToggle, pastes, typing>>
    BY <1>3, <2>1 DEF StageContextScrollLock, Take
  <2>9. ModeType'
    BY <2>5, <2>6, <2>7, <2>8 DEF ModeType
  <2> QED
    BY <2>2, <2>3, <2>4, <2>9
<1>4. ASSUME NEW i \in Readable, StageContextNumLock(i) PROVE Types'
  <2>1. Take(i)
    BY <1>4 DEF StageContextNumLock
  <2>2. cur' \in Events /\ cur' = queue[i] /\ DeviceType' /\ curApp' \in Apps
        /\ LoopType' /\ ConfigType' /\ appMacros' = appMacros
    BY <2>1, TakeType DEF Take, configVars
  <2>3. ThreadType'
    BY <1>4, <2>2 DEF StageContextNumLock, ThreadType
  <2>4. CASE ReleaseAllPressedKeys(Track(pressedKeys, queue[i])) /\ UngrabDevices
             /\ abandoned' = (abandoned \/ vdown' \ Releasing # {})
    <3>1. ComboType' /\ pressedKeys' = {}
      BY <2>2, <2>4, ReleaseType
    <3>2. ModeType'
      BY <1>4, <2>1, <2>4, <3>1 DEF StageContextNumLock, UngrabDevices, Take, ModeType
    <3> QED
      BY <2>2, <2>3, <3>1, <3>2
  <2>5. CASE /\ pressedKeys' = Track(pressedKeys, queue[i])
             /\ UNCHANGED <<comboVars, vdown, grabbed, abandoned>>
    <3>1. ComboType'
      BY <2>2, <2>5, SameCombos DEF comboVars
    <3>2. pressedKeys' \subseteq Codes
      BY <2>2, <2>5, TrackType DEF ModeType
    <3>3. ModeType'
      BY <1>4, <2>1, <2>5, <3>2 DEF StageContextNumLock, Take, ModeType
    <3> QED
      BY <2>2, <2>3, <3>1, <3>3
  <2> QED
    BY <1>4, <2>4, <2>5 DEF StageContextNumLock
<1>5. ASSUME NumLockGrab PROVE Types'
  <2>1. ComboType' /\ pressedKeys' = {}
    BY <1>5, ReleaseType DEF NumLockGrab, configVars
  <2>2. ModeType'
    BY <1>5, <2>1 DEF NumLockGrab, GrabDevices, ModeType, modeVars
  <2>3. ThreadType'
    BY <1>5 DEF NumLockGrab, ThreadType
  <2>4. DeviceType' /\ LoopType' /\ ConfigType'
    BY <1>5, SameDevice, SameLoop, SameConfig DEF NumLockGrab
  <2> QED
    BY <2>1, <2>2, <2>3, <2>4
<1>6. ASSUME SkipMonitored PROVE Types'
  <2>1. ThreadType'
    BY <1>6 DEF SkipMonitored, ThreadType
  <2>2. DeviceType' /\ LoopType' /\ ConfigType' /\ ComboType'
    BY <1>6, SameDevice, SameLoop, SameConfig, SameCombos
    DEF SkipMonitored, CheckVars, comboVars, configVars
  <2>3. ModeType'
    BY <1>6, SameMode DEF SkipMonitored, CheckVars, modeVars
  <2> QED
    BY <2>1, <2>2, <2>3
<1>7. ASSUME StageGKey PROVE Types'
  <2>1. cur \in Events /\ cur.code \in KEY_1 .. KEY_6
    BY <1>7 DEF StageGKey, ThreadType, DetectGKey
  <2>2. G(cur.code - KEY_1 + 1) \in Codes
    <3>1. cur.code - KEY_1 + 1 \in 1 .. 6
      BY <2>1, SMT DEF KEY_1, KEY_6
    <3> QED
      BY <3>1 DEF Codes
  <2>3. cur' \in Events
    BY <1>7, <2>1, <2>2 DEF StageGKey, Events
  <2>4. ThreadType'
    BY <1>7, <2>3 DEF StageGKey, ThreadType
  <2>5. DeviceType' /\ LoopType' /\ ConfigType' /\ ComboType'
    BY <1>7, SameDevice, SameLoop, SameConfig, SameCombos
    DEF StageGKey, CheckVars, comboVars, configVars
  <2>6. pressedKeys' \subseteq Codes
    BY <1>7, <2>3, TrackType DEF StageGKey, ModeType
  <2>7. ModeType'
    BY <1>7, <2>6 DEF StageGKey, CheckVars, ModeType
  <2> QED
    BY <2>4, <2>5, <2>7
<1>8. ASSUME EnterMacros PROVE Types'
  <2>1. ThreadType'
    BY <1>8 DEF EnterMacros, CheckVars, ThreadType, LoopType
  <2>2. DeviceType' /\ LoopType' /\ ConfigType' /\ ComboType'
    BY <1>8, SameDevice, SameLoop, SameConfig, SameCombos
    DEF EnterMacros, CheckVars, comboVars, configVars
  <2>3. gToggle' \in 1 .. 5
    BY <1>8 DEF EnterMacros, ToggleAfter, ModeType
  <2>4. ModeType'
    BY <1>8, <2>3 DEF EnterMacros, CheckVars, ModeType
  <2> QED
    BY <2>1, <2>2, <2>4
<1> QED
  BY <1>1, <1>2, <1>3, <1>4, <1>5, <1>6, <1>7, <1>8

\* The devices.
LEMMA DevicesKeepTypes ==
    ASSUME Types, (\E c \in Keys : PressKey(c) \/ ReleaseKey(c)) \/ RepeatKey
    PROVE  Types'
<1> USE DEF Types
<1>1. queue \in Seq(HwEvents) /\ dropped \subseteq Devices
  BY DEF DeviceType
<1>2. ASSUME UNCHANGED NotTheDevices, DeviceType' PROVE Types'
  <2>1. ThreadType' /\ LoopType' /\ ConfigType' /\ ComboType' /\ ModeType'
    BY <1>2, SameThread, SameLoop, SameConfig, SameCombos, SameMode
    DEF NotTheDevices, threadVars, configVars, comboVars
  <2> QED
    BY <1>2, <2>1
<1>3. ASSUME NEW c \in Keys, PressKey(c) PROVE DeviceType'
  <2>1. queue' \in Seq(HwEvents) /\ dropped' \subseteq Devices
    BY <1>1, <1>3, Arrived DEF PressKey
  <2> QED
    BY <1>3, <2>1 DEF PressKey, NotTheDevices, DeviceType
<1>4. ASSUME NEW c \in Keys, ReleaseKey(c) PROVE DeviceType'
  <2>1. queue' \in Seq(HwEvents) /\ dropped' \subseteq Devices
    BY <1>1, <1>4, Arrived DEF ReleaseKey
  <2> QED
    BY <1>4, <2>1 DEF ReleaseKey, NotTheDevices, DeviceType
<1>5. ASSUME RepeatKey PROVE DeviceType'
  <2>1. rep \in Keys
    BY <1>5 DEF RepeatKey, DeviceType
  <2>2. queue' \in Seq(HwEvents) /\ dropped' \subseteq Devices
    BY <1>1, <1>5, <2>1, Arrived DEF RepeatKey
  <2> QED
    BY <1>5, <2>2 DEF RepeatKey, NotTheDevices, DeviceType
<1> QED
  BY <1>2, <1>3, <1>4, <1>5 DEF PressKey, ReleaseKey, RepeatKey

\* One event of what is typed leaves less to type and keys that are numbers.
LEMMA TypeKeyType ==
    ASSUME Types, NEW by \in Typists, TypeKey(by)
    PROVE  /\ typing' \in [Typists -> KeySequences] /\ ComboType' /\ ModeType'
           /\ DeviceType' /\ ThreadType' /\ ConfigType'
<1>1. typing \in [Typists -> KeySequences] /\ typing[by] \in Seq(Nat \X Int)
      /\ typing[by] # <<>>
  BY DEF Types, ModeType, KeySequences, TypeKey
<1>2. Tail(typing[by]) \in KeySequences /\ Head(typing[by]) \in Nat \X Int
  BY <1>1 DEF KeySequences
<1>3. typing' \in [Typists -> KeySequences]
  BY <1>1, <1>2 DEF TypeKey
<1>4. vdown' \in SUBSET Nat
  <2>1. vdown \in SUBSET Nat /\ Head(typing[by])[1] \in Nat
    BY <1>2 DEF Types, ComboType
  <2> QED
    BY <2>1 DEF TypeKey, Emit
<1>5. ComboType'
  BY <1>4, OnlyDown DEF TypeKey, Types, comboVars, configVars
<1>6. ModeType'
  BY <1>3 DEF TypeKey, Types, ModeType, modeVars
<1>7. DeviceType' /\ ThreadType' /\ ConfigType'
  BY SameDevice, SameThread, SameConfig DEF TypeKey, Types
<1> QED
  BY <1>3, <1>5, <1>6, <1>7

\* The macros, what follows them, and the threads that paste.
LEMMA MacrosKeepTypes ==
    ASSUME Types, (\E T : StageMacros(T)) \/ EmitFinal \/ Resynchronise \/ Paste
                  \/ PasteKey
    PROVE  Types'
<1> USE DEF Types
<1>1. ASSUME NEW T, StageMacros(T) PROVE Types'
  <2>1. ComboType' /\ pastes' \in 0 .. MaxPastes
    BY <1>1, MacrosType DEF StageMacros
  <2>2. ThreadType'
    <3>1. pc = "macros" /\ cur \in Events /\ curApp' \in Apps
      BY <1>1 DEF StageMacros, ThreadType, Apps
    <3>2. (pc' = "idle" /\ cur' = NoEvent) \/ (pc' = "final" /\ cur' = cur)
      BY <1>1 DEF StageMacros
    <3> QED
      BY <3>1, <3>2 DEF ThreadType
  <2>3. DeviceType' /\ LoopType' /\ ConfigType'
    BY <1>1, SameDevice, SameLoop, SameConfig DEF StageMacros
  <2>4. abandoned' \in BOOLEAN
    BY <1>1 DEF StageMacros
  <2>5. UNCHANGED <<running, grabbed, pressedKeys, modeVars, typing>>
    BY <1>1 DEF StageMacros
  <2>6. ModeType'
    BY <2>1, <2>4, <2>5 DEF ModeType, modeVars
  <2> QED
    BY <2>1, <2>2, <2>3, <2>6
<1>2. ASSUME EmitFinal PROVE Types'
  <2>1. ThreadType'
    BY <1>2 DEF EmitFinal, ThreadType
  <2>2. vdown' \in SUBSET Nat
    <3>1. cur \in Events /\ vdown \in SUBSET Nat
      BY <1>2 DEF EmitFinal, ThreadType, ComboType
    <3>2. cur.code \in Nat
      BY <3>1, CodesAreNumbers DEF Events
    <3>3. vdown' = Emit(vdown, cur.code, cur.value)
      BY <1>2 DEF EmitFinal
    <3> QED
      BY <3>1, <3>2, <3>3 DEF Emit
  <2>3. ComboType'
    BY <1>2, <2>2, OnlyDown DEF EmitFinal, comboVars, configVars
  <2>4. DeviceType' /\ LoopType' /\ ConfigType' /\ ModeType'
    BY <1>2, SameDevice, SameLoop, SameConfig, SameMode DEF EmitFinal
  <2> QED
    BY <2>1, <2>3, <2>4
<1>3. ASSUME Resynchronise PROVE Types'
  <2>1. DeviceType' /\ ComboType'
    BY <1>3, ResynchroniseType
  <2>2. ThreadType' /\ LoopType' /\ ConfigType'
    BY <1>3, SameThread, SameLoop, SameConfig DEF Resynchronise
  <2>3. ModeType'
    BY <1>3 DEF Resynchronise, ModeType
  <2> QED
    BY <2>1, <2>2, <2>3
<1>4. ASSUME Paste PROVE Types'
  <2>1. pastes' \in 0 .. MaxPastes
    BY <1>4, ConstantsAssumption, SMT DEF Paste, ModeType
  <2>2. typing' \in [Typists -> KeySequences]
    <3>1. CtrlTap(KEY_V) \in KeySequences
      BY CtrlTapBalanced DEF KEY_V
    <3> QED
      BY <1>4, <3>1 DEF Paste, ModeType
  <2>3. ModeType'
    BY <1>4, <2>1, <2>2 DEF Paste, ModeType, modeVars
  <2>4. DeviceType' /\ ThreadType' /\ LoopType' /\ ConfigType' /\ ComboType'
    BY <1>4, SameDevice, SameThread, SameLoop, SameConfig, SameCombos
    DEF Paste, comboVars, configVars
  <2> QED
    BY <2>3, <2>4
<1>5. ASSUME PasteKey PROVE Types'
  <2>1. DeviceType' /\ ThreadType' /\ ConfigType' /\ ComboType' /\ ModeType'
    BY <1>5, TypeKeyType DEF PasteKey, Typists
  <2>2. LoopType'
    BY <1>5, SameLoop DEF PasteKey, TypeKey
  <2> QED
    BY <2>1, <2>2
<1> QED
  BY <1>1, <1>2, <1>3, <1>4, <1>5

\* The commands of the event loop.
LEMMA CommandsKeepTypes == ASSUME Types, EventLoop PROVE Types'
<1> USE DEF Types
<1>1. ASSUME UNCHANGED NotTheLoop
      PROVE  DeviceType' /\ ThreadType'
             /\ UNCHANGED <<numLock, gToggle, scrollCount, pastes, typing>>
  BY <1>1, SameDevice, SameThread DEF NotTheLoop
<1>2. ASSUME NEW w, ActiveWindowChanged(w) PROVE Types'
  <2>1. AppTypeOf(w) \in Apps
    BY DEF AppTypeOf, StringToAppType, Apps
  <2>2. LoopType'
    BY <1>2, <2>1 DEF ActiveWindowChanged, LoopType
  <2>3. DeviceType' /\ ThreadType' /\ ConfigType' /\ ComboType'
    BY <1>1, <1>2, SameConfig, SameCombos DEF ActiveWindowChanged, comboVars, configVars
  <2>4. ModeType'
    BY <1>1, <1>2 DEF ActiveWindowChanged, ModeType
  <2> QED
    BY <2>2, <2>3, <2>4
<1>3. ASSUME SetContextReleases PROVE Types'
  <2>1. ComboType' /\ pressedKeys' = {}
    BY <1>3, ReleaseType DEF SetContextReleases, configVars
  <2>2. DeviceType' /\ ThreadType' /\ ConfigType' /\ LoopType'
    BY <1>1, <1>3, SameConfig DEF SetContextReleases, LoopType
  <2>3. ModeType'
    BY <1>1, <1>3, <2>1 DEF SetContextReleases, ModeType
  <2> QED
    BY <2>1, <2>2, <2>3
<1>4. ASSUME EnableKeyboard \/ EnableKeyboardGrab PROVE Types'
  <2>1. DeviceType' /\ ThreadType' /\ ConfigType' /\ ComboType' /\ LoopType'
    BY <1>1, <1>4, SameConfig, SameCombos
    DEF EnableKeyboard, EnableKeyboardGrab, comboVars, configVars, LoopType
  <2>2. ModeType'
    BY <1>1, <1>4 DEF EnableKeyboard, EnableKeyboardGrab, GrabDevices, ModeType
  <2> QED
    BY <2>1, <2>2
<1>5. ASSUME Start PROVE Types'
  <2>1. DeviceType'
    BY <1>5, SessionType DEF Start, hwVars, DeviceType
  <2>2. ThreadType' /\ LoopType' /\ ConfigType' /\ ComboType'
    BY <1>5, SameThread, SameLoop, SameConfig, SameCombos DEF Start, comboVars, configVars
  <2>3. pressedKeys' \subseteq Codes
    BY <1>5, SessionType DEF Start, ModeType, Codes
  <2>4. ModeType'
    BY <1>5, <2>3 DEF Start, ModeType, modeVars
  <2> QED
    BY <2>1, <2>2, <2>4
<1>6. ASSUME StartFails PROVE Types'
  <2>1. DeviceType' /\ ThreadType' /\ LoopType' /\ ConfigType' /\ ComboType'
    BY <1>1, <1>6, SameLoop, SameConfig, SameCombos DEF StartFails, comboVars, configVars
  <2>2. pressedKeys' \subseteq Codes
    BY <1>6, SessionType DEF StartFails, ModeType, Codes
  <2>3. abandoned' \in BOOLEAN
    BY <1>6 DEF StartFails, LeftBehind
  <2>4. ModeType'
    BY <1>1, <1>6, <2>2, <2>3 DEF StartFails, ModeType
  <2> QED
    BY <2>1, <2>4
<1>7. ASSUME Stop PROVE Types'
  <2>1. queue' \in Seq(HwEvents)
    BY <1>7 DEF Stop
  <2>2. DeviceType'
    BY <1>7, <2>1 DEF Stop, DeviceType
  <2>3. ThreadType' /\ LoopType' /\ ConfigType'
    BY <1>7, SameThread, SameLoop, SameConfig DEF Stop
  <2>4. ComboType'
    BY <1>7, OnlyDown DEF Stop, comboVars, configVars
  <2>5. abandoned' \in BOOLEAN
    BY <1>7 DEF Stop, LeftBehind
  <2>6. ModeType'
    BY <1>7, <2>5 DEF Stop, UngrabDevices, ModeType, modeVars
  <2> QED
    BY <2>2, <2>3, <2>4, <2>6
<1>8. ASSUME NEW j \in DocumentsOf(KeyActions), ReplaceMacros(j),
             saved' \in DocumentsOf(KeyActions)
      PROVE  Types'
  <2>1. appMacros' \in [Apps -> Seq(KeyActions)] /\ updates' \in Nat /\ ComboType'
    BY <1>8, ReplaceType
  <2>2. ConfigType'
    BY <1>8, <2>1 DEF ConfigType
  <2>3. DeviceType' /\ ThreadType' /\ LoopType'
    BY <1>1, <1>8, SameLoop DEF ReplaceMacros
  <2>4. abandoned' \in BOOLEAN
    BY <1>8 DEF ReplaceMacros
  <2>5. ModeType'
    BY <1>1, <1>8, <2>4 DEF ReplaceMacros, ModeType
  <2> QED
    BY <2>1, <2>2, <2>3, <2>5
<1>9. ASSUME NEW j \in session.files, UpdateMacros(j) PROVE Types'
  <2>1. j \in DocumentsOf(KeyActions)
    BY SessionType
  <2> QED
    BY <1>8, <1>9, <2>1 DEF UpdateMacros
<1>10. ASSUME NEW j \in session.files, UpdateMacrosFails(j) PROVE Types'
  <2>1. j \in DocumentsOf(KeyActions)
    BY SessionType
  <2>2. PICK n \in DOMAIN j : \E k \in 0 .. Len(j[n].list) - 1 :
           ReplaceMacros(Append(SubSeq(j, 1, n - 1), [j[n] EXCEPT !.list = SubSeq(@, 1, k)]))
    BY <1>10 DEF UpdateMacrosFails
  <2>3. PICK k \in 0 .. Len(j[n].list) - 1 :
           ReplaceMacros(Append(SubSeq(j, 1, n - 1), [j[n] EXCEPT !.list = SubSeq(@, 1, k)]))
    BY <2>2
  <2> DEFINE d == Append(SubSeq(j, 1, n - 1), [j[n] EXCEPT !.list = SubSeq(@, 1, k)])
  <2>4. d \in DocumentsOf(KeyActions)
    BY <2>1, ReadSoFar
  <2>5. ReplaceMacros(d)
    BY <2>3
  <2> HIDE DEF d
  <2>6. saved' \in DocumentsOf(KeyActions)
    BY <1>10 DEF UpdateMacrosFails, ConfigType
  <2> QED
    BY <1>8, <2>4, <2>5, <2>6
<1>11. ASSUME NEW q \in session.simulated, SimulateInput(q) PROVE Types'
  <2>1. typing' \in [Typists -> KeySequences]
    BY <1>11, SessionType DEF SimulateInput, ModeType
  <2>2. DeviceType' /\ ThreadType' /\ ConfigType' /\ ComboType' /\ LoopType'
    BY <1>11, SameDevice, SameThread, SameConfig, SameCombos
    DEF SimulateInput, comboVars, configVars, LoopType
  <2>3. abandoned' \in BOOLEAN
    BY <1>11 DEF SimulateInput
  <2>4. ModeType'
    BY <1>11, <2>1, <2>3 DEF SimulateInput, ModeType, modeVars
  <2> QED
    BY <2>2, <2>4
<1>12. ASSUME SimulateKey PROVE Types'
  <2>1. DeviceType' /\ ThreadType' /\ ConfigType' /\ ComboType' /\ ModeType'
    BY <1>12, TypeKeyType DEF SimulateKey, Typists
  <2>2. LoopType'
    BY <1>12 DEF SimulateKey, TypeKey, LoopType
  <2> QED
    BY <2>1, <2>2
<1> QED
  BY <1>2, <1>3, <1>4, <1>5, <1>6, <1>7, <1>9, <1>10, <1>11, <1>12 DEF EventLoop

\* A restart.
LEMMA RestartKeepsTypes == ASSUME Types, Restart PROVE Types'
<1> USE DEF Types
<1>1. DeviceType'
  <2>1. queue' \in Seq(HwEvents)
    BY DEF Restart
  <2> QED
    BY <2>1 DEF Restart, DeviceType
<1>2. ThreadType' /\ LoopType'
  BY DEF Restart, ThreadType, LoopType, Apps
<1>3. ConfigType'
  <2>1. SetMacrosFromJsonInternal(InitialMacros, saved) \in [Apps -> Seq(KeyActions)]
    BY InitialMacrosType, ReplacedMacros DEF ConfigType
  <2> QED
    BY <2>1 DEF Restart, ConfigType
<1>4. ComboType'
  <2>1. combos' = NoProgress /\ withheld' = NothingWithheld /\ vdown' = {}
    BY DEF Restart
  <2>2. combos' = [app \in Apps |-> combos'[app]]
        /\ \A app \in Apps : combos'[app] \in Progresses(appMacros'[app])
    BY <2>1, NoProgressType, Zenon
  <2> QED
    BY <2>1, <2>2, NothingWithheldType DEF ComboType
<1>5. ModeType'
  <2>1. pastes' \in 0 .. MaxPastes
    BY ConstantsAssumption DEF Restart
  <2>2. /\ running' = FALSE /\ grabbed' = FALSE /\ abandoned' = FALSE /\ pressedKeys' = {}
        /\ numLock' = FALSE /\ gToggle' \in 1 .. 5 /\ scrollCount' \in 0 .. 2
    BY DEF Restart
  <2>3. typing' \in [Typists -> KeySequences]
    BY NothingTypedType DEF Restart
  <2> QED
    BY <2>1, <2>2, <2>3 DEF ModeType
<1> QED
  BY <1>1, <1>2, <1>3, <1>4, <1>5

\* Every step keeps the types.
LEMMA TypesNext == Types /\ [Next]_vars => Types'
<1>1. SUFFICES ASSUME Types, [Next]_vars PROVE Types'
  OBVIOUS
<1>2. CASE UNCHANGED vars
  BY <1>1, <1>2, SameDevice, SameThread, SameLoop, SameConfig, SameCombos, SameMode
  DEF Types, vars, comboVars, configVars
<1>3. CASE Next
  BY <1>1, <1>3, DevicesKeepTypes, StagesKeepTypes, MacrosKeepTypes, CommandsKeepTypes,
     RestartKeepsTypes
  DEF Next, InputThread
<1> QED
  BY <1>1, <1>2, <1>3

-----------------------------------------------------------------------------
(* The registry and the combos                                             *)

\* Combo i of an application has taken a step with the code c.
Owned(app, c, i) ==
    /\ i \in DOMAIN combos[app]
    /\ \E k \in 1 .. combos[app][i] : appMacros[app][i].trigger[k].code = c

LEMMA OwnersOfEntries ==
    WithheldByCombo <=>
        \A c \in Codes \ stale : \A n \in DOMAIN withheld[c] :
            \E app \in Apps : Owned(app, c, withheld[c][n].owner)
BY DEF WithheldByCombo, Owned

\* A combo owns what the loop says that it waits with.
LEMMA OwnedWaits ==
    ASSUME Types, NEW app \in Apps, NEW c, NEW i
    PROVE  Owned(app, c, i) <=> Waits(appMacros[app], Acc(app), c, i)
<1>1. Acc(app).next = Progress(app)
  BY DEF Acc
<1>2. ASSUME Owned(app, c, i) PROVE Waits(appMacros[app], Acc(app), c, i)
  <2>1. i \in DOMAIN combos[app] /\ i \in Visited(appMacros[app])
        /\ combos[app][i] = Progress(app)[i]
    BY <1>2, ProgressType DEF Owned
  <2> QED
    BY <1>1, <1>2, <2>1 DEF Owned, Waits
<1>3. ASSUME Waits(appMacros[app], Acc(app), c, i) PROVE Owned(app, c, i)
  <2>1. PICK k \in 1 .. Progress(app)[i] : appMacros[app][i].trigger[k].code = c
    BY <1>1, <1>3 DEF Waits
  <2>2. i \in Visited(appMacros[app])
    BY <1>3 DEF Waits
  <2>3. Progress(app)[i] # 0
    BY <2>1, SMT
  <2>4. combos[app] # <<>>
    BY <2>2, <2>3, ProgressType
  <2>5. i \in DOMAIN combos[app] /\ combos[app][i] = Progress(app)[i]
    BY <2>2, <2>4, ProgressType
  <2> QED
    BY <2>1, <2>5 DEF Owned
<1> QED
  BY <1>2, <1>3

\* What has no entry is the empty registry.
LEMMA EmptyRegistry ==
    ASSUME NEW reg \in Registries, \A c \in Codes : \A n \in DOMAIN reg[c] : FALSE
    PROVE  reg = NothingWithheld
<1>1. ASSUME NEW c \in Codes PROVE reg[c] = <<>>
  <2>1. reg[c] \in Seq(Entries)
    BY DEF Registries
  <2>2. Len(reg[c]) \in Nat /\ DOMAIN reg[c] = 1 .. Len(reg[c])
    BY <2>1
  <2>3. 1 \notin DOMAIN reg[c]
    OBVIOUS
  <2>4. Len(reg[c]) = 0
    BY <2>2, <2>3, SMT
  <2> QED
    BY <2>1, <2>4
<1>2. reg = [c \in Codes |-> reg[c]]
  BY DEF Registries
<1> QED
  BY <1>1, <1>2 DEF NothingWithheld

\* A combo has entries only if it is one that a reset claims.
LEMMA NoneLeft ==
    ASSUME WithheldByCombo, NEW reg,
           \A c \in Codes : \A m \in DOMAIN reg[c] :
              \E k \in DOMAIN withheld[c] : withheld[c][k].owner \notin Owners,
           NEW c \in Codes \ stale, NEW m \in DOMAIN reg[c]
    PROVE  FALSE
<1>1. PICK k \in DOMAIN withheld[c] : withheld[c][k].owner \notin Owners
  OBVIOUS
<1>2. PICK app \in Apps : Owned(app, c, withheld[c][k].owner)
  BY OwnersOfEntries
<1> QED
  BY <1>1, <1>2 DEF Owned, Owners

\* So a reset leaves only stale entries.
LEMMA ResetLeavesStale ==
    ASSUME Types, Types', WithheldByCombo, stale' = StillStale(withheld'),
           \A c \in Codes : \A m \in DOMAIN withheld'[c] :
              \E k \in DOMAIN withheld[c] : withheld[c][k].owner \notin Owners
    PROVE  /\ \A c \in Codes \ stale' : \A m \in DOMAIN withheld'[c] : FALSE
           /\ stale = {} => stale' = {} /\ withheld' = NothingWithheld
<1>1. \A c \in Codes \ stale : \A m \in DOMAIN withheld'[c] : FALSE
  <2>1. PICK reg : reg = withheld'
    OBVIOUS
  <2>2. \A c \in Codes : \A m \in DOMAIN reg[c] :
           \E k \in DOMAIN withheld[c] : withheld[c][k].owner \notin Owners
    BY <2>1
  <2>3. \A c \in Codes \ stale : \A m \in DOMAIN reg[c] : FALSE
    BY <2>2, NoneLeft
  <2> QED
    BY <2>1, <2>3
<1>2. ASSUME NEW c \in Codes \ stale', NEW m \in DOMAIN withheld'[c] PROVE FALSE
  <2>1. withheld'[c] # <<>>
    BY <1>2
  <2>2. c \notin stale
    BY <1>2, <2>1 DEF StillStale, IsBlocked
  <2> QED
    BY <1>1, <1>2, <2>2
<1>3. ASSUME stale = {} PROVE stale' = {} /\ withheld' = NothingWithheld
  <2>1. stale' = {}
    BY <1>3 DEF StillStale
  <2>2. withheld' \in Registries
    BY DEF Types, ComboType
  <2>3. \A c \in Codes : \A m \in DOMAIN withheld'[c] : FALSE
    BY <1>1, <1>3
  <2> QED
    BY <2>1, <2>2, <2>3, EmptyRegistry
<1> QED
  BY <1>2, <1>3

LEMMA ReleaseLeavesStale ==
    ASSUME Types, Types', WithheldByCombo, NEW pressed, ReleaseAllPressedKeys(pressed)
    PROVE  /\ \A c \in Codes \ stale' : \A m \in DOMAIN withheld'[c] : FALSE
           /\ stale = {} => stale' = {} /\ withheld' = NothingWithheld
<1>1. withheld' = Unclaimed(withheld, Owners) /\ stale' = StillStale(withheld')
  BY DEF ReleaseAllPressedKeys
<1>2. PICK reg : reg = Unclaimed(withheld, Owners)
  OBVIOUS
<1>3. ASSUME NEW c \in Codes, NEW m \in DOMAIN reg[c]
      PROVE  \E k \in DOMAIN withheld[c] : withheld[c][k].owner \notin Owners
  <2>1. withheld \in Registries
    BY DEF Types, ComboType
  <2>2. \A d \in Codes : \A n \in DOMAIN Unclaimed(withheld, Owners)[d] :
           /\ Unclaimed(withheld, Owners)[d][n].owner \notin Owners
           /\ \E k \in DOMAIN withheld[d] : Unclaimed(withheld, Owners)[d][n] = withheld[d][k]
    BY <2>1, UnclaimedEntries
  <2>3. reg[c][m].owner \notin Owners /\ \E k \in DOMAIN withheld[c] : reg[c][m] = withheld[c][k]
    BY <1>2, <1>3, <2>2
  <2> QED
    BY <2>3
<1>4. \A c \in Codes : \A m \in DOMAIN withheld'[c] :
         \E k \in DOMAIN withheld[c] : withheld[c][k].owner \notin Owners
  BY <1>1, <1>2, <1>3
<1> QED
  BY <1>1, <1>4, ResetLeavesStale

LEMMA ResynchroniseLeavesStale ==
    ASSUME Types, Types', WithheldByCombo, Resynchronise
    PROVE  /\ \A c \in Codes \ stale' : \A m \in DOMAIN withheld'[c] : FALSE
           /\ stale = {} => stale' = {} /\ withheld' = NothingWithheld
<1>1. withheld' = FlushAll.withheld /\ stale' = StillStale(withheld')
  BY DEF Resynchronise
<1>2. \A c \in Codes : \A m \in DOMAIN withheld'[c] :
         \E k \in DOMAIN withheld[c] : withheld[c][k].owner \notin Owners
  BY <1>1, FlushType
<1> QED
  BY <1>1, <1>2, ResetLeavesStale

\* The loop of stageMacros keeps the owners of the entries, in the macros it
\* works on and in the others.
LEMMA LoopKeepsOwners ==
    ASSUME Types, pc # "idle", WithheldByCombo, NEW T, StageMacros(T)
    PROVE  WithheldByCombo'
<1> DEFINE r == RunCombos(T)
           ms == appMacros[curApp]
           O == {p \in Codes \X Nat : \E app \in Apps \ {curApp} : Owned(app, p[1], p[2])}
<1>1. curApp \in Apps /\ ms \in Seq(KeyActions) /\ cur \in Events
      /\ Acc(curApp) \in Accs(ms)
  BY AccType DEF Types, ThreadType, ConfigType
<1>2. PICK f : Turns(f, ms, cur) /\ f[0] = Acc(curApp) /\ f[Len(ms)] = r
  <2> HIDE DEF r
  <2> QED
    BY <1>1, LoopTurns DEF r
<1>3. HasOwners(ms, Acc(curApp), stale, O)
  <2>1. SUFFICES ASSUME NEW c \in Codes \ stale, NEW n \in DOMAIN withheld[c]
                 PROVE  \/ <<c, withheld[c][n].owner>> \in O
                        \/ Waits(ms, Acc(curApp), c, withheld[c][n].owner)
    BY DEF HasOwners, Acc
  <2>2. PICK app \in Apps : Owned(app, c, withheld[c][n].owner)
    BY OwnersOfEntries
  <2>3. withheld[c][n].owner \in Nat
    <3>1. withheld[c] \in Seq(Entries)
      BY DEF Types, ComboType, Registries
    <3>2. withheld[c][n] \in Entries
      BY <3>1
    <3> QED
      BY <3>2 DEF Entries
  <2>4. CASE app = curApp
    BY <1>1, <2>2, <2>4, OwnedWaits
  <2>5. CASE app # curApp
    BY <2>2, <2>3, <2>5
  <2> QED
    BY <2>4, <2>5
<1> HIDE DEF O
<1>4. HasOwners(ms, r, stale, O)
  <2>1. HasOwners(ms, f[0], stale, O)
    BY <1>2, <1>3
  <2>2. HasOwners(ms, f[Len(ms)], stale, O)
    <3> HIDE DEF ms
    <3> QED
      BY <1>1, <1>2, <2>1, TurnsKeepOwners
  <2> HIDE DEF r, ms
  <2> QED
    BY <1>2, <2>2
<1>5. /\ combos' = [combos EXCEPT ![curApp] = r.next] /\ withheld' = r.withheld
      /\ stale' = StillStale(r.withheld) /\ appMacros' = appMacros
  BY DEF StageMacros, configVars
<1>6. r.next \in [Visited(ms) -> Nat]
  <2>1. r \in Accs(ms)
    BY MacrosType
  <2> HIDE DEF r, ms
  <2> QED
    BY <2>1 DEF Accs
<1> HIDE DEF r
<1>7. \A app \in Apps : combos'[app] = IF app = curApp THEN r.next ELSE combos[app]
  <2>1. combos = [app \in Apps |-> combos[app]]
    BY DEF Types, ComboType
  <2> QED
    BY <1>1, <1>5, <2>1
<1>8. ASSUME NEW c \in Codes \ stale', NEW n \in DOMAIN withheld'[c]
      PROVE  \E app \in Apps : Owned(app, c, withheld[c][n].owner)'
  <2>1. PICK o : o = withheld'[c][n].owner
    OBVIOUS
  <2>2. c \notin stale
    <3>1. r.withheld[c] # <<>>
      BY <1>5, <1>8
    <3> QED
      BY <1>5, <1>8, <3>1 DEF StillStale, IsBlocked
  <2>3. <<c, o>> \in O \/ Waits(ms, r, c, o)
    BY <1>4, <1>5, <1>8, <2>1, <2>2 DEF HasOwners
  <2>4. CASE <<c, o>> \in O
    <3>1. PICK app \in Apps \ {curApp} : Owned(app, c, o)
      BY <2>4 DEF O
    <3>2. combos'[app] = combos[app] /\ appMacros' = appMacros
      BY <1>5, <1>7, <3>1
    <3>3. Owned(app, c, o)'
      BY <3>1, <3>2 DEF Owned
    <3> QED
      BY <2>1, <3>3
  <2>5. CASE Waits(ms, r, c, o)
    <3>1. PICK app \in Apps : app = curApp
      BY <1>1
    <3>2. combos'[app] = r.next /\ appMacros'[app] = ms
      BY <1>1, <1>5, <1>7, <3>1
    <3>3. o \in DOMAIN r.next
      BY <1>6, <2>5 DEF Waits
    <3>4. Owned(app, c, o)'
      BY <2>5, <3>2, <3>3 DEF Owned, Waits
    <3> QED
      BY <2>1, <3>4
  <2> QED
    BY <2>3, <2>4, <2>5
<1> QED
  BY <1>8 DEF WithheldByCombo, Owned

\* Every step keeps the owners.
LEMMA WithheldNext ==
    ASSUME Types, Types', WithheldByCombo, [Next]_vars
    PROVE  WithheldByCombo'
<1>1. ASSUME UNCHANGED <<combos, withheld, stale, appMacros>> PROVE WithheldByCombo'
  BY <1>1 DEF WithheldByCombo
<1>2. CASE UNCHANGED vars
  BY <1>1, <1>2 DEF vars, comboVars, configVars
<1>3. CASE (\E c \in Keys : PressKey(c) \/ ReleaseKey(c)) \/ RepeatKey
  BY <1>1, <1>3 DEF PressKey, ReleaseKey, RepeatKey, NotTheDevices, comboVars, configVars
<1>4. ASSUME NEW i \in Readable,
             StageContext(i) \/ StageContextPause(i) \/ StageContextScrollLock(i)
      PROVE  WithheldByCombo'
  BY <1>1, <1>4 DEF StageContext, StageContextPause, StageContextScrollLock, Take,
                    comboVars, configVars
<1>5. ASSUME NEW i \in Readable, StageContextNumLock(i) PROVE WithheldByCombo'
  <2>1. CASE ReleaseAllPressedKeys(Track(pressedKeys, queue[i]))
    BY <2>1, ReleaseLeavesStale DEF WithheldByCombo
  <2>2. CASE UNCHANGED <<comboVars, vdown, grabbed, abandoned>>
    BY <1>1, <1>5, <2>2 DEF StageContextNumLock, Take, comboVars, configVars
  <2> QED
    BY <1>5, <2>1, <2>2 DEF StageContextNumLock
<1>6. CASE NumLockGrab \/ SetContextReleases
  <2>1. ReleaseAllPressedKeys(pressedKeys)
    BY <1>6 DEF NumLockGrab, SetContextReleases
  <2> QED
    BY <2>1, ReleaseLeavesStale DEF WithheldByCombo
<1>7. CASE SkipMonitored \/ StageGKey \/ EnterMacros
  BY <1>1, <1>7 DEF SkipMonitored, StageGKey, EnterMacros, CheckVars, comboVars, configVars
<1>8. ASSUME NEW T, StageMacros(T) PROVE WithheldByCombo'
  <2>1. pc # "idle"
    BY <1>8 DEF StageMacros
  <2> QED
    BY <1>8, <2>1, LoopKeepsOwners
<1>9. CASE EmitFinal \/ Paste \/ PasteKey
  BY <1>1, <1>9 DEF EmitFinal, Paste, PasteKey, TypeKey, comboVars, configVars
<1>10. CASE Resynchronise
  BY <1>10, ResynchroniseLeavesStale DEF WithheldByCombo
<1>11. ASSUME NEW w, ActiveWindowChanged(w) PROVE WithheldByCombo'
  BY <1>1, <1>11 DEF ActiveWindowChanged, comboVars, configVars
<1>12. CASE EnableKeyboard \/ EnableKeyboardGrab \/ Start \/ StartFails \/ Stop
  BY <1>1, <1>12 DEF EnableKeyboard, EnableKeyboardGrab, Start, StartFails, Stop, comboVars,
                     configVars
<1>13. ASSUME NEW j, ReplaceMacros(j) PROVE WithheldByCombo'
  BY <1>13 DEF ReplaceMacros, WithheldByCombo, IsBlocked
<1>14. ASSUME NEW j, UpdateMacros(j) \/ UpdateMacrosFails(j) PROVE WithheldByCombo'
  BY <1>13, <1>14 DEF UpdateMacros, UpdateMacrosFails
<1>15. ASSUME (\E q : SimulateInput(q)) \/ SimulateKey PROVE WithheldByCombo'
  BY <1>1, <1>15 DEF SimulateInput, SimulateKey, TypeKey, comboVars, configVars
<1>16. CASE Restart
  <2>1. withheld' = NothingWithheld
    BY <1>16 DEF Restart
  <2>2. \A c \in Codes : DOMAIN withheld'[c] = {}
    BY <2>1 DEF NothingWithheld
  <2> QED
    BY <2>2 DEF WithheldByCombo
<1> QED
  BY <1>2, <1>3, <1>4, <1>5, <1>6, <1>7, <1>8, <1>9, <1>10, <1>11, <1>12, <1>14, <1>15, <1>16
  DEF Next, InputThread, EventLoop

-----------------------------------------------------------------------------
(* Typing: unless something was left behind, what is typed releases what it *)
(* presses                                                                 *)

TypingInv ==
    /\ ~abandoned => \A by \in Typists : Balanced(typing[by])
    /\ typing["loop"] # <<>> => loopPc = "simulate"

LEMMA NothingToType ==
    /\ \A by \in Typists : NothingTyped[by] = <<>> /\ Balanced(NothingTyped[by])
    /\ NothingTyped["loop"] = <<>>
BY DEF NothingTyped, Typists, Balanced

LEMMA TypingInit == Init => TypingInv
BY NothingToType DEF Init, TypingInv

\* What is to be released, code by code.
LEMMA ReleasingCodes ==
    Types => \A c : c \in Releasing <=>
                        \E by \in Typists : \E i \in DOMAIN typing[by] :
                            typing[by][i][2] = 0 /\ typing[by][i][1] = c
<1>1. SUFFICES ASSUME Types, NEW c
               PROVE  c \in Releasing <=> \E by \in Typists : \E i \in DOMAIN typing[by] :
                                              typing[by][i][2] = 0 /\ typing[by][i][1] = c
  OBVIOUS
<1>2. DOMAIN typing = Typists
  BY <1>1 DEF Types, ModeType
<1> DEFINE Of(by) == {typing[by][i][1] : i \in {j \in DOMAIN typing[by] : typing[by][j][2] = 0}}
<1>3. Releasing = UNION {Of(by) : by \in Typists}
  BY <1>2 DEF Releasing
<1>4. \A by \in Typists : c \in Of(by) <=> \E i \in DOMAIN typing[by] :
                                              typing[by][i][2] = 0 /\ typing[by][i][1] = c
  OBVIOUS
<1> QED
  BY <1>3, <1>4

LEMMA ReleasingCodesNext ==
    ASSUME Types'
    PROVE  \A c : c \in Releasing' <=>
                      \E by \in Typists : \E i \in DOMAIN typing'[by] :
                          typing'[by][i][2] = 0 /\ typing'[by][i][1] = c
<1>1. (Types => \A c : c \in Releasing <=>
                           \E by \in Typists : \E i \in DOMAIN typing[by] :
                               typing[by][i][2] = 0 /\ typing[by][i][1] = c)'
  BY ReleasingCodes, PTL
<1> QED
  BY <1>1

\* One event: the rest still releases what it presses, and so does what is down.
LEMMA TypedKey ==
    ASSUME Types, Types', NEW by \in Typists, TypeKey(by), Balanced(typing[by])
    PROVE  /\ Balanced(typing'[by])
           /\ \A X : vdown \subseteq X \cup Releasing => vdown' \subseteq X \cup Releasing'
<1> DEFINE q == typing[by]
           h == Head(q)
<1>1. q \in Seq(Nat \X Int) /\ q # <<>> /\ typing \in [Typists -> KeySequences]
  BY DEF Types, ModeType, KeySequences, TypeKey
<1>2. /\ h = q[1] /\ Len(q) \in Nat \ {0} /\ DOMAIN q = 1 .. Len(q)
      /\ DOMAIN Tail(q) = 1 .. Len(q) - 1
      /\ \A i \in 1 .. Len(q) - 1 : Tail(q)[i] = q[i + 1]
  BY <1>1
<1>3. typing' = [typing EXCEPT ![by] = Tail(q)] /\ vdown' = Emit(vdown, h[1], h[2])
  BY DEF TypeKey
<1>4. typing'[by] = Tail(q) /\ \A b \in Typists \ {by} : typing'[b] = typing[b]
  BY <1>1, <1>3
<1>5. \A i \in DOMAIN q : q[i][2] = 1 =>
         \E j \in DOMAIN q : j > i /\ q[j][1] = q[i][1] /\ q[j][2] = 0
  BY DEF Balanced
<1> HIDE DEF h, q
<1>6. Balanced(Tail(q))
  <2>1. ASSUME NEW i \in 1 .. Len(q) - 1, Tail(q)[i][2] = 1
        PROVE  \E j \in 1 .. Len(q) - 1 :
                  j > i /\ Tail(q)[j][1] = Tail(q)[i][1] /\ Tail(q)[j][2] = 0
    <3>1. i + 1 \in DOMAIN q /\ q[i + 1][2] = 1 /\ Tail(q)[i] = q[i + 1]
      BY <1>2, <2>1
    <3>2. PICK j \in DOMAIN q : j > i + 1 /\ q[j][1] = q[i + 1][1] /\ q[j][2] = 0
      BY <1>5, <3>1
    <3>3. j - 1 \in 1 .. Len(q) - 1 /\ j - 1 > i /\ (j - 1) + 1 = j
      BY <1>2, <3>2
    <3>4. Tail(q)[j - 1] = q[j]
      BY <1>2, <3>3
    <3> QED
      BY <3>1, <3>2, <3>3, <3>4
  <2> QED
    BY <1>2, <2>1 DEF Balanced
<1>7. ASSUME NEW c, c \in Releasing PROVE c \in Releasing' \/ (c = h[1] /\ h[2] = 0)
  <2>1. PICK b \in Typists : \E i \in DOMAIN typing[b] :
           typing[b][i][2] = 0 /\ typing[b][i][1] = c
    BY <1>7, ReleasingCodes
  <2>2. PICK i \in DOMAIN typing[b] : typing[b][i][2] = 0 /\ typing[b][i][1] = c
    BY <2>1
  <2>3. CASE b # by
    <3>1. typing'[b] = typing[b]
      BY <1>4, <2>3
    <3>2. c \in Releasing'
      BY <2>2, <3>1, ReleasingCodesNext
    <3> QED
      BY <3>2
  <2>4. CASE b = by /\ i = 1
    BY <1>2, <2>2, <2>4 DEF q
  <2>5. CASE b = by /\ i # 1
    <3>1. i \in 1 .. Len(q) /\ q[i][2] = 0 /\ q[i][1] = c
      BY <1>2, <2>2, <2>5 DEF q
    <3>2. i - 1 \in 1 .. Len(q) - 1 /\ Tail(q)[i - 1] = q[i]
      BY <1>2, <2>5, <3>1
    <3>3. i - 1 \in DOMAIN typing'[by] /\ typing'[by][i - 1] = q[i]
      BY <1>2, <1>4, <3>2
    <3>4. c \in Releasing'
      BY <3>1, <3>3, ReleasingCodesNext
    <3> QED
      BY <3>4
  <2> QED
    BY <2>3, <2>4, <2>5
<1>8. ASSUME h[2] = 1 PROVE h[1] \in Releasing'
  <2>1. PICK j \in DOMAIN q : j > 1 /\ q[j][1] = h[1] /\ q[j][2] = 0
    BY <1>2, <1>5, <1>8
  <2>2. j - 1 \in 1 .. Len(q) - 1 /\ Tail(q)[j - 1] = q[j]
    BY <1>2, <2>1
  <2>3. j - 1 \in DOMAIN typing'[by] /\ typing'[by][j - 1] = q[j]
    BY <1>2, <1>4, <2>2
  <2> QED
    BY <2>1, <2>3, ReleasingCodesNext
<1>9. ASSUME NEW X, vdown \subseteq X \cup Releasing PROVE vdown' \subseteq X \cup Releasing'
  <2>1. CASE h[2] = 1
    BY <1>3, <1>7, <1>8, <1>9, <2>1 DEF Emit
  <2>2. CASE h[2] = 0
    BY <1>3, <1>7, <1>9, <2>2 DEF Emit
  <2>3. CASE h[2] # 1 /\ h[2] # 0
    BY <1>3, <1>7, <1>9, <2>3 DEF Emit
  <2> QED
    BY <2>1, <2>2, <2>3
<1> QED
  BY <1>4, <1>6, <1>9

\* A sequence of its own begins only where nothing was left to type.
LEMMA TypingStarts ==
    ASSUME Types, Types', TypingInv, Paste \/ \E q : SimulateInput(q)
    PROVE  Releasing \subseteq Releasing'
<1>1. ASSUME NEW c \in Releasing PROVE c \in Releasing'
  <2>1. PICK by \in Typists : \E i \in DOMAIN typing[by] :
           typing[by][i][2] = 0 /\ typing[by][i][1] = c
    BY ReleasingCodes
  <2>2. typing[by] # <<>> /\ typing \in [Typists -> KeySequences]
    BY <2>1 DEF Types, ModeType
  <2>3. typing'[by] = typing[by]
    <3>1. CASE Paste
      BY <2>2, <3>1 DEF Paste, MutexFree, Typists
    <3>2. CASE \E q : SimulateInput(q)
      BY <2>2, <3>2 DEF SimulateInput, TypingInv, Typists
    <3> QED
      BY <3>1, <3>2
  <2> QED
    BY <2>1, <2>3, ReleasingCodesNext
<1> QED
  BY <1>1

\* The steps that type nothing.
LEMMA SameTyping ==
    ASSUME TypingInv, typing' = typing, abandoned => abandoned',
           loopPc = "simulate" => loopPc' = "simulate"
    PROVE  TypingInv'
BY DEF TypingInv

LEMMA TailOfOne == ASSUME NEW S, NEW q \in Seq(S), Len(q) = 1 PROVE Tail(q) = <<>>
<1>1. Tail(q) \in Seq(S) /\ Len(Tail(q)) = 0
  OBVIOUS
<1> QED
  BY <1>1, EmptySeq

LEMMA TypingNext ==
    ASSUME Types, Types', TypingInv, [Next]_vars
    PROVE  TypingInv'
<1>1. CASE UNCHANGED vars
  BY <1>1, SameTyping DEF vars
<1>2. CASE (\E c \in Keys : PressKey(c) \/ ReleaseKey(c)) \/ RepeatKey
  <2>1. UNCHANGED <<typing, loopPc, abandoned>>
    BY <1>2 DEF PressKey, ReleaseKey, RepeatKey, NotTheDevices
  <2> QED
    BY <2>1, SameTyping
<1>3. ASSUME NEW i \in Readable, \/ StageContext(i) \/ StageContextPause(i)
                                 \/ StageContextScrollLock(i) \/ StageContextNumLock(i)
      PROVE  TypingInv'
  <2>1. typing' = typing /\ loopPc' = loopPc
    BY <1>3 DEF StageContext, StageContextPause, StageContextScrollLock, StageContextNumLock,
                Take
  <2>2. abandoned => abandoned'
    BY <1>3 DEF StageContext, StageContextPause, StageContextScrollLock, StageContextNumLock,
                EmergencyUngrab, LeftBehind
  <2> QED
    BY <2>1, <2>2, SameTyping
<1>4. CASE NumLockGrab \/ SkipMonitored \/ StageGKey \/ EnterMacros
  <2>1. typing' = typing /\ loopPc' = loopPc
    BY <1>4 DEF NumLockGrab, SkipMonitored, StageGKey, EnterMacros, CheckVars
  <2>2. abandoned => abandoned'
    BY <1>4 DEF NumLockGrab, SkipMonitored, StageGKey, EnterMacros
  <2> QED
    BY <2>1, <2>2, SameTyping
<1>5. CASE (\E T : StageMacros(T)) \/ EmitFinal \/ Resynchronise
  <2>1. typing' = typing /\ loopPc' = loopPc
    BY <1>5 DEF StageMacros, EmitFinal, Resynchronise
  <2>2. abandoned => abandoned'
    BY <1>5 DEF StageMacros, EmitFinal, Resynchronise
  <2> QED
    BY <2>1, <2>2, SameTyping
<1>6. CASE \/ (\E w : ActiveWindowChanged(w)) \/ SetContextReleases \/ EnableKeyboard
           \/ EnableKeyboardGrab
  <2>1. typing' = typing /\ loopPc # "simulate"
    BY <1>6 DEF ActiveWindowChanged, SetContextReleases, EnableKeyboard, EnableKeyboardGrab,
                NotTheLoop
  <2>2. abandoned => abandoned'
    BY <1>6 DEF ActiveWindowChanged, SetContextReleases, EnableKeyboard, EnableKeyboardGrab
  <2> QED
    BY <2>1, <2>2, SameTyping
<1>7. CASE Start \/ StartFails \/ Stop
  <2>1. typing' = typing /\ loopPc' = loopPc
    BY <1>7 DEF Start, StartFails, Stop, NotTheLoop
  <2>2. abandoned => abandoned'
    BY <1>7 DEF Start, StartFails, Stop, LeftBehind
  <2> QED
    BY <2>1, <2>2, SameTyping
<1>8. ASSUME NEW j, UpdateMacros(j) \/ UpdateMacrosFails(j) PROVE TypingInv'
  BY <1>8, SameTyping DEF UpdateMacros, UpdateMacrosFails, ReplaceMacros, NotTheLoop
<1>9. CASE Paste
  <2>1. /\ typing \in [Typists -> KeySequences] /\ abandoned' = abandoned /\ loopPc' = loopPc
        /\ typing' = typing \/ typing' = [typing EXCEPT !["paste"] = CtrlTap(KEY_V)]
    BY <1>9 DEF Types, ModeType, Paste
  <2>2. Balanced(CtrlTap(KEY_V))
    BY CtrlTapBalanced DEF Balanced, KEY_V
  <2> QED
    BY <2>1, <2>2 DEF TypingInv, Typists
<1>10. ASSUME NEW q, SimulateInput(q) PROVE TypingInv'
  <2>1. /\ typing \in [Typists -> KeySequences] /\ loopPc' = "simulate"
        /\ typing' = [typing EXCEPT !["loop"] = q]
        /\ abandoned' = (abandoned \/ ~Balanced(q))
    BY <1>10 DEF Types, ModeType, SimulateInput
  <2> QED
    BY <2>1 DEF TypingInv, Typists
<1>11. ASSUME NEW by \in Typists, TypeKey(by) PROVE ~abandoned' => \A b \in Typists : Balanced(typing'[b])
  <2>1. /\ typing \in [Typists -> KeySequences] /\ abandoned' = abandoned
        /\ typing' = [typing EXCEPT ![by] = Tail(typing[by])]
    BY <1>11 DEF Types, ModeType, TypeKey
  <2>2. ASSUME ~abandoned', NEW b \in Typists PROVE Balanced(typing'[b])
    <3>1. Balanced(typing[by]) /\ Balanced(typing[b])
      BY <2>1, <2>2 DEF TypingInv
    <3>2. CASE b = by
      BY <1>11, <3>1, <3>2, TypedKey
    <3>3. CASE b # by
      <4>1. typing'[b] = typing[b]
        BY <2>1, <3>3
      <4> QED
        BY <3>1, <4>1
    <3> QED
      BY <3>2, <3>3
  <2> QED
    BY <2>2
<1>12. CASE PasteKey
  <2>1. TypeKey("paste") /\ loopPc' = loopPc /\ typing'["loop"] = typing["loop"]
    BY <1>12 DEF PasteKey, TypeKey, Types, ModeType, Typists
  <2> QED
    BY <1>11, <2>1 DEF TypingInv, Typists
<1>13. CASE SimulateKey
  <2>1. /\ TypeKey("loop") /\ typing["loop"] # <<>>
        /\ loopPc' = IF Len(typing["loop"]) = 1 THEN "idle" ELSE loopPc
    BY <1>13 DEF SimulateKey, TypeKey
  <2>2. typing["loop"] \in Seq(Nat \X Int) /\ typing'["loop"] = Tail(typing["loop"])
    BY <2>1 DEF TypeKey, Types, ModeType, Typists, KeySequences
  <2>3. loopPc = "simulate"
    BY <2>1 DEF TypingInv
  <2>4. PICK q \in Seq(Nat \X Int) : q = typing["loop"]
    BY <2>2
  <2>5. Len(q) = 1 => Tail(q) = <<>>
    BY TailOfOne
  <2>6. typing'["loop"] # <<>> => loopPc' = "simulate"
    BY <2>1, <2>2, <2>3, <2>4, <2>5
  <2> QED
    BY <1>11, <2>1, <2>6 DEF TypingInv, Typists
<1>14. CASE Restart
  BY <1>14, NothingToType DEF Restart, TypingInv
<1> QED
  BY <1>1, <1>2, <1>3, <1>4, <1>5, <1>6, <1>7, <1>8, <1>9, <1>10, <1>12, <1>13, <1>14
  DEF Next, InputThread, EventLoop

-----------------------------------------------------------------------------
(* Watching: while the devices are not grabbed nothing is withheld or      *)
(* counted, and nothing stays down, unless something was left behind       *)

NoCombo(app) == \A i \in DOMAIN combos[app] : combos[app][i] = 0
Quiet == withheld = NothingWithheld /\ \A app \in Apps : NoCombo(app)

ModeInv ==
    /\ pc \in {"macros", "final"} => grabbed
    /\ ~running => pc = "idle" /\ ~grabbed /\ loopPc # "grab"
    /\ ~abandoned => stale = {}
    /\ ~grabbed /\ ~abandoned => Quiet /\ vdown \subseteq Releasing

LEMMA SameReleasing == ASSUME typing' = typing PROVE Releasing' = Releasing
BY DEF Releasing

LEMMA SameQuiet == ASSUME Quiet, UNCHANGED <<combos, withheld>> PROVE Quiet'
BY DEF Quiet, NoCombo

LEMMA ResetQuiet ==
    ASSUME Types, combos' = ResetCombos PROVE \A app \in Apps : NoCombo(app)'
BY ResetType DEF NoCombo

LEMMA ClearedQuiet ==
    ASSUME combos' = NoProgress PROVE \A app \in Apps : NoCombo(app)'
BY NoProgressType DEF NoCombo

\* A step that leaves nothing behind found nothing.
LEMMA NothingLeft ==
    ASSUME Types, NEW pressed, ~LeftBehind(pressed)
    PROVE  ~abandoned /\ Quiet /\ vdown \subseteq Releasing /\ pressed = {}
<1>1. ~abandoned /\ (vdown \ Releasing) \cup pressed = {} /\ withheld = NothingWithheld
      /\ \A app \in Apps : \A i \in DOMAIN combos[app] : ~(combos[app][i] > 0)
  BY DEF LeftBehind
<1>2. ASSUME NEW app \in Apps, NEW i \in DOMAIN combos[app] PROVE combos[app][i] = 0
  <2>1. combos[app][i] \in Nat
    BY ProgressType
  <2> QED
    BY <1>1, <2>1, SMT
<1> QED
  BY <1>1, <1>2 DEF Quiet, NoCombo

\* Nothing withheld is nothing to emit.
LEMMA NothingToEmit == Withholding(NothingWithheld) = {}
BY NothingWithheldType DEF Withholding

\* A step that changes neither the mode nor what was withheld or counted.
LEMMA SameWatch ==
    ASSUME ModeInv, UNCHANGED <<running, grabbed, stale, combos, withheld>>,
           abandoned => abandoned',
           ~grabbed /\ ~abandoned' /\ vdown \subseteq Releasing => vdown' \subseteq Releasing',
           pc' \in {"macros", "final"} => grabbed,
           ~running => pc' = "idle" /\ loopPc' # "grab"
    PROVE  ModeInv'
<1>1. ~abandoned' => stale' = {}
  BY DEF ModeInv
<1>2. ASSUME ~grabbed', ~abandoned' PROVE Quiet' /\ vdown' \subseteq Releasing'
  <2>1. Quiet /\ vdown \subseteq Releasing
    BY <1>2 DEF ModeInv
  <2> QED
    BY <1>2, <2>1, SameQuiet
<1> QED
  BY <1>1, <1>2 DEF ModeInv

\* Nothing stays behind when the tracked keys are released.
LEMMA ReleaseQuiet ==
    ASSUME Types, Types', WithheldByCombo, NEW pressed, ReleaseAllPressedKeys(pressed),
           stale = {}
    PROVE  stale' = {} /\ Quiet' /\ vdown' \subseteq vdown
<1>1. stale' = {} /\ withheld' = NothingWithheld
  BY ReleaseLeavesStale
<1>2. combos' = ResetCombos /\ vdown' = vdown \ pressed
  BY DEF ReleaseAllPressedKeys
<1> QED
  BY <1>1, <1>2, ResetQuiet DEF Quiet

LEMMA ModeInit == Init => ModeInv
<1>1. SUFFICES ASSUME Init PROVE ModeInv
  OBVIOUS
<1>2. combos = NoProgress /\ withheld = NothingWithheld
  BY <1>1 DEF Init
<1>3. Quiet
  BY <1>2, NoProgressType DEF Quiet, NoCombo
<1> QED
  BY <1>1, <1>3 DEF Init, ModeInv

\* What is left where the input thread ungrabs at once.
LEMMA EmergencyQuiet ==
    ASSUME Types, ModeInv, NEW e, EmergencyUngrab(e),
           UNCHANGED <<running, stale, combos, withheld, vdown, loopPc, typing>>,
           pc = "idle", pc' = "check", running
    PROVE  ModeInv'
<1>1. CASE grabbed
  <2>1. grabbed' = FALSE /\ abandoned' = LeftBehind(Track(pressedKeys, e))
    BY <1>1 DEF EmergencyUngrab, UngrabDevices
  <2>2. ASSUME ~abandoned' PROVE stale' = {} /\ Quiet' /\ vdown' \subseteq Releasing'
    <3>1. ~abandoned /\ Quiet /\ vdown \subseteq Releasing
      BY <2>1, <2>2, NothingLeft
    <3> QED
      BY <3>1, SameQuiet, SameReleasing DEF ModeInv
  <2> QED
    BY <2>1, <2>2 DEF ModeInv
<1>2. CASE ~grabbed
  <2>1. grabbed' = grabbed /\ abandoned' = abandoned
    BY <1>2 DEF EmergencyUngrab, UngrabDevices, Types, ModeType
  <2> QED
    BY <1>2, <2>1, SameWatch, SameReleasing
<1> QED
  BY <1>1, <1>2

LEMMA ModeNext ==
    ASSUME Types, Types', WithheldByCombo, TypingInv, ModeInv, [Next]_vars
    PROVE  ModeInv'
<1>1. CASE UNCHANGED vars
  BY <1>1, SameWatch, SameReleasing DEF vars, threadVars, comboVars, ModeInv
<1>2. CASE (\E c \in Keys : PressKey(c) \/ ReleaseKey(c)) \/ RepeatKey
  BY <1>2, SameWatch, SameReleasing DEF PressKey, ReleaseKey, RepeatKey, NotTheDevices, threadVars,
                         comboVars, ModeInv
<1>3. ASSUME NEW i \in Readable, StageContext(i) PROVE ModeInv'
  BY <1>3, SameWatch, SameReleasing DEF StageContext, Take, comboVars, ModeInv
<1>4. ASSUME NEW i \in Readable, StageContextPause(i) PROVE ModeInv'
  BY <1>4, EmergencyQuiet DEF StageContextPause, Take, comboVars
<1>5. ASSUME NEW i \in Readable, StageContextScrollLock(i) PROVE ModeInv'
  <2>1. CASE EmergencyUngrab(queue[i])
    BY <1>5, <2>1, EmergencyQuiet DEF StageContextScrollLock, Take, comboVars
  <2>2. CASE UNCHANGED <<grabbed, abandoned>>
    BY <1>5, <2>2, SameWatch, SameReleasing DEF StageContextScrollLock, Take, comboVars, ModeInv
  <2> QED
    BY <1>5, <2>1, <2>2 DEF StageContextScrollLock
<1>6. ASSUME NEW i \in Readable, StageContextNumLock(i) PROVE ModeInv'
  <2>1. CASE /\ ~numLock /\ UngrabDevices
             /\ ReleaseAllPressedKeys(Track(pressedKeys, queue[i]))
             /\ abandoned' = (abandoned \/ vdown' \ Releasing # {}) /\ pc' = "check"
    <3>1. grabbed' = FALSE /\ running' = running /\ running /\ loopPc' = loopPc
          /\ typing' = typing
      BY <1>6, <2>1 DEF StageContextNumLock, Take, UngrabDevices
    <3>2. ASSUME ~abandoned' PROVE stale' = {} /\ Quiet' /\ vdown' \subseteq Releasing'
      <4>1. ~abandoned /\ vdown' \subseteq Releasing'
        BY <2>1, <3>1, <3>2, SameReleasing
      <4>2. stale = {}
        BY <4>1 DEF ModeInv
      <4> QED
        BY <2>1, <4>1, <4>2, ReleaseQuiet
    <3> QED
      BY <2>1, <3>1, <3>2 DEF ModeInv
  <2>2. CASE pc' = "grab" /\ UNCHANGED <<comboVars, vdown, grabbed, abandoned>>
    BY <1>6, <2>2, SameWatch, SameReleasing DEF StageContextNumLock, Take, comboVars, ModeInv
  <2> QED
    BY <1>6, <2>1, <2>2 DEF StageContextNumLock
<1>7. CASE NumLockGrab \/ SetContextReleases
  <2>1. ReleaseAllPressedKeys(pressedKeys) /\ abandoned' = abandoned /\ running' = running
    BY <1>7 DEF NumLockGrab, SetContextReleases
  <2>2. ASSUME ~abandoned' PROVE stale' = {} /\ Quiet' /\ vdown' \subseteq vdown
    BY <2>1, <2>2, ReleaseQuiet DEF ModeInv
  <2>3. ~grabbed' => ~grabbed
    BY <1>7 DEF NumLockGrab, SetContextReleases, GrabDevices
  <2>4. ~grabbed' /\ ~abandoned' => vdown' \subseteq Releasing'
    <3>1. typing' = typing
      BY <1>7 DEF NumLockGrab, SetContextReleases, NotTheLoop
    <3> QED
      BY <2>1, <2>2, <2>3, <3>1, SameReleasing DEF ModeInv
  <2>5. (pc' \in {"macros", "final"} => grabbed') /\ (~running' => pc' = "idle"
        /\ ~grabbed' /\ loopPc' # "grab")
    BY <1>7, <2>1 DEF NumLockGrab, SetContextReleases, GrabDevices, NotTheLoop,
                      threadVars, ModeInv
  <2> QED
    BY <2>2, <2>4, <2>5 DEF ModeInv
<1>8. CASE SkipMonitored \/ StageGKey \/ EnterMacros
  BY <1>8, SameWatch, SameReleasing DEF SkipMonitored, StageGKey, EnterMacros, CheckVars, comboVars, ModeInv
<1>9. ASSUME NEW T, StageMacros(T) PROVE ModeInv'
  <2>1. grabbed /\ running /\ grabbed' = grabbed /\ running' = running
        /\ (abandoned => abandoned')
    BY <1>9 DEF StageMacros, ModeInv
  <2>2. stale' \subseteq stale
    BY <1>9 DEF StageMacros, StillStale
  <2> QED
    BY <2>1, <2>2 DEF ModeInv
<1>10. CASE EmitFinal
  <2>1. grabbed /\ running /\ grabbed' = grabbed /\ running' = running
        /\ abandoned' = abandoned /\ stale' = stale
    BY <1>10 DEF EmitFinal, comboVars, ModeInv
  <2> QED
    BY <2>1 DEF ModeInv
<1>11. CASE Resynchronise
  <2>1. /\ running' = running /\ running /\ grabbed' = grabbed /\ abandoned' = abandoned
        /\ pc = "idle" /\ pc' = pc /\ combos' = ResetCombos
        /\ vdown' = FlushAll.vdown /\ typing' = typing
    BY <1>11 DEF Resynchronise, threadVars
  <2>2. ASSUME ~abandoned' PROVE stale' = {} /\ Quiet'
    <3>1. stale = {}
      BY <2>1, <2>2 DEF ModeInv
    <3>2. stale' = {} /\ withheld' = NothingWithheld
      BY <1>11, <3>1, ResynchroniseLeavesStale
    <3> QED
      BY <2>1, <3>2, ResetQuiet DEF Quiet
  <2>3. ASSUME ~grabbed', ~abandoned' PROVE vdown' \subseteq Releasing'
    <3>1. withheld = NothingWithheld /\ vdown \subseteq Releasing
      BY <2>1, <2>3 DEF ModeInv, Quiet
    <3>2. FlushAll.vdown \subseteq vdown \cup Withholding(withheld)
      BY FlushType
    <3> QED
      BY <2>1, <3>1, <3>2, NothingToEmit, SameReleasing
  <2> QED
    BY <2>1, <2>2, <2>3 DEF ModeInv
<1>12. CASE Paste
  <2>1. vdown' = vdown /\ Releasing \subseteq Releasing'
    BY <1>12, TypingStarts DEF Paste
  <2> QED
    BY <1>12, <2>1, SameWatch DEF Paste, threadVars, comboVars, ModeInv
<1>13. ASSUME NEW w, ActiveWindowChanged(w) PROVE ModeInv'
  BY <1>13, SameWatch, SameReleasing DEF ActiveWindowChanged, NotTheLoop, threadVars, comboVars, ModeInv
<1>14. CASE EnableKeyboard
  BY <1>14, SameWatch, SameReleasing DEF EnableKeyboard, NotTheLoop, threadVars, comboVars, ModeInv
<1>15. CASE EnableKeyboardGrab
  <2>1. CASE MayGrab
    BY <1>15, <2>1 DEF EnableKeyboardGrab, GrabDevices, NotTheLoop, threadVars, comboVars,
                       ModeInv
  <2>2. CASE ~MayGrab
    BY <1>15, <2>2, SameWatch, SameReleasing DEF EnableKeyboardGrab, NotTheLoop, threadVars, comboVars,
                                  ModeInv
  <2> QED
    BY <2>1, <2>2
<1>16. CASE Start
  <2>1. ~running /\ ~grabbed /\ grabbed' = FALSE /\ running' = TRUE /\ pc' = "idle"
    BY <1>16 DEF Start, threadVars, ModeInv
  <2>2. UNCHANGED <<stale, combos, withheld, vdown, abandoned, typing>>
    BY <1>16 DEF Start, comboVars
  <2>3. ASSUME ~grabbed', ~abandoned' PROVE Quiet' /\ vdown' \subseteq Releasing'
    BY <2>1, <2>2, <2>3, SameQuiet, SameReleasing DEF ModeInv
  <2> QED
    BY <2>1, <2>2, <2>3 DEF ModeInv
<1>17. CASE StartFails
  <2>1. UNCHANGED <<running, grabbed, stale, combos, withheld, vdown, pc, loopPc, typing>>
        /\ abandoned' = LeftBehind(hw)
    BY <1>17 DEF StartFails, NotTheLoop, threadVars, comboVars
  <2>2. abandoned => abandoned'
    BY <2>1, NothingLeft
  <2> QED
    BY <2>1, <2>2, SameWatch, SameReleasing DEF ModeInv
<1>18. CASE Stop
  <2>1. /\ grabbed' = FALSE /\ pc' = "idle" /\ loopPc' # "grab"
        /\ UNCHANGED <<stale, combos, withheld>> /\ abandoned' = LeftBehind(pressedKeys)
        /\ vdown' = {}
    BY <1>18 DEF Stop, UngrabDevices, threadVars, comboVars
  <2>2. ASSUME ~abandoned' PROVE ~abandoned /\ Quiet
    BY <2>1, <2>2, NothingLeft
  <2>3. ASSUME ~abandoned' PROVE Quiet' /\ stale' = {}
    BY <2>1, <2>2, <2>3, SameQuiet DEF ModeInv
  <2> QED
    BY <2>1, <2>3 DEF ModeInv
<1>19. ASSUME NEW j, ReplaceMacros(j) PROVE ModeInv'
  <2>1. /\ UNCHANGED <<withheld, vdown, running, grabbed, pc, loopPc, typing>>
        /\ combos' = NoProgress /\ stale' = {c \in Codes : IsBlocked(withheld, c)}
        /\ abandoned' = (abandoned \/ withheld # NothingWithheld)
    BY <1>19 DEF ReplaceMacros, NotTheLoop, threadVars
  <2>2. ASSUME ~abandoned' PROVE ~abandoned /\ withheld' = NothingWithheld /\ stale' = {}
    <3>1. ~abandoned /\ withheld = NothingWithheld
      BY <2>1, <2>2
    <3>2. stale' = {}
      BY <2>1, <3>1, NothingWithheldType DEF IsBlocked
    <3> QED
      BY <2>1, <3>1, <3>2
  <2>3. \A app \in Apps : NoCombo(app)'
    BY <2>1, ClearedQuiet
  <2> QED
    BY <2>1, <2>2, <2>3, SameReleasing DEF ModeInv, Quiet
<1>20. ASSUME NEW j, UpdateMacros(j) \/ UpdateMacrosFails(j) PROVE ModeInv'
  BY <1>19, <1>20 DEF UpdateMacros, UpdateMacrosFails
<1>21. ASSUME NEW q, SimulateInput(q) PROVE ModeInv'
  <2>1. UNCHANGED <<running, grabbed, stale, combos, withheld, pc, vdown>> /\ running
        /\ (abandoned => abandoned') /\ Releasing \subseteq Releasing'
    BY <1>21, TypingStarts DEF SimulateInput, threadVars, comboVars
  <2> QED
    BY <2>1, SameWatch DEF ModeInv
<1>22. CASE PasteKey \/ SimulateKey
  <2>1. PICK by \in Typists : TypeKey(by)
    BY <1>22 DEF PasteKey, SimulateKey, Typists
  <2>2. UNCHANGED <<running, grabbed, stale, combos, withheld, pc, abandoned>>
    BY <2>1 DEF TypeKey, threadVars, comboVars
  <2>3. ~running => loopPc' # "grab"
    BY <1>22 DEF PasteKey, SimulateKey, ModeInv
  <2>4. ASSUME ~abandoned', vdown \subseteq Releasing PROVE vdown' \subseteq Releasing'
    <3>1. Balanced(typing[by]) /\ vdown \subseteq {} \cup Releasing
      BY <2>2, <2>4 DEF TypingInv
    <3>2. vdown' \subseteq {} \cup Releasing'
      BY <2>1, <3>1, TypedKey
    <3> QED
      BY <3>2
  <2> QED
    BY <2>2, <2>3, <2>4, SameWatch DEF ModeInv
<1>23. CASE Restart
  <2>1. combos' = NoProgress /\ withheld' = NothingWithheld /\ vdown' = {}
        /\ pc' = "idle" /\ loopPc' = "idle" /\ grabbed' = FALSE /\ stale' = {}
    BY <1>23 DEF Restart
  <2> QED
    BY <2>1, ClearedQuiet DEF ModeInv, Quiet
<1> QED
  BY <1>1, <1>2, <1>3, <1>4, <1>5, <1>6, <1>7, <1>8, <1>9, <1>10, <1>11, <1>12, <1>13,
     <1>14, <1>15, <1>16, <1>17, <1>18, <1>20, <1>21, <1>22, <1>23
  DEF Next, InputThread, EventLoop

LEMMA WithheldInit == Init => WithheldByCombo
<1>1. SUFFICES ASSUME Init PROVE WithheldByCombo
  OBVIOUS
<1>2. \A c \in Codes : DOMAIN withheld[c] = {}
  BY <1>1 DEF Init, NothingWithheld
<1> QED
  BY <1>2 DEF WithheldByCombo

\* What a step presses while the devices are only watched.
LEMMA WatchedNext ==
    ASSUME Types, WithheldByCombo, ModeInv, [Next]_vars, ~grabbed
    PROVE  vdown' \ vdown \subseteq TypedKeys \cup FlushedKeys
<1>1. CASE \/ UNCHANGED vars
           \/ (\E c \in Keys : PressKey(c) \/ ReleaseKey(c)) \/ RepeatKey
           \/ \E i \in Readable :
                 StageContext(i) \/ StageContextPause(i) \/ StageContextScrollLock(i)
           \/ SkipMonitored \/ StageGKey \/ EnterMacros \/ Paste
           \/ \E w : ActiveWindowChanged(w)
           \/ EnableKeyboard \/ EnableKeyboardGrab \/ Start \/ StartFails
           \/ \E j : UpdateMacros(j) \/ UpdateMacrosFails(j)
           \/ \E q : SimulateInput(q)
  <2>1. vdown' = vdown
    BY <1>1 DEF vars, PressKey, ReleaseKey, RepeatKey, NotTheDevices, StageContext,
       StageContextPause, StageContextScrollLock, SkipMonitored, StageGKey, EnterMacros,
       CheckVars, ActiveWindowChanged, EnableKeyboard, EnableKeyboardGrab, Start, StartFails,
       UpdateMacros, UpdateMacrosFails, ReplaceMacros, Paste, SimulateInput
  <2> QED
    BY <2>1
<1>2. ASSUME NEW i \in Readable, StageContextNumLock(i) PROVE vdown' \subseteq vdown
  BY <1>2 DEF StageContextNumLock, ReleaseAllPressedKeys
<1>3. CASE NumLockGrab \/ SetContextReleases
  BY <1>3 DEF NumLockGrab, SetContextReleases, ReleaseAllPressedKeys
<1>4. CASE (\E T : StageMacros(T)) \/ EmitFinal
  BY <1>4 DEF StageMacros, EmitFinal, ModeInv
<1>5. CASE Resynchronise
  <2>1. vdown' = FlushAll.vdown /\ \E d \in dropped : dropped' = dropped \ {d}
    BY <1>5 DEF Resynchronise
  <2>2. FlushAll.vdown \subseteq vdown \cup Withholding(withheld)
    BY FlushType
  <2>3. CASE abandoned
    <3>1. dropped' \subseteq dropped /\ dropped' # dropped
      BY <2>1
    <3>2. FlushedKeys = {c \in Codes : IsBlocked(withheld, c)}
      BY <2>3, <3>1 DEF FlushedKeys
    <3> QED
      BY <2>1, <2>2, <3>2 DEF Withholding, IsBlocked
  <2>4. CASE ~abandoned
    <3>1. withheld = NothingWithheld
      BY <2>4 DEF ModeInv, Quiet
    <3> QED
      BY <2>1, <2>2, <3>1, NothingToEmit
  <2> QED
    BY <2>3, <2>4
<1>6. ASSUME NEW by \in Typists, TypeKey(by) PROVE vdown' \ vdown \subseteq TypedKeys
  <2>1. /\ typing \in [Typists -> KeySequences] /\ typing[by] # <<>>
        /\ typing' = [typing EXCEPT ![by] = Tail(typing[by])]
    BY <1>6 DEF Types, ModeType, TypeKey
  <2>2. typing'[by] = Tail(typing[by]) /\ by \in DOMAIN typing
    BY <2>1
  <2>3. Head(typing[by])[1] \in TypedKeys
    BY <2>1, <2>2 DEF TypedKeys
  <2>4. vdown' \subseteq vdown \cup {Head(typing[by])[1]}
    BY <1>6 DEF TypeKey, Emit
  <2> QED
    BY <2>3, <2>4
<1>7. CASE PasteKey \/ SimulateKey
  BY <1>6, <1>7 DEF PasteKey, SimulateKey, Typists
<1>8. CASE Stop \/ Restart
  BY <1>8 DEF Stop, Restart
<1> QED
  BY <1>1, <1>2, <1>3, <1>4, <1>5, <1>7, <1>8 DEF Next, InputThread, EventLoop

-----------------------------------------------------------------------------
(* What the input thread tracks: the keys libevdev has for down, and the   *)
(* virtual codes of the G keys                                             *)

GCodes == {G(n) : n \in 1 .. 6}

TrackInv ==
    ~abandoned => /\ pressedKeys \subseteq lib \cup GCodes
                  /\ ~running => pressedKeys = {}

LEMMA TrackInit == Init => TrackInv
BY DEF Init, TrackInv

\* stageContext tracks what libevdev has.
LEMMA TrackTake ==
    ASSUME Types, TrackInv, NEW i \in Readable, Take(i), abandoned => abandoned',
           pressedKeys' \subseteq Track(pressedKeys, queue[i])
    PROVE  TrackInv'
<1>1. running /\ running' = running /\ lib' = LibAfter(queue[i])
  BY DEF Take
<1>2. ASSUME ~abandoned PROVE Track(pressedKeys, queue[i]) \subseteq LibAfter(queue[i]) \cup GCodes
  <2>1. pressedKeys \subseteq lib \cup GCodes
    BY <1>2 DEF TrackInv
  <2> QED
    BY <2>1 DEF Track, LibAfter
<1> QED
  BY <1>1, <1>2 DEF TrackInv

LEMMA TrackSame ==
    ASSUME TrackInv, UNCHANGED <<lib, running>>, abandoned => abandoned',
           pressedKeys' \subseteq pressedKeys
    PROVE  TrackInv'
BY DEF TrackInv

LEMMA TrackNext ==
    ASSUME Types, ModeInv, TrackInv, [Next]_vars
    PROVE  TrackInv'
<1>1. CASE UNCHANGED vars
  BY <1>1, TrackSame DEF vars
<1>2. CASE (\E c \in Keys : PressKey(c) \/ ReleaseKey(c)) \/ RepeatKey
  <2>1. UNCHANGED <<lib, running, pressedKeys, abandoned>>
    BY <1>2 DEF PressKey, ReleaseKey, RepeatKey, NotTheDevices
  <2> QED
    BY <2>1, TrackSame
<1>3. ASSUME NEW i \in Readable, StageContext(i) PROVE TrackInv'
  BY <1>3, TrackTake DEF StageContext
<1>4. ASSUME NEW e, EmergencyUngrab(e), ~abandoned' PROVE ~abandoned
  BY <1>4, NothingLeft DEF EmergencyUngrab
<1>5. ASSUME NEW i \in Readable, StageContextPause(i) PROVE TrackInv'
  BY <1>4, <1>5, TrackTake DEF StageContextPause
<1>6. ASSUME NEW i \in Readable, StageContextScrollLock(i) PROVE TrackInv'
  BY <1>4, <1>6, TrackTake DEF StageContextScrollLock
<1>7. ASSUME NEW i \in Readable, StageContextNumLock(i) PROVE TrackInv'
  <2>1. Take(i)
    BY <1>7 DEF StageContextNumLock
  <2>2. CASE /\ ReleaseAllPressedKeys(Track(pressedKeys, queue[i]))
             /\ abandoned' = (abandoned \/ vdown' \ Releasing # {})
    <3>1. pressedKeys' = {} /\ (abandoned => abandoned')
      BY <2>2 DEF ReleaseAllPressedKeys
    <3> QED
      BY <2>1, <3>1, TrackTake
  <2>3. CASE pressedKeys' = Track(pressedKeys, queue[i]) /\ abandoned' = abandoned
    BY <2>1, <2>3, TrackTake
  <2> QED
    BY <1>7, <2>2, <2>3 DEF StageContextNumLock
<1>8. CASE NumLockGrab \/ SetContextReleases
  <2>1. UNCHANGED <<lib, running, abandoned>> /\ pressedKeys' = {}
    BY <1>8 DEF NumLockGrab, SetContextReleases, NotTheLoop, ReleaseAllPressedKeys
  <2> QED
    BY <2>1, TrackSame
<1>9. CASE SkipMonitored \/ EnterMacros
  BY <1>9, TrackSame DEF SkipMonitored, EnterMacros, CheckVars
<1>10. CASE StageGKey
  <2>1. /\ UNCHANGED <<lib, running>> /\ abandoned' = (abandoned \/ cur.value = 0)
        /\ pressedKeys' = Track(pressedKeys, cur')
        /\ cur' = [cur EXCEPT !.code = G(cur.code - KEY_1 + 1)]
        /\ pc = "check" /\ cur.code \in KEY_1 .. KEY_6
    BY <1>10 DEF StageGKey, CheckVars, DetectGKey
  <2>2. cur \in Events
    BY <2>1 DEF Types, ThreadType
  <2>3. cur.code - KEY_1 + 1 \in 1 .. 6
    <3>1. cur.code \in 2 .. 7
      BY <2>1 DEF KEY_1, KEY_6
    <3> QED
      BY <3>1, SMT DEF KEY_1
  <2>4. G(cur.code - KEY_1 + 1) \in GCodes
    BY <2>3 DEF GCodes
  <2>5. cur'.code \in GCodes
    BY <2>1, <2>2, <2>4 DEF Events
  <2>6. pressedKeys' \subseteq pressedKeys \cup GCodes
    BY <2>1, <2>5 DEF Track
  <2>7. running
    BY <2>1 DEF ModeInv
  <2> QED
    BY <2>1, <2>6, <2>7 DEF TrackInv
<1>11. CASE (\E T : StageMacros(T)) \/ EmitFinal \/ Resynchronise \/ Paste \/ PasteKey
  <2>1. ASSUME NEW T, StageMacros(T)
        PROVE  UNCHANGED <<lib, running, pressedKeys>> /\ (abandoned => abandoned')
    <3>1. UNCHANGED <<lib, running, pressedKeys>>
      BY <2>1 DEF StageMacros
    <3>2. abandoned => abandoned'
      BY <2>1 DEF StageMacros
    <3> QED
      BY <3>1, <3>2
  <2>2. ASSUME EmitFinal \/ Resynchronise \/ Paste \/ PasteKey
        PROVE  UNCHANGED <<lib, running, pressedKeys, abandoned>>
    BY <2>2 DEF EmitFinal, Resynchronise, Paste, PasteKey, TypeKey
  <2> QED
    BY <1>11, <2>1, <2>2, TrackSame
<1>12. ASSUME NEW w, ActiveWindowChanged(w) PROVE TrackInv'
  BY <1>12, TrackSame DEF ActiveWindowChanged, NotTheLoop
<1>13. CASE EnableKeyboard \/ EnableKeyboardGrab
  BY <1>13, TrackSame DEF EnableKeyboard, EnableKeyboardGrab, NotTheLoop
<1>14. CASE Start
  BY <1>14 DEF Start, TrackInv
<1>15. CASE StartFails
  <2>1. UNCHANGED <<lib, running>> /\ ~running
        /\ abandoned' = LeftBehind(hw) /\ pressedKeys' = pressedKeys \cup hw
    BY <1>15 DEF StartFails, NotTheLoop
  <2>2. ASSUME ~abandoned' PROVE ~abandoned /\ hw = {}
    BY <2>1, <2>2, NothingLeft
  <2> QED
    BY <2>1, <2>2 DEF TrackInv
<1>16. CASE Stop
  <2>1. ASSUME ~abandoned' PROVE pressedKeys' = {}
    BY <1>16, <2>1, NothingLeft DEF Stop
  <2> QED
    BY <2>1 DEF TrackInv
<1>17. ASSUME NEW j, UpdateMacros(j) \/ UpdateMacrosFails(j) PROVE TrackInv'
  BY <1>17, TrackSame DEF UpdateMacros, UpdateMacrosFails, ReplaceMacros, NotTheLoop
<1>18. ASSUME (\E q : SimulateInput(q)) \/ SimulateKey PROVE TrackInv'
  <2>1. ASSUME NEW q, SimulateInput(q)
        PROVE  UNCHANGED <<lib, running, pressedKeys>> /\ (~abandoned' => ~abandoned)
    BY <2>1 DEF SimulateInput
  <2>2. ASSUME SimulateKey PROVE UNCHANGED <<lib, running, pressedKeys, abandoned>>
    BY <2>2 DEF SimulateKey, TypeKey
  <2> QED
    BY <1>18, <2>1, <2>2, TrackSame
<1>19. CASE Restart
  BY <1>19 DEF Restart, TrackInv
<1> QED
  BY <1>1, <1>2, <1>3, <1>5, <1>6, <1>7, <1>8, <1>9, <1>10, <1>11, <1>12, <1>13, <1>14,
     <1>15, <1>16, <1>17, <1>18, <1>19
  DEF Next, InputThread, EventLoop

-----------------------------------------------------------------------------
(* A resynchronisation: its events are read before any other, and while    *)
(* they wait no macro runs                                                 *)

HasSync(q) == \E n \in DOMAIN q : q[n].sync
SyncWaits == cur.sync \/ HasSync(queue)

SyncInv ==
    /\ pc = "idle" \/ cur.sync \/ ~SyncWaits
    /\ pc = "macros" => ~cur.sync
    /\ ~abandoned /\ SyncWaits => Quiet

LEMMA SyncInit == Init => SyncInv
BY DEF Init, SyncInv, SyncWaits, HasSync, NoEvent

\* A step that ends with the thread idle, or where it is with the same event.
LEMMA SyncKept ==
    ASSUME SyncInv, HasSync(queue') => HasSync(queue),
           ~abandoned' => ~abandoned, Quiet /\ ~abandoned' => Quiet',
           \/ pc' = "idle" /\ ~cur'.sync
           \/ pc # "idle" /\ cur'.sync = cur.sync /\ (pc' = "macros" => ~cur.sync)
    PROVE  SyncInv'
<1>1. SyncWaits' => SyncWaits
  BY DEF SyncWaits
<1>2. ~abandoned' /\ SyncWaits' => Quiet'
  BY <1>1 DEF SyncInv
<1>3. pc' = "macros" => ~cur'.sync
  OBVIOUS
<1>4. pc' = "idle" \/ cur'.sync \/ ~SyncWaits'
  BY <1>1 DEF SyncInv
<1> QED
  BY <1>2, <1>3, <1>4 DEF SyncInv

\* A step that leaves the input thread alone.
LEMMA SyncSame ==
    ASSUME Types, SyncInv, UNCHANGED threadVars, HasSync(queue') => HasSync(queue),
           ~abandoned' => ~abandoned, Quiet /\ ~abandoned' => Quiet'
    PROVE  SyncInv'
<1>1. CASE pc = "idle"
  <2>1. cur = NoEvent
    BY <1>1 DEF Types, ThreadType
  <2>2. pc' = "idle" /\ ~cur'.sync
    BY <1>1, <2>1 DEF threadVars, NoEvent
  <2> QED
    BY <2>2, SyncKept
<1>2. CASE pc # "idle"
  BY <1>2, SyncKept DEF threadVars, SyncInv
<1> QED
  BY <1>1, <1>2

\* An event that is taken is one of the resynchronisation, if there is one.
LEMMA SyncTake ==
    ASSUME Types, SyncInv, NEW i \in Readable, Take(i), pc' \in {"check", "grab"},
           ~abandoned' => ~abandoned, Quiet /\ ~abandoned' => Quiet'
    PROVE  SyncInv'
<1>1. queue \in Seq(HwEvents) /\ i \in DOMAIN queue
  BY DEF Types, DeviceType, Readable
<1>2. cur' = queue[i] /\ queue' = RemoveAt(queue, i)
  BY DEF Take
<1>3. HasSync(queue') => HasSync(queue)
  BY <1>1, <1>2, Removed DEF HasSync
<1>4. HasSync(queue) => cur'.sync
  BY <1>2 DEF Readable, HasSync
<1>5. SyncWaits' => HasSync(queue)
  BY <1>1, <1>2, <1>3 DEF SyncWaits, HasSync
<1>6. ~abandoned' /\ SyncWaits' => Quiet'
  BY <1>5 DEF SyncInv, SyncWaits
<1> QED
  BY <1>4, <1>5, <1>6 DEF SyncInv

LEMMA SyncNext ==
    ASSUME Types, Types', WithheldByCombo, ModeInv, SyncInv, [Next]_vars
    PROVE  SyncInv'
<1>1. CASE UNCHANGED vars
  <2>1. UNCHANGED <<threadVars, queue, abandoned, combos, withheld>>
    BY <1>1 DEF vars, hwVars, comboVars
  <2> QED
    BY <2>1, SyncSame, SameQuiet
<1>2. ASSUME NEW c \in Keys, PressKey(c) \/ ReleaseKey(c) PROVE SyncInv'
  <2>1. UNCHANGED <<threadVars, abandoned, combos, withheld>>
        /\ (Arrive(c, 1) \/ Arrive(c, 0))
    BY <1>2 DEF PressKey, ReleaseKey, NotTheDevices, comboVars
  <2>2. HasSync(queue') => HasSync(queue)
    BY <2>1, Arrived DEF Types, DeviceType, HasSync
  <2> QED
    BY <2>1, <2>2, SyncSame, SameQuiet
<1>3. CASE RepeatKey
  <2>1. UNCHANGED <<threadVars, abandoned, combos, withheld>> /\ Arrive(rep, 2) /\ rep \in Keys
    BY <1>3 DEF RepeatKey, NotTheDevices, comboVars, Types, DeviceType
  <2>2. HasSync(queue') => HasSync(queue)
    BY <2>1, Arrived DEF Types, DeviceType, HasSync
  <2> QED
    BY <2>1, <2>2, SyncSame, SameQuiet
<1>4. ASSUME NEW i \in Readable, StageContext(i) PROVE SyncInv'
  BY <1>4, SyncTake, SameQuiet DEF StageContext, comboVars
<1>5. ASSUME NEW e, EmergencyUngrab(e), ~abandoned' PROVE ~abandoned
  BY <1>5, NothingLeft DEF EmergencyUngrab
<1>6. ASSUME NEW i \in Readable, StageContextPause(i) PROVE SyncInv'
  BY <1>5, <1>6, SyncTake, SameQuiet DEF StageContextPause, comboVars
<1>7. ASSUME NEW i \in Readable, StageContextScrollLock(i) PROVE SyncInv'
  BY <1>5, <1>7, SyncTake, SameQuiet DEF StageContextScrollLock, comboVars
<1>8. ASSUME NEW i \in Readable, StageContextNumLock(i) PROVE SyncInv'
  <2>1. Take(i)
    BY <1>8 DEF StageContextNumLock
  <2>2. CASE /\ ReleaseAllPressedKeys(Track(pressedKeys, queue[i]))
             /\ abandoned' = (abandoned \/ vdown' \ Releasing # {}) /\ pc' = "check"
    <3>1. ~abandoned' => ~abandoned
      BY <2>2
    <3>2. ~abandoned' => Quiet'
      BY <2>2, <3>1, ReleaseQuiet DEF ModeInv
    <3> QED
      BY <2>1, <2>2, <3>1, <3>2, SyncTake
  <2>3. CASE pc' = "grab" /\ UNCHANGED <<comboVars, vdown, grabbed, abandoned>>
    BY <2>1, <2>3, SyncTake, SameQuiet DEF comboVars
  <2> QED
    BY <1>8, <2>2, <2>3 DEF StageContextNumLock
<1>9. CASE NumLockGrab
  <2>1. ReleaseAllPressedKeys(pressedKeys) /\ abandoned' = abandoned /\ pc = "grab"
        /\ pc' = "check" /\ cur' = cur /\ queue' = queue
    BY <1>9 DEF NumLockGrab, hwVars
  <2>2. ~abandoned' => Quiet'
    BY <2>1, ReleaseQuiet DEF ModeInv
  <2> QED
    BY <2>1, <2>2, SyncKept
<1>10. CASE SkipMonitored \/ EmitFinal
  <2>1. UNCHANGED <<queue, abandoned, combos, withheld>> /\ pc' = "idle" /\ cur' = NoEvent
    BY <1>10 DEF SkipMonitored, EmitFinal, CheckVars, hwVars, comboVars
  <2> QED
    BY <2>1, SyncKept, SameQuiet DEF NoEvent
<1>11. CASE StageGKey
  <2>1. /\ UNCHANGED <<queue, combos, withheld, pc>> /\ pc = "check"
        /\ abandoned' = (abandoned \/ cur.value = 0)
        /\ cur' = [cur EXCEPT !.code = G(cur.code - KEY_1 + 1)]
    BY <1>11 DEF StageGKey, CheckVars, hwVars, comboVars
  <2>2. cur'.sync = cur.sync
    BY <2>1 DEF Types, ThreadType, Events
  <2>3. ~abandoned' => ~abandoned
    BY <2>1
  <2> QED
    BY <2>1, <2>2, <2>3, SyncKept, SameQuiet
<1>12. CASE EnterMacros
  <2>1. /\ UNCHANGED <<queue, combos, withheld, cur, abandoned>> /\ pc = "check"
        /\ (pc' = "macros" => ~cur.sync)
    BY <1>12 DEF EnterMacros, CheckVars, hwVars, comboVars
  <2> QED
    BY <2>1, SyncKept, SameQuiet
<1>13. ASSUME NEW T, StageMacros(T) PROVE SyncInv'
  <2>1. pc = "macros" /\ queue' = queue /\ (cur' = NoEvent \/ cur' = cur)
        /\ pc' \in {"idle", "final"}
    BY <1>13 DEF StageMacros, hwVars
  <2>2. ~SyncWaits
    BY <2>1 DEF SyncInv
  <2>3. ~SyncWaits'
    BY <2>1, <2>2 DEF SyncWaits, NoEvent
  <2> QED
    BY <2>1, <2>3 DEF SyncInv
<1>14. CASE Resynchronise
  <2>1. /\ pc = "idle" /\ UNCHANGED <<pc, cur, abandoned>> /\ combos' = ResetCombos
    BY <1>14 DEF Resynchronise, threadVars
  <2>2. ASSUME ~abandoned' PROVE Quiet'
    <3>1. stale = {}
      BY <2>1, <2>2 DEF ModeInv
    <3>2. withheld' = NothingWithheld
      BY <1>14, <3>1, ResynchroniseLeavesStale
    <3> QED
      BY <2>1, <3>2, ResetQuiet DEF Quiet
  <2> QED
    BY <2>1, <2>2 DEF SyncInv
<1>15. CASE Paste \/ PasteKey \/ SimulateKey
  BY <1>15, SyncSame, SameQuiet DEF Paste, PasteKey, SimulateKey, TypeKey, hwVars, comboVars
<1>16. ASSUME NEW w, ActiveWindowChanged(w) PROVE SyncInv'
  <2>1. UNCHANGED <<threadVars, queue, combos, withheld>>
        /\ abandoned' = (abandoned \/ withheld # NothingWithheld)
    BY <1>16 DEF ActiveWindowChanged, NotTheLoop, hwVars, comboVars
  <2>2. ~abandoned' => ~abandoned
    BY <2>1
  <2> QED
    BY <2>1, <2>2, SyncSame, SameQuiet
<1>17. CASE SetContextReleases
  <2>1. ReleaseAllPressedKeys(pressedKeys) /\ UNCHANGED <<threadVars, queue, abandoned>>
    BY <1>17 DEF SetContextReleases, NotTheLoop, hwVars
  <2>2. ~abandoned' => Quiet'
    BY <2>1, ReleaseQuiet DEF ModeInv
  <2> QED
    BY <2>1, <2>2, SyncSame
<1>18. CASE EnableKeyboard \/ EnableKeyboardGrab \/ Start
  BY <1>18, SyncSame, SameQuiet DEF EnableKeyboard, EnableKeyboardGrab, Start, NotTheLoop,
     hwVars, comboVars
<1>19. CASE StartFails
  <2>1. UNCHANGED <<threadVars, queue, combos, withheld>> /\ abandoned' = LeftBehind(hw)
    BY <1>19 DEF StartFails, NotTheLoop, hwVars, comboVars
  <2>2. ~abandoned' => ~abandoned
    BY <2>1, NothingLeft
  <2> QED
    BY <2>1, <2>2, SyncSame, SameQuiet
<1>20. CASE Stop
  <2>1. UNCHANGED <<threadVars, combos, withheld>> /\ abandoned' = LeftBehind(pressedKeys)
        /\ queue' = <<>>
    BY <1>20 DEF Stop, comboVars
  <2>2. ~abandoned' => ~abandoned
    BY <2>1, NothingLeft
  <2>3. ~HasSync(queue')
    BY <2>1 DEF HasSync
  <2> QED
    BY <2>1, <2>2, <2>3, SyncSame, SameQuiet
<1>21. ASSUME NEW j, ReplaceMacros(j) PROVE SyncInv'
  <2>1. UNCHANGED <<threadVars, queue, withheld>> /\ combos' = NoProgress
        /\ abandoned' = (abandoned \/ withheld # NothingWithheld)
    BY <1>21 DEF ReplaceMacros, NotTheLoop, hwVars
  <2>2. ~abandoned' => ~abandoned
    BY <2>1
  <2>3. Quiet => Quiet'
    BY <2>1, ClearedQuiet DEF Quiet
  <2> QED
    BY <2>1, <2>2, <2>3, SyncSame
<1>22. ASSUME NEW j, UpdateMacros(j) \/ UpdateMacrosFails(j) PROVE SyncInv'
  BY <1>21, <1>22 DEF UpdateMacros, UpdateMacrosFails
<1>23. ASSUME NEW q, SimulateInput(q) PROVE SyncInv'
  <2>1. UNCHANGED <<threadVars, queue, combos, withheld>>
    BY <1>23 DEF SimulateInput, hwVars, comboVars
  <2>2. ~abandoned' => ~abandoned
    BY <1>23 DEF SimulateInput
  <2> QED
    BY <2>1, <2>2, SyncSame, SameQuiet
<1>24. CASE Restart
  <2>1. pc' = "idle" /\ cur' = NoEvent /\ queue' = <<>>
    BY <1>24 DEF Restart
  <2> QED
    BY <2>1 DEF SyncInv, SyncWaits, HasSync, NoEvent
<1> QED
  BY <1>1, <1>2, <1>3, <1>4, <1>6, <1>7, <1>8, <1>9, <1>10, <1>11, <1>12, <1>13, <1>14,
     <1>15, <1>16, <1>17, <1>18, <1>19, <1>20, <1>22, <1>23, <1>24
  DEF Next, InputThread, EventLoop

-----------------------------------------------------------------------------
(* The event the input thread works on                                     *)

\* Its key is held unless it was released, and only G keys are not real keys.
LibInv ==
    pc # "idle" =>
        /\ cur.value # 0 => cur.code \in lib \/ cur.code > KEY_MAX
        /\ cur.value = 0 /\ ~abandoned => cur.code <= KEY_MAX

LEMMA LibInit == Init => LibInv
BY DEF Init, LibInv

LEMMA LibSame ==
    ASSUME LibInv, pc # "idle", UNCHANGED <<lib, cur>>, ~abandoned' => ~abandoned
    PROVE  LibInv'
BY DEF LibInv

LEMMA LibTake ==
    ASSUME Types, NEW i \in Readable, Take(i)
    PROVE  LibInv'
<1>1. queue \in Seq(HwEvents) /\ i \in DOMAIN queue
  BY DEF Types, DeviceType, Readable
<1>2. queue[i] \in HwEvents
  BY <1>1
<1>3. queue[i].code \in Keys
  BY <1>2 DEF HwEvents
<1>4. queue[i].code <= KEY_MAX
  <2>1. Keys \subseteq 0 .. KEY_MAX /\ KEY_MAX \in Nat
    BY ConstantsAssumption DEF KEY_MAX
  <2>2. queue[i].code \in 0 .. KEY_MAX
    BY <1>3, <2>1
  <2> QED
    BY <2>1, <2>2, SMT
<1>5. cur' = queue[i] /\ lib' = LibAfter(queue[i])
  BY DEF Take
<1> QED
  BY <1>4, <1>5 DEF LibInv, LibAfter

LEMMA LibNext ==
    ASSUME Types, ModeInv, LibInv, [Next]_vars
    PROVE  LibInv'
<1>1. CASE pc' = "idle"
  BY <1>1 DEF LibInv
<1>2. CASE \E i \in Readable : Take(i)
  BY <1>2, LibTake
<1>3. CASE pc # "idle" /\ UNCHANGED <<lib, cur>> /\ (~abandoned' => ~abandoned)
  BY <1>3, LibSame
<1>4. CASE StageGKey
  <2>1. /\ cur' = [cur EXCEPT !.code = G(cur.code - KEY_1 + 1)] /\ cur \in Events
        /\ abandoned' = (abandoned \/ cur.value = 0) /\ cur.code \in KEY_1 .. KEY_6
    BY <1>4 DEF StageGKey, DetectGKey, Types, ThreadType
  <2>2. cur'.code = G(cur.code - KEY_1 + 1) /\ cur'.value = cur.value
    BY <2>1 DEF Events
  <2>3. G(cur.code - KEY_1 + 1) > KEY_MAX
    <3>1. cur.code \in 2 .. 7
      BY <2>1 DEF KEY_1, KEY_6
    <3> QED
      BY <3>1, SMT DEF KEY_1, KEY_MAX, G
  <2>4. cur'.value = 0 => abandoned'
    BY <2>1, <2>2
  <2> QED
    BY <2>2, <2>3, <2>4 DEF LibInv
<1>5. \/ pc' = "idle" \/ (\E i \in Readable : Take(i)) \/ StageGKey
      \/ pc # "idle" /\ UNCHANGED <<lib, cur>> /\ (~abandoned' => ~abandoned)
  <2>1. CASE UNCHANGED vars
    BY <2>1 DEF vars, threadVars
  <2>2. CASE (\E c \in Keys : PressKey(c) \/ ReleaseKey(c)) \/ RepeatKey
    BY <2>2 DEF PressKey, ReleaseKey, RepeatKey, NotTheDevices, threadVars
  <2>3. CASE \E i \in Readable : StageContext(i) \/ StageContextPause(i)
                                 \/ StageContextScrollLock(i) \/ StageContextNumLock(i)
    BY <2>3 DEF StageContext, StageContextPause, StageContextScrollLock, StageContextNumLock
  <2>4. CASE NumLockGrab \/ SkipMonitored \/ EnterMacros \/ EmitFinal \/ Resynchronise \/ Paste
             \/ PasteKey
    BY <2>4 DEF NumLockGrab, SkipMonitored, EnterMacros, EmitFinal, Resynchronise, Paste,
       PasteKey, TypeKey, CheckVars, threadVars
  <2>5. ASSUME NEW T, StageMacros(T)
        PROVE  \/ pc' = "idle"
               \/ pc # "idle" /\ UNCHANGED <<lib, cur>> /\ (~abandoned' => ~abandoned)
    <3>1. lib' = lib /\ pc = "macros" /\ (pc' = "idle" \/ cur' = cur)
      BY <2>5 DEF StageMacros
    <3>2. ~abandoned' => ~abandoned
      BY <2>5 DEF StageMacros
    <3> QED
      BY <3>1, <3>2
  <2>6. ASSUME EventLoop
        PROVE  \/ pc' = "idle"
               \/ pc # "idle" /\ UNCHANGED <<lib, cur>> /\ (~abandoned' => ~abandoned)
    <3>0. ASSUME UNCHANGED <<lib, pc, cur>>, ~abandoned' => ~abandoned
          PROVE  \/ pc' = "idle"
                 \/ pc # "idle" /\ UNCHANGED <<lib, cur>> /\ (~abandoned' => ~abandoned)
      BY <3>0
    <3>1. ASSUME NEW w, ActiveWindowChanged(w)
          PROVE  UNCHANGED <<lib, pc, cur>> /\ (~abandoned' => ~abandoned)
      BY <3>1 DEF ActiveWindowChanged, NotTheLoop, threadVars
    <3>2. CASE SetContextReleases \/ EnableKeyboard \/ EnableKeyboardGrab
      BY <3>2 DEF SetContextReleases, EnableKeyboard, EnableKeyboardGrab, NotTheLoop, threadVars
    <3>3. CASE Start \/ Stop
      BY <3>3 DEF Start, Stop, threadVars, ModeInv
    <3>4. CASE StartFails
      BY <3>4 DEF StartFails, NotTheLoop, threadVars, ModeInv
    <3>5. ASSUME NEW j, UpdateMacros(j) \/ UpdateMacrosFails(j)
          PROVE  UNCHANGED <<lib, pc, cur>> /\ (~abandoned' => ~abandoned)
      <4>1. \E d : ReplaceMacros(d)
        BY <3>5 DEF UpdateMacros, UpdateMacrosFails
      <4>2. UNCHANGED <<lib, pc, cur>>
        BY <4>1 DEF ReplaceMacros, NotTheLoop, threadVars
      <4>3. ~abandoned' => ~abandoned
        BY <4>1 DEF ReplaceMacros
      <4> QED
        BY <4>2, <4>3
    <3>6. ASSUME (\E q : SimulateInput(q)) \/ SimulateKey
          PROVE  UNCHANGED <<lib, pc, cur>> /\ (~abandoned' => ~abandoned)
      <4>1. UNCHANGED <<lib, pc, cur>>
        BY <3>6 DEF SimulateInput, SimulateKey, TypeKey, threadVars
      <4>2. ~abandoned' => ~abandoned
        BY <3>6 DEF SimulateInput, SimulateKey, TypeKey
      <4> QED
        BY <4>1, <4>2
    <3> QED
      BY <2>6, <3>0, <3>1, <3>2, <3>3, <3>4, <3>5, <3>6 DEF EventLoop
  <2>7. CASE Restart
    BY <2>7 DEF Restart
  <2> QED
    BY <2>1, <2>2, <2>3, <2>4, <2>5, <2>6, <2>7 DEF Next, InputThread
<1> QED
  BY <1>1, <1>2, <1>3, <1>4, <1>5

-----------------------------------------------------------------------------
(* The macros of well-behaved documents                                    *)

\* Every document of a session has only triggers that wait for presses, and
\* sequences that leave down no key but those of their trigger.
GoodDocuments == \A s \in Sessions : s.files \subseteq DocumentsOf(GoodActions)

MacrosInv ==
    appMacros \in [Apps -> Seq(GoodActions)] /\ saved \in DocumentsOf(GoodActions)

LEMMA MacrosInit == Init => MacrosInv
BY TableMacros, NoDocument DEF Init, MacrosInv

LEMMA MacrosNext ==
    ASSUME GoodDocuments, Types, MacrosInv, [Next]_vars
    PROVE  MacrosInv'
<1>1. CASE UNCHANGED <<appMacros, saved>>
  BY <1>1 DEF MacrosInv
<1>2. ASSUME NEW j \in DocumentsOf(GoodActions), ReplaceMacros(j),
             saved' \in DocumentsOf(GoodActions)
      PROVE  MacrosInv'
  <2>1. SetMacrosFromJsonInternal(appMacros, j) \in [Apps -> Seq(GoodActions)]
    BY ReplacedMacros DEF MacrosInv
  <2> QED
    BY <1>2, <2>1 DEF ReplaceMacros, MacrosInv
<1>3. session.files \subseteq DocumentsOf(GoodActions)
  BY DEF GoodDocuments, Types, DeviceType
<1>4. ASSUME NEW j \in session.files, UpdateMacros(j) PROVE MacrosInv'
  BY <1>2, <1>3, <1>4 DEF UpdateMacros
<1>5. ASSUME NEW j \in session.files, UpdateMacrosFails(j) PROVE MacrosInv'
  <2>1. j \in DocumentsOf(GoodActions)
    BY <1>3
  <2>2. PICK n \in DOMAIN j : \E k \in 0 .. Len(j[n].list) - 1 :
           ReplaceMacros(Append(SubSeq(j, 1, n - 1), [j[n] EXCEPT !.list = SubSeq(@, 1, k)]))
    BY <1>5 DEF UpdateMacrosFails
  <2>3. PICK k \in 0 .. Len(j[n].list) - 1 :
           ReplaceMacros(Append(SubSeq(j, 1, n - 1), [j[n] EXCEPT !.list = SubSeq(@, 1, k)]))
    BY <2>2
  <2> DEFINE d == Append(SubSeq(j, 1, n - 1), [j[n] EXCEPT !.list = SubSeq(@, 1, k)])
  <2>4. d \in DocumentsOf(GoodActions)
    BY <2>1, ReadSoFar
  <2>5. ReplaceMacros(d)
    BY <2>3
  <2> HIDE DEF d
  <2>6. saved' \in DocumentsOf(GoodActions)
    BY <1>5 DEF UpdateMacrosFails, MacrosInv
  <2> QED
    BY <1>2, <2>4, <2>5, <2>6
<1>6. CASE Restart
  <2>1. InitialMacros \in [Apps -> Seq(GoodActions)]
    BY TableMacros
  <2>2. SetMacrosFromJsonInternal(InitialMacros, saved) \in [Apps -> Seq(GoodActions)]
    BY <2>1, ReplacedMacros DEF MacrosInv
  <2> QED
    BY <1>6, <2>2 DEF Restart, MacrosInv
<1>7. CASE UNCHANGED vars
  BY <1>1, <1>7 DEF vars, configVars
<1>8. CASE (\E c \in Keys : PressKey(c) \/ ReleaseKey(c)) \/ RepeatKey
  BY <1>1, <1>8 DEF PressKey, ReleaseKey, RepeatKey, NotTheDevices, configVars
<1>9. CASE InputThread \/ Paste \/ PasteKey
  <2>1. CASE \E i \in Readable : Take(i)
    BY <1>1, <2>1 DEF Take, configVars
  <2>2. CASE \E i \in Readable : StageContext(i) \/ StageContextPause(i)
                                 \/ StageContextScrollLock(i) \/ StageContextNumLock(i)
    BY <2>1, <2>2 DEF StageContext, StageContextPause, StageContextScrollLock,
                      StageContextNumLock
  <2>3. CASE NumLockGrab \/ SkipMonitored \/ StageGKey \/ EnterMacros
    BY <1>1, <2>3 DEF NumLockGrab, SkipMonitored, StageGKey, EnterMacros, CheckVars, configVars
  <2>4. CASE (\E T : StageMacros(T)) \/ EmitFinal \/ Resynchronise \/ Paste \/ PasteKey
    <3>1. UNCHANGED configVars
      BY <2>4 DEF StageMacros, EmitFinal, Resynchronise, Paste, PasteKey, TypeKey
    <3> QED
      BY <1>1, <3>1 DEF configVars
  <2> QED
    BY <1>9, <2>2, <2>3, <2>4 DEF InputThread
<1>10. CASE EventLoop
  <2>1. CASE \/ \E w : ActiveWindowChanged(w)
             \/ SetContextReleases \/ EnableKeyboard \/ EnableKeyboardGrab
             \/ Start \/ StartFails \/ Stop
             \/ (\E q : SimulateInput(q)) \/ SimulateKey
    <3>1. UNCHANGED configVars
      BY <2>1 DEF ActiveWindowChanged, SetContextReleases, EnableKeyboard,
                  EnableKeyboardGrab, Start, StartFails, Stop, SimulateInput, SimulateKey,
                  TypeKey
    <3> QED
      BY <1>1, <3>1 DEF configVars
  <2> QED
    BY <1>4, <1>5, <1>10, <2>1 DEF EventLoop
<1> QED
  BY <1>6, <1>7, <1>8, <1>9, <1>10 DEF Next

-----------------------------------------------------------------------------
(* What is down on the virtual device                                      *)

\* The keys libevdev has for down, and the one whose release the input thread
\* works on.
Held == IF pc # "idle" /\ cur.value = 0 THEN lib \cup {cur.code} ELSE lib

\* The keys of the steps that the combos of an application have taken are held,
HeldFor(app) ==
    \A i \in DOMAIN combos[app] : \A k \in 1 .. combos[app][i] :
        appMacros[app][i].trigger[k].code <= KEY_MAX =>
            appMacros[app][i].trigger[k].code \in Held

\* and whatever is withheld is withheld by one of them.
OwnedBy(app) ==
    \A c \in Codes : \A n \in DOMAIN withheld[c] : Owned(app, c, withheld[c][n].owner)

\* What is down is held, or will be released by what is typed.  Only combos of the
\* active application are in progress, but between the two
\* halves of setContext; the input thread, which has read the application before
\* it took macrosMutex_, then finds nothing withheld.  Where a release is still to
\* be emitted, no combo has a step of its key.
StuckInv ==
    ~abandoned =>
        /\ vdown \subseteq Held \cup Releasing
        /\ HeldFor(activeApp) /\ OwnedBy(activeApp)
        /\ pc = "macros" => HeldFor(curApp)
        /\ loopPc # "release" => \A app \in Apps \ {activeApp} : NoCombo(app)
        /\ pc = "macros" /\ curApp # activeApp =>
              withheld = NothingWithheld /\ NoCombo(activeApp)
        /\ pc = "final" /\ cur.value = 0 =>
              \A i \in DOMAIN combos[activeApp] : ~Owned(activeApp, cur.code, i)

\* It says that no key is stuck.
LEMMA NotStuck == StuckInv => StuckOnlyIfAbandoned
BY DEF StuckInv, StuckOnlyIfAbandoned, NoStuckKeys, Held

\* What the loop of stageMacros starts with.
LEMMA HeldForLoop ==
    ASSUME Types, NEW app \in Apps, HeldFor(app)
    PROVE  HeldBy(appMacros[app], Acc(app), Held)
<1>1. Acc(app).next = Progress(app)
  BY DEF Acc
<1>2. SUFFICES ASSUME NEW o \in Visited(appMacros[app]), NEW k \in 1 .. Progress(app)[o],
                      appMacros[app][o].trigger[k].code <= KEY_MAX
               PROVE  appMacros[app][o].trigger[k].code \in Held
  BY <1>1 DEF HeldBy
<1>3. CASE combos[app] = <<>>
  <2>1. Progress(app)[o] = 0
    BY <1>3, ProgressType
  <2> QED
    BY <2>1, SMT
<1>4. CASE combos[app] # <<>>
  <2>1. combos[app] = Progress(app) /\ o \in DOMAIN combos[app]
    BY <1>4, ProgressType
  <2> QED
    BY <1>2, <2>1 DEF HeldFor
<1> QED
  BY <1>3, <1>4

LEMMA OwnedByLoop ==
    ASSUME Types, NEW app \in Apps, OwnedBy(app)
    PROVE  HasOwners(appMacros[app], Acc(app), {}, {})
<1>1. SUFFICES ASSUME NEW c \in Codes, NEW n \in DOMAIN withheld[c]
               PROVE  Waits(appMacros[app], Acc(app), c, withheld[c][n].owner)
  BY DEF HasOwners, Acc
<1>2. Owned(app, c, withheld[c][n].owner)
  BY DEF OwnedBy
<1> QED
  BY <1>2, OwnedWaits

\* A combo that has taken no step asks for nothing.
LEMMA NoComboHeld ==
    ASSUME NEW app, NoCombo(app)
    PROVE  HeldFor(app) /\ \A c, i : ~Owned(app, c, i)
<1>1. ASSUME NEW i \in DOMAIN combos[app] PROVE 1 .. combos[app][i] = {}
  <2>1. combos[app][i] = 0
    BY DEF NoCombo
  <2> QED
    BY <2>1, SMT
<1> QED
  BY <1>1 DEF HeldFor, Owned

LEMMA NothingOwned == ASSUME NEW app, withheld = NothingWithheld PROVE OwnedBy(app)
<1>1. \A c \in Codes : DOMAIN withheld[c] = {}
  BY DEF NothingWithheld
<1> QED
  BY <1>1 DEF OwnedBy

\* Where no combo is in progress it is enough that what is down is held.
LEMMA QuietStuck ==
    Types /\ Quiet /\ (~abandoned => vdown \subseteq Held \cup Releasing) => StuckInv
<1>1. SUFFICES ASSUME Types, Quiet, ~abandoned, vdown \subseteq Held \cup Releasing
               PROVE  StuckInv
  BY DEF StuckInv
<1>2. activeApp \in Apps /\ curApp \in Apps
  BY <1>1 DEF Types, ThreadType, LoopType
<1>3. HeldFor(activeApp) /\ HeldFor(curApp) /\ \A c, i : ~Owned(activeApp, c, i)
  BY <1>1, <1>2, NoComboHeld DEF Quiet
<1>4. OwnedBy(activeApp)
  BY <1>1, NothingOwned DEF Quiet
<1> QED
  BY <1>1, <1>2, <1>3, <1>4 DEF StuckInv, Quiet

LEMMA QuietNext ==
    ASSUME Types', ~abandoned' => Quiet' /\ vdown' \subseteq Held' \cup Releasing'
    PROVE  StuckInv'
<1>1. Types' /\ Quiet' /\ (~abandoned => vdown \subseteq Held \cup Releasing)' => StuckInv'
  BY QuietStuck, PTL
<1> QED
  BY <1>1 DEF StuckInv

LEMMA StuckInit == ASSUME Types, Init PROVE StuckInv
<1>1. combos = NoProgress /\ withheld = NothingWithheld /\ vdown = {}
  BY DEF Init
<1>2. Quiet
  BY <1>1, NoProgressType DEF Quiet, NoCombo
<1> QED
  BY <1>1, <1>2, QuietStuck

\* A step that only adds to what is held.
LEMMA StuckSame ==
    ASSUME StuckInv, UNCHANGED <<combos, withheld, appMacros, activeApp>>,
           ~abandoned' => ~abandoned /\ Held \subseteq Held',
           ~abandoned' /\ vdown \subseteq Held \cup Releasing =>
               vdown' \subseteq Held \cup Releasing',
           pc' = "macros" => pc = "macros" /\ curApp' = curApp,
           pc' = "final" => pc = "final" /\ cur' = cur,
           loopPc' # "release" => loopPc # "release"
    PROVE  StuckInv'
<1>1. SUFFICES ASSUME ~abandoned' PROVE StuckInv'
  BY DEF StuckInv
<1>2. ~abandoned /\ vdown' \subseteq Held' \cup Releasing' /\ Held \subseteq Held'
  BY <1>1 DEF StuckInv
<1>3. HeldFor(activeApp)'
  BY <1>2 DEF StuckInv, HeldFor
<1>4. OwnedBy(activeApp)'
  BY <1>2 DEF StuckInv, OwnedBy, Owned
<1>5. pc' = "macros" => HeldFor(curApp)'
  <2>1. SUFFICES ASSUME pc' = "macros" PROVE HeldFor(curApp)'
    OBVIOUS
  <2>2. HeldFor(curApp) /\ curApp' = curApp
    BY <1>2, <2>1 DEF StuckInv
  <2> QED
    BY <1>2, <2>2 DEF HeldFor
<1>6. loopPc' # "release" => \A app \in Apps \ {activeApp'} : NoCombo(app)'
  BY <1>2 DEF StuckInv, NoCombo
<1>7. pc' = "macros" /\ curApp' # activeApp' => withheld' = NothingWithheld /\ NoCombo(activeApp)'
  BY <1>2 DEF StuckInv, NoCombo
<1>8. pc' = "final" /\ cur'.value = 0 =>
         \A i \in DOMAIN combos'[activeApp'] : ~Owned(activeApp, cur.code, i)'
  BY <1>2 DEF StuckInv, Owned
<1> QED
  BY <1>2, <1>3, <1>4, <1>5, <1>6, <1>7, <1>8 DEF StuckInv

\* The active window changes: nothing may be withheld then, and only combos of
\* the window that was active are in progress.
LEMMA StuckWindow ==
    ASSUME Types, StuckInv, NEW w, ActiveWindowChanged(w)
    PROVE  StuckInv'
<1>1. /\ UNCHANGED <<combos, withheld, appMacros, vdown, lib, pc, cur, curApp, typing>>
      /\ loopPc = "idle" /\ loopPc' = "release"
      /\ abandoned' = (abandoned \/ withheld # NothingWithheld)
  BY DEF ActiveWindowChanged, NotTheLoop, hwVars, threadVars, comboVars, configVars
<1>2. SUFFICES ASSUME ~abandoned' PROVE StuckInv'
  BY DEF StuckInv
<1>3. ~abandoned /\ withheld = NothingWithheld
  BY <1>1, <1>2
<1>4. activeApp' \in Apps
  BY DEF ActiveWindowChanged, AppTypeOf, StringToAppType, Apps
<1>5. Held' = Held
  BY <1>1 DEF Held
<1>6. activeApp' = activeApp \/ NoCombo(activeApp')
  BY <1>1, <1>3, <1>4 DEF StuckInv
<1>7. PICK app \in Apps : app = activeApp'
  BY <1>4
<1>8. HeldFor(app)
  BY <1>3, <1>6, <1>7, NoComboHeld DEF StuckInv
<1>9. HeldFor(app)'
  BY <1>1, <1>5, <1>8 DEF HeldFor
<1>10. OwnedBy(app)'
  <2>1. OwnedBy(app)
    BY <1>3, NothingOwned
  <2> QED
    BY <1>1, <2>1 DEF OwnedBy, Owned
<1>11. pc' = "macros" => HeldFor(curApp)'
  BY <1>1, <1>3, <1>5 DEF StuckInv, HeldFor
<1>12. pc' = "macros" /\ curApp' # app => NoCombo(app)'
  <2>1. ASSUME pc = "macros", curApp # app PROVE NoCombo(app)
    BY <1>3, <1>6, <1>7, <2>1 DEF StuckInv
  <2> QED
    BY <1>1, <2>1 DEF NoCombo
<1>13. pc' = "final" /\ cur'.value = 0 => \A i \in DOMAIN combos'[app] : ~Owned(app, cur.code, i)'
  <2>1. ASSUME pc = "final", cur.value = 0 PROVE \A i \in DOMAIN combos[app] : ~Owned(app, cur.code, i)
    <3>1. CASE app = activeApp
      BY <1>3, <2>1, <3>1 DEF StuckInv
    <3>2. CASE NoCombo(app)
      BY <3>2, NoComboHeld
    <3> QED
      BY <1>6, <1>7, <3>1, <3>2
  <2> QED
    BY <1>1, <2>1 DEF Owned
<1>14. vdown' \subseteq Held' \cup Releasing'
  BY <1>1, <1>3, <1>5, SameReleasing DEF StuckInv
<1>15. withheld' = NothingWithheld
  BY <1>1, <1>3
<1>16. HeldFor(activeApp)' /\ OwnedBy(activeApp)'
  BY <1>7, <1>9, <1>10 DEF HeldFor, OwnedBy, Owned
<1>17. pc' = "macros" /\ curApp' # activeApp' => NoCombo(activeApp)'
  BY <1>7, <1>12 DEF NoCombo
<1>18. pc' = "final" /\ cur'.value = 0 =>
          \A i \in DOMAIN combos'[activeApp'] : ~Owned(activeApp, cur.code, i)'
  BY <1>7, <1>13 DEF Owned
<1> QED
  BY <1>1, <1>11, <1>14, <1>15, <1>16, <1>17, <1>18 DEF StuckInv

\* The loop of stageMacros: a release that no combo lets pass goes to emitFinal,
\* and what the combos press or emit is held.
LEMMA StuckMacros ==
    ASSUME Types, Types', MacrosInv, LibInv, StuckInv, NEW T, StageMacros(T)
    PROVE  StuckInv'
<1>1. SUFFICES ASSUME ~abandoned' PROVE StuckInv'
  BY DEF StuckInv
<1> DEFINE r == RunCombos(T)
           ms == appMacros[curApp]
<1>2. /\ pc = "macros" /\ pc' \in {"idle", "final"}
      /\ combos' = [combos EXCEPT ![curApp] = r.next] /\ withheld' = r.withheld
      /\ vdown' = r.vdown
      /\ UNCHANGED <<appMacros, lib, activeApp, loopPc, typing>>
      /\ IF r.matched \/ IsBlocked(r.withheld, cur.code)
         THEN pc' = "idle" ELSE pc' = "final" /\ cur' = cur
  BY DEF StageMacros, configVars
<1>3. ~abandoned
  BY <1>1 DEF StageMacros
<1>4. curApp # activeApp => ~\E i \in DOMAIN r.next : r.next[i] > 0
  BY <1>1 DEF StageMacros
<1>5. curApp \in Apps /\ activeApp \in Apps /\ cur \in Events /\ ms \in Seq(KeyActions)
      /\ Acc(curApp) \in Accs(ms)
  BY <1>2, AccType DEF Types, ThreadType, LoopType, ConfigType
<1>6. \A i \in DOMAIN ms : ms[i] \in GoodActions
  <2>1. ms \in Seq(GoodActions)
    BY <1>5 DEF MacrosInv
  <2> HIDE DEF ms
  <2> QED
    BY <2>1
<1>7. r \in Accs(ms)
  BY <1>2, MacrosType
<1>8. PICK f : Turns(f, ms, cur) /\ f[0] = Acc(curApp) /\ f[Len(ms)] = r
  <2> HIDE DEF r
  <2> QED
    BY <1>5, LoopTurns DEF r
<1>9. HeldBy(ms, Acc(curApp), Held) /\ vdown \subseteq Held \cup Releasing
  BY <1>2, <1>3, <1>5, HeldForLoop DEF StuckInv
<1>10. HasOwners(ms, Acc(curApp), {}, {})
  <2>1. OwnedBy(curApp)
    BY <1>2, <1>3, NothingOwned DEF StuckInv
  <2> QED
    BY <1>5, <2>1, OwnedByLoop
<1>11. cur.code <= KEY_MAX => cur.code \in Held
  <2>1. cur.code \in Nat
    BY <1>5, CodesAreNumbers DEF Events
  <2>2. cur.code <= KEY_MAX => ~(cur.code > KEY_MAX)
    BY <2>1, SMT DEF KEY_MAX
  <2> QED
    BY <1>2, <2>2 DEF LibInv, Held
<1>12. Acc(curApp).vdown = vdown /\ Acc(curApp).matched = FALSE
  BY DEF Acc
<1> HIDE DEF r, ms
<1>13. HeldBy(ms, r, Held) /\ r.vdown \subseteq Held \cup Releasing
  <2>1. HeldBy(ms, f[0], Held) /\ HasOwners(ms, f[0], {}, {}) 
        /\ f[0].vdown \subseteq Held \cup Releasing
    BY <1>8, <1>9, <1>10, <1>12
  <2>2. HeldBy(ms, f[Len(ms)], Held) /\ f[Len(ms)].vdown \subseteq Held \cup Releasing
    BY <1>5, <1>6, <1>8, <1>11, <2>1, TurnsPressHeld
  <2> QED
    BY <1>8, <2>2
<1>14. HasOwners(ms, r, {}, {})
  <2>1. HasOwners(ms, f[0], {}, {})
    BY <1>8, <1>10
  <2>2. HasOwners(ms, f[Len(ms)], {}, {})
    BY <1>5, <1>8, <2>1, TurnsKeepOwners
  <2> QED
    BY <1>8, <2>2
<1>15. r.next \in [Visited(ms) -> Nat] /\ r.withheld \in Registries
  BY <1>7 DEF Accs
<1>16. ASSUME cur.value = 0, NEW o \in Visited(ms), NEW k \in 1 .. r.next[o]
       PROVE  ms[o].trigger[k].code # cur.code
  <2>1. Passed(f[Len(ms)], o, ms[o], cur)
    BY <1>5, <1>6, <1>8, <1>16, TurnsPass
  <2> QED
    BY <1>8, <1>16, <2>1 DEF Passed
<1>17. ASSUME cur.value = 0 PROVE pc' = "final" /\ cur' = cur
  <2>1. f[Len(ms)].matched = f[0].matched
    BY <1>5, <1>6, <1>8, <1>17, TurnsMatchNothing
  <2>2. ~r.matched
    BY <1>8, <1>12, <2>1
  <2>3. ~IsBlocked(r.withheld, cur.code)
    <3>1. SUFFICES ASSUME r.withheld[cur.code] # <<>> PROVE FALSE
      BY DEF IsBlocked
    <3>2. cur.code \in Codes
      BY <1>5 DEF Events
    <3>3. r.withheld[cur.code] \in Seq(Entries)
      BY <1>15, <3>2 DEF Registries
    <3>4. 1 \in DOMAIN r.withheld[cur.code]
      <4>1. PICK s \in Seq(Entries) : s = r.withheld[cur.code]
        BY <3>3
      <4>2. Len(s) \in Nat /\ Len(s) # 0 /\ DOMAIN s = 1 .. Len(s)
        BY <3>1, <4>1
      <4>3. 1 \in 1 .. Len(s)
        BY <4>2, SMT
      <4> QED
        BY <4>1, <4>2, <4>3
    <3>5. Waits(ms, r, cur.code, r.withheld[cur.code][1].owner)
      BY <1>14, <3>2, <3>4 DEF HasOwners
    <3> QED
      BY <1>16, <1>17, <3>5 DEF Waits
  <2> QED
    BY <1>2, <2>2, <2>3
<1>18. Held \subseteq Held'
  <2>1. CASE cur.value = 0
    BY <1>2, <1>17, <2>1 DEF Held
  <2>2. CASE cur.value # 0
    BY <1>2, <2>2 DEF Held
  <2> QED
    BY <2>1, <2>2
<1>19. vdown' \subseteq Held' \cup Releasing'
  BY <1>2, <1>13, <1>18, SameReleasing
<1>20. \A app \in Apps : combos'[app] = IF app = curApp THEN r.next ELSE combos[app]
  <2>1. combos = [app \in Apps |-> combos[app]]
    BY DEF Types, ComboType
  <2> QED
    BY <1>2, <1>5, <2>1
<1>21. PICK mine \in Apps, act \in Apps : mine = curApp /\ act = activeApp
  BY <1>5
<1>22. combos'[mine] = r.next /\ DOMAIN r.next = Visited(ms) /\ ms = appMacros'[mine]
  BY <1>2, <1>15, <1>20, <1>21 DEF ms
<1>23. ASSUME mine # act
       PROVE  /\ withheld' = NothingWithheld /\ \A i \in Visited(ms) : r.next[i] = 0
              /\ combos'[act] = combos[act] /\ NoCombo(act)
  <2>1. ASSUME NEW i \in Visited(ms) PROVE r.next[i] = 0
    <3>1. r.next[i] \in Nat /\ i \in DOMAIN r.next
      BY <1>15
    <3>2. ~(r.next[i] > 0)
      BY <1>4, <1>21, <1>23, <3>1
    <3> QED
      BY <3>1, <3>2, SMT
  <2>2. ASSUME NEW c \in Codes, NEW n \in DOMAIN r.withheld[c] PROVE FALSE
    <3>1. Waits(ms, r, c, r.withheld[c][n].owner)
      BY <1>14 DEF HasOwners
    <3>2. PICK o \in Visited(ms) : \E k \in 1 .. r.next[o] : TRUE
      BY <3>1 DEF Waits
    <3>3. r.next[o] = 0
      BY <2>1
    <3> QED
      BY <3>2, <3>3, SMT
  <2>3. r.withheld = NothingWithheld
    BY <1>15, <2>2, EmptyRegistry
  <2>4. combos'[act] = combos[act] /\ NoCombo(act)
    BY <1>2, <1>3, <1>20, <1>21, <1>23 DEF StuckInv
  <2> QED
    BY <1>2, <2>1, <2>3, <2>4
<1>24. HeldFor(act)'
  <2>1. CASE mine = act
    <3>1. SUFFICES ASSUME NEW i \in DOMAIN combos'[act], NEW k \in 1 .. combos'[act][i],
                          appMacros'[act][i].trigger[k].code <= KEY_MAX
                   PROVE  appMacros'[act][i].trigger[k].code \in Held'
      BY DEF HeldFor
    <3>2. i \in Visited(ms) /\ k \in 1 .. r.next[i] /\ ms[i] = appMacros'[act][i]
      BY <1>22, <2>1
    <3>3. ms[i].trigger[k].code \in Held
      BY <1>13, <3>1, <3>2 DEF HeldBy
    <3> QED
      BY <1>18, <3>2, <3>3
  <2>2. CASE mine # act
    <3>1. HeldFor(act)
      BY <1>23, <2>2, NoComboHeld
    <3> QED
      BY <1>2, <1>18, <1>23, <2>2, <3>1 DEF HeldFor
  <2> QED
    BY <2>1, <2>2
<1>25. OwnedBy(act)'
  <2>1. CASE mine = act
    <3>1. SUFFICES ASSUME NEW c \in Codes, NEW n \in DOMAIN withheld'[c]
                   PROVE  Owned(act, c, withheld[c][n].owner)'
      BY DEF OwnedBy
    <3>2. PICK o : o = withheld'[c][n].owner
      OBVIOUS
    <3>3. Waits(ms, r, c, o)
      BY <1>2, <1>14, <3>1, <3>2 DEF HasOwners
    <3>4. Owned(act, c, o)'
      BY <1>22, <2>1, <3>3 DEF Waits, Owned
    <3> QED
      BY <3>2, <3>4 DEF Owned
  <2>2. CASE mine # act
    <3>1. \A c \in Codes : DOMAIN withheld'[c] = {}
      BY <1>23, <2>2 DEF NothingWithheld
    <3> QED
      BY <3>1 DEF OwnedBy
  <2> QED
    BY <2>1, <2>2
<1>26. ASSUME loopPc' # "release", NEW app \in Apps \ {act} PROVE NoCombo(app)'
  <2>1. CASE app = mine
    <3>1. \A i \in Visited(ms) : r.next[i] = 0
      BY <1>23, <1>26, <2>1
    <3> QED
      BY <1>22, <2>1, <3>1 DEF NoCombo
  <2>2. CASE app # mine
    <3>1. NoCombo(app)
      BY <1>2, <1>3, <1>21, <1>26 DEF StuckInv
    <3>2. combos'[app] = combos[app]
      BY <1>20, <1>21, <2>2
    <3> QED
      BY <3>1, <3>2 DEF NoCombo
  <2> QED
    BY <2>1, <2>2
<1>27. ASSUME pc' = "final", cur'.value = 0, NEW i \in DOMAIN combos'[act],
              Owned(act, cur.code, i)'
       PROVE  FALSE
  <2>1. cur' = cur
    BY <1>2, <1>27
  <2>2. PICK k \in 1 .. combos'[act][i] : appMacros'[act][i].trigger[k].code = cur.code
    BY <1>27, <2>1 DEF Owned
  <2>3. CASE mine = act
    <3>1. i \in Visited(ms) /\ k \in 1 .. r.next[i] /\ ms[i].trigger[k].code = cur.code
      BY <1>22, <1>27, <2>2, <2>3
    <3> QED
      BY <1>16, <1>27, <2>1, <3>1
  <2>4. CASE mine # act
    <3>1. combos'[act][i] = 0
      BY <1>23, <1>27, <2>4 DEF NoCombo
    <3> QED
      BY <2>2, <3>1, SMT
  <2> QED
    BY <2>3, <2>4
<1>28. act = activeApp'
  BY <1>2, <1>21
<1>29. HeldFor(activeApp)' /\ OwnedBy(activeApp)'
  BY <1>24, <1>25, <1>28 DEF HeldFor, OwnedBy, Owned
<1>30. loopPc' # "release" => \A app \in Apps \ {activeApp'} : NoCombo(app)'
  BY <1>26, <1>28
<1>31. pc' = "final" /\ cur'.value = 0 =>
          \A i \in DOMAIN combos'[activeApp'] : ~Owned(activeApp, cur.code, i)'
  BY <1>27, <1>28 DEF Owned
<1>32. pc' # "macros"
  BY <1>2
<1> QED
  BY <1>19, <1>29, <1>30, <1>31, <1>32 DEF StuckInv

\* emitFinal: what it presses is held, and what it releases no combo waits with.
LEMMA StuckEmit ==
    ASSUME Types, LibInv, StuckInv, EmitFinal
    PROVE  StuckInv'
<1>1. /\ pc = "final" /\ vdown' = Emit(vdown, cur.code, cur.value)
      /\ pc' = "idle" /\ cur' = NoEvent
      /\ UNCHANGED <<combos, withheld, appMacros, lib, activeApp, loopPc, abandoned, typing>>
  BY DEF EmitFinal, comboVars, configVars
<1>2. SUFFICES ASSUME ~abandoned PROVE StuckInv'
  BY <1>1 DEF StuckInv
<1>3. Held' = lib
  BY <1>1 DEF Held
<1>4. cur \in Events /\ cur.code \in Nat
  BY <1>1, CodesAreNumbers DEF Types, ThreadType, Events
<1>5. PICK act \in Apps : act = activeApp
  BY DEF Types, LoopType
<1>6. vdown \subseteq Held \cup Releasing /\ HeldFor(act) /\ OwnedBy(act)
  BY <1>2, <1>5 DEF StuckInv
<1>7. vdown' \subseteq lib \cup Releasing /\ HeldFor(act)'
  <2>1. CASE cur.value = 0
    <3>1. cur.code <= KEY_MAX /\ ~(cur.code > KEY_MAX)
      <4>1. cur.code <= KEY_MAX
        BY <1>1, <1>2, <2>1 DEF LibInv
      <4> QED
        BY <1>4, <4>1, SMT DEF KEY_MAX
    <3>2. vdown' = vdown \ {cur.code}
      BY <1>1, <2>1, <3>1 DEF Emit
    <3>3. Held = lib \cup {cur.code}
      BY <1>1, <2>1 DEF Held
    <3>4. ASSUME NEW i \in DOMAIN combos[act], NEW k \in 1 .. combos[act][i],
                 appMacros[act][i].trigger[k].code <= KEY_MAX
          PROVE  appMacros[act][i].trigger[k].code \in lib
      <4>1. appMacros[act][i].trigger[k].code \in Held
        BY <1>6, <3>4 DEF HeldFor
      <4>2. ~Owned(act, cur.code, i)
        BY <1>1, <1>2, <1>5, <2>1 DEF StuckInv
      <4>3. appMacros[act][i].trigger[k].code # cur.code
        BY <4>2 DEF Owned
      <4> QED
        BY <3>3, <4>1, <4>3
    <3> QED
      BY <1>1, <1>3, <1>6, <3>2, <3>3, <3>4 DEF HeldFor
  <2>2. CASE cur.value # 0
    <3>1. Held = lib
      BY <2>2 DEF Held
    <3>2. HeldFor(act)'
      BY <1>1, <1>3, <1>6, <3>1 DEF HeldFor
    <3>3. vdown' \subseteq vdown \cup {cur.code}
      BY <1>1 DEF Emit
    <3>4. cur.code > KEY_MAX => vdown' = vdown
      <4>1. cur.code > KEY_MAX => ~(cur.code <= KEY_MAX)
        BY <1>4, SMT DEF KEY_MAX
      <4> QED
        BY <1>1, <2>2, <4>1 DEF Emit
    <3>5. cur.code \in lib \/ cur.code > KEY_MAX
      BY <1>1, <2>2 DEF LibInv
    <3> QED
      BY <1>6, <3>1, <3>2, <3>3, <3>4, <3>5
  <2> QED
    BY <2>1, <2>2
<1>8. HeldFor(activeApp)' /\ OwnedBy(activeApp)'
  <2>1. OwnedBy(act)'
    BY <1>1, <1>6 DEF OwnedBy, Owned
  <2>2. act = activeApp'
    BY <1>1, <1>5
  <2> QED
    BY <1>7, <2>1, <2>2 DEF HeldFor, OwnedBy, Owned
<1>9. loopPc' # "release" => \A app \in Apps \ {activeApp'} : NoCombo(app)'
  BY <1>1, <1>2 DEF StuckInv, NoCombo
<1> QED
  BY <1>1, <1>3, <1>7, <1>8, <1>9, SameReleasing DEF StuckInv

\* An event is taken: a press or a repetition adds its key to those that are
\* held, and a released key is held until the event has passed.
LEMMA HeldTake ==
    ASSUME Types, NEW i \in Readable, Take(i), pc' # "idle"
    PROVE  Held \subseteq Held'
<1>1. pc = "idle" /\ cur' = queue[i] /\ lib' = LibAfter(queue[i])
  BY DEF Take
<1>2. Held = lib
  BY <1>1 DEF Held
<1>3. CASE cur'.value = 0
  BY <1>1, <1>2, <1>3 DEF Held, LibAfter
<1>4. CASE cur'.value # 0
  BY <1>1, <1>2, <1>4 DEF Held, LibAfter
<1> QED
  BY <1>3, <1>4

LEMMA StuckTake ==
    ASSUME Types, StuckInv, NEW i \in Readable, Take(i), pc' \in {"check", "grab"},
           UNCHANGED <<combos, withheld, vdown>>, ~abandoned' => ~abandoned
    PROVE  StuckInv'
<1>1. UNCHANGED <<appMacros, activeApp, loopPc, typing>>
  BY DEF Take, configVars
<1>2. Held \subseteq Held'
  BY HeldTake
<1> QED
  BY <1>1, <1>2, StuckSame, SameReleasing

LEMMA StuckNext ==
    ASSUME Types, Types', WithheldByCombo, TypingInv, ModeInv, SyncInv, LibInv, MacrosInv, StuckInv,
           [Next]_vars
    PROVE  StuckInv'
<1>1. CASE UNCHANGED vars
  <2>1. UNCHANGED <<combos, withheld, appMacros, activeApp, vdown, lib, pc, cur, curApp,
                    loopPc, abandoned, typing>>
    BY <1>1 DEF vars, threadVars, comboVars, configVars
  <2>2. Held' = Held
    BY <2>1 DEF Held
  <2> QED
    BY <2>1, <2>2, StuckSame, SameReleasing
<1>2. CASE (\E c \in Keys : PressKey(c) \/ ReleaseKey(c)) \/ RepeatKey
  <2>1. UNCHANGED <<combos, withheld, appMacros, activeApp, vdown, lib, pc, cur, curApp,
                    loopPc, abandoned, typing>>
    BY <1>2 DEF PressKey, ReleaseKey, RepeatKey, NotTheDevices, threadVars, comboVars, configVars
  <2>2. Held' = Held
    BY <2>1 DEF Held
  <2> QED
    BY <2>1, <2>2, StuckSame, SameReleasing
<1>3. ASSUME NEW i \in Readable, StageContext(i) PROVE StuckInv'
  BY <1>3, StuckTake DEF StageContext, comboVars
<1>4. ASSUME NEW e, EmergencyUngrab(e), ~abandoned' PROVE ~abandoned
  BY <1>4, NothingLeft DEF EmergencyUngrab
<1>5. ASSUME NEW i \in Readable, StageContextPause(i) PROVE StuckInv'
  BY <1>4, <1>5, StuckTake DEF StageContextPause, comboVars
<1>6. ASSUME NEW i \in Readable, StageContextScrollLock(i) PROVE StuckInv'
  BY <1>4, <1>6, StuckTake DEF StageContextScrollLock, comboVars
<1>7. ASSUME NEW i \in Readable, StageContextNumLock(i) PROVE StuckInv'
  <2>1. Take(i)
    BY <1>7 DEF StageContextNumLock
  <2>2. CASE /\ ReleaseAllPressedKeys(Track(pressedKeys, queue[i]))
             /\ abandoned' = (abandoned \/ vdown' \ Releasing # {}) /\ pc' = "check"
    <3>1. ~abandoned' => ~abandoned /\ vdown' \subseteq Releasing'
      BY <2>1, <2>2, SameReleasing DEF Take
    <3>2. ~abandoned' => Quiet'
      BY <2>2, <3>1, ReleaseQuiet DEF ModeInv
    <3> QED
      BY <3>1, <3>2, QuietNext
  <2>3. CASE pc' = "grab" /\ UNCHANGED <<comboVars, vdown, grabbed, abandoned>>
    BY <2>1, <2>3, StuckTake DEF comboVars
  <2> QED
    BY <1>7, <2>2, <2>3 DEF StageContextNumLock
<1>8. CASE NumLockGrab \/ SetContextReleases
  <2>1. ReleaseAllPressedKeys(pressedKeys) /\ UNCHANGED <<lib, cur, abandoned, typing>>
        /\ (pc' = pc \/ (pc = "grab" /\ pc' = "check"))
    BY <1>8 DEF NumLockGrab, SetContextReleases, NotTheLoop, threadVars
  <2>2. Held' = Held
    BY <2>1 DEF Held
  <2>3. ~abandoned' => Quiet' /\ vdown' \subseteq vdown
    BY <2>1, ReleaseQuiet DEF ModeInv
  <2>4. ~abandoned' => vdown' \subseteq Held' \cup Releasing'
    BY <2>1, <2>2, <2>3, SameReleasing DEF StuckInv
  <2> QED
    BY <2>3, <2>4, QuietNext
<1>9. ASSUME ~grabbed, UNCHANGED <<combos, withheld, vdown, typing>>,
             ~abandoned' => ~abandoned
      PROVE  StuckInv'
  <2>1. ~abandoned' => Quiet /\ vdown \subseteq Releasing
    BY <1>9 DEF ModeInv
  <2>2. ~abandoned' => Quiet' /\ vdown' \subseteq Held' \cup Releasing'
    BY <1>9, <2>1, SameQuiet, SameReleasing
  <2> QED
    BY <2>2, QuietNext
<1>10. CASE SkipMonitored
  BY <1>9, <1>10 DEF SkipMonitored, CheckVars, comboVars
<1>11. CASE StageGKey
  <2>1. /\ UNCHANGED <<combos, withheld, appMacros, activeApp, vdown, lib, pc, curApp, loopPc,
                       typing>>
        /\ pc = "check" /\ abandoned' = (abandoned \/ cur.value = 0)
        /\ cur' = [cur EXCEPT !.code = G(cur.code - KEY_1 + 1)]
    BY <1>11 DEF StageGKey, CheckVars, comboVars, configVars
  <2>2. cur'.value = cur.value
    BY <2>1 DEF Types, ThreadType, Events
  <2>3. ~abandoned' => ~abandoned /\ cur.value # 0
    BY <2>1
  <2>4. ~abandoned' => Held' = Held
    BY <2>1, <2>2, <2>3 DEF Held
  <2> QED
    BY <2>1, <2>3, <2>4, StuckSame, SameReleasing
<1>12. CASE EnterMacros
  <2>1. /\ UNCHANGED <<combos, withheld, appMacros, activeApp, vdown, lib, cur, loopPc, abandoned,
                       typing>>
        /\ pc = "check"
        /\ (pc' = "final" /\ cur.sync) \/ (pc' = "macros" /\ curApp' = activeApp)
    BY <1>12 DEF EnterMacros, CheckVars, comboVars, configVars
  <2>2. Held' = Held
    BY <2>1 DEF Held
  <2>3. CASE pc' = "final" /\ cur.sync
    <3>1. ~abandoned => Quiet
      BY <2>3 DEF SyncInv, SyncWaits
    <3>2. ~abandoned' => Quiet' /\ vdown' \subseteq Held' \cup Releasing'
      BY <2>1, <2>2, <3>1, SameQuiet, SameReleasing DEF StuckInv
    <3> QED
      BY <3>2, QuietNext
  <2>4. CASE pc' = "macros" /\ curApp' = activeApp
    <3>1. SUFFICES ASSUME ~abandoned PROVE StuckInv'
      BY <2>1 DEF StuckInv
    <3>2. HeldFor(activeApp)' /\ OwnedBy(activeApp)' /\ HeldFor(curApp)'
      BY <2>1, <2>2, <2>4, <3>1 DEF StuckInv, HeldFor, OwnedBy, Owned
    <3>3. loopPc' # "release" => \A app \in Apps \ {activeApp'} : NoCombo(app)'
      BY <2>1, <3>1 DEF StuckInv, NoCombo
    <3>4. vdown' \subseteq Held' \cup Releasing' /\ activeApp' = curApp' /\ pc' # "final"
      BY <2>1, <2>2, <2>4, <3>1, SameReleasing DEF StuckInv
    <3> QED
      BY <3>2, <3>3, <3>4 DEF StuckInv
  <2> QED
    BY <2>1, <2>3, <2>4
<1>13. ASSUME NEW T, StageMacros(T) PROVE StuckInv'
  BY <1>13, StuckMacros
<1>14. CASE EmitFinal
  BY <1>14, StuckEmit
<1>15. CASE Resynchronise
  <2>1. /\ pc = "idle" /\ UNCHANGED <<pc, cur, lib, abandoned, typing>> /\ combos' = ResetCombos
        /\ vdown' = FlushAll.vdown
    BY <1>15 DEF Resynchronise, threadVars
  <2>2. ASSUME ~abandoned' PROVE Quiet' /\ vdown' \subseteq Held' \cup Releasing'
    <3>1. stale = {} /\ ~abandoned
      BY <2>1, <2>2 DEF ModeInv
    <3>2. withheld' = NothingWithheld
      BY <1>15, <3>1, ResynchroniseLeavesStale
    <3>3. PICK act \in Apps : act = activeApp
      BY DEF Types, LoopType
    <3>4. HeldFor(act) /\ OwnedBy(act) /\ vdown \subseteq Held \cup Releasing
      BY <3>1, <3>3 DEF StuckInv
    <3>5. HeldBy(appMacros[act], Acc(act), Held) /\ HasOwners(appMacros[act], Acc(act), {}, {})
      BY <3>4, HeldForLoop, OwnedByLoop
    <3>6. Acc(act) \in Accs(appMacros[act]) /\ appMacros[act] \in Seq(KeyActions)
      BY AccType DEF Types, ConfigType
    <3>7. Acc(act).withheld = withheld
      BY DEF Acc
    <3>8. Withholding(withheld) \subseteq Held
      <4>1. Withholding(Acc(act).withheld) \subseteq Held
        BY <3>5, <3>6, HeldWithheld
      <4> QED
        BY <3>7, <4>1
    <3>9. FlushAll.vdown \subseteq vdown \cup Withholding(withheld)
      BY FlushType
    <3>10. Held' = Held
      BY <2>1 DEF Held
    <3>11. Quiet'
      BY <2>1, <3>2, ResetQuiet DEF Quiet
    <3> QED
      BY <2>1, <3>4, <3>8, <3>9, <3>10, <3>11, SameReleasing
  <2> QED
    BY <2>2, QuietNext
<1>16. ASSUME Paste \/ \E q : SimulateInput(q) PROVE StuckInv'
  <2>1. UNCHANGED <<combos, withheld, appMacros, activeApp, lib, pc, cur, curApp, vdown>>
        /\ (loopPc' = loopPc \/ loopPc = "idle")
    BY <1>16 DEF Paste, SimulateInput, threadVars, comboVars, configVars
  <2>2. Held' = Held
    BY <2>1 DEF Held
  <2>3. ~abandoned' => ~abandoned
    BY <1>16 DEF Paste, SimulateInput
  <2>4. Releasing \subseteq Releasing'
    BY <1>16, TypingStarts
  <2> QED
    BY <2>1, <2>2, <2>3, <2>4, StuckSame
<1>17. ASSUME NEW w, ActiveWindowChanged(w) PROVE StuckInv'
  BY <1>17, StuckWindow
<1>18. CASE EnableKeyboard \/ EnableKeyboardGrab
  <2>1. UNCHANGED <<combos, withheld, appMacros, activeApp, vdown, lib, pc, cur, curApp,
                    abandoned, typing>> /\ loopPc # "release"
    BY <1>18 DEF EnableKeyboard, EnableKeyboardGrab, NotTheLoop, threadVars, comboVars, configVars
  <2>2. Held' = Held
    BY <2>1 DEF Held
  <2> QED
    BY <2>1, <2>2, StuckSame, SameReleasing
<1>19. CASE Start
  <2>1. ~grabbed /\ UNCHANGED <<combos, withheld, vdown, abandoned, typing>>
    BY <1>19 DEF Start, comboVars, ModeInv
  <2> QED
    BY <1>9, <2>1
<1>20. CASE StartFails
  <2>1. UNCHANGED <<combos, withheld, vdown, typing>> /\ abandoned' = LeftBehind(hw) /\ ~grabbed
    BY <1>20 DEF StartFails, NotTheLoop, comboVars, ModeInv
  <2>2. ~abandoned' => ~abandoned
    BY <2>1, NothingLeft
  <2> QED
    BY <1>9, <2>1, <2>2
<1>21. CASE Stop
  <2>1. UNCHANGED <<combos, withheld>> /\ abandoned' = LeftBehind(pressedKeys) /\ vdown' = {}
    BY <1>21 DEF Stop, comboVars
  <2>2. ~abandoned' => Quiet
    BY <2>1, NothingLeft
  <2>3. ~abandoned' => Quiet'
    BY <2>1, <2>2, SameQuiet
  <2> QED
    BY <2>1, <2>3, QuietNext
<1>22. ASSUME NEW j, ReplaceMacros(j) PROVE StuckInv'
  <2>1. UNCHANGED <<withheld, vdown, lib, pc, cur, typing>> /\ combos' = NoProgress
        /\ abandoned' = (abandoned \/ withheld # NothingWithheld)
    BY <1>22 DEF ReplaceMacros, NotTheLoop, threadVars
  <2>2. ~abandoned' => ~abandoned /\ withheld' = NothingWithheld
    BY <2>1
  <2>3. ~abandoned' => Quiet'
    BY <2>1, <2>2, ClearedQuiet DEF Quiet
  <2>4. Held' = Held
    BY <2>1 DEF Held
  <2>5. ~abandoned' => vdown' \subseteq Held' \cup Releasing'
    BY <2>1, <2>2, <2>4, SameReleasing DEF StuckInv
  <2> QED
    BY <2>3, <2>5, QuietNext
<1>23. ASSUME NEW j, UpdateMacros(j) \/ UpdateMacrosFails(j) PROVE StuckInv'
  BY <1>22, <1>23 DEF UpdateMacros, UpdateMacrosFails
<1>24. CASE PasteKey \/ SimulateKey
  <2>1. PICK by \in Typists : TypeKey(by)
    BY <1>24 DEF PasteKey, SimulateKey, Typists
  <2>2. UNCHANGED <<combos, withheld, appMacros, activeApp, lib, pc, cur, curApp, abandoned>>
    BY <2>1 DEF TypeKey, threadVars, comboVars, configVars
  <2>3. Held' = Held
    BY <2>2 DEF Held
  <2>4. ASSUME ~abandoned', vdown \subseteq Held \cup Releasing
        PROVE  vdown' \subseteq Held \cup Releasing'
    <3>1. Balanced(typing[by])
      BY <2>2, <2>4 DEF TypingInv
    <3> QED
      BY <2>1, <2>4, <3>1, TypedKey
  <2>5. loopPc' # "release" => loopPc # "release"
    BY <1>24 DEF PasteKey, SimulateKey, TypingInv, TypeKey
  <2> QED
    BY <2>2, <2>3, <2>4, <2>5, StuckSame
<1>25. CASE Restart
  <2>1. combos' = NoProgress /\ withheld' = NothingWithheld /\ vdown' = {}
    BY <1>25 DEF Restart
  <2>2. Quiet'
    BY <2>1, ClearedQuiet DEF Quiet
  <2> QED
    BY <2>1, <2>2, QuietNext
<1> QED
  BY <1>1, <1>2, <1>3, <1>5, <1>6, <1>7, <1>8, <1>10, <1>11, <1>12, <1>13, <1>14, <1>15,
     <1>16, <1>17, <1>18, <1>19, <1>20, <1>21, <1>23, <1>24, <1>25
  DEF Next, InputThread, EventLoop

-----------------------------------------------------------------------------
(* The theorems                                                            *)

\* The invariant of the modes: what watching, withholding and tracking rest on.
ModesInv == Types /\ WithheldByCombo /\ TypingInv /\ ModeInv /\ TrackInv

LEMMA ModesHold == Spec => []ModesInv
<1>1. Init => ModesInv
  BY TypesInit, WithheldInit, TypingInit, ModeInit, TrackInit DEF ModesInv
<1>2. ModesInv /\ [Next]_vars => ModesInv'
  BY TypesNext, WithheldNext, TypingNext, ModeNext, TrackNext DEF ModesInv
<1> QED
  BY <1>1, <1>2, PTL DEF Spec

\* The variables keep their types: the event the input thread works on is one of a
\* key or a G key, and the progress of a combo (comboProgress_) stays below the
\* length of its trigger, so that stageMacros reads a step that exists.
THEOREM Typed == Spec => []TypeOK
BY ModesHold, TypesOK, PTL DEF ModesInv

\* A withheld key has an owner that still waits (suppressionRegistry_ and
\* comboProgress_ agree), unless updateMacros cleared the progress meanwhile.
THEOREM WithheldHasItsCombo == Spec => []WithheldByCombo
BY ModesHold, PTL DEF ModesInv

\* pressedKeys_, for which grabDevices waits, holds only keys that are held, but
\* for the virtual codes of stageGKey.
THEOREM TrackedAreHeld == Spec => []TrackedKeysAreHeld
<1>1. ModesInv => TrackedKeysAreHeld
  BY DEF ModesInv, TrackInv, GCodes, TrackedKeysAreHeld
<1> QED
  BY <1>1, ModesHold, PTL

\* While the devices are only watched, processEvent emits none of their keys: what
\* is pressed is what a thread of triggerChromeChatGPTMacro or simulateInput types,
\* and what a resynchronisation flushes where an ungrab left withheld keys behind.
THEOREM WatchingDoublesNothing == Spec => MonitoringDoublesNothing
<1>1. ModesInv /\ [Next]_vars =>
        [~grabbed => vdown' \ vdown \subseteq TypedKeys \cup FlushedKeys]_vars
  BY WatchedNext DEF ModesInv
<1> QED
  BY <1>1, ModesHold, PTL DEF Spec, MonitoringDoublesNothing

\* With documents whose triggers wait for presses and whose sequences release what
\* they press, no path through the stages of processEvent swallows the release of a
\* key whose press was emitted, but where a change of the mode left it.
THEOREM NoKeyGetsStuck ==
    ASSUME GoodDocuments
    PROVE  Spec => []StuckOnlyIfAbandoned
<1> DEFINE Inv == ModesInv /\ SyncInv /\ LibInv /\ MacrosInv /\ StuckInv
<1>1. Init => Inv
  BY TypesInit, WithheldInit, TypingInit, ModeInit, TrackInit, SyncInit, LibInit, MacrosInit,
     StuckInit
  DEF ModesInv
<1>2. Inv /\ [Next]_vars => Inv'
  BY TypesNext, WithheldNext, TypingNext, ModeNext, TrackNext, SyncNext, LibNext, MacrosNext,
     StuckNext
  DEF ModesInv
<1>3. Inv => StuckOnlyIfAbandoned
  BY NotStuck
<1> QED
  BY <1>1, <1>2, <1>3, PTL DEF Spec
=============================================================================
