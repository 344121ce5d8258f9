-------------------------- MODULE AppRegistryProofs --------------------------
(* Proofs about AppRegistry, for every number of daemons, applications, ports
   and requests.                                                             *)
EXTENDS AppRegistry, TLAPS, WellFoundedInduction

\* A set of naturals that is not empty has a least member, and Min is it.
LEMMA MinIsLeast ==
    ASSUME NEW S, S \subseteq Nat, S # {}
    PROVE  Min(S) \in S /\ \A y \in S : Min(S) <= y
<1>1. PICK x \in S : \A y \in S : ~(<<y, x>> \in OpToRel(<, Nat))
  BY NatLessThanWellFounded, WFMin
<1>2. ASSUME NEW y \in S PROVE x <= y
  <2>1. ~(y < x)
    BY <1>1 DEF OpToRel
  <2> QED
    BY <2>1, SMT
<1> QED
  BY <1>2 DEF Min

-----------------------------------------------------------------------------
(* What the allocators return *)

\* findNextAvailablePortPair returns two ports of its range that are not used.
LEMMA PairIsFree ==
    ASSUME NEW used, FreeBases(used) # {}
    PROVE  LET p == FindNextAvailablePortPair(used)
           IN  /\ p \in ClientFirst .. ServerFirst - 1 /\ p \notin used
               /\ p + 1 \in ClientFirst .. ServerFirst - 1 /\ p + 1 \notin used
<1>1. FreeBases(used) \subseteq Nat
  BY ConstantsAssumption DEF FreeBases, Bases
<1>2. Min(FreeBases(used)) \in FreeBases(used)
  BY <1>1, MinIsLeast
<1>3. ASSUME NEW b \in Bases PROVE b + 1 \in ClientFirst .. ServerFirst - 1
  BY ConstantsAssumption, SMT DEF Bases
<1> QED
  BY <1>2, <1>3 DEF FindNextAvailablePortPair, FreeBases, Bases

\* findNextAvailableServerPort returns a port of its range that is not used.
LEMMA ServerPortIsFree ==
    ASSUME NEW used, FreeServerPorts(used) # {}
    PROVE  /\ FindNextAvailableServerPort(used) \in ServerFirst .. PortEnd - 1
           /\ FindNextAvailableServerPort(used) \notin used
<1>1. FreeServerPorts(used) \subseteq Nat
  BY ConstantsAssumption DEF FreeServerPorts
<1>2. Min(FreeServerPorts(used)) \in FreeServerPorts(used)
  BY <1>1, MinIsLeast
<1> QED
  BY <1>2 DEF FindNextAvailableServerPort, FreeServerPorts

\* addExtraApp writes settings of the application only, and one for each role
\* of its row when all statements are executed.
LEMMA WrittenKeys ==
    ASSUME NEW a \in Apps, NEW row \in Rows, NEW n \in 0 .. Statements(row)
    PROVE  /\ Written(a, row, n) \subseteq Keys
           /\ \A k \in Written(a, row, n) : k[1] = a /\ k[2] \in RolesOf(row)
           /\ n = Statements(row) =>
                \A k \in Keys : k \in Written(a, row, n) <=>
                                k[1] = a /\ k[2] \in RolesOf(row)
<1> USE DEF Roles
<1>0. RolesOf(row) \subseteq {"prod", "dev", "server"}
  BY DEF RolesOf, Rows
<1>1. \A k \in Written(a, row, n) :
         \E r \in RolesOf(row) : k = <<a, r>>
  BY DEF Written
<1>2. ASSUME n = Statements(row), NEW r \in RolesOf(row)
      PROVE  <<a, r>> \in Written(a, row, n)
  BY <1>0, <1>2 DEF Written, Statements, Rows, RolesOf
<1>3. Written(a, row, n) \subseteq Keys
  BY <1>0, <1>1 DEF Keys
<1>4. \A k \in Written(a, row, n) : k[1] = a /\ k[2] \in RolesOf(row)
  BY <1>1
<1>5. ASSUME n = Statements(row), NEW k \in Keys, k[1] = a, k[2] \in RolesOf(row)
      PROVE  k \in Written(a, row, n)
  BY <1>2, <1>5 DEF Keys
<1> QED
  BY <1>3, <1>4, <1>5

\* The ports addExtraApp writes are in range, not used, and different.
LEMMA ValuesAreFree ==
    ASSUME NEW a \in Apps, NEW row \in {"plain", "server"},
           NEW n \in 0 .. Statements(row), NEW used, Enough(row, used)
    PROVE  /\ \A k \in Written(a, row, n) :
                /\ Value(k, used) \in ClientFirst .. PortEnd - 1
                /\ Value(k, used) \notin used
           /\ \A k, l \in Written(a, row, n) :
                Value(k, used) = Value(l, used) => k = l
<1> DEFINE p == FindNextAvailablePortPair(used)
           s == FindNextAvailableServerPort(used)
<1>1. /\ p \in ClientFirst .. ServerFirst - 1 /\ p \notin used
      /\ p + 1 \in ClientFirst .. ServerFirst - 1 /\ p + 1 \notin used
  BY PairIsFree DEF Enough
<1>2. row = "server" => s \in ServerFirst .. PortEnd - 1 /\ s \notin used
  BY ServerPortIsFree DEF Enough
<1>3. \A k \in Written(a, row, n) :
         \/ k = <<a, "prod">> /\ Value(k, used) = p
         \/ k = <<a, "dev">> /\ Value(k, used) = p + 1
         \/ k = <<a, "server">> /\ row = "server" /\ Value(k, used) = s
  <2> SUFFICES ASSUME NEW k \in Written(a, row, n)
               PROVE  \/ k = <<a, "prod">> /\ Value(k, used) = p
                      \/ k = <<a, "dev">> /\ Value(k, used) = p + 1
                      \/ k = <<a, "server">> /\ row = "server" /\ Value(k, used) = s
    OBVIOUS
  <2>1. PICK r \in RolesOf(row) : k = <<a, r>>
    BY DEF Written
  <2>2. r \in {"prod", "dev", "server"} /\ (r = "server" => row = "server")
    BY DEF RolesOf, Roles
  <2>3. k[2] = r
    BY <2>1
  <2> HIDE DEF p, s
  <2> QED
    BY <2>1, <2>2, <2>3 DEF Value, p, s
<1> HIDE DEF p, s
<1>4. ClientFirst \in Nat /\ ServerFirst \in Nat /\ PortEnd \in Nat
      /\ ClientFirst <= ServerFirst /\ ServerFirst <= PortEnd
  BY ConstantsAssumption
<1>5. p \in Int /\ p # p + 1 /\ (row = "server" => s # p /\ s # p + 1)
  BY <1>1, <1>2, <1>4
<1>6. \A k \in Written(a, row, n) :
         Value(k, used) \in ClientFirst .. PortEnd - 1 /\ Value(k, used) \notin used
  BY <1>1, <1>2, <1>3, <1>4
<1>7. \A k, l \in Written(a, row, n) : Value(k, used) = Value(l, used) => k = l
  BY <1>3, <1>5
<1> QED
  BY <1>6, <1>7

-----------------------------------------------------------------------------
(* The statements on the tables keep types and properties *)

TableType ==
    /\ ports \in [Daemons -> [Keys -> Ports]]
    /\ rows \in [Daemons -> [Apps -> Rows]]
    /\ forced \subseteq Daemons \X Keys /\ torn \subseteq Daemons \X Keys

TableInv == TableType /\ DistinctPorts /\ PortsMatchRows

\* Numbers that are given out are ports, and none is the absence of a setting.
LEMMA RangeOfPorts ==
    /\ ClientFirst .. PortEnd - 1 \subseteq Ports /\ None \in Ports
    /\ None \notin ClientFirst .. PortEnd - 1
BY ConstantsAssumption DEF Ports, None

\* addExtraApp, all of it or its first statements.
LEMMA AddKeeps ==
    ASSUME TableInv, NEW d \in Daemons, NEW a \in Apps, NEW row \in {"plain", "server"},
           NEW n \in 1 .. Statements(row), NEW used, NEW blind \in BOOLEAN,
           Enough(row, used),
           ~blind => used = Used(ports[d]) /\ rows[d][a] = "none",
           blind => n = Statements(row),
           Add(d, a, row, n, used, blind)
    PROVE  TableInv'
<1> DEFINE w == Written(a, row, n)
           done == n = Statements(row)
<1>w. /\ w \subseteq Keys
      /\ \A k \in w : k[1] = a /\ k[2] \in RolesOf(row)
      /\ done => \A k \in Keys : k \in w <=> k[1] = a /\ k[2] \in RolesOf(row)
  <2>1. row \in Rows /\ n \in 0 .. Statements(row)
    BY DEF Rows, Statements
  <2> QED
    BY <2>1, WrittenKeys
<1>v. /\ \A k \in w : /\ Value(k, used) \in ClientFirst .. PortEnd - 1
                      /\ Value(k, used) \notin used
      /\ \A k, l \in w : Value(k, used) = Value(l, used) => k = l
  <2>1. n \in 0 .. Statements(row)
    BY DEF Statements
  <2> QED
    BY <2>1, ValuesAreFree
<1>a. /\ ports' = [ports EXCEPT ![d] = [k \in Keys |->
                      IF k \in w THEN Value(k, used) ELSE ports[d][k]]]
      /\ rows' = IF done THEN [rows EXCEPT ![d][a] = row] ELSE rows
      /\ forced' = IF blind THEN forced \cup At(d, w) ELSE forced \ At(d, w)
      /\ torn' = IF ~done THEN torn \cup At(d, w)
                 ELSE IF blind THEN (torn \ At(d, w)) \cup At(d, ({a} \X Roles) \ w)
                 ELSE torn \ At(d, w)
  BY DEF Add
<1> HIDE DEF w, done
<1>t. TableType
  BY DEF TableInv
<1>p. /\ \A k \in Keys : ports'[d][k] = IF k \in w THEN Value(k, used) ELSE ports[d][k]
      /\ \A e \in Daemons \ {d} : ports'[e] = ports[e]
  BY <1>a, <1>t DEF TableType
<1>at. \A ks : \A e \in Daemons, k \in Keys : <<e, k>> \in At(d, ks) <=> e = d /\ k \in ks
  BY DEF At
<1>1. TableType'
  <2>1. ports' \in [Daemons -> [Keys -> Ports]]
    <3>1. \A k \in Keys : (IF k \in w THEN Value(k, used) ELSE ports[d][k]) \in Ports
      BY <1>t, <1>v, RangeOfPorts DEF TableType
    <3> QED
      BY <1>a, <1>t, <3>1 DEF TableType
  <2>2. rows' \in [Daemons -> [Apps -> Rows]]
    BY <1>a, <1>t DEF TableType, Rows
  <2>3. At(d, w) \subseteq Daemons \X Keys /\ At(d, ({a} \X Roles) \ w) \subseteq Daemons \X Keys
    BY <1>w DEF At, Keys
  <2>4. forced' \subseteq Daemons \X Keys
    BY <1>a, <1>t, <2>3 DEF TableType
  <2>5. torn' \subseteq Daemons \X Keys
    BY <1>a, <1>t, <2>3 DEF TableType
  <2> QED
    BY <2>1, <2>2, <2>4, <2>5 DEF TableType
<1>2. DistinctPorts'
  <2> SUFFICES ASSUME NEW e \in Daemons, NEW k \in Keys, NEW l \in Keys,
                      k # l, ports'[e][k] = ports'[e][l], ports'[e][k] # None
               PROVE  <<e, k>> \in forced' \/ <<e, l>> \in forced'
    BY DEF DistinctPorts
  <2>0. \A x, y \in Keys : x # y /\ ports[e][x] = ports[e][y] /\ ports[e][x] # None
                            => <<e, x>> \in forced \/ <<e, y>> \in forced
    BY DEF TableInv, DistinctPorts
  <2>1. CASE e # d
    <3>1. <<e, k>> \in forced \/ <<e, l>> \in forced
      BY <1>p, <2>0, <2>1
    <3> QED
      BY <3>1, <2>1, <1>a, <1>at
  <2>2. CASE e = d /\ blind
    BY <1>a, <1>at, <1>p, <1>v, <2>0, <2>2
  <2>3. CASE e = d /\ ~blind
    <3>1. \A x \in Keys : ports[d][x] # None => ports[d][x] \in used
      BY <2>3 DEF Used
    <3>2. k \notin w /\ l \notin w
      BY <1>p, <1>v, <2>3, <3>1
    <3>3. <<d, k>> \in forced \/ <<d, l>> \in forced
      BY <1>p, <2>0, <2>3, <3>2
    <3> QED
      BY <1>a, <1>at, <2>3, <3>2, <3>3
  <2> QED
    BY <2>1, <2>2, <2>3
<1>3. PortsMatchRows'
  <2> SUFFICES ASSUME NEW e \in Daemons, NEW k \in Keys, <<e, k>> \notin torn'
               PROVE  ports'[e][k] # None <=> k[2] \in RolesOf(rows'[e][k[1]])
    BY DEF PortsMatchRows
  <2>k. k[1] \in Apps /\ k[2] \in Roles /\ k = <<k[1], k[2]>>
    BY DEF Keys
  <2>0. <<e, k>> \notin torn => (ports[e][k] # None <=> k[2] \in RolesOf(rows[e][k[1]]))
    BY DEF TableInv, PortsMatchRows
  <2>r. e # d \/ k[1] # a \/ ~done => rows'[e][k[1]] = rows[e][k[1]]
    BY <1>a, <1>t, <2>k DEF TableType
  <2>1. CASE e # d
    BY <1>a, <1>at, <1>p, <2>0, <2>1, <2>r
  <2>2. CASE e = d /\ ~done
    <3>1. k \notin w /\ <<d, k>> \notin torn
      BY <1>a, <1>at, <2>2
    <3> QED
      BY <1>p, <2>0, <2>2, <2>r, <3>1
  <2>3. CASE e = d /\ done /\ k[1] # a
    <3>1. k \notin w
      BY <1>w, <2>3
    <3>2. <<d, k>> \notin torn
      BY <1>a, <1>at, <2>3, <3>1
    <3> QED
      BY <1>p, <2>0, <2>3, <2>r, <3>1, <3>2
  <2>4. CASE e = d /\ done /\ k[1] = a
    <3>1. rows'[d][a] = row
      BY <1>a, <1>t, <2>4 DEF TableType
    <3>2. CASE k \in w
      BY <1>p, <1>v, <1>w, <2>4, <3>1, <3>2, RangeOfPorts
    <3>3. CASE k \notin w
      <4>1. k[2] \notin RolesOf(row)
        BY <1>w, <2>4, <3>3
      <4>2. ~blind
        BY <1>a, <1>at, <2>4, <2>k, <3>3
      <4>3. <<d, k>> \notin torn
        BY <1>a, <1>at, <2>4, <3>3, <4>2
      <4>4. RolesOf(rows[d][a]) = {}
        BY <4>2 DEF RolesOf
      <4> QED
        BY <1>p, <2>0, <2>4, <3>1, <3>3, <4>1, <4>3, <4>4
    <3> QED
      BY <3>2, <3>3
  <2> QED
    BY <2>1, <2>2, <2>3, <2>4
<1> QED
  BY <1>1, <1>2, <1>3 DEF TableInv

\* removeExtraApp, all of it or its first statements.
LEMMA RemoveKeeps ==
    ASSUME TableInv, NEW d \in Daemons, NEW a \in Apps,
           NEW n \in 1 .. Statements(rows[d][a]), rows[d][a] # "none",
           RemoveRow(d, a, n)
    PROVE  TableInv'
<1> DEFINE row == rows[d][a]
           w == Written(a, row, n)
           done == n = Statements(row)
<1>t. TableType
  BY DEF TableInv
<1>w. /\ w \subseteq Keys
      /\ \A k \in w : k[1] = a /\ k[2] \in RolesOf(row)
      /\ done => \A k \in Keys : k \in w <=> k[1] = a /\ k[2] \in RolesOf(row)
  <2>1. row \in Rows /\ n \in 0 .. Statements(row)
    BY <1>t DEF TableType, Statements
  <2> HIDE DEF row
  <2> QED
    BY <2>1, WrittenKeys
<1>a. /\ ports' = [ports EXCEPT ![d] = [k \in Keys |->
                      IF k \in w THEN None ELSE ports[d][k]]]
      /\ rows' = IF done THEN [rows EXCEPT ![d][a] = "none"] ELSE rows
      /\ forced' = forced \ At(d, w)
      /\ torn' = IF done THEN torn \ At(d, w) ELSE torn \cup At(d, w)
  BY DEF RemoveRow
<1> HIDE DEF w, done, row
<1>p. /\ \A k \in Keys : ports'[d][k] = IF k \in w THEN None ELSE ports[d][k]
      /\ \A e \in Daemons \ {d} : ports'[e] = ports[e]
  BY <1>a, <1>t DEF TableType
<1>at. \A ks : \A e \in Daemons, k \in Keys : <<e, k>> \in At(d, ks) <=> e = d /\ k \in ks
  BY DEF At
<1>1. TableType'
  <2>1. ports' \in [Daemons -> [Keys -> Ports]]
    BY <1>a, <1>t, RangeOfPorts DEF TableType
  <2>2. rows' \in [Daemons -> [Apps -> Rows]]
    BY <1>a, <1>t DEF TableType, Rows
  <2>3. At(d, w) \subseteq Daemons \X Keys
    BY <1>w DEF At
  <2> QED
    BY <1>a, <1>t, <2>1, <2>2, <2>3 DEF TableType
<1>2. DistinctPorts'
  <2> SUFFICES ASSUME NEW e \in Daemons, NEW k \in Keys, NEW l \in Keys,
                      k # l, ports'[e][k] = ports'[e][l], ports'[e][k] # None
               PROVE  <<e, k>> \in forced' \/ <<e, l>> \in forced'
    BY DEF DistinctPorts
  <2>0. e = d => k \notin w /\ l \notin w
    BY <1>p
  <2>1. ports[e][k] = ports[e][l] /\ ports[e][k] # None
    BY <1>p, <2>0
  <2>2. <<e, k>> \in forced \/ <<e, l>> \in forced
    BY <2>1 DEF TableInv, DistinctPorts
  <2> QED
    BY <1>a, <1>at, <2>0, <2>2
<1>3. PortsMatchRows'
  <2> SUFFICES ASSUME NEW e \in Daemons, NEW k \in Keys, <<e, k>> \notin torn'
               PROVE  ports'[e][k] # None <=> k[2] \in RolesOf(rows'[e][k[1]])
    BY DEF PortsMatchRows
  <2>k. k[1] \in Apps /\ k[2] \in Roles /\ k = <<k[1], k[2]>>
    BY DEF Keys
  <2>0. <<e, k>> \notin torn => (ports[e][k] # None <=> k[2] \in RolesOf(rows[e][k[1]]))
    BY DEF TableInv, PortsMatchRows
  <2>r. e # d \/ k[1] # a \/ ~done => rows'[e][k[1]] = rows[e][k[1]]
    BY <1>a, <1>t, <2>k DEF TableType
  <2>1. CASE k \notin w \/ e # d
    <3>1. <<e, k>> \notin torn /\ ports'[e][k] = ports[e][k]
      BY <1>a, <1>at, <1>p, <2>1
    <3>2. CASE e # d \/ k[1] # a \/ ~done
      BY <2>0, <2>r, <3>1, <3>2
    <3>3. CASE e = d /\ k[1] = a /\ done
      <4>1. rows'[d][a] = "none"
        BY <1>a, <1>t, <3>3 DEF TableType
      <4>2. k[2] \notin RolesOf(row)
        BY <1>w, <2>1, <3>3
      <4>3. RolesOf("none") = {}
        BY DEF RolesOf
      <4> QED
        BY <2>0, <3>1, <3>3, <4>1, <4>2, <4>3 DEF row
    <3> QED
      BY <3>2, <3>3
  <2>2. CASE k \in w /\ e = d
    <3>1. done
      BY <1>a, <1>at, <2>2
    <3>2. rows'[d][a] = "none"
      BY <1>a, <1>t, <3>1 DEF TableType
    <3>3. RolesOf("none") = {}
      BY DEF RolesOf
    <3> QED
      BY <1>p, <1>w, <2>2, <3>2, <3>3
  <2> QED
    BY <2>1, <2>2
<1> QED
  BY <1>1, <1>2, <1>3 DEF TableInv

\* setPort and deletePort in the leader's table.
LEMMA ApplyKeeps ==
    ASSUME TableInv, NEW c \in Commands, ApplyPort(c)
    PROVE  TableInv'
<1>t. TableType
  BY DEF TableInv
<1>c. c.key \in Keys /\ c.port \in Ports /\ Leader \in Daemons
  BY ConstantsAssumption DEF Commands
<1>p. /\ ports'[Leader][c.key] = c.port
      /\ \A k \in Keys \ {c.key} : ports'[Leader][k] = ports[Leader][k]
      /\ \A e \in Daemons \ {Leader} : ports'[e] = ports[e]
      /\ ports' \in [Daemons -> [Keys -> Ports]]
  BY <1>c, <1>t DEF ApplyPort, TableType
<1>1. TableType'
  BY <1>c, <1>p, <1>t DEF ApplyPort, TableType
<1>2. DistinctPorts'
  <2> SUFFICES ASSUME NEW e \in Daemons, NEW k \in Keys, NEW l \in Keys,
                      k # l, ports'[e][k] = ports'[e][l], ports'[e][k] # None
               PROVE  <<e, k>> \in forced' \/ <<e, l>> \in forced'
    BY DEF DistinctPorts
  <2>1. CASE e # Leader \/ (k # c.key /\ l # c.key)
    <3>1. ports[e][k] = ports[e][l] /\ ports[e][k] # None
      BY <1>p, <2>1
    <3>2. <<e, k>> \in forced \/ <<e, l>> \in forced
      BY <3>1 DEF TableInv, DistinctPorts
    <3> QED
      BY <2>1, <3>2 DEF ApplyPort
  <2>2. ASSUME e = Leader, NEW x \in Keys \ {c.key}, ports[Leader][x] = c.port, c.port # None
        PROVE  <<Leader, c.key>> \in forced'
    <3>1. [ports[Leader] EXCEPT ![c.key] = None][x] = c.port
      BY <1>t, <2>2 DEF TableType
    <3>2. c.port \in Used([ports[Leader] EXCEPT ![c.key] = None])
      BY <2>2, <3>1 DEF Used
    <3> QED
      BY <3>2 DEF ApplyPort
  <2>3. CASE e = Leader /\ k = c.key
    BY <1>p, <2>2, <2>3
  <2>4. CASE e = Leader /\ l = c.key
    BY <1>p, <2>2, <2>4
  <2> QED
    BY <2>1, <2>3, <2>4
<1>3. PortsMatchRows'
  <2> SUFFICES ASSUME NEW e \in Daemons, NEW k \in Keys, <<e, k>> \notin torn'
               PROVE  ports'[e][k] # None <=> k[2] \in RolesOf(rows'[e][k[1]])
    BY DEF PortsMatchRows
  <2>1. <<e, k>> \notin torn /\ <<e, k>> # <<Leader, c.key>> /\ rows' = rows
    BY DEF ApplyPort
  <2>2. ports'[e][k] = ports[e][k]
    BY <1>p, <2>1
  <2> QED
    BY <2>1, <2>2 DEF TableInv, PortsMatchRows
<1> QED
  BY <1>1, <1>2, <1>3 DEF TableInv

-----------------------------------------------------------------------------
(* Messages, requests and waits *)

Started == {j \in Jobs : jobs[j] \in StartedJobs}

\* The part of TypeOK about them; a manager that waits has sent a step
MessageType ==
    /\ loop \in [Daemons -> [at : {"idle", "leader", "manager"},
                             job : Jobs \cup {NoJob}, call : Nat]]
    /\ ask \in [Daemons -> Seq(Commands)]
    /\ calls \subseteq [job : Jobs, n : Nat, cmd : Commands]
    /\ jobs \in [Jobs -> StartedJobs \cup {Unused}]
    /\ again \subseteq Started
    /\ \A d \in Daemons : loop[d].at = "manager" => loop[d].job \in Started
    /\ budget \in [commands : Nat, faults : Nat]
    /\ \A j \in Started : jobs[j].wait => jobs[j].todo # <<>>

Inv == TableInv /\ MessageType

LEMMA InvImpliesTypeOK == Inv => TypeOK
BY DEF Inv, TableInv, TableType, MessageType, Started, TypeOK

LEMMA SpendTyped ==
    ASSUME MessageType, NEW c \in Nat, NEW f \in Nat, Spend(c, f)
    PROVE  budget' \in [commands : Nat, faults : Nat]
BY DEF MessageType, Spend

\* A job is either started or has the record of an unused one.
LEMMA JobStarted ==
    ASSUME MessageType, NEW j \in Jobs, jobs[j].st = "run" \/ jobs[j].wait
    PROVE  jobs[j] \in StartedJobs /\ j \in Started
BY DEF MessageType, Unused, Started

\* The steps of a request are commands.
LEMMA StepsTyped ==
    ASSUME TableType, NEW d \in Daemons, NEW a \in Apps
    PROVE  InstallSteps(d, a) \in Seq(Commands) /\ UninstallSteps(d, a) \in Seq(Commands)
<1>1. \A r \in Roles : <<a, r>> \in Keys
  BY DEF Keys
<1>2. \A r \in Roles : Set(<<a, r>>, ports[d][<<a, r>>]) \in Commands
  BY <1>1 DEF TableType, Set, Commands
<1>3. \A r \in Roles : Delete(<<a, r>>) \in Commands
  BY <1>1, RangeOfPorts DEF Delete, Commands
<1>4. Remove(a) \in Commands
  BY <1>1, RangeOfPorts DEF Remove, Commands, Roles
<1> DEFINE step(r) == IF ports[d][<<a, r>>] # None
                      THEN <<Set(<<a, r>>, ports[d][<<a, r>>])>> ELSE <<>>
<1>5. \A r \in Roles : step(r) \in Seq(Commands)
  BY <1>2
<1>6. InstallSteps(d, a) = step("dev") \o step("prod")
                             \o (IF rows[d][a] = "server" THEN step("server") ELSE <<>>)
  BY DEF InstallSteps
<1>7. step("dev") \in Seq(Commands) /\ step("prod") \in Seq(Commands)
      /\ step("server") \in Seq(Commands)
  BY <1>5 DEF Roles
<1> HIDE DEF step
<1>8. InstallSteps(d, a) \in Seq(Commands)
  BY <1>6, <1>7
<1>9. UninstallSteps(d, a) \in Seq(Commands)
  BY <1>3, <1>4 DEF UninstallSteps, Roles
<1> QED
  BY <1>8, <1>9

\* A new request is recorded under a number that was not used.
LEMMA RequestTyped ==
    ASSUME TableType, MessageType, NEW r \in Requests, Request(r)
    PROVE  /\ Min(NewJobs) \in Jobs
           /\ jobs' \in [Jobs -> StartedJobs \cup {Unused}]
           /\ Started' = Started \cup {Min(NewJobs)}
           /\ \A j \in Started' : jobs'[j].wait => jobs'[j].todo # <<>>
<1> DEFINE m == Min(NewJobs)
<1>0. PICK steps \in Steps(r) : jobs' = [jobs EXCEPT ![m] = Job(r, "run", steps, FALSE)]
  BY DEF Request
<1> DEFINE new == Job(r, "run", steps, FALSE)
<1>1. m \in NewJobs /\ m \in Jobs
  <2>1. NewJobs \subseteq Nat /\ NewJobs # {}
    BY ConstantsAssumption DEF NewJobs, Jobs, Request
  <2> QED
    BY <2>1, MinIsLeast DEF NewJobs
<1>2. r.from \in Daemons /\ r.app \in Apps /\ r.peer \in Daemons
  BY ConstantsAssumption DEF Requests
<1>3. steps \in Seq(Commands)
  <2>1. /\ InstallSteps(r.from, r.app) \in Seq(Commands)
        /\ UninstallSteps(r.from, r.app) \in Seq(Commands)
        /\ <<>> \in Seq(Commands)
    BY <1>2, StepsTyped
  <2>2. \/ steps = <<>> \/ steps = InstallSteps(r.from, r.app)
        \/ steps = UninstallSteps(r.from, r.app)
    BY DEF Steps
  <2> QED
    BY <2>1, <2>2, Zenon
<1>4. new \in StartedJobs
  BY <1>2, <1>3 DEF StartedJobs, Job
<1>5. jobs' = [jobs EXCEPT ![m] = new]
  BY <1>0
<1>6. new.wait = FALSE
  BY DEF Job
<1> HIDE DEF new, m
<1>7. jobs' \in [Jobs -> StartedJobs \cup {Unused}]
  BY <1>1, <1>4, <1>5 DEF MessageType
<1>8. jobs'[m] = new /\ \A j \in Jobs \ {m} : jobs'[j] = jobs[j]
  BY <1>1, <1>5 DEF MessageType
<1>9. Started' = Started \cup {m}
  BY <1>1, <1>4, <1>8 DEF Started
<1>10. \A j \in Started' : jobs'[j].wait => jobs'[j].todo # <<>>
  BY <1>6, <1>8, <1>9 DEF MessageType, Started
<1> QED
  BY <1>1, <1>7, <1>9, <1>10 DEF m

\* The answer to a call, or its absence.
LEMMA ProceedTyped ==
    ASSUME MessageType, NEW j \in Jobs, jobs[j].wait,
           jobs' = Proceed(j)
    PROVE  /\ jobs' \in [Jobs -> StartedJobs \cup {Unused}]
           /\ Started' = Started
           /\ \A i \in Started' : jobs'[i].wait => jobs'[i].todo # <<>>
<1>1. jobs[j] \in StartedJobs /\ j \in Started /\ jobs[j].todo # <<>>
  BY JobStarted DEF MessageType
<1> DEFINE new == Job(jobs[j].req, jobs[j].st, Tail(jobs[j].todo), FALSE)
<1>2. jobs[j].todo \in Seq(Commands)
  BY <1>1 DEF StartedJobs
<1>3. Tail(jobs[j].todo) \in Seq(Commands)
  BY <1>1, <1>2
<1>4. new \in StartedJobs /\ new.wait = FALSE
  <2>1. jobs[j].req \in Requests /\ jobs[j].req.peer \in Daemons /\ jobs[j].st \in {"run", "done"}
    BY <1>1 DEF StartedJobs, Requests
  <2> QED
    BY <1>3, <2>1 DEF StartedJobs, Job
<1>5. jobs' = [jobs EXCEPT ![j] = new]
  BY DEF Proceed
<1> HIDE DEF new
<1>6. jobs' \in [Jobs -> StartedJobs \cup {Unused}]
  BY <1>4, <1>5 DEF MessageType
<1>7. jobs'[j] = new /\ \A i \in Jobs \ {j} : jobs'[i] = jobs[i]
  BY <1>5 DEF MessageType
<1>8. Started' = Started
  BY <1>1, <1>4, <1>7 DEF Started
<1> QED
  BY <1>4, <1>6, <1>7, <1>8 DEF MessageType, Started

LEMMA AnswerTyped ==
    ASSUME MessageType, NEW j \in Jobs \cup {NoJob}, NEW n, Answer(j, n)
    PROVE  /\ jobs' \in [Jobs -> StartedJobs \cup {Unused}]
           /\ Started' = Started
           /\ \A i \in Started' : jobs'[i].wait => jobs'[i].todo # <<>>
<1>1. CASE jobs' = jobs
  BY <1>1 DEF MessageType, Started
<1>2. CASE j # NoJob /\ jobs[j].wait /\ jobs' = Proceed(j)
  BY <1>2, ProceedTyped
<1> QED
  BY <1>1, <1>2 DEF Answer

-----------------------------------------------------------------------------
(* The actions *)

\* What a step that leaves the messages alone keeps.
LEMMA MessagesUnchanged ==
    ASSUME MessageType, UNCHANGED <<loop, ask, calls, jobs, again>>,
           budget' \in [commands : Nat, faults : Nat]
    PROVE  MessageType'
BY DEF MessageType, Started

LEMMA TablesUnchanged ==
    ASSUME TableInv, UNCHANGED tables
    PROVE  TableInv'
BY DEF TableInv, TableType, DistinctPorts, PortsMatchRows, tables

\* A kill drops messages.
LEMMA DieTyped ==
    ASSUME MessageType, NEW d \in Daemons, Die(d),
           budget' \in [commands : Nat, faults : Nat]
    PROVE  MessageType'
<1>1. jobs' = jobs /\ loop' = loop /\ Started' = Started
  BY DEF Die, Started
<1>2. ask' \in [Daemons -> Seq(Commands)]
  BY DEF Die, MessageType
<1> QED
  BY <1>1, <1>2 DEF Die, MessageType

LEMMA ForwardTyped ==
    ASSUME MessageType, NEW d \in Daemons, NEW c \in Commands,
           NEW j \in Jobs \cup {NoJob}, NEW n \in Nat,
           Forward(d, c, j, n), jobs' = jobs, again' = again, calls' \subseteq calls,
           budget' \in [commands : Nat, faults : Nat]
    PROVE  MessageType'
<1>1. Started' = Started
  BY DEF Started
<1>2. ask' \in [Daemons -> Seq(Commands)]
  BY DEF Forward, MessageType
<1>3. loop' \in [Daemons -> [at : {"idle", "leader", "manager"},
                             job : Jobs \cup {NoJob}, call : Nat]]
  BY DEF Forward, MessageType
<1>4. \A e \in Daemons : loop'[e].at = "manager" => loop'[e].job \in Started
  BY DEF Forward, MessageType
<1> QED
  BY <1>1, <1>2, <1>3, <1>4 DEF MessageType

\* A loop that goes idle.
LEMMA IdleTyped ==
    ASSUME MessageType, NEW d \in Daemons, loop' = [loop EXCEPT ![d] = Idle]
    PROVE  /\ loop' \in [Daemons -> [at : {"idle", "leader", "manager"},
                                     job : Jobs \cup {NoJob}, call : Nat]]
           /\ \A e \in Daemons : loop'[e].at = "manager" => loop'[e].job \in Started
BY DEF MessageType, Idle

LEMMA HandOverTyped ==
    ASSUME MessageType, NEW d \in Daemons, loop[d].at = "manager", HandOver(d)
    PROVE  again' \subseteq Started
BY DEF MessageType, HandOver

LEMMA PortCommandsTyped == PortCommands \subseteq Commands
<1>1. HandKeys \subseteq Keys /\ HandPorts \subseteq Ports
  BY ConstantsAssumption DEF Keys, Roles, Ports
<1>2. \A k \in HandKeys, p \in HandPorts : Set(k, p) \in Commands
  BY <1>1 DEF Set, Commands
<1>3. \A k \in HandKeys : Delete(k) \in Commands
  BY <1>1, RangeOfPorts DEF Delete, Commands
<1> QED
  BY <1>2, <1>3 DEF PortCommands

LEMMA AddStep ==
    ASSUME Inv, NEW d \in Daemons, NEW a \in Apps, NEW row \in {"plain", "server"},
           AddExtraApp(d, a, row) \/ AddWithoutReading(d, a, row) \/ AddKilled(d, a, row)
    PROVE  Inv'
<1>0. TableInv /\ MessageType /\ Statements(row) \in 1 .. Statements(row)
      /\ 1 .. Statements(row) - 1 \subseteq 1 .. Statements(row)
  BY DEF Inv, Statements
<1>1. CASE AddExtraApp(d, a, row)
  <2>1. budget' \in [commands : Nat, faults : Nat]
    BY <1>0, <1>1, SpendTyped DEF AddExtraApp
  <2> QED
    BY <1>0, <1>1, <2>1, AddKeeps, MessagesUnchanged DEF AddExtraApp, Inv
<1>2. CASE AddWithoutReading(d, a, row)
  <2>1. budget' \in [commands : Nat, faults : Nat]
    BY <1>0, <1>2, SpendTyped DEF AddWithoutReading
  <2> QED
    BY <1>0, <1>2, <2>1, AddKeeps, MessagesUnchanged DEF AddWithoutReading, Inv
<1>3. CASE AddKilled(d, a, row)
  <2>1. budget' \in [commands : Nat, faults : Nat]
    BY <1>0, <1>3, SpendTyped DEF AddKilled
  <2>2. PICK n \in 1 .. Statements(row) - 1 : Add(d, a, row, n, Used(ports[d]), FALSE)
    BY <1>3 DEF AddKilled
  <2>3. TableInv'
    BY <1>0, <1>3, <2>2, AddKeeps DEF AddKilled
  <2> QED
    BY <1>0, <1>3, <2>1, <2>3, DieTyped DEF AddKilled, Inv
<1> QED
  BY <1>1, <1>2, <1>3

LEMMA RemoveStep ==
    ASSUME Inv, NEW d \in Daemons, NEW a \in Apps,
           RemoveExtraApp(d, a) \/ RemoveKilled(d, a)
    PROVE  Inv'
<1>0. TableInv /\ MessageType /\ Statements(rows[d][a]) \in 1 .. Statements(rows[d][a])
      /\ 1 .. Statements(rows[d][a]) - 1 \subseteq 1 .. Statements(rows[d][a])
  BY DEF Inv, Statements
<1>1. CASE RemoveExtraApp(d, a)
  <2>1. budget' \in [commands : Nat, faults : Nat]
    BY <1>0, <1>1, SpendTyped DEF RemoveExtraApp
  <2> QED
    BY <1>0, <1>1, <2>1, RemoveKeeps, MessagesUnchanged DEF RemoveExtraApp, Inv
<1>2. CASE RemoveKilled(d, a)
  <2>1. budget' \in [commands : Nat, faults : Nat]
    BY <1>0, <1>2, SpendTyped DEF RemoveKilled
  <2>2. PICK n \in 1 .. Statements(rows[d][a]) - 1 : RemoveRow(d, a, n)
    BY <1>2 DEF RemoveKilled
  <2>3. TableInv'
    BY <1>0, <1>2, <2>2, RemoveKeeps DEF RemoveKilled
  <2> QED
    BY <1>0, <1>2, <2>1, <2>3, DieTyped DEF RemoveKilled, Inv
<1> QED
  BY <1>1, <1>2

LEMMA PortStep ==
    ASSUME Inv, NEW d \in Daemons, NEW c \in PortCommands, SetOrDeletePort(d, c)
    PROVE  Inv'
<1>1. budget' \in [commands : Nat, faults : Nat]
  BY SpendTyped DEF SetOrDeletePort, Inv
<1>2. c \in Commands /\ NoJob \in Jobs \cup {NoJob} /\ 0 \in Nat
  BY PortCommandsTyped
<1>3. CASE d = Leader
  BY <1>1, <1>2, <1>3, ApplyKeeps, MessagesUnchanged DEF SetOrDeletePort, Inv
<1>4. CASE d # Leader
  BY <1>1, <1>2, <1>4, ForwardTyped, TablesUnchanged DEF SetOrDeletePort, Inv
<1> QED
  BY <1>3, <1>4

LEMMA AppOnPeerStep ==
    ASSUME Inv, NEW r \in Requests, AppOnPeer(r)
    PROVE  Inv'
<1>0. TableInv /\ TableType /\ MessageType /\ r.from \in Daemons
  BY DEF Inv, TableInv, Requests
<1>1. budget' \in [commands : Nat, faults : Nat]
  BY <1>0, SpendTyped DEF AppOnPeer
<1>2. /\ Min(NewJobs) \in Jobs
      /\ jobs' \in [Jobs -> StartedJobs \cup {Unused}]
      /\ Started' = Started \cup {Min(NewJobs)}
      /\ \A j \in Started' : jobs'[j].wait => jobs'[j].todo # <<>>
  BY <1>0, RequestTyped DEF AppOnPeer
<1>3. loop' = [loop EXCEPT ![r.from] = Waiting(Min(NewJobs))]
  BY DEF AppOnPeer
<1> DEFINE m == Min(NewJobs)
<1>4. m \in Jobs /\ loop' = [loop EXCEPT ![r.from] = Waiting(m)] /\ m \in Started'
  BY <1>2, <1>3
<1> HIDE DEF m
<1>5. loop' \in [Daemons -> [at : {"idle", "leader", "manager"},
                             job : Jobs \cup {NoJob}, call : Nat]]
  BY <1>0, <1>4 DEF MessageType, Waiting
<1>6. \A d \in Daemons : loop'[d].at = "manager" => loop'[d].job \in Started'
  BY <1>0, <1>2, <1>4 DEF MessageType, Waiting
<1>7. TableInv'
  BY <1>0, TablesUnchanged DEF AppOnPeer
<1> QED
  BY <1>0, <1>1, <1>2, <1>5, <1>6, <1>7 DEF AppOnPeer, Inv, MessageType

LEMMA ManagerSilentStep ==
    ASSUME Inv, NEW d \in Daemons, ManagerSilent(d)
    PROVE  Inv'
<1>0. TableInv /\ MessageType
  BY DEF Inv
<1>1. budget' \in [commands : Nat, faults : Nat]
  BY <1>0, SpendTyped DEF ManagerSilent, Late
<1>2. Started' = Started
  BY DEF ManagerSilent, Started
<1>3. again' \subseteq Started
  BY <1>0, HandOverTyped DEF ManagerSilent
<1>4. loop' = [loop EXCEPT ![d] = Idle]
  BY DEF ManagerSilent, HandOver
<1>5. TableInv'
  BY <1>0, TablesUnchanged DEF ManagerSilent
<1> QED
  BY <1>0, <1>1, <1>2, <1>3, <1>4, <1>5, IdleTyped DEF ManagerSilent, Inv, MessageType

LEMMA ThreadStep ==
    ASSUME Inv, NEW j \in again, ThreadExecutes(j)
    PROVE  Inv'
<1>0. TableInv /\ TableType /\ MessageType
  BY DEF Inv, TableInv
<1>1. j \in Jobs /\ jobs[j] \in StartedJobs /\ jobs[j].req \in Requests
  BY <1>0 DEF MessageType, Started, StartedJobs
<1>2. /\ jobs' \in [Jobs -> StartedJobs \cup {Unused}]
      /\ Started \subseteq Started'
      /\ \A i \in Started' : jobs'[i].wait => jobs'[i].todo # <<>>
  BY <1>0, <1>1, RequestTyped DEF ThreadExecutes
<1>3. TableInv'
  BY <1>0, TablesUnchanged DEF ThreadExecutes
<1> QED
  BY <1>0, <1>2, <1>3 DEF ThreadExecutes, Inv, MessageType

LEMMA SendStep ==
    ASSUME Inv, NEW j \in Jobs, ManagerSends(j)
    PROVE  Inv'
<1>0. TableInv /\ MessageType
  BY DEF Inv
<1>1. jobs[j] \in StartedJobs /\ j \in Started /\ jobs[j].todo # <<>>
  BY <1>0, JobStarted DEF ManagerSends
<1> DEFINE new == Job(jobs[j].req, "run", jobs[j].todo, TRUE)
           call == [job |-> j, n |-> Len(jobs[j].todo), cmd |-> Head(jobs[j].todo)]
<1>2. jobs[j].todo \in Seq(Commands) /\ jobs[j].req \in Requests /\ jobs[j].req.peer \in Daemons
  BY <1>1 DEF StartedJobs, Requests
<1>3. new \in StartedJobs /\ new.todo # <<>>
  BY <1>1, <1>2 DEF StartedJobs, Job
<1>4. call \in [job : Jobs, n : Nat, cmd : Commands]
  <2>1. Len(jobs[j].todo) \in Nat /\ Head(jobs[j].todo) \in Commands
    BY <1>1, <1>2
  <2> QED
    BY <2>1
<1>5. jobs' = [jobs EXCEPT ![j] = new] /\ calls' = calls \cup {call}
  BY DEF ManagerSends
<1> HIDE DEF new, call
<1>6. jobs' \in [Jobs -> StartedJobs \cup {Unused}]
  BY <1>0, <1>3, <1>5 DEF MessageType
<1>7. jobs'[j] = new /\ \A i \in Jobs \ {j} : jobs'[i] = jobs[i]
  BY <1>0, <1>5 DEF MessageType
<1>8. Started' = Started
  BY <1>1, <1>3, <1>7 DEF Started
<1>9. \A i \in Started' : jobs'[i].wait => jobs'[i].todo # <<>>
  BY <1>0, <1>3, <1>7, <1>8 DEF MessageType, Started
<1>10. TableInv'
  BY <1>0, TablesUnchanged DEF ManagerSends
<1>11. calls' \subseteq [job : Jobs, n : Nat, cmd : Commands]
  BY <1>0, <1>4, <1>5 DEF MessageType
<1> QED
  BY <1>0, <1>6, <1>8, <1>9, <1>10, <1>11 DEF ManagerSends, Inv, MessageType

LEMMA TimeOutStep ==
    ASSUME Inv, NEW j \in Jobs, ManagerTimesOut(j)
    PROVE  Inv'
<1>0. TableInv /\ MessageType
  BY DEF Inv
<1>1. budget' \in [commands : Nat, faults : Nat]
  <2>1. Late \/ budget' = budget
    BY DEF ManagerTimesOut
  <2> QED
    BY <1>0, <2>1, SpendTyped DEF Late, MessageType
<1>2. /\ jobs' \in [Jobs -> StartedJobs \cup {Unused}]
      /\ Started' = Started
      /\ \A i \in Started' : jobs'[i].wait => jobs'[i].todo # <<>>
  BY <1>0, ProceedTyped DEF ManagerTimesOut
<1>3. TableInv'
  BY <1>0, TablesUnchanged DEF ManagerTimesOut
<1> QED
  BY <1>0, <1>1, <1>2, <1>3 DEF ManagerTimesOut, Inv, MessageType

LEMMA ReplyStep ==
    ASSUME Inv, NEW j \in Jobs, ManagerReplies(j)
    PROVE  Inv'
<1>0. TableInv /\ MessageType
  BY DEF Inv
<1>1. jobs[j] \in StartedJobs /\ j \in Started
  BY <1>0, JobStarted DEF ManagerReplies
<1> DEFINE new == Job(jobs[j].req, "done", <<>>, FALSE)
           d == jobs[j].req.from
<1>2. jobs[j].req \in Requests /\ jobs[j].req.peer \in Daemons /\ d \in Daemons
  BY <1>1 DEF StartedJobs, Requests
<1>3. new \in StartedJobs /\ new.wait = FALSE
  BY <1>2 DEF StartedJobs, Job
<1>4. jobs' = [jobs EXCEPT ![j] = new]
  BY DEF ManagerReplies
<1>5. \/ loop[d] = Waiting(j) /\ HandOver(d)
      \/ loop' = loop /\ again' = again
  BY DEF ManagerReplies
<1> HIDE DEF new, d
<1>6. jobs' \in [Jobs -> StartedJobs \cup {Unused}]
  BY <1>0, <1>3, <1>4 DEF MessageType
<1>7. jobs'[j] = new /\ \A i \in Jobs \ {j} : jobs'[i] = jobs[i]
  BY <1>0, <1>4 DEF MessageType
<1>8. Started' = Started
  BY <1>1, <1>3, <1>7 DEF Started
<1>9. \A i \in Started' : jobs'[i].wait => jobs'[i].todo # <<>>
  BY <1>0, <1>3, <1>7, <1>8 DEF MessageType, Started
<1>10. TableInv'
  BY <1>0, TablesUnchanged DEF ManagerReplies
<1>11. /\ again' \subseteq Started
       /\ loop' \in [Daemons -> [at : {"idle", "leader", "manager"},
                                 job : Jobs \cup {NoJob}, call : Nat]]
       /\ \A e \in Daemons : loop'[e].at = "manager" => loop'[e].job \in Started
  <2>1. CASE loop[d] = Waiting(j) /\ HandOver(d)
    <3>1. loop[d].at = "manager" /\ loop' = [loop EXCEPT ![d] = Idle]
      BY <2>1 DEF Waiting, HandOver
    <3> QED
      BY <1>0, <1>2, <2>1, <3>1, HandOverTyped, IdleTyped
  <2>2. CASE loop' = loop /\ again' = again
    BY <1>0, <2>2 DEF MessageType
  <2> QED
    BY <1>5, <2>1, <2>2
<1> QED
  BY <1>0, <1>6, <1>8, <1>9, <1>10, <1>11 DEF ManagerReplies, Inv, MessageType

LEMMA CallStep ==
    ASSUME Inv, NEW c \in calls, DaemonRuns(c)
    PROVE  Inv'
<1>0. TableInv /\ TableType /\ MessageType
  BY DEF Inv, TableInv
<1> DEFINE d == jobs[c.job].at
           a == c.cmd.key[1]
<1>1. c.job \in Jobs /\ c.n \in Nat /\ c.cmd \in Commands
  BY <1>0 DEF MessageType
<1>2. d \in Daemons
  BY <1>0, <1>1, ConstantsAssumption DEF MessageType, StartedJobs, Unused
<1>3. a \in Apps
  BY <1>1 DEF Commands, Keys
<1>4. calls' \subseteq calls /\ again' = again /\ budget' = budget
  BY DEF DaemonRuns
<1>5. CASE /\ IF rows[d][a] # "none" THEN RemoveRow(d, a, Statements(rows[d][a]))
              ELSE UNCHANGED tables
           /\ Answer(c.job, c.n) /\ UNCHANGED <<loop, ask>>
  <2>1. Statements(rows[d][a]) \in 1 .. Statements(rows[d][a])
    BY DEF Statements
  <2> HIDE DEF d, a
  <2>2. TableInv'
    BY <1>0, <1>2, <1>3, <1>5, <2>1, RemoveKeeps, TablesUnchanged
  <2>3. /\ jobs' \in [Jobs -> StartedJobs \cup {Unused}]
        /\ Started' = Started
        /\ \A i \in Started' : jobs'[i].wait => jobs'[i].todo # <<>>
    BY <1>0, <1>1, <1>5, AnswerTyped
  <2> QED
    BY <1>0, <1>4, <1>5, <2>2, <2>3 DEF Inv, MessageType
<1>6. CASE ApplyPort(c.cmd) /\ Answer(c.job, c.n) /\ UNCHANGED <<loop, ask>>
  <2>2. TableInv'
    BY <1>0, <1>1, <1>6, ApplyKeeps
  <2>3. /\ jobs' \in [Jobs -> StartedJobs \cup {Unused}]
        /\ Started' = Started
        /\ \A i \in Started' : jobs'[i].wait => jobs'[i].todo # <<>>
    BY <1>0, <1>1, <1>6, AnswerTyped
  <2> QED
    BY <1>0, <1>4, <1>6, <2>2, <2>3 DEF Inv, MessageType
<1>7. CASE Forward(d, c.cmd, c.job, c.n) /\ UNCHANGED <<tables, jobs>>
  <2> HIDE DEF d, a
  <2>1. TableInv'
    BY <1>0, <1>7, TablesUnchanged
  <2>2. budget' \in [commands : Nat, faults : Nat] /\ jobs' = jobs
    BY <1>0, <1>4, <1>7 DEF MessageType
  <2> QED
    BY <1>0, <1>1, <1>2, <1>4, <1>7, <2>1, <2>2, ForwardTyped DEF Inv
<1> QED
  BY <1>5, <1>6, <1>7 DEF DaemonRuns

LEMMA LeaderStep ==
    ASSUME Inv, NEW w \in Daemons, LeaderRuns(w) \/ LeaderSilent(w)
    PROVE  Inv'
<1>0. TableInv /\ MessageType
  BY DEF Inv
<1>1. loop[w].job \in Jobs \cup {NoJob} /\ ask[w] \in Seq(Commands)
  BY <1>0 DEF MessageType
<1>2. /\ jobs' \in [Jobs -> StartedJobs \cup {Unused}]
      /\ Started' = Started
      /\ \A i \in Started' : jobs'[i].wait => jobs'[i].todo # <<>>
  <2>1. Answer(loop[w].job, loop[w].call) \/ jobs' = jobs
    BY DEF LeaderRuns, LeaderSilent
  <2>2. CASE jobs' = jobs
    BY <1>0, <2>2 DEF MessageType, Started
  <2> QED
    BY <1>0, <1>1, <2>1, <2>2, AnswerTyped
<1>3. /\ loop' \in [Daemons -> [at : {"idle", "leader", "manager"},
                                job : Jobs \cup {NoJob}, call : Nat]]
      /\ \A e \in Daemons : loop'[e].at = "manager" => loop'[e].job \in Started
  <2>1. loop' = [loop EXCEPT ![w] = Idle] \/ loop' = loop
    BY DEF LeaderRuns, LeaderSilent
  <2>2. CASE loop' = loop
    BY <1>0, <2>2 DEF MessageType
  <2> QED
    BY <1>0, <2>1, <2>2, IdleTyped
<1>4. CASE LeaderRuns(w)
  <2>1. Head(ask[w]) \in Commands /\ Tail(ask[w]) \in Seq(Commands)
    BY <1>1, <1>4 DEF LeaderRuns
  <2>2. ask' \in [Daemons -> Seq(Commands)]
    BY <1>0, <1>4, <2>1 DEF LeaderRuns, MessageType
  <2>3. TableInv'
    BY <1>0, <1>4, <2>1, ApplyKeeps DEF LeaderRuns
  <2> QED
    BY <1>0, <1>2, <1>3, <1>4, <2>2, <2>3 DEF LeaderRuns, Inv, MessageType
<1>5. CASE LeaderSilent(w)
  <2>1. budget' \in [commands : Nat, faults : Nat]
    <3>1. Late \/ budget' = budget
      BY <1>5 DEF LeaderSilent
    <3> QED
      BY <1>0, <3>1, SpendTyped DEF Late, MessageType
  <2>2. TableInv'
    BY <1>0, <1>5, TablesUnchanged DEF LeaderSilent
  <2> QED
    BY <1>0, <1>2, <1>3, <1>5, <2>1, <2>2 DEF LeaderSilent, Inv, MessageType
<1> QED
  BY <1>4, <1>5

-----------------------------------------------------------------------------
(* The invariant and the theorems *)

LEMMA InitInv == Init => Inv
<1> SUFFICES ASSUME Init PROVE Inv
  OBVIOUS
<1>1. TableInv
  <2>1. TableType
    BY RangeOfPorts DEF Init, TableType, Rows
  <2>2. DistinctPorts
    BY DEF Init, DistinctPorts
  <2>3. PortsMatchRows
    <3>1. RolesOf("none") = {}
      BY DEF RolesOf
    <3>2. \A d \in Daemons, k \in Keys : ports[d][k] = None /\ rows[d][k[1]] = "none"
      BY DEF Init, Keys
    <3> QED
      BY <3>1, <3>2 DEF PortsMatchRows
  <2> QED
    BY <2>1, <2>2, <2>3 DEF TableInv
<1>2. Started = {} \/ \A j \in Started : jobs[j].wait = FALSE
  BY DEF Init, Started, Unused
<1>3. MessageType
  BY <1>2 DEF Init, MessageType, Idle, Started
<1> QED
  BY <1>1, <1>3 DEF Inv

LEMMA NextKeepsInv == Inv /\ [Next]_vars => Inv'
<1> SUFFICES ASSUME Inv, [Next]_vars PROVE Inv'
  OBVIOUS
<1>1. CASE UNCHANGED vars
  <2>1. UNCHANGED tables /\ UNCHANGED <<loop, ask, calls, jobs, again>> /\ budget' = budget
    BY <1>1 DEF vars
  <2>2. budget' \in [commands : Nat, faults : Nat]
    BY <2>1 DEF Inv, MessageType
  <2> QED
    BY <2>1, <2>2, TablesUnchanged, MessagesUnchanged DEF Inv
<1>2. CASE Next
  BY <1>2, AddStep, RemoveStep, PortStep, AppOnPeerStep, ThreadStep, SendStep,
     TimeOutStep, ReplyStep, CallStep, ManagerSilentStep, LeaderStep DEF Next
<1> QED
  BY <1>1, <1>2

LEMMA InvAlways == Spec => []Inv
BY InitInv, NextKeepsInv, PTL DEF Spec

\* For any number of daemons, applications, commands, kills and requests, the
\* port commands, addExtraApp and the managers' calls keep every setting within
\* the ranges of the allocators and the ports users gave, and a loop or a thread
\* never refers to a request that no manager has.
THEOREM RegistryTypes == Spec => []TypeOK
BY InvAlways, InvImpliesTypeOK, PTL

\* findNextAvailablePortPair and findNextAvailableServerPort never give out a
\* port that another setting of the daemon names, whatever forwarded commands,
\* late calls and kills come between; only setPort, which does not look, and an
\* addExtraApp that could not read the database make two settings clash.
THEOREM PortsStayDistinct == Spec => []DistinctPorts
<1>1. Inv => DistinctPorts
  BY DEF Inv, TableInv
<1> QED
  BY InvAlways, <1>1, PTL

\* addExtraApp and removeExtraApp leave exactly the settings of the registered
\* applications, except for the keys of a command that was cut short and those
\* that setPort and deletePort changed.
THEOREM PortsKeepRows == Spec => []PortsMatchRows
<1>1. Inv => PortsMatchRows
  BY DEF Inv, TableInv
<1> QED
  BY InvAlways, <1>1, PTL
=============================================================================
