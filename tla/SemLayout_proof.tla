--------------------------- MODULE SemLayout_proof --------------------------
(***************************************************************************)
(* Proofs that the numbers main gives to the semaphores are a partition of *)
(* the set, and that the debugger finds their names again, for any number  *)
(* of groups and tables.                                                   *)
(***************************************************************************)
EXTENDS SemLayout, TLAPS

TableNames == {"requestReceived", "foodArrived", "tableDone"}

\* The number a semaphore gets in a run with n groups.
numberOf(n, s) ==
  CASE s \in Single               -> singleId(s)
    [] s[1] = "waitForTable"      -> WAITFORTABLE + s[2]
    [] s[1] = "foodArrived"       -> FOODARRIVED(n) + s[2]
    [] s[1] = "requestReceived"   -> REQUESTRECEIVED(n) + s[2]
    [] s[1] = "tableDone"         -> TABLEDONE(n) + s[2]

\* The semaphores numbered when main, with n groups, is at a and its loop
\* variable is k.
numbered(n, a, k) ==
  {s \in Fields :
     \/ s \in Single /\ a # "singles"
     \/ /\ s[1] = "waitForTable" /\ s[2] < n
        /\ (a = "groups" /\ s[2] < k) \/ a \in {"tables", "numbered"}
     \/ /\ s[1] \in TableNames
        /\ (a = "tables" /\ s[2] < k) \/ a = "numbered"}

LayoutInv ==
  /\ nGroups \in 0 .. MAXGROUPS
  /\ at \in {"singles", "groups", "tables", "numbered"}
  /\ next \in Nat
  /\ at = "singles" => next = 0
  /\ at = "groups" => next <= nGroups
  /\ at = "tables" => next <= NUMTABLES
  /\ ids = [s \in Fields |-> IF s \in numbered(nGroups, at, next)
                            THEN numberOf(nGroups, s)
                            ELSE 0]

-----------------------------------------------------------------------------
(* The fields                                                               *)

\* A field is one of a kind.
LEMMA Kinds ==
  ASSUME NEW s \in Fields
  PROVE  \/ s \in Single
         \/ /\ s = <<s[1], s[2]>> /\ s \notin Single
            /\ \/ s[1] = "waitForTable" /\ s[2] \in 0 .. MAXGROUPS - 1
               \/ s[1] \in TableNames /\ s[2] \in 0 .. NUMTABLES - 1
<1>1. \A x \in Single : x[1] \notin TableNames \cup {"waitForTable"}
  BY DEF Single, TableNames
<1>2. CASE s \in OfGroups({"waitForTable"}, MAXGROUPS)
  BY <1>1, <1>2 DEF OfGroups
<1>3. CASE s \in OfTables(TableNames)
  BY <1>1, <1>3 DEF OfTables, TableNames
<1> QED
  BY <1>2, <1>3 DEF Fields, TableNames

LEMMA NumberIs ==
  ASSUME NEW n \in Nat
  PROVE  /\ \A s \in Single : numberOf(n, s) = singleId(s)
         /\ \A i \in Nat :
              /\ numberOf(n, <<"waitForTable", i>>) = 8 + i
              /\ numberOf(n, <<"foodArrived", i>>) = 8 + n + i
              /\ numberOf(n, <<"requestReceived", i>>) = 8 + n + NUMTABLES + i
              /\ numberOf(n, <<"tableDone", i>>)
                   = 8 + n + NUMTABLES + NUMTABLES + i
<1>1. \A x \in Single : x[1] \notin TableNames \cup {"waitForTable"}
  BY DEF Single, TableNames
<1>2. \A s \in Single : numberOf(n, s) = singleId(s)
  BY <1>1 DEF numberOf, TableNames
<1>3. \A a, i : a \in TableNames \cup {"waitForTable"} => <<a, i>> \notin Single
  BY <1>1
<1>4. ASSUME NEW i \in Nat
      PROVE  /\ numberOf(n, <<"waitForTable", i>>) = 8 + i
             /\ numberOf(n, <<"foodArrived", i>>) = 8 + n + i
             /\ numberOf(n, <<"requestReceived", i>>) = 8 + n + NUMTABLES + i
             /\ numberOf(n, <<"tableDone", i>>)
                  = 8 + n + NUMTABLES + NUMTABLES + i
  BY <1>3 DEF numberOf, TableNames, WAITFORTABLE, FOODARRIVED, REQUESTRECEIVED,
     TABLEDONE
<1> QED
  BY <1>2, <1>4

\* The semaphores with one instance have the numbers 1 to 7.
LEMMA SingleIds ==
  /\ \A s \in Single : singleId(s) \in 1 .. 7
  /\ \A s, u \in Single : singleId(s) = singleId(u) => s = u
  /\ \A k \in 1 .. 7 : \E s \in Single : singleId(s) = k
<1> USE DEF Single, singleId, MUTEX
<1>1. /\ singleId(<<"mutex", 0>>) = 1
      /\ singleId(<<"receptionistReq", 0>>) = 2
      /\ singleId(<<"receptionistRequestPossible", 0>>) = 3
      /\ singleId(<<"waiterRequest", 0>>) = 4
      /\ singleId(<<"waiterRequestPossible", 0>>) = 5
      /\ singleId(<<"waitOrder", 0>>) = 6
      /\ singleId(<<"orderReceived", 0>>) = 7
  OBVIOUS
<1> USE <1>1 DEF Single
<1> HIDE DEF singleId
<1>2. \A s \in Single : singleId(s) \in 1 .. 7
  OBVIOUS
<1>3. \A s, u \in Single : singleId(s) = singleId(u) => s = u
  OBVIOUS
<1>4. \A k \in 1 .. 7 : \E s \in Single : singleId(s) = k
  OBVIOUS
<1> QED
  BY <1>2, <1>3, <1>4

-----------------------------------------------------------------------------
(* The way back from a number to the name                                   *)

\* The semaphores a run with n groups uses.
LEMMA UsedKinds ==
  ASSUME NEW n \in 0 .. MAXGROUPS
  PROVE  /\ Used(n) \subseteq Fields
         /\ \A s \in Used(n) :
              \/ s \in Single
              \/ \E i \in 0 .. n - 1 : s = <<"waitForTable", i>>
              \/ \E i \in 0 .. NUMTABLES - 1 :
                   s \in {<<"foodArrived", i>>, <<"requestReceived", i>>,
                          <<"tableDone", i>>}
         /\ \A s \in Single : s \in Used(n)
         /\ \A i \in 0 .. n - 1 : <<"waitForTable", i>> \in Used(n)
         /\ \A i \in 0 .. NUMTABLES - 1 :
              {<<"foodArrived", i>>, <<"requestReceived", i>>, <<"tableDone", i>>}
                \subseteq Used(n)
BY LayoutAssumption DEF Used, Fields, OfGroups, OfTables

LEMMA NameOfSingle ==
  ASSUME NEW n \in Nat, NEW s \in Single
  PROVE  nameOf(n, singleId(s)) = s
<1> DEFINE k == singleId(s)
           range(j) == 8 + n + ((j - 1) * NUMTABLES)
<1>1. k \in 1 .. 7
  BY SingleIds
<1>2. <<singleNames[k], 0>> = s
  BY DEF Single, singleId, MUTEX, singleNames
<1>3. /\ k \notin 8 .. 8 + n - 1
      /\ ~\E j \in 1 .. 3 : k \in range(j) .. range(j + 1) - 1
  <2>1. \A j \in 1 .. 3 : range(j) \in Int /\ range(j) >= 8 + n
    BY LayoutAssumption
  <2> QED
    BY <1>1, <2>1, LayoutAssumption
<1> HIDE DEF k
<1>4. nameOf(n, k) = <<singleNames[k], 0>>
  BY <1>1, <1>3 DEF nameOf, nameInRanges
<1> QED
  BY <1>2, <1>4 DEF k

LEMMA NameOfGroups ==
  ASSUME NEW n \in Nat, NEW g \in 0 .. n - 1
  PROVE  nameOf(n, 8 + g) = <<"waitForTable", g>>
<1> DEFINE k == 8 + g
           range(j) == 8 + n + ((j - 1) * NUMTABLES)
<1>1. /\ k \notin 1 .. 7
      /\ k \in 8 .. 8 + n - 1
      /\ ~\E j \in 1 .. 3 : k \in range(j) .. range(j + 1) - 1
  <2>1. \A j \in 1 .. 3 : range(j) \in Int /\ range(j) >= 8 + n
    BY LayoutAssumption
  <2> QED
    BY <2>1, LayoutAssumption
<1>2. k - 8 = g
  OBVIOUS
<1> HIDE DEF k
<1>3. nameOf(n, k) = <<"waitForTable", k - 8>>
  BY <1>1 DEF nameOf, nameInRanges
<1> QED
  BY <1>2, <1>3 DEF k

\* The three ranges of the tables follow one another.
LEMMA NameOfTables ==
  ASSUME NEW n \in Nat, NEW i \in 1 .. 3, NEW t \in 0 .. NUMTABLES - 1
  PROVE  nameOf(n, 8 + n + ((i - 1) * NUMTABLES) + t)
           = <<<<"foodArrived", "requestReceived", "tableDone">>[i], t>>
<1> DEFINE k == 8 + n + ((i - 1) * NUMTABLES) + t
           range(j) == 8 + n + ((j - 1) * NUMTABLES)
<1>1. /\ range(1) = 8 + n /\ range(2) = 8 + n + NUMTABLES
      /\ range(3) = 8 + n + NUMTABLES + NUMTABLES
      /\ range(4) = 8 + n + NUMTABLES + NUMTABLES + NUMTABLES
      /\ k = range(i) + t
  BY LayoutAssumption
<1>2. i = 1 \/ i = 2 \/ i = 3
  OBVIOUS
<1>3. \A j \in 1 .. 3 : k \in range(j) .. range(j + 1) - 1 <=> j = i
  <2> HIDE DEF k, range
  <2>1. \A j \in 1 .. 3 : j = 1 \/ j = 2 \/ j = 3
    OBVIOUS
  <2>2. /\ k \in range(1) .. range(2) - 1 <=> i = 1
        /\ k \in range(2) .. range(3) - 1 <=> i = 2
        /\ k \in range(3) .. range(4) - 1 <=> i = 3
    BY <1>1, <1>2, LayoutAssumption
  <2> QED
    BY <2>1, <2>2
<1>4. k \notin 1 .. 7 /\ k \notin 8 .. 8 + n - 1
  <2> HIDE DEF k, range
  <2>1. k >= 8 + n /\ k \in Int
    BY <1>1, <1>2, LayoutAssumption
  <2> QED
    BY <2>1
<1>5. /\ \E j \in 1 .. 3 : k \in range(j) .. range(j + 1) - 1
      /\ (CHOOSE j \in 1 .. 3 : k \in range(j) .. range(j + 1) - 1) = i
  <2> HIDE DEF k, range
  <2> QED
    BY <1>3
<1>6. k - range(i) = t
  <2> HIDE DEF k, range
  <2> QED
    BY <1>1, <1>2, LayoutAssumption
<1> HIDE DEF k
<1>7. nameOf(n, k)
        = LET j == CHOOSE j \in 1 .. 3 : k \in range(j) .. range(j + 1) - 1
          IN  <<<<"foodArrived", "requestReceived", "tableDone">>[j],
                k - range(j)>>
  BY <1>4, <1>5 DEF nameOf, nameInRanges
<1>8. nameOf(n, k) = <<<<"foodArrived", "requestReceived", "tableDone">>[i], t>>
  <2> HIDE DEF range
  <2> QED
    BY <1>5, <1>6, <1>7
<1> QED
  BY <1>8 DEF k

\* The name found for the number of a semaphore is its own.
LEMMA NameOfNumber ==
  ASSUME NEW n \in 0 .. MAXGROUPS, NEW s \in Used(n)
  PROVE  nameOf(n, numberOf(n, s)) = s
<1>1. n \in Nat
  BY LayoutAssumption
<1>2. CASE s \in Single
  BY <1>1, <1>2, NumberIs, NameOfSingle
<1>3. ASSUME NEW i \in 0 .. n - 1, s = <<"waitForTable", i>>
      PROVE  nameOf(n, numberOf(n, s)) = s
  <2>1. i \in Nat
    BY <1>1
  <2> QED
    BY <1>1, <1>3, <2>1, NumberIs, NameOfGroups
<1>4. ASSUME NEW i \in 0 .. NUMTABLES - 1,
             s \in {<<"foodArrived", i>>, <<"requestReceived", i>>,
                    <<"tableDone", i>>}
      PROVE  nameOf(n, numberOf(n, s)) = s
  <2> DEFINE names == <<"foodArrived", "requestReceived", "tableDone">>
  <2>1. names[1] = "foodArrived" /\ names[2] = "requestReceived"
        /\ names[3] = "tableDone"
    OBVIOUS
  <2> HIDE DEF names
  <2>2. \A j \in 1 .. 3 :
          nameOf(n, 8 + n + ((j - 1) * NUMTABLES) + i) = <<names[j], i>>
    BY <1>1, NameOfTables DEF names
  <2>3. /\ nameOf(n, 8 + n + ((1 - 1) * NUMTABLES) + i) = <<names[1], i>>
        /\ nameOf(n, 8 + n + ((2 - 1) * NUMTABLES) + i) = <<names[2], i>>
        /\ nameOf(n, 8 + n + ((3 - 1) * NUMTABLES) + i) = <<names[3], i>>
    BY <2>2
  <2>4. /\ 8 + n + ((1 - 1) * NUMTABLES) + i = 8 + n + i
        /\ 8 + n + ((2 - 1) * NUMTABLES) + i = 8 + n + NUMTABLES + i
        /\ 8 + n + ((3 - 1) * NUMTABLES) + i = 8 + n + NUMTABLES + NUMTABLES + i
    BY <1>1, LayoutAssumption
  <2>5. /\ numberOf(n, <<"foodArrived", i>>) = 8 + n + i
        /\ numberOf(n, <<"requestReceived", i>>) = 8 + n + NUMTABLES + i
        /\ numberOf(n, <<"tableDone", i>>)
             = 8 + n + NUMTABLES + NUMTABLES + i
    <3>1. i \in Nat
      BY LayoutAssumption
    <3> QED
      BY <1>1, <3>1, NumberIs
  <2>6. CASE s = <<"foodArrived", i>>
    BY <2>1, <2>3, <2>4, <2>5, <2>6
  <2>7. CASE s = <<"requestReceived", i>>
    BY <2>1, <2>3, <2>4, <2>5, <2>7
  <2>8. CASE s = <<"tableDone", i>>
    BY <2>1, <2>3, <2>4, <2>5, <2>8
  <2> QED
    BY <1>4, <2>6, <2>7, <2>8
<1> QED
  BY <1>2, <1>3, <1>4, UsedKinds

\* Which semaphores are numbered where.
LEMMA NumberedAre ==
  ASSUME NEW n \in 0 .. MAXGROUPS, NEW a, NEW k
  PROVE  /\ \A s \in Single : s \in numbered(n, a, k) <=> a # "singles"
         /\ \A i \in 0 .. MAXGROUPS - 1 :
              <<"waitForTable", i>> \in numbered(n, a, k)
                <=> /\ i < n
                    /\ (a = "groups" /\ i < k) \/ a \in {"tables", "numbered"}
         /\ \A t \in TableNames : \A i \in 0 .. NUMTABLES - 1 :
              <<t, i>> \in numbered(n, a, k)
                <=> (a = "tables" /\ i < k) \/ a = "numbered"
<1>1. \A x \in Single : x[1] \notin TableNames \cup {"waitForTable"}
  BY DEF Single, TableNames
<1>2. \A x : x \in TableNames \cup {"waitForTable"} =>
        \A i : <<x, i>> \notin Single
  BY <1>1
<1>3. /\ \A s \in Single : s \in Fields
      /\ \A i \in 0 .. MAXGROUPS - 1 : <<"waitForTable", i>> \in Fields
      /\ \A t \in TableNames : \A i \in 0 .. NUMTABLES - 1 : <<t, i>> \in Fields
  BY DEF Fields, OfGroups, OfTables, TableNames
<1>4. "waitForTable" \notin TableNames
  BY DEF TableNames
<1>5. \A s \in Single : s \in numbered(n, a, k) <=> a # "singles"
  BY <1>1, <1>3 DEF numbered
<1>6. ASSUME NEW i \in 0 .. MAXGROUPS - 1
      PROVE  <<"waitForTable", i>> \in numbered(n, a, k)
                <=> /\ i < n
                    /\ (a = "groups" /\ i < k) \/ a \in {"tables", "numbered"}
  BY <1>2, <1>3, <1>4 DEF numbered
<1>7. ASSUME NEW t \in TableNames, NEW i \in 0 .. NUMTABLES - 1
      PROVE  <<t, i>> \in numbered(n, a, k)
                <=> (a = "tables" /\ i < k) \/ a = "numbered"
  BY <1>2, <1>3, <1>4 DEF numbered
<1> QED
  BY <1>5, <1>6, <1>7

\* Only semaphores the run uses are numbered, in the end all of them.
LEMMA NumberedUsed ==
  ASSUME NEW n \in 0 .. MAXGROUPS, NEW a, NEW k
  PROVE  /\ numbered(n, a, k) \subseteq Used(n)
         /\ numbered(n, "numbered", k) = Used(n)
<1>1. ASSUME NEW b, NEW s \in numbered(n, b, k)
      PROVE  s \in Used(n)
  <2>1. s \in Fields
    BY DEF numbered
  <2>2. CASE s \in Single
    BY <2>2 DEF Used
  <2>3. CASE /\ s = <<s[1], s[2]>>
             /\ s[1] = "waitForTable" /\ s[2] \in 0 .. MAXGROUPS - 1
    <3>1. s[2] < n
      BY <2>3, NumberedAre
    <3>2. s[2] \in 0 .. n - 1
      BY <2>3, <3>1, LayoutAssumption
    <3> QED
      BY <2>3, <3>2 DEF Used, OfGroups
  <2>4. CASE /\ s = <<s[1], s[2]>>
             /\ s[1] \in TableNames /\ s[2] \in 0 .. NUMTABLES - 1
    BY <2>4 DEF Used, OfTables, TableNames
  <2> QED
    BY <2>1, <2>2, <2>3, <2>4, Kinds
<1>2. ASSUME NEW s \in Used(n)
      PROVE  s \in numbered(n, "numbered", k)
  <2>1. CASE s \in Single
    BY <2>1, NumberedAre
  <2>2. ASSUME NEW i \in 0 .. n - 1, s = <<"waitForTable", i>>
        PROVE  s \in numbered(n, "numbered", k)
    <3>1. i \in 0 .. MAXGROUPS - 1 /\ i < n
      BY LayoutAssumption
    <3> QED
      BY <2>2, <3>1, NumberedAre
  <2>3. ASSUME NEW i \in 0 .. NUMTABLES - 1,
               s \in {<<"foodArrived", i>>, <<"requestReceived", i>>,
                      <<"tableDone", i>>}
        PROVE  s \in numbered(n, "numbered", k)
    BY <2>3, NumberedAre DEF TableNames
  <2> QED
    BY <2>1, <2>2, <2>3, UsedKinds
<1> QED
  BY <1>1, <1>2

-----------------------------------------------------------------------------
(* The loops                                                                *)

\* To show that a step keeps the last conjunct it is enough to look at each
\* kind of field.
LEMMA IdsByKind ==
  ASSUME NEW n \in 0 .. MAXGROUPS, NEW a, NEW k, NEW f, NEW h,
         f = [s \in Fields |-> h[s]],
         \A s \in Single : f[s] = IF a # "singles" THEN singleId(s) ELSE 0,
         \A i \in 0 .. MAXGROUPS - 1 :
           f[<<"waitForTable", i>>]
             = IF /\ i < n
                  /\ (a = "groups" /\ i < k) \/ a \in {"tables", "numbered"}
               THEN 8 + i
               ELSE 0,
         \A t \in TableNames : \A i \in 0 .. NUMTABLES - 1 :
           f[<<t, i>>] = IF (a = "tables" /\ i < k) \/ a = "numbered"
                         THEN numberOf(n, <<t, i>>)
                         ELSE 0
  PROVE  f = [s \in Fields |-> IF s \in numbered(n, a, k)
                               THEN numberOf(n, s)
                               ELSE 0]
<1>1. n \in Nat
  BY LayoutAssumption
<1>2. SUFFICES ASSUME NEW s \in Fields
               PROVE  f[s] = IF s \in numbered(n, a, k) THEN numberOf(n, s) ELSE 0
  OBVIOUS
<1>3. CASE s \in Single
  BY <1>1, <1>3, NumberIs, NumberedAre
<1>4. CASE /\ s = <<s[1], s[2]>>
           /\ s[1] = "waitForTable" /\ s[2] \in 0 .. MAXGROUPS - 1
  <2>1. s[2] \in Nat
    BY <1>4, LayoutAssumption
  <2>2. s = <<"waitForTable", s[2]>>
    BY <1>4
  <2>3. numberOf(n, s) = 8 + s[2]
    BY <1>1, <2>1, <2>2, NumberIs
  <2>4. s \in numbered(n, a, k)
          <=> /\ s[2] < n
              /\ (a = "groups" /\ s[2] < k) \/ a \in {"tables", "numbered"}
    BY <1>4, <2>2, NumberedAre
  <2> QED
    BY <1>4, <2>2, <2>3, <2>4
<1>5. CASE /\ s = <<s[1], s[2]>>
           /\ s[1] \in TableNames /\ s[2] \in 0 .. NUMTABLES - 1
  BY <1>5, NumberedAre
<1> QED
  BY <1>3, <1>4, <1>5, Kinds

\* And the other way round.
LEMMA IdsAre ==
  ASSUME NEW n \in 0 .. MAXGROUPS, NEW a, NEW k, NEW f,
         f = [s \in Fields |-> IF s \in numbered(n, a, k)
                               THEN numberOf(n, s)
                               ELSE 0]
  PROVE  /\ \A s \in Single : f[s] = IF a # "singles" THEN singleId(s) ELSE 0
         /\ \A i \in 0 .. MAXGROUPS - 1 :
              f[<<"waitForTable", i>>]
                = IF /\ i < n
                     /\ (a = "groups" /\ i < k) \/ a \in {"tables", "numbered"}
                  THEN 8 + i
                  ELSE 0
         /\ \A t \in TableNames : \A i \in 0 .. NUMTABLES - 1 :
              f[<<t, i>>] = IF (a = "tables" /\ i < k) \/ a = "numbered"
                            THEN numberOf(n, <<t, i>>)
                            ELSE 0
<1>1. n \in Nat
  BY LayoutAssumption
<1>2. /\ \A s \in Single : s \in Fields
      /\ \A i \in 0 .. MAXGROUPS - 1 : <<"waitForTable", i>> \in Fields
      /\ \A t \in TableNames : \A i \in 0 .. NUMTABLES - 1 : <<t, i>> \in Fields
  BY DEF Fields, OfGroups, OfTables, TableNames
<1>3. \A s \in Single : f[s] = IF a # "singles" THEN singleId(s) ELSE 0
  BY <1>1, <1>2, NumberIs, NumberedAre
<1>4. ASSUME NEW i \in 0 .. MAXGROUPS - 1
      PROVE  f[<<"waitForTable", i>>]
               = IF /\ i < n
                    /\ (a = "groups" /\ i < k) \/ a \in {"tables", "numbered"}
                 THEN 8 + i
                 ELSE 0
  <2>1. numberOf(n, <<"waitForTable", i>>) = 8 + i
    <3>1. i \in Nat
      BY LayoutAssumption
    <3> QED
      BY <1>1, <3>1, NumberIs
  <2>2. <<"waitForTable", i>> \in Fields
    BY <1>2
  <2>3. <<"waitForTable", i>> \in numbered(n, a, k)
          <=> /\ i < n
              /\ (a = "groups" /\ i < k) \/ a \in {"tables", "numbered"}
    BY NumberedAre
  <2> QED
    BY <2>1, <2>2, <2>3
<1>5. ASSUME NEW t \in TableNames, NEW i \in 0 .. NUMTABLES - 1
      PROVE  f[<<t, i>>] = IF (a = "tables" /\ i < k) \/ a = "numbered"
                           THEN numberOf(n, <<t, i>>)
                           ELSE 0
  BY <1>2, NumberedAre
<1> QED
  BY <1>3, <1>4, <1>5

LEMMA LayoutInit == Init => LayoutInv
<1> SUFFICES ASSUME Init PROVE LayoutInv
  OBVIOUS
<1>1. \A s \in Fields : s \notin numbered(nGroups, "singles", next)
  <2> SUFFICES ASSUME NEW s \in Fields
               PROVE  s \notin numbered(nGroups, "singles", next)
    OBVIOUS
  <2> QED
    BY Kinds, NumberedAre DEF Init
<1> QED
  BY <1>1, LayoutAssumption DEF Init, LayoutInv

LEMMA SinglesKeepInv == LayoutInv /\ NumberSingles => LayoutInv'
<1> SUFFICES ASSUME LayoutInv, NumberSingles PROVE LayoutInv'
  OBVIOUS
<1>1. /\ nGroups' = nGroups /\ next' = 0 /\ at = "singles" /\ at' = "groups"
      /\ nGroups \in 0 .. MAXGROUPS
      /\ ids' = [s \in Fields |-> IF s \in Single THEN singleId(s) ELSE ids[s]]
      /\ ids = [s \in Fields |-> IF s \in numbered(nGroups, at, next)
                                 THEN numberOf(nGroups, s)
                                 ELSE 0]
  BY DEF NumberSingles, LayoutInv
<1>2. \A s \in Fields : ids'[s] = IF s \in Single THEN singleId(s) ELSE ids[s]
  BY <1>1
<1>3. /\ \A i \in 0 .. MAXGROUPS - 1 : ids[<<"waitForTable", i>>] = 0
      /\ \A t \in TableNames : \A i \in 0 .. NUMTABLES - 1 : ids[<<t, i>>] = 0
  BY <1>1, IdsAre
<1>4. /\ \A s \in Single : s \in Fields
      /\ \A i \in 0 .. MAXGROUPS - 1 :
           <<"waitForTable", i>> \in Fields /\ <<"waitForTable", i>> \notin Single
      /\ \A t \in TableNames : \A i \in 0 .. NUMTABLES - 1 :
           <<t, i>> \in Fields /\ <<t, i>> \notin Single
  BY DEF Fields, OfGroups, OfTables, TableNames, Single
<1>5. /\ \A s \in Single : ids'[s] = singleId(s)
      /\ \A i \in 0 .. MAXGROUPS - 1 : ids'[<<"waitForTable", i>>] = 0
      /\ \A t \in TableNames : \A i \in 0 .. NUMTABLES - 1 : ids'[<<t, i>>] = 0
  BY <1>2, <1>3, <1>4
<1>6. \A i \in 0 .. MAXGROUPS - 1 : ~(i < 0)
  BY LayoutAssumption
<1>7. \A i \in 0 .. NUMTABLES - 1 : ~(i < 0)
  BY LayoutAssumption
<1>8. ids' = [s \in Fields |-> ids'[s]]
  BY <1>1
<1>9. ids' = [s \in Fields |-> IF s \in numbered(nGroups, "groups", 0)
                               THEN numberOf(nGroups, s)
                               ELSE 0]
  BY <1>1, <1>5, <1>6, <1>7, <1>8, IdsByKind
<1>10. 0 <= nGroups
  BY <1>1, LayoutAssumption
<1> QED
  BY <1>1, <1>9, <1>10 DEF LayoutInv

LEMMA GroupKeepsInv == LayoutInv /\ NumberGroup => LayoutInv'
<1> SUFFICES ASSUME LayoutInv, NumberGroup PROVE LayoutInv'
  OBVIOUS
<1> DEFINE n == nGroups
<1>1. /\ nGroups' = n /\ at = "groups" /\ n \in 0 .. MAXGROUPS
      /\ next \in Nat /\ next <= n
      /\ ids = [s \in Fields |-> IF s \in numbered(n, "groups", next)
                                 THEN numberOf(n, s)
                                 ELSE 0]
  BY DEF NumberGroup, LayoutInv
<1>2. n \in Nat
  BY <1>1, LayoutAssumption
<1>3. /\ \A s \in Single : ids[s] = singleId(s)
      /\ \A i \in 0 .. MAXGROUPS - 1 :
           ids[<<"waitForTable", i>>] = IF i < n /\ i < next THEN 8 + i ELSE 0
      /\ \A t \in TableNames : \A i \in 0 .. NUMTABLES - 1 : ids[<<t, i>>] = 0
  BY <1>1, IdsAre
<1>4. CASE next < n
  <2>1. /\ ids' = [ids EXCEPT ![<<"waitForTable", next>>] = 8 + next]
        /\ next' = next + 1 /\ at' = "groups"
    BY <1>1, <1>4 DEF NumberGroup, WAITFORTABLE
  <2>2. next \in 0 .. MAXGROUPS - 1
    BY <1>1, <1>4, LayoutAssumption
  <2>3. <<"waitForTable", next>> \in Fields
    BY <2>2 DEF Fields, OfGroups
  <2>4. /\ ids'[<<"waitForTable", next>>] = 8 + next
        /\ \A s \in Fields : s # <<"waitForTable", next>> => ids'[s] = ids[s]
        /\ ids' = [s \in Fields |-> ids'[s]]
    BY <1>1, <2>1, <2>3
  <2>5. /\ \A s \in Single : s \in Fields /\ s # <<"waitForTable", next>>
        /\ \A i \in 0 .. MAXGROUPS - 1 : <<"waitForTable", i>> \in Fields
        /\ \A t \in TableNames : \A i \in 0 .. NUMTABLES - 1 :
             <<t, i>> \in Fields /\ <<t, i>> # <<"waitForTable", next>>
    BY DEF Fields, OfGroups, OfTables, TableNames, Single
  <2>6. /\ \A s \in Single : ids'[s] = singleId(s)
        /\ \A t \in TableNames : \A i \in 0 .. NUMTABLES - 1 : ids'[<<t, i>>] = 0
    BY <1>3, <2>4, <2>5
  <2>7. ASSUME NEW i \in 0 .. MAXGROUPS - 1
        PROVE  ids'[<<"waitForTable", i>>]
                 = IF i < n /\ i < next + 1 THEN 8 + i ELSE 0
    <3>1. CASE i = next
      BY <1>1, <1>4, <2>4, <3>1
    <3>2. CASE i # next
      <4>1. ids'[<<"waitForTable", i>>] = ids[<<"waitForTable", i>>]
        BY <2>4, <2>5, <3>2
      <4>2. i < next + 1 <=> i < next
        BY <1>1, <3>2, LayoutAssumption
      <4> QED
        BY <1>3, <4>1, <4>2
    <3> QED
      BY <3>1, <3>2
  <2>8. ids' = [s \in Fields |-> IF s \in numbered(n, "groups", next + 1)
                                 THEN numberOf(n, s)
                                 ELSE 0]
    BY <1>1, <2>4, <2>6, <2>7, IdsByKind
  <2>9. next + 1 \in Nat /\ next + 1 <= n
    BY <1>1, <1>2, <1>4
  <2> QED
    BY <1>1, <2>1, <2>8, <2>9 DEF LayoutInv
<1>5. CASE ~(next < n)
  <2>1. ids' = ids /\ next' = 0 /\ at' = "tables" /\ next = n
    BY <1>1, <1>2, <1>5 DEF NumberGroup
  <2>2. /\ \A i \in 0 .. NUMTABLES - 1 : ~(i < 0)
        /\ 0 <= NUMTABLES
    BY LayoutAssumption
  <2>3. /\ \A i \in 0 .. MAXGROUPS - 1 :
             ids'[<<"waitForTable", i>>] = IF i < n THEN 8 + i ELSE 0
        /\ \A s \in Single : ids'[s] = singleId(s)
        /\ \A t \in TableNames : \A i \in 0 .. NUMTABLES - 1 : ids'[<<t, i>>] = 0
    BY <1>3, <2>1
  <2>4. ids' = [s \in Fields |-> ids'[s]]
    BY <1>1, <2>1
  <2>5. ids' = [s \in Fields |-> IF s \in numbered(n, "tables", 0)
                                 THEN numberOf(n, s)
                                 ELSE 0]
    BY <1>1, <2>2, <2>3, <2>4, IdsByKind
  <2> QED
    BY <1>1, <2>1, <2>2, <2>5 DEF LayoutInv
<1> QED
  BY <1>4, <1>5

LEMMA TableKeepsInv == LayoutInv /\ NumberTable => LayoutInv'
<1> SUFFICES ASSUME LayoutInv, NumberTable PROVE LayoutInv'
  OBVIOUS
<1> DEFINE n == nGroups
<1>1. /\ nGroups' = n /\ at = "tables" /\ n \in 0 .. MAXGROUPS
      /\ next \in Nat /\ next <= NUMTABLES
      /\ ids = [s \in Fields |-> IF s \in numbered(n, "tables", next)
                                 THEN numberOf(n, s)
                                 ELSE 0]
  BY DEF NumberTable, LayoutInv
<1>2. n \in Nat /\ NUMTABLES \in Nat
  BY <1>1, LayoutAssumption
<1>3. /\ \A s \in Single : ids[s] = singleId(s)
      /\ \A i \in 0 .. MAXGROUPS - 1 :
           ids[<<"waitForTable", i>>] = IF i < n THEN 8 + i ELSE 0
      /\ \A t \in TableNames : \A i \in 0 .. NUMTABLES - 1 :
           ids[<<t, i>>] = IF i < next THEN numberOf(n, <<t, i>>) ELSE 0
  BY <1>1, IdsAre
<1>4. CASE next < NUMTABLES
  <2> DEFINE three == {<<t, next>> : t \in TableNames}
  <2>1. /\ ids' = [ids EXCEPT
                     ![<<"foodArrived", next>>]     = FOODARRIVED(n) + next,
                     ![<<"tableDone", next>>]       = TABLEDONE(n) + next,
                     ![<<"requestReceived", next>>] = REQUESTRECEIVED(n) + next]
        /\ next' = next + 1 /\ at' = "tables"
    BY <1>1, <1>4 DEF NumberTable
  <2>2. next \in 0 .. NUMTABLES - 1
    BY <1>1, <1>2, <1>4
  <2>3. three \subseteq Fields
    BY <2>2 DEF Fields, OfTables, TableNames
  <2>4. /\ numberOf(n, <<"foodArrived", next>>) = FOODARRIVED(n) + next
        /\ numberOf(n, <<"tableDone", next>>) = TABLEDONE(n) + next
        /\ numberOf(n, <<"requestReceived", next>>) = REQUESTRECEIVED(n) + next
    BY DEF numberOf, Single
  <2>5. /\ \A s \in three : ids'[s] = numberOf(n, s)
        /\ \A s \in Fields : s \notin three => ids'[s] = ids[s]
        /\ ids' = [s \in Fields |-> ids'[s]]
    <3>1. /\ <<"foodArrived", next>> \in Fields
          /\ <<"tableDone", next>> \in Fields
          /\ <<"requestReceived", next>> \in Fields
      BY <2>3 DEF TableNames
    <3>2. /\ ids'[<<"foodArrived", next>>] = FOODARRIVED(n) + next
          /\ ids'[<<"tableDone", next>>] = TABLEDONE(n) + next
          /\ ids'[<<"requestReceived", next>>] = REQUESTRECEIVED(n) + next
      BY <1>1, <2>1, <3>1
    <3>3. \A s \in three : \/ s = <<"foodArrived", next>>
                           \/ s = <<"tableDone", next>>
                           \/ s = <<"requestReceived", next>>
      BY DEF TableNames
    <3>4. \A s \in three : ids'[s] = numberOf(n, s)
      BY <2>4, <3>2, <3>3
    <3>5. \A s \in Fields : s \notin three => ids'[s] = ids[s]
      BY <1>1, <2>1 DEF TableNames
    <3>6. ids' = [s \in Fields |-> ids'[s]]
      BY <1>1, <2>1
    <3> QED
      BY <3>4, <3>5, <3>6
  <2>6. /\ \A s \in Single : s \in Fields /\ s \notin three
        /\ \A i \in 0 .. MAXGROUPS - 1 :
             <<"waitForTable", i>> \in Fields /\ <<"waitForTable", i>> \notin three
        /\ \A t \in TableNames : \A i \in 0 .. NUMTABLES - 1 :
             <<t, i>> \in Fields /\ (<<t, i>> \in three <=> i = next)
    BY DEF Fields, OfGroups, OfTables, TableNames, Single
  <2> HIDE DEF three
  <2>7. /\ \A s \in Single : ids'[s] = singleId(s)
        /\ \A i \in 0 .. MAXGROUPS - 1 :
             ids'[<<"waitForTable", i>>] = IF i < n THEN 8 + i ELSE 0
    BY <1>3, <2>5, <2>6
  <2>8. ASSUME NEW t \in TableNames, NEW i \in 0 .. NUMTABLES - 1
        PROVE  ids'[<<t, i>>]
                 = IF i < next + 1 THEN numberOf(n, <<t, i>>) ELSE 0
    <3>1. CASE i = next
      <4>1. i < next + 1
        BY <1>1, <3>1
      <4> QED
        BY <2>5, <2>6, <3>1, <4>1
    <3>2. CASE i # next
      <4>1. ids'[<<t, i>>] = ids[<<t, i>>]
        BY <2>5, <2>6, <3>2
      <4>2. i < next + 1 <=> i < next
        BY <1>1, <3>2, LayoutAssumption
      <4> QED
        BY <1>3, <4>1, <4>2
    <3> QED
      BY <3>1, <3>2
  <2>9. ids' = [s \in Fields |-> IF s \in numbered(n, "tables", next + 1)
                                 THEN numberOf(n, s)
                                 ELSE 0]
    BY <1>1, <2>5, <2>7, <2>8, IdsByKind
  <2>10. next + 1 \in Nat /\ next + 1 <= NUMTABLES
    BY <1>1, <1>2, <1>4
  <2> QED
    BY <1>1, <2>1, <2>9, <2>10 DEF LayoutInv
<1>5. CASE ~(next < NUMTABLES)
  <2>1. ids' = ids /\ next' = next /\ at' = "numbered" /\ next = NUMTABLES
    BY <1>1, <1>2, <1>5 DEF NumberTable
  <2>2. \A i \in 0 .. NUMTABLES - 1 : i < next
    BY <1>2, <2>1
  <2>3. /\ \A i \in 0 .. MAXGROUPS - 1 :
             ids'[<<"waitForTable", i>>] = IF i < n THEN 8 + i ELSE 0
        /\ \A s \in Single : ids'[s] = singleId(s)
        /\ \A t \in TableNames : \A i \in 0 .. NUMTABLES - 1 :
             ids'[<<t, i>>] = numberOf(n, <<t, i>>)
    BY <1>3, <2>1, <2>2
  <2>4. ids' = [s \in Fields |-> ids'[s]]
    BY <1>1, <2>1
  <2>5. ids' = [s \in Fields |-> IF s \in numbered(n, "numbered", next)
                                 THEN numberOf(n, s)
                                 ELSE 0]
    BY <1>1, <2>3, <2>4, IdsByKind
  <2> QED
    BY <1>1, <2>1, <2>5 DEF LayoutInv
<1> QED
  BY <1>4, <1>5

LEMMA LayoutAlways == LayoutSpec => []LayoutInv
<1>1. Init => LayoutInv
  BY LayoutInit
<1>2. LayoutInv /\ [Next]_vars => LayoutInv'
  <2> SUFFICES ASSUME LayoutInv, [Next]_vars PROVE LayoutInv'
    OBVIOUS
  <2>1. CASE NumberSingles
    BY <2>1, SinglesKeepInv
  <2>2. CASE NumberGroup
    BY <2>2, GroupKeepsInv
  <2>3. CASE NumberTable
    BY <2>3, TableKeepsInv
  <2>4. CASE Numbered \/ UNCHANGED vars
    BY <2>4 DEF Numbered, vars, LayoutInv
  <2> QED
    BY <2>1, <2>2, <2>3, <2>4 DEF Next
<1> QED
  BY <1>1, <1>2, PTL DEF LayoutSpec

-----------------------------------------------------------------------------
(* The theorems                                                             *)

\* Whatever the number of groups and tables: once a semaphore has its number,
\* get_semaphore_name gives its name for that number, although it repeats the
\* arithmetic of the macros of sharedDataSync.h with constants of its own.
THEOREM NamesFound == LayoutSpec => []NamesInvertNumbers
<1>1. LayoutInv => NamesInvertNumbers
  <2> SUFFICES ASSUME LayoutInv, NEW s \in Fields, ids[s] # 0
               PROVE  nameOf(nGroups, ids[s]) = s
    BY DEF NamesInvertNumbers
  <2>1. /\ nGroups \in 0 .. MAXGROUPS
        /\ s \in numbered(nGroups, at, next)
        /\ ids[s] = numberOf(nGroups, s)
    BY DEF LayoutInv
  <2> QED
    BY <2>1, NumberedUsed, NameOfNumber
<1> QED
  BY <1>1, LayoutAlways, PTL

\* The numbers of the semaphores of a run with n groups are those of the set.
LEMMA NumbersAre ==
  ASSUME NEW n \in 0 .. MAXGROUPS
  PROVE  {numberOf(n, s) : s \in Used(n)} = 1 .. SEM_NU(n)
<1>1. n \in Nat /\ NUMTABLES \in Nat
  BY LayoutAssumption
<1>2. SEM_NU(n) = 7 + n + NUMTABLES + NUMTABLES + NUMTABLES
  BY <1>1 DEF SEM_NU
<1>3. ASSUME NEW s \in Used(n)
      PROVE  numberOf(n, s) \in 1 .. SEM_NU(n)
  <2>1. CASE s \in Single
    <3>1. numberOf(n, s) = singleId(s) /\ singleId(s) \in 1 .. 7
      BY <1>1, <2>1, NumberIs, SingleIds
    <3> QED
      BY <1>1, <1>2, <3>1
  <2>2. ASSUME NEW i \in 0 .. n - 1, s = <<"waitForTable", i>>
        PROVE  numberOf(n, s) \in 1 .. SEM_NU(n)
    <3>1. i \in Nat /\ i < n
      BY <1>1
    <3>2. numberOf(n, s) = 8 + i
      BY <1>1, <2>2, <3>1, NumberIs
    <3> QED
      BY <1>1, <1>2, <3>1, <3>2
  <2>3. ASSUME NEW i \in 0 .. NUMTABLES - 1,
               s \in {<<"foodArrived", i>>, <<"requestReceived", i>>,
                      <<"tableDone", i>>}
        PROVE  numberOf(n, s) \in 1 .. SEM_NU(n)
    <3>1. i \in Nat /\ i < NUMTABLES
      BY <1>1
    <3>2. numberOf(n, s) \in {8 + n + i, 8 + n + NUMTABLES + i,
                              8 + n + NUMTABLES + NUMTABLES + i}
      BY <1>1, <2>3, <3>1, NumberIs
    <3> QED
      BY <1>1, <1>2, <3>1, <3>2
  <2> QED
    BY <2>1, <2>2, <2>3, UsedKinds
<1>4. ASSUME NEW k \in 1 .. SEM_NU(n)
      PROVE  \E s \in Used(n) : numberOf(n, s) = k
  <2>1. CASE k <= 7
    <3>1. k \in 1 .. 7
      BY <1>1, <1>2, <2>1
    <3> QED
      BY <1>1, <3>1, SingleIds, NumberIs, UsedKinds
  <2>2. CASE 8 <= k /\ k < 8 + n
    <3>1. k - 8 \in Nat /\ k - 8 \in 0 .. n - 1 /\ 8 + (k - 8) = k
      BY <1>1, <1>2, <2>2
    <3>2. /\ <<"waitForTable", k - 8>> \in Used(n)
          /\ numberOf(n, <<"waitForTable", k - 8>>) = 8 + (k - 8)
      BY <1>1, <3>1, UsedKinds, NumberIs
    <3> QED
      BY <3>1, <3>2
  <2>3. CASE 8 + n <= k /\ k < 8 + n + NUMTABLES
    <3> DEFINE i == k - (8 + n)
    <3>1. i \in Nat /\ i \in 0 .. NUMTABLES - 1 /\ 8 + n + i = k
      BY <1>1, <1>2, <2>3
    <3> HIDE DEF i
    <3>2. /\ <<"foodArrived", i>> \in Used(n)
          /\ numberOf(n, <<"foodArrived", i>>) = 8 + n + i
      BY <1>1, <3>1, UsedKinds, NumberIs
    <3> QED
      BY <3>1, <3>2
  <2>4. CASE 8 + n + NUMTABLES <= k /\ k < 8 + n + NUMTABLES + NUMTABLES
    <3> DEFINE i == k - (8 + n + NUMTABLES)
    <3>1. i \in Nat /\ i \in 0 .. NUMTABLES - 1 /\ 8 + n + NUMTABLES + i = k
      BY <1>1, <1>2, <2>4
    <3> HIDE DEF i
    <3>2. /\ <<"requestReceived", i>> \in Used(n)
          /\ numberOf(n, <<"requestReceived", i>>) = 8 + n + NUMTABLES + i
      BY <1>1, <3>1, UsedKinds, NumberIs
    <3> QED
      BY <3>1, <3>2
  <2>5. CASE 8 + n + NUMTABLES + NUMTABLES <= k
    <3> DEFINE i == k - (8 + n + NUMTABLES + NUMTABLES)
    <3>1. /\ i \in Nat /\ i \in 0 .. NUMTABLES - 1
          /\ 8 + n + NUMTABLES + NUMTABLES + i = k
      BY <1>1, <1>2, <2>5
    <3> HIDE DEF i
    <3>2. /\ <<"tableDone", i>> \in Used(n)
          /\ numberOf(n, <<"tableDone", i>>) = 8 + n + NUMTABLES + NUMTABLES + i
      BY <1>1, <3>1, UsedKinds, NumberIs
    <3> QED
      BY <3>1, <3>2
  <2> QED
    BY <1>1, <1>2, <2>1, <2>2, <2>3, <2>4, <2>5
<1> QED
  BY <1>3, <1>4

\* Whatever the number of groups and tables: when main is through with its
\* loops, every semaphore of the run has a number of its own, and together they
\* have all the numbers of the set that SEM_NU asks for but that of the start
\* barrier.  That two numbers differ follows from the names found for them.
THEOREM NumbersPartition == LayoutSpec => []NumbersPartitionSet
<1>1. LayoutInv => NumbersPartitionSet
  <2> SUFFICES ASSUME LayoutInv, at = "numbered"
               PROVE  /\ \A s, u \in Used(nGroups) : ids[s] = ids[u] => s = u
                      /\ {ids[s] : s \in Used(nGroups)} = 1 .. SEM_NU(nGroups)
    BY DEF NumbersPartitionSet
  <2>1. /\ nGroups \in 0 .. MAXGROUPS
        /\ \A s \in Used(nGroups) : ids[s] = numberOf(nGroups, s)
    <3>1. nGroups \in 0 .. MAXGROUPS
      BY DEF LayoutInv
    <3> QED
      BY <3>1, NumberedUsed, UsedKinds DEF LayoutInv
  <2>2. \A s, u \in Used(nGroups) : ids[s] = ids[u] => s = u
    BY <2>1, NameOfNumber
  <2>3. {ids[s] : s \in Used(nGroups)}
          = {numberOf(nGroups, s) : s \in Used(nGroups)}
    BY <2>1
  <2> QED
    BY <2>1, <2>2, <2>3, NumbersAre
<1> QED
  BY <1>1, LayoutAlways, PTL
=============================================================================
