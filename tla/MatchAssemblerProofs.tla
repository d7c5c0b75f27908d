------------------------ MODULE MatchAssemblerProofs ------------------------
(***************************************************************************)
(* Proofs about MatchAssembler, for every value of the constants.          *)
(***************************************************************************)
EXTENDS MatchAssembler, FiniteSetTheorems, TLAPS

(***************************************************************************)
(* The invariant of the merge and of the insertion sort.  While rows are   *)
(* read the list is empty.  Collect makes MatchList a list of the merged   *)
(* keys without repetition, and the swaps keep it one.  While the sort     *)
(* runs and the comparator has set no error, the positions 1 .. i+1 are    *)
(* in order except the element being inserted, at j+1, which is ordered   *)
(* before every element it has passed; after sort.Slice returns success   *)
(* the whole list is in order.                                             *)
(***************************************************************************)
AssembleInv == phase = "assemble" => MatchList = << >> /\ i = 1 /\ j = 1 /\ ~err

Distinct ==
    \A p, q \in 1..Len(MatchList) : p # q => MatchList[p] # MatchList[q]

ListIsMerged == phase \in {"sort", "done"} => Range(MatchList) = DOMAIN assembled

\* The positions up to hi, except skip, are pairwise in order.
SortedExcept(hi, skip) ==
    \A p, q \in 1..Len(MatchList) :
        (p < q /\ q <= hi /\ p # skip /\ q # skip) => Before(MatchList[p], MatchList[q])

\* The element being inserted is before every element it has passed.
InsertedFirst ==
    \A q \in 1..Len(MatchList) : (j + 1 < q /\ q <= i + 1) => Before(MatchList[j + 1], MatchList[q])

SortIndices == phase = "sort" => 1 <= i /\ j <= i /\ (j < i => i < Len(MatchList))

SortInv == (phase = "sort" /\ ~err) => SortedExcept(i + 1, j + 1) /\ InsertedFirst

DoneInv == phase = "done" => SortedExcept(Len(MatchList), 0)

IInv ==
    /\ TypeOK
    /\ IsFiniteSet(DOMAIN assembled)
    /\ AssembleInv
    /\ ScoutedFlagsAgree
    /\ Distinct
    /\ ListIsMerged
    /\ SortIndices
    /\ SortInv
    /\ DoneInv

-----------------------------------------------------------------------------
(***************************************************************************)
(* The comparator and the order of spec.md 4.2.                           *)
(***************************************************************************)
\* findIndexInList answers -1 or a 0-based index of MATCH_TYPE_ORDERING.
LEMMA LevelIndexType == \A x : LevelIndex(x) \in -1..4
<1> SUFFICES ASSUME NEW x PROVE LevelIndex(x) \in -1..4
    OBVIOUS
<1>1. Len(MATCH_TYPE_ORDERING) = 5
    BY DEF MATCH_TYPE_ORDERING
<1>2. CASE \E k \in 1..Len(MATCH_TYPE_ORDERING) : MATCH_TYPE_ORDERING[k] = x
    <2>1. PICK k \in 1..5 : k = CHOOSE k2 \in 1..Len(MATCH_TYPE_ORDERING) : MATCH_TYPE_ORDERING[k2] = x
        BY <1>1, <1>2
    <2>. QED  BY <1>2, <2>1, <1>1 DEF LevelIndex
<1>3. CASE ~\E k \in 1..Len(MATCH_TYPE_ORDERING) : MATCH_TYPE_ORDERING[k] = x
    BY <1>3 DEF LevelIndex
<1>. QED  BY <1>2, <1>3

\* Two levels of MATCH_TYPE_ORDERING with the same index are the same level.
LEMMA LevelIndexInjective ==
    ASSUME NEW x, NEW y, LevelIndex(x) = LevelIndex(y), LevelIndex(x) # -1
    PROVE  x = y
<1> DEFINE O == MATCH_TYPE_ORDERING
           Has(z) == \E k \in 1..Len(O) : O[k] = z
<1>1. Has(x) /\ Has(y)
    BY DEF LevelIndex
<1>2. O[LevelIndex(x) + 1] = x
    <2>1. PICK k \in 1..Len(O) : k = CHOOSE k2 \in 1..Len(O) : O[k2] = x
        BY <1>1
    <2>2. O[k] = x
        BY <1>1, <2>1
    <2>3. LevelIndex(x) = k - 1
        BY <1>1, <2>1 DEF LevelIndex
    <2>. QED  BY <2>2, <2>3, <2>1 DEF MATCH_TYPE_ORDERING
<1>3. O[LevelIndex(y) + 1] = y
    <2>1. PICK k \in 1..Len(O) : k = CHOOSE k2 \in 1..Len(O) : O[k2] = y
        BY <1>1
    <2>2. O[k] = y
        BY <1>1, <2>1
    <2>3. LevelIndex(y) = k - 1
        BY <1>1, <2>1 DEF LevelIndex
    <2>. QED  BY <2>2, <2>3, <2>1 DEF MATCH_TYPE_ORDERING
<1>. QED  BY <1>2, <1>3

\* The keys of a match: three components, the first two integers.
LEMMA KeyParts ==
    ASSUME NEW a \in Keys
    PROVE  /\ a = <<a[1], a[2], a[3]>>
           /\ a[1] \in Int /\ a[2] \in Int
           /\ LevelIndex(a[3]) \in -1..4
<1>1. PICK m \in MatchNumbers, n \in SetNumbers, l \in CompLevels : a = <<m, n, l>>
    BY DEF Keys
<1>2. a[1] = m /\ a[2] = n /\ a[3] = l
    BY <1>1
<1>. QED  BY <1>1, <1>2, LevelIndexType, MatchNumbersAssumption, SetNumbersAssumption

\* The order is strict and transitive.
LEMMA BeforeIrreflexive ==
    ASSUME NEW a \in Keys, NEW b \in Keys, Before(a, b)
    PROVE  ~Before(b, a) /\ a # b
BY KeyParts DEF Before

LEMMA BeforeTransitive ==
    ASSUME NEW a \in Keys, NEW b \in Keys, NEW c \in Keys, Before(a, b), Before(b, c)
    PROVE  Before(a, c)
BY KeyParts DEF Before

\* Two different keys of known levels are ordered one way or the other.
LEMMA BeforeTotal ==
    ASSUME NEW a \in Keys, NEW b \in Keys, a # b,
           LevelIndex(a[3]) # -1, LevelIndex(b[3]) # -1
    PROVE  Before(a, b) \/ Before(b, a)
<1>1. LevelIndex(a[3]) = LevelIndex(b[3]) => a[3] = b[3]
    BY LevelIndexInjective
<1>. QED  BY <1>1, KeyParts DEF Before

\* Without an error, the comparator on two different keys is the order.
LEMMA LessIsBefore ==
    ASSUME NEW a \in Keys, NEW b \in Keys, a # b, ~LessErr(a, b)
    PROVE  Less(a, b) <=> Before(a, b)
<1>1. ~err /\ LevelIndex(a[3]) # -1 /\ LevelIndex(b[3]) # -1
    BY DEF LessErr
<1>2. a[1] = b[1] /\ a[2] = b[2] /\ LevelIndex(a[3]) = LevelIndex(b[3]) => a = b
    <2>1. LevelIndex(a[3]) = LevelIndex(b[3]) => a[3] = b[3]
        BY <1>1, LevelIndexInjective
    <2>2. a = <<a[1], a[2], a[3]>> /\ b = <<b[1], b[2], b[3]>>
        BY KeyParts
    <2>. QED  BY <2>1, <2>2
<1>. QED  BY <1>1, <1>2, KeyParts DEF Less, Before

-----------------------------------------------------------------------------
(***************************************************************************)
(* Reading the rows.                                                       *)
(***************************************************************************)
LEMMA NewEntryType == NewEntry \in Entry
BY DEF NewEntry, Entry

\* A row written into its slot of an entry.
LEMMA SetSlotType ==
    ASSUME NEW e \in Entry, NEW slot \in Slots, NEW t \in TeamNumbers, NEW f \in BOOLEAN
    PROVE  [team |-> [e.team EXCEPT ![slot] = t], scouted |-> [e.scouted EXCEPT ![slot] = f]]
              \in Entry
BY DEF Entry

LEMMA InitIInv == Init => IInv
<1> SUFFICES ASSUME Init PROVE IInv
    OBVIOUS
<1>1. DOMAIN assembled = {}
    BY DEF Init
<1>2. TypeOK
    <2>1. MatchList \in Seq(Keys)
        BY DEF Init
    <2>2. \A k \in DOMAIN assembled : assembled[k] \in Entry
        BY <1>1
    <2>3. rows \in 0..MaxRows /\ i \in Nat /\ j \in Nat /\ err \in BOOLEAN
        <3>1. rows = 0 /\ i = 1 /\ j = 1
            BY DEF Init
        <3>2. err \in BOOLEAN
            BY DEF Init
        <3>. QED  BY <3>1, <3>2, MaxRowsAssumption
    <2>4. phase \in {"assemble", "sort", "done", "failed"} /\ DOMAIN assembled \subseteq Keys
        BY <1>1 DEF Init
    <2>. QED  BY <2>1, <2>2, <2>3, <2>4 DEF TypeOK
<1>3. IsFiniteSet(DOMAIN assembled)
    BY <1>1, FS_EmptySet
<1>. QED  BY <1>1, <1>2, <1>3 DEF Init, IInv, AssembleInv, ScoutedFlagsAgree, Distinct,
                                  ListIsMerged, SortIndices, SortInv, DoneInv

\* One row read: the entry of its key gets the team in its slot, with the
\* team's own flag; the list is still empty.
LEMMA AssembleStep ==
    ASSUME IInv, NEW key \in Keys, NEW al \in Alliances, NEW p \in Positions,
           NEW t \in TeamNumbers, AssembleRow(key, al, p, t)
    PROVE  IInv'
<1> DEFINE entry == IF key \in DOMAIN assembled THEN assembled[key] ELSE NewEntry
           slot == <<al, p>>
           new == [team    |-> [entry.team EXCEPT ![slot] = t],
                   scouted |-> [entry.scouted EXCEPT ![slot] = <<key, t>> \in Scouted]]
<1>a. TypeOK /\ IsFiniteSet(DOMAIN assembled) /\ AssembleInv /\ ScoutedFlagsAgree
    BY DEF IInv
<1>0. phase = "assemble" /\ rows < MaxRows /\ rows' = rows + 1
      /\ UNCHANGED <<MatchList, i, j, err>>
    BY DEF AssembleRow
<1>l. MatchList = << >> /\ i = 1 /\ j = 1 /\ ~err
    BY <1>0, <1>a DEF AssembleInv
<1>r. rows' \in 0..MaxRows
    BY <1>0, <1>a, MaxRowsAssumption DEF TypeOK
\* What does not depend on the branch: the list is empty, the phase is not
\* one of the sort.
<1>v. ASSUME phase' \in {"assemble", "failed"}
      PROVE  (AssembleInv /\ Distinct /\ ListIsMerged /\ SortIndices /\ SortInv /\ DoneInv)'
    BY <1>v, <1>0, <1>l DEF AssembleInv, Distinct, ListIsMerged, SortIndices, SortInv, DoneInv
<1>1. CASE /\ slot \in Slots
           /\ assembled' = [k \in DOMAIN assembled \cup {key} |->
                               IF k = key THEN new ELSE assembled[k]]
           /\ UNCHANGED phase
    <2>1. entry \in Entry
        BY <1>a, NewEntryType DEF TypeOK
    <2>2. new \in Entry
        <3>1. (<<key, t>> \in Scouted) \in BOOLEAN
            OBVIOUS
        <3>. QED  BY <2>1, <1>1, <3>1, SetSlotType
    <2>3. TypeOK'
        BY <1>1, <2>2, <1>0, <1>a, <1>l, <1>r DEF TypeOK
    <2>4. IsFiniteSet(DOMAIN assembled')
        BY <1>1, <1>a, FS_AddElement
    <2>5. ScoutedFlagsAgree'
        <3> SUFFICES ASSUME NEW k \in DOMAIN assembled', NEW s \in Slots,
                            assembled'[k].team[s] # NoTeam
                     PROVE  assembled'[k].scouted[s] = (<<k, assembled'[k].team[s]>> \in Scouted)
            BY DEF ScoutedFlagsAgree
        <3>1. CASE k = key /\ s = slot
            BY <3>1, <1>1, <2>1 DEF Entry
        <3>2. CASE k = key /\ s # slot /\ key \in DOMAIN assembled
            <4>1. assembled'[k].team[s] = assembled[key].team[s]
                  /\ assembled'[k].scouted[s] = assembled[key].scouted[s]
                BY <3>2, <1>1, <2>1 DEF Entry
            <4>. QED  BY <3>2, <4>1, <1>a DEF ScoutedFlagsAgree
        <3>3. CASE k = key /\ s # slot /\ key \notin DOMAIN assembled
            <4>1. assembled'[k].team[s] = NoTeam
                BY <3>3, <1>1 DEF NewEntry
            <4>. QED  BY <4>1
        <3>4. CASE k # key
            BY <3>4, <1>1, <1>a DEF ScoutedFlagsAgree
        <3>. QED  BY <3>1, <3>2, <3>3, <3>4
    <2>. QED  BY <1>1, <1>0, <1>v, <2>3, <2>4, <2>5 DEF IInv
<1>2. CASE phase' = "failed" /\ UNCHANGED assembled
    <2>1. TypeOK'
        BY <1>2, <1>0, <1>a, <1>l, <1>r DEF TypeOK
    <2>2. ScoutedFlagsAgree'
        BY <1>2, <1>a DEF ScoutedFlagsAgree
    <2>. QED  BY <1>2, <1>v, <1>a, <2>1, <2>2 DEF IInv
<1>. QED  BY <1>1, <1>2 DEF AssembleRow

-----------------------------------------------------------------------------
(***************************************************************************)
(* Collecting the merged matches into MatchList.                          *)
(***************************************************************************)
\* A list of the elements of a finite set, as long as the set and without
\* repetition, lists every element.
LEMMA OrderIsPermutation ==
    ASSUME NEW D, IsFiniteSet(D), NEW order \in [1..Cardinality(D) -> D],
           \A a, b \in DOMAIN order : a # b => order[a] # order[b]
    PROVE  Range(order) = D
<1> DEFINE n == Cardinality(D)
<1>1. n \in Nat
    BY FS_CardinalityType
<1>2. IsFiniteSet(1..n) /\ Cardinality(1..n) = n
    BY <1>1, FS_Interval
<1>3. order \in Injection(1..n, D)
    BY DEF Injection, IsInjective
<1>4. order \in Surjection(1..n, D)
    BY <1>2, <1>3, FS_Injection
<1>. QED  BY <1>4 DEF Surjection, Range

\* The loop over the map: MatchList holds each merged match once.
LEMMA CollectStep == IInv /\ Collect => IInv'
<1> SUFFICES ASSUME IInv, Collect PROVE IInv'
    OBVIOUS
<1> DEFINE D == DOMAIN assembled
           n == Cardinality(D)
<1>a. TypeOK /\ IsFiniteSet(D) /\ AssembleInv /\ ScoutedFlagsAgree
    BY DEF IInv
<1>0. phase = "assemble" /\ phase' = "sort" /\ UNCHANGED <<rows, assembled, i, j, err>>
    BY DEF Collect
<1>l. i = 1 /\ j = 1 /\ ~err
    BY <1>0, <1>a DEF AssembleInv
<1>1. PICK order \in [1..n -> D] :
         /\ \A a, b \in DOMAIN order : a # b => order[a] # order[b]
         /\ MatchList' = order
    BY DEF Collect
<1>n. n \in Nat
    BY <1>a, FS_CardinalityType
<1>2. MatchList' \in Seq(Keys) /\ Len(MatchList') = n
    <2>1. D \subseteq Keys
        BY <1>a DEF TypeOK
    <2>. QED  BY <1>1, <1>n, <2>1
<1>3. TypeOK'
    BY <1>0, <1>2, <1>a, <1>l DEF TypeOK
<1>4. Distinct'
    BY <1>1, <1>2 DEF Distinct
<1>5. ListIsMerged'
    BY <1>0, <1>1, <1>a, OrderIsPermutation DEF ListIsMerged
<1>6. (SortIndices /\ SortInv)'
    BY <1>0, <1>l DEF SortIndices, SortInv, SortedExcept, InsertedFirst
<1>7. (AssembleInv /\ DoneInv /\ ScoutedFlagsAgree /\ IsFiniteSet(DOMAIN assembled))'
    BY <1>0, <1>a DEF AssembleInv, DoneInv, ScoutedFlagsAgree
<1>. QED  BY <1>3, <1>4, <1>5, <1>6, <1>7 DEF IInv

-----------------------------------------------------------------------------
(***************************************************************************)
(* The insertion sort.                                                     *)
(***************************************************************************)
\* swap(j, j-1) of two neighbours keeps the list's length, its elements and
\* their distinctness, and moves nothing else.
SwapFacts(S, s, k) ==
    LET t == [s EXCEPT ![k] = s[k + 1], ![k + 1] = s[k]]
    IN  /\ t \in Seq(S) /\ Len(t) = Len(s)
        /\ t[k] = s[k + 1] /\ t[k + 1] = s[k]
        /\ \A x \in 1..Len(s) \ {k, k + 1} : t[x] = s[x]
        /\ Range(t) = Range(s)
        /\ (\A p, q \in 1..Len(s) : p # q => s[p] # s[q])
              => \A p, q \in 1..Len(t) : p # q => t[p] # t[q]

LEMMA SwapLemma ==
    \A S : \A s \in Seq(S) : \A k \in Nat : (1 <= k /\ k + 1 <= Len(s)) => SwapFacts(S, s, k)
<1> SUFFICES ASSUME NEW S, NEW s \in Seq(S), NEW k \in Nat, 1 <= k, k + 1 <= Len(s)
             PROVE  SwapFacts(S, s, k)
    OBVIOUS
<1> DEFINE t == [s EXCEPT ![k] = s[k + 1], ![k + 1] = s[k]]
<1>1. t \in Seq(S) /\ Len(t) = Len(s) /\ DOMAIN t = 1..Len(s)
    BY SMT
<1>2. t[k] = s[k + 1] /\ t[k + 1] = s[k] /\ \A x \in 1..Len(s) \ {k, k + 1} : t[x] = s[x]
    BY SMT
<1>3. Range(t) = Range(s)
    <2>1. Range(t) \subseteq Range(s)
        BY <1>1, <1>2 DEF Range
    <2>2. Range(s) \subseteq Range(t)
        <3> SUFFICES ASSUME NEW x \in 1..Len(s) PROVE s[x] \in Range(t)
            BY DEF Range
        <3>1. CASE x = k
            BY <3>1, <1>1, <1>2 DEF Range
        <3>2. CASE x = k + 1
            BY <3>2, <1>1, <1>2 DEF Range
        <3>3. CASE x # k /\ x # k + 1
            BY <3>3, <1>1, <1>2 DEF Range
        <3>. QED  BY <3>1, <3>2, <3>3
    <2>. QED  BY <2>1, <2>2
<1>4. ASSUME \A p, q \in 1..Len(s) : p # q => s[p] # s[q],
             NEW p \in 1..Len(t), NEW q \in 1..Len(t), p # q
      PROVE  t[p] # t[q]
    <2> DEFINE sw(x) == IF x = k THEN k + 1 ELSE IF x = k + 1 THEN k ELSE x
    <2>1. \A x \in 1..Len(s) : sw(x) \in 1..Len(s) /\ t[x] = s[sw(x)]
        BY <1>2
    <2>2. sw(p) # sw(q)
        BY <1>4, <1>1
    <2>. QED  BY <1>4, <1>1, <2>1, <2>2
<1>. QED  BY <1>1, <1>2, <1>3, <1>4 DEF SwapFacts

\* One call less(j, j-1), and the swap when it answers true.  A swap moves
\* the element being inserted one place down past a later one; no swap
\* leaves it after its left neighbour, so positions 1 .. i+1 are in order.
LEMMA CompareStep == IInv /\ Compare => IInv'
<1> SUFFICES ASSUME IInv, Compare PROVE IInv'
    OBVIOUS
<1> DEFINE a == MatchList[j + 1]
           b == MatchList[j]
           n == Len(MatchList)
           swapped == [MatchList EXCEPT ![j] = a, ![j + 1] = b]
<1> USE DEF a, b, n, swapped
<1>a. /\ TypeOK /\ IsFiniteSet(DOMAIN assembled) /\ ScoutedFlagsAgree /\ Distinct
      /\ ListIsMerged /\ SortIndices /\ SortInv
    BY DEF IInv
<1>0. /\ phase = "sort" /\ i < n /\ j > 0 /\ err' = LessErr(a, b)
      /\ UNCHANGED <<phase, rows, assembled>>
    BY DEF Compare
<1>t. MatchList \in Seq(Keys) /\ i \in Nat /\ j \in Nat /\ rows \in 0..MaxRows
    BY <1>a DEF TypeOK
<1>j. 1 <= j /\ j <= i /\ j + 1 <= n
    BY <1>0, <1>a, <1>t DEF SortIndices
<1>m. \A x \in 1..n : MatchList[x] \in Keys
    BY <1>t
<1>k. a \in Keys /\ b \in Keys /\ a # b
    BY <1>j, <1>t, <1>m, <1>a DEF Distinct
<1>s. /\ swapped \in Seq(Keys) /\ Len(swapped) = n
      /\ swapped[j] = a /\ swapped[j + 1] = b
      /\ \A x \in 1..n \ {j, j + 1} : swapped[x] = MatchList[x]
      /\ Range(swapped) = Range(MatchList)
      /\ \A p, q \in 1..Len(swapped) : p # q => swapped[p] # swapped[q]
    <2>1. \A p, q \in 1..n : p # q => MatchList[p] # MatchList[q]
        BY <1>a DEF Distinct
    <2>2. SwapFacts(Keys, MatchList, j)
        BY <1>t, <1>j, SwapLemma
    <2>. QED  BY <2>1, <2>2 DEF SwapFacts
<1>u. err' \in BOOLEAN
    BY <1>0 DEF LessErr
<1>e. ~err' => ~err /\ ~LessErr(a, b)
    BY <1>0 DEF LessErr
\* The conjuncts no step of the sort disturbs.
<1>r. (AssembleInv /\ DoneInv /\ ScoutedFlagsAgree /\ IsFiniteSet(DOMAIN assembled))'
    BY <1>0, <1>a DEF AssembleInv, DoneInv, ScoutedFlagsAgree
<1>A. CASE Less(a, b)
    <2>0. MatchList' = swapped /\ j' = j - 1 /\ i' = i
        BY <1>A, <1>0 DEF Compare
    <2>1. ~err'
        BY <1>A, <1>0 DEF Less, LessErr
    <2>2. Before(a, b)
        BY <2>1, <1>e, <1>k, <1>A, LessIsBefore
    <2>3. TypeOK'
        BY <2>0, <1>s, <1>u, <1>a, <1>0, <1>j, <1>t DEF TypeOK
    <2>4. Distinct'
        BY <2>0, <1>s DEF Distinct
    <2>9. ListIsMerged'
        BY <2>0, <1>s, <1>0, <1>a DEF ListIsMerged
    <2>10. SortIndices'
        BY <2>0, <1>s, <1>0, <1>j, <1>t DEF SortIndices
    <2>5. SortedExcept(i + 1, j + 1) /\ InsertedFirst
        BY <2>1, <1>e, <1>0, <1>a DEF SortInv
    <2>6. \A p, q \in 1..Len(MatchList') :
             (p < q /\ q <= i' + 1 /\ p # j' + 1 /\ q # j' + 1) => Before(MatchList'[p], MatchList'[q])
        <3> SUFFICES ASSUME NEW p \in 1..n, NEW q \in 1..n, p < q, q <= i + 1, p # j, q # j
                     PROVE  Before(swapped[p], swapped[q])
            BY <2>0, <1>s, <1>j
        <3>1. CASE p = j + 1
            <4>1. swapped[p] = MatchList[j] /\ swapped[q] = MatchList[q]
                BY <3>1, <1>s, <1>j
            <4>2. /\ j \in 1..Len(MatchList) /\ q \in 1..Len(MatchList)
                  /\ j < q /\ q <= i + 1 /\ j # j + 1 /\ q # j + 1
                BY <3>1, <1>j, <1>t
            <4>. QED  BY <4>1, <4>2, <2>5 DEF SortedExcept
        <3>2. CASE q = j + 1
            <4>1. swapped[p] = MatchList[p] /\ swapped[q] = MatchList[j]
                BY <3>2, <1>s, <1>j
            <4>2. /\ p \in 1..Len(MatchList) /\ j \in 1..Len(MatchList)
                  /\ p < j /\ j <= i + 1 /\ p # j + 1 /\ j # j + 1
                BY <3>2, <1>j, <1>t
            <4>. QED  BY <4>1, <4>2, <2>5 DEF SortedExcept
        <3>3. CASE p # j + 1 /\ q # j + 1
            <4>1. swapped[p] = MatchList[p] /\ swapped[q] = MatchList[q]
                BY <3>3, <1>s
            <4>. QED  BY <4>1, <3>3, <2>5 DEF SortedExcept
        <3>. QED  BY <3>1, <3>2, <3>3
    <2>7. \A q \in 1..Len(MatchList') :
             (j' + 1 < q /\ q <= i' + 1) => Before(MatchList'[j' + 1], MatchList'[q])
        <3> SUFFICES ASSUME NEW q \in 1..n, j < q, q <= i + 1
                     PROVE  Before(swapped[j], swapped[q])
            BY <2>0, <1>s, <1>j
        <3>1. CASE q = j + 1
            BY <3>1, <2>2, <1>s
        <3>2. CASE q # j + 1
            <4>1. swapped[q] = MatchList[q]
                BY <3>2, <1>s
            <4>. QED  BY <4>1, <3>2, <1>s, <2>5 DEF InsertedFirst
        <3>. QED  BY <3>1, <3>2
    <2>8. SortInv'
        BY <2>6, <2>7 DEF SortInv, SortedExcept, InsertedFirst
    <2>. QED  BY <2>3, <2>4, <2>9, <2>10, <2>8, <1>r DEF IInv
<1>B. CASE ~Less(a, b)
    <2>0. MatchList' = MatchList /\ i' = i + 1 /\ j' = i + 1
        BY <1>B, <1>0 DEF Compare
    <2>3. TypeOK'
        BY <2>0, <1>u, <1>a, <1>0, <1>t DEF TypeOK
    <2>4. (Distinct /\ ListIsMerged /\ SortIndices)'
        BY <2>0, <1>0, <1>t, <1>a DEF Distinct, ListIsMerged, SortIndices
    <2>5. ASSUME ~err'
          PROVE  \A p, q \in 1..Len(MatchList') :
                    (p < q /\ q <= i' + 1 /\ p # j' + 1 /\ q # j' + 1)
                       => Before(MatchList'[p], MatchList'[q])
        <3>1. SortedExcept(i + 1, j + 1) /\ InsertedFirst
            BY <2>5, <1>e, <1>0, <1>a DEF SortInv
        <3>2. Before(b, a)
            <4>1. ~Before(a, b)
                BY <2>5, <1>e, <1>k, <1>B, LessIsBefore
            <4>2. LevelIndex(a[3]) # -1 /\ LevelIndex(b[3]) # -1
                BY <2>5, <1>e DEF LessErr
            <4>. QED  BY <4>1, <4>2, <1>k, BeforeTotal
        <3> SUFFICES ASSUME NEW p \in 1..n, NEW q \in 1..n, p < q, q <= i + 1
                     PROVE  Before(MatchList[p], MatchList[q])
            BY <2>0, <1>t
        <3>4. CASE q = j + 1 /\ p = j
            BY <3>4, <3>2
        <3>5. CASE q = j + 1 /\ p < j
            <4>1. Before(MatchList[p], b)
                BY <3>5, <3>1, <1>j, <1>t DEF SortedExcept
            <4>. QED  BY <4>1, <3>2, <3>5, <1>m, <1>k, BeforeTransitive
        <3>6. CASE p = j + 1
            BY <3>6, <3>1 DEF InsertedFirst
        <3>7. CASE p # j + 1 /\ q # j + 1
            BY <3>7, <3>1 DEF SortedExcept
        <3>. QED  BY <3>4, <3>5, <3>6, <3>7, <1>j, <1>t
    <2>6. SortInv'
        <3>1. \A q \in 1..Len(MatchList') :
                 ~(j' + 1 < q /\ q <= i' + 1)
            BY <2>0, <1>t
        <3>. QED  BY <2>5, <3>1 DEF SortInv, SortedExcept, InsertedFirst
    <2>. QED  BY <2>3, <2>4, <2>6, <1>r DEF IInv
<1>. QED  BY <1>A, <1>B

\* The inner loop reached the start of the list: positions 1 .. i+1 are
\* in order, and the next element is taken.
LEMMA NextIStep == IInv /\ NextI => IInv'
<1> SUFFICES ASSUME IInv, NextI PROVE IInv'
    OBVIOUS
<1>a. /\ TypeOK /\ IsFiniteSet(DOMAIN assembled) /\ ScoutedFlagsAgree /\ Distinct
      /\ ListIsMerged /\ SortIndices /\ SortInv
    BY DEF IInv
<1>0. /\ phase = "sort" /\ i < Len(MatchList) /\ j = 0 /\ i' = i + 1 /\ j' = i + 1
      /\ UNCHANGED <<phase, rows, assembled, MatchList, err>>
    BY DEF NextI
<1>t. MatchList \in Seq(Keys) /\ i \in Nat /\ j \in Nat
    BY <1>a DEF TypeOK
<1>1. TypeOK'
    BY <1>0, <1>a, <1>t DEF TypeOK
<1>2. (Distinct /\ ListIsMerged /\ SortIndices)'
    BY <1>0, <1>a, <1>t DEF Distinct, ListIsMerged, SortIndices
<1>3. SortInv'
    <2> SUFFICES ASSUME ~err
                 PROVE  \A p, q \in 1..Len(MatchList) :
                           (p < q /\ q <= i + 1) => Before(MatchList[p], MatchList[q])
        BY <1>0, <1>t DEF SortInv, SortedExcept, InsertedFirst
    <2>1. SortedExcept(i + 1, 1) /\ InsertedFirst
        BY <1>0, <1>a DEF SortInv
    <2> SUFFICES ASSUME NEW p \in 1..Len(MatchList), NEW q \in 1..Len(MatchList),
                        p < q, q <= i + 1
                 PROVE  Before(MatchList[p], MatchList[q])
        OBVIOUS
    <2>2. CASE p = 1
        BY <2>2, <2>1, <1>0 DEF InsertedFirst
    <2>3. CASE p # 1
        BY <2>3, <2>1 DEF SortedExcept
    <2>. QED  BY <2>2, <2>3
<1>4. (AssembleInv /\ DoneInv /\ ScoutedFlagsAgree /\ IsFiniteSet(DOMAIN assembled))'
    BY <1>0, <1>a DEF AssembleInv, DoneInv, ScoutedFlagsAgree
<1>. QED  BY <1>1, <1>2, <1>3, <1>4 DEF IInv

\* sort.Slice returns: without an error the whole list is in order.
LEMMA SortDoneStep == IInv /\ SortDone => IInv'
<1> SUFFICES ASSUME IInv, SortDone PROVE IInv'
    OBVIOUS
<1>a. /\ TypeOK /\ IsFiniteSet(DOMAIN assembled) /\ ScoutedFlagsAgree /\ Distinct
      /\ ListIsMerged /\ SortIndices /\ SortInv
    BY DEF IInv
<1>0. /\ phase = "sort" /\ i >= Len(MatchList)
      /\ phase' = IF err THEN "failed" ELSE "done"
      /\ UNCHANGED <<rows, assembled, MatchList, i, j, err>>
    BY DEF SortDone
<1>t. MatchList \in Seq(Keys) /\ i \in Nat /\ j \in Nat /\ err \in BOOLEAN
    BY <1>a DEF TypeOK
<1>1. TypeOK'
    BY <1>0, <1>a DEF TypeOK
<1>2. (AssembleInv /\ SortIndices /\ SortInv /\ ScoutedFlagsAgree /\ IsFiniteSet(DOMAIN assembled))'
    BY <1>0, <1>a DEF AssembleInv, SortIndices, SortInv, ScoutedFlagsAgree
<1>3. (Distinct /\ ListIsMerged)'
    BY <1>0, <1>a DEF Distinct, ListIsMerged
<1>4. DoneInv'
    <2> SUFFICES ASSUME ~err
                 PROVE  SortedExcept(Len(MatchList), 0)
        BY <1>0, <1>t DEF DoneInv, SortedExcept
    <2>1. j = i
        BY <1>0, <1>a, <1>t DEF SortIndices
    <2>2. SortedExcept(i + 1, j + 1)
        BY <1>0, <1>a DEF SortInv
    <2>. QED  BY <2>1, <2>2, <1>0, <1>t DEF SortedExcept
<1>. QED  BY <1>1, <1>2, <1>3, <1>4 DEF IInv

\* The comparator sets err only on a key of an unknown level, and every
\* key it is called on is a merged one.
ErrWitness == err => \E k \in DOMAIN assembled : UnknownLevel(k)

RInv == IInv /\ ErrWitness

-----------------------------------------------------------------------------
(***************************************************************************)
(* The theorems.                                                           *)
(***************************************************************************)
LEMMA IInvStep == IInv /\ [Next]_vars => IInv'
<1> SUFFICES ASSUME IInv, [Next]_vars PROVE IInv'
    OBVIOUS
<1>1. ASSUME NEW key \in Keys, NEW al \in Alliances, NEW p \in Positions,
             NEW t \in TeamNumbers, AssembleRow(key, al, p, t)
      PROVE  IInv'
    BY <1>1, AssembleStep
<1>2. CASE UNCHANGED vars
    BY <1>2 DEF vars, IInv, TypeOK, AssembleInv, ScoutedFlagsAgree, Distinct, ListIsMerged,
                SortIndices, SortInv, SortedExcept, InsertedFirst, DoneInv
<1>. QED  BY <1>1, <1>2, CollectStep, CompareStep, NextIStep, SortDoneStep DEF Next

\* Every reachable state of the handler satisfies IInv.
THEOREM InvariantHolds == Spec => []IInv
BY InitIInv, IInvStep, PTL DEF Spec

\* The merged matches, the list and the sort's indices keep their types.
THEOREM TypeCorrect == Spec => []TypeOK
<1>1. IInv => TypeOK
    BY DEF IInv
<1>. QED  BY <1>1, InvariantHolds, PTL

\* A team in a merged match carries its own scouted flag in that match,
\* whatever order the rows come in and however often a slot is refilled.
THEOREM ScoutedFlagsHold == Spec => []ScoutedFlagsAgree
<1>1. IInv => ScoutedFlagsAgree
    BY DEF IInv
<1>. QED  BY <1>1, InvariantHolds, PTL

\* A success response lists every merged match once, in MATCH_TYPE_ORDERING
\* level, match number, set number order, whatever order the map's iteration
\* produced: the insertion sort of sort.Slice with the handler's comparator
\* sorts, for any keys and any number of matches.
THEOREM SortedResponseHolds == Spec => []SortedResponse
<1>1. IInv => SortedResponse
    <2> SUFFICES ASSUME IInv, phase = "done"
                 PROVE  /\ {MatchList[k] : k \in DOMAIN MatchList} = DOMAIN assembled
                        /\ \A k \in 1..Len(MatchList) - 1 : Before(MatchList[k], MatchList[k + 1])
        BY DEF SortedResponse
    <2>1. {MatchList[k] : k \in DOMAIN MatchList} = DOMAIN assembled
        BY DEF IInv, ListIsMerged, Range
    <2>2. MatchList \in Seq(Keys)
        BY DEF IInv, TypeOK
    <2>3. SortedExcept(Len(MatchList), 0)
        BY DEF IInv, DoneInv
    <2>. QED  BY <2>1, <2>2, <2>3 DEF SortedExcept
<1>. QED  BY <1>1, InvariantHolds, PTL

-----------------------------------------------------------------------------
(***************************************************************************)
(* Refinement of MatchResponse.  RInv adds ErrWitness to IInv: err is set  *)
(* only by a comparator call, on two keys of the list, which are merged    *)
(* keys (ListIsMerged), and only when one of them has an unknown level.    *)
(***************************************************************************)

LEMMA ErrStep == IInv /\ ErrWitness /\ [Next]_vars => ErrWitness'
<1> SUFFICES ASSUME IInv, ErrWitness, [Next]_vars PROVE ErrWitness'
    OBVIOUS
<1>a. /\ TypeOK /\ AssembleInv /\ ListIsMerged /\ SortIndices
    BY DEF IInv
<1>1. CASE UNCHANGED <<err, assembled>>
    BY <1>1 DEF ErrWitness
<1>2. CASE phase = "assemble" /\ UNCHANGED err
    <2>1. ~err'
        BY <1>2, <1>a DEF AssembleInv
    <2>. QED  BY <2>1 DEF ErrWitness
<1>3. CASE Compare
    <2> DEFINE a == MatchList[j + 1]
               b == MatchList[j]
    <2>0. /\ phase = "sort" /\ i < Len(MatchList) /\ j > 0
          /\ err' = LessErr(a, b) /\ assembled' = assembled
        BY <1>3 DEF Compare
    <2>1. MatchList \in Seq(Keys) /\ i \in Nat /\ j \in Nat
        BY <1>a DEF TypeOK
    <2>2. j + 1 \in 1..Len(MatchList) /\ j \in 1..Len(MatchList)
        BY <2>0, <2>1, <1>a DEF SortIndices
    <2>3. a \in DOMAIN assembled /\ b \in DOMAIN assembled
        BY <2>0, <2>1, <2>2, <1>a DEF ListIsMerged, Range
    <2>. QED  BY <2>0, <2>3 DEF LessErr, ErrWitness, UnknownLevel
<1>. QED
    <2>1. \/ UNCHANGED <<err, assembled>>
          \/ phase = "assemble" /\ UNCHANGED err
          \/ Compare
        BY DEF Next, vars, AssembleRow, Collect, NextI, SortDone
    <2>. QED  BY <2>1, <1>1, <1>2, <1>3

\* Every reachable state satisfies RInv.
LEMMA RInvHolds == Spec => []RInv
<1>1. Init => ErrWitness
    BY DEF Init, ErrWitness
<1>2. RInv /\ [Next]_vars => RInv'
    BY IInvStep, ErrStep DEF RInv
<1>. QED  BY <1>1, <1>2, InitIInv, PTL DEF Spec, RInv

LEMMA InitRefines == Init => Abstract!Init
BY DEF Init, Abstract!Init, Response

\* A success answer is the ordered enumeration MatchResponse describes.
LEMMA RespondStep == RInv /\ SortDone /\ ~err => Abstract!Respond
<1> SUFFICES ASSUME RInv, SortDone, ~err PROVE Abstract!Respond
    OBVIOUS
<1>0. phase = "sort" /\ phase' = "done" /\ UNCHANGED <<assembled, MatchList>>
    BY DEF SortDone
<1>1. IInv'
    BY SortDoneStep DEF RInv
<1>2. /\ MatchList' \in Seq(Keys)
      /\ Range(MatchList') = DOMAIN assembled'
      /\ Distinct'
      /\ SortedExcept(Len(MatchList), 0)'
    BY <1>0, <1>1 DEF IInv, TypeOK, ListIsMerged, DoneInv
<1>3. Response' = MatchList'
    BY <1>0 DEF Response
<1>4. \A p, q \in DOMAIN MatchList' : p < q => Before(MatchList'[p], MatchList'[q]) /\ MatchList'[p] # MatchList'[q]
    BY <1>2 DEF Distinct, SortedExcept
<1>. QED  BY <1>0, <1>2, <1>3, <1>4 DEF Abstract!Respond, Abstract!OrderedListOf, Range, Response

\* Every step of the handler is a step of MatchResponse or leaves its
\* variables alone.
LEMMA StepRefines == RInv /\ [Next]_vars => [Abstract!Next]_Abstract!vars
<1> SUFFICES ASSUME RInv, [Next]_vars PROVE [Abstract!Next]_Abstract!vars
    OBVIOUS
<1>a. /\ TypeOK /\ AssembleInv /\ ErrWitness
    BY DEF RInv, IInv
<1>1. ASSUME NEW key \in Keys, NEW al \in Alliances, NEW p \in Positions,
             NEW t \in TeamNumbers, AssembleRow(key, al, p, t)
      PROVE  [Abstract!Next]_Abstract!vars
    <2>1. CASE phase' = "failed" /\ UNCHANGED assembled
        <3>1. Abstract!MergeFail
            BY <1>1, <2>1 DEF AssembleRow, Abstract!MergeFail, Response
        <3>. QED  BY <3>1 DEF Abstract!Next
    <2>3. CASE UNCHANGED phase /\ DOMAIN assembled' = DOMAIN assembled \cup {key}
        <3>1. Abstract!Merge(key)
            BY <1>1, <2>3 DEF AssembleRow, Abstract!Merge, Response
        <3>. QED  BY <3>1 DEF Abstract!Next
    <2>. QED  BY <1>1, <2>1, <2>3 DEF AssembleRow
<1>2. CASE Collect
    <2>1. Abstract!StartSort
        BY <1>2 DEF Collect, Abstract!StartSort, Response
    <2>. QED  BY <2>1 DEF Abstract!Next
<1>3. CASE Compare \/ NextI
    BY <1>3 DEF Compare, NextI, Abstract!vars, Response
<1>4. CASE SortDone /\ err
    <2>1. Abstract!Reject
        BY <1>4, <1>a DEF SortDone, ErrWitness, Abstract!Reject, Response
    <2>. QED  BY <2>1 DEF Abstract!Next
<1>5. CASE SortDone /\ ~err
    BY <1>5, RespondStep DEF Abstract!Next
<1>6. CASE UNCHANGED vars
    BY <1>6 DEF vars, Abstract!vars, Response
<1>. QED  BY <1>1, <1>2, <1>3, <1>4, <1>5, <1>6 DEF Next

\* requestAllMatchesHandler implements MatchResponse: for any keys, teams,
\* rows and scouted relation, a success answer lists the merged matches
\* once each in Before order, and the comparator's error is returned only
\* when a merged match's level is not in MATCH_TYPE_ORDERING.
THEOREM Refinement == Spec => ImplementsMatchResponse
BY RInvHolds, InitRefines, StepRefines, PTL DEF Spec, ImplementsMatchResponse, Abstract!Spec

=============================================================================
