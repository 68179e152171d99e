--------------------------- MODULE AttributionProofs ---------------------------
(* What both adversaries promise, for ledgers, fleets and numbers of folds *)
(* of any size and whatever the fitted models answer: no score has seen    *)
(* its own answer and every pair gets one, groups in time are components,  *)
(* clusters are what the evidence generates, the metric and the AUC count  *)
(* pairs, and what links two accounts shows in their features.             *)
EXTENDS Attribution, SeqFacts, TLAPS

(* A pair carries the folds of its operators, and only the cell of just    *)
(* these folds has scored it.  Nothing is scored before the pairs are      *)
(* formed, and the ledger is final by then.                                *)
FoldsShown == \A p \in Scorable : pairs[p].folds = {FoldOf(op) : op \in OwnersOf(p)}
JudgedInItsFolds ==
  \A p \in Scorable : \A c \in judges[p] : pairs[p].folds = {c[1], c[2]}
NoPairsYet == phase = "observe" => Scorable = {}
FoldInv == FoldsShown /\ JudgedInItsFolds /\ NoPairsYet

(* The loop's couple of folds is ordered, so that one set of folds belongs *)
(* to one cell.                                                            *)
Ordered(c) == c \in Nat \X Nat /\ c[1] <= c[2]
CellInv ==
  /\ Ordered(cell)
  /\ \A p \in Scorable : \A c \in judges[p] : Ordered(c)

(* What the owners and the folds are is determined by the ledger.          *)
LEMMA FinalLedger ==
  ASSUME ledger' = ledger
  PROVE  /\ \A op : FoldOf(op)' = FoldOf(op)
         /\ \A p : OwnersOf(p)' = OwnersOf(p)
  BY DEF FoldOf, FoldCount, OwningOperators, OwnersOf

(* Nothing that leaves the pairs and their judges alone disturbs it.       *)
LEMMA OnlyPairsMatter ==
  ASSUME FoldInv, UNCHANGED <<pairs, judges>>, phase' # "observe",
         ledger' = ledger
  PROVE  FoldInv'
  <1>1. FoldsShown'
    BY FinalLedger DEF FoldInv, FoldsShown, Scorable
  <1>2. JudgedInItsFolds' /\ NoPairsYet'
    BY DEF FoldInv, JudgedInItsFolds, NoPairsYet, Scorable
  <1>3. QED
    BY <1>1, <1>2 DEF FoldInv

LEMMA InitFolds ==
  ASSUME Init
  PROVE  FoldInv
  BY DEF Init, FoldInv, FoldsShown, JudgedInItsFolds, NoPairsYet, Scorable

LEMMA NextFolds ==
  ASSUME FoldInv, [Next]_vars
  PROVE  FoldInv'
  <1>1. CASE \E r \in Transfers, gap \in Gaps : Observe(r, gap) /\ phase = "observe" /\ UNCHANGED learning
    <2>1. Scorable' = {} /\ phase' = "observe" /\ Scorable = {}
      BY <1>1 DEF FoldInv, NoPairsYet, Scorable, learning
    <2>2. QED
      BY <2>1 DEF FoldInv, FoldsShown, JudgedInItsFolds, NoPairsYet
  <1>2. CASE Cluster /\ phase' = "cluster" /\ UNCHANGED <<pairs, cell, proba, judges>>
    <2>1. ledger' = ledger
      BY <1>2 DEF Cluster, StartClustering, NextHeuristic, UnionLink
    <2>2. QED
      BY <1>2, <2>1, OnlyPairsMatter
  <1>3. CASE Prepare
    <2>1. ledger' = ledger /\ phase' # "observe"
      BY <1>3 DEF Prepare
    <2>2. /\ pairs' = [p \in OwnedPairs |-> PairRecord(p)]
          /\ judges' = [p \in OwnedPairs |-> {}]
      BY <1>3 DEF Prepare
    <2>3. FoldsShown'
      BY <2>1, <2>2, FinalLedger DEF FoldsShown, Scorable, PairRecord
    <2>4. JudgedInItsFolds' /\ NoPairsYet'
      BY <2>1, <2>2 DEF JudgedInItsFolds, NoPairsYet, Scorable
    <2>5. QED
      BY <2>3, <2>4 DEF FoldInv
  <1>4. CASE Validate
    <2>1. UNCHANGED <<ledger, pairs>> /\ phase' # "observe"
      BY <1>4 DEF Validate, NextCell
    <2>2. judges' = [p \in Scorable |-> IF p \in Holdout(cell) THEN judges[p] \cup {cell}
                                                               ELSE judges[p]]
      BY <1>4 DEF Validate
    <2>3. FoldsShown'
      BY <2>1, FinalLedger DEF FoldInv, FoldsShown, Scorable
    <2>4. JudgedInItsFolds'
      BY <2>1, <2>2 DEF FoldInv, JudgedInItsFolds, Holdout, Scorable
    <2>5. QED
      BY <2>1, <2>3, <2>4 DEF FoldInv, NoPairsYet
  <1>5. CASE SkipCell
    <2>1. UNCHANGED <<ledger, pairs, judges>> /\ phase' # "observe"
      BY <1>5 DEF SkipCell, NextCell
    <2>2. QED
      BY <2>1, OnlyPairsMatter
  <1>6. CASE Unite
    BY <1>6, OnlyPairsMatter DEF Unite
  <1>7. CASE UNCHANGED vars
    <2>1. UNCHANGED <<ledger, pairs, judges, phase>>
      BY <1>7 DEF vars, learning
    <2>2. CASE phase = "observe"
      BY <2>1, <2>2 DEF FoldInv, FoldsShown, JudgedInItsFolds, NoPairsYet, Scorable
    <2>3. QED
      BY <2>1, <2>2, OnlyPairsMatter
  <1>8. QED
    BY <1>1, <1>2, <1>3, <1>4, <1>5, <1>6, <1>7 DEF Next

(* Two pairs that share an operator share its fold.                        *)
LEMMA FoldsKeepApart ==
  ASSUME FoldInv
  PROVE  BlindToOperators
  <1>1. SUFFICES ASSUME NEW p \in Scorable, NEW c \in judges[p], NEW q \in Train(c),
                        NEW op \in OwnersOf(p) \cap OwnersOf(q)
                 PROVE  FALSE
    BY DEF BlindToOperators
  <1>2. q \in Scorable /\ pairs[q].folds \cap {c[1], c[2]} = {}
    BY DEF Train
  <1>3. pairs[p].folds = {c[1], c[2]}
    BY DEF FoldInv, JudgedInItsFolds
  <1>4. FoldOf(op) \in pairs[p].folds /\ FoldOf(op) \in pairs[q].folds
    BY <1>2 DEF FoldInv, FoldsShown
  <1>5. QED
    BY <1>2, <1>3, <1>4

(* ml_attribution's claim "each pair is scored by a model that trained on  *)
(* NEITHER of its operators" (the module documentation of ml.rs).          *)
THEOREM NoLeakage == Spec => []BlindToOperators
  <1>1. Init => FoldInv
    BY InitFolds
  <1>2. FoldInv /\ [Next]_vars => FoldInv'
    BY NextFolds
  <1>3. FoldInv => BlindToOperators
    BY FoldsKeepApart
  <1>4. QED
    BY <1>1, <1>2, <1>3, PTL DEF Spec

-----------------------------------------------------------------------------
LEMMA InitCells ==
  ASSUME Init
  PROVE  CellInv
  BY DEF Init, CellInv, Ordered, Scorable

LEMMA OrderedNext ==
  ASSUME Ordered(cell), NextCell
  PROVE  Ordered(cell')
  <1>1. cell' = <<cell[1], cell[2] + 1>> \/ cell' = <<cell[1] + 1, cell[1] + 1>>
    BY DEF NextCell
  <1>2. QED
    BY <1>1 DEF Ordered

LEMMA NextCells ==
  ASSUME CellInv, [Next]_vars
  PROVE  CellInv'
  <1>1. CASE UNCHANGED <<pairs, cell, judges>>
    BY <1>1 DEF CellInv, Scorable, Ordered
  <1>2. CASE Prepare
    BY <1>2 DEF Prepare, CellInv, Scorable, Ordered
  <1>3. CASE Validate
    <2>1. pairs' = pairs /\ Ordered(cell')
      BY <1>3, OrderedNext DEF Validate, CellInv
    <2>2. judges' = [p \in Scorable |-> IF p \in Holdout(cell) THEN judges[p] \cup {cell}
                                                               ELSE judges[p]]
      BY <1>3 DEF Validate
    <2>3. QED
      BY <2>1, <2>2 DEF CellInv, Scorable, Ordered
  <1>4. CASE SkipCell
    <2>1. UNCHANGED <<pairs, judges>> /\ Ordered(cell')
      BY <1>4, OrderedNext DEF SkipCell, CellInv
    <2>2. QED
      BY <2>1 DEF CellInv, Scorable, Ordered
  <1>5. CASE Unite
    BY <1>1, <1>5 DEF Unite
  <1>6. QED
    BY <1>1, <1>2, <1>3, <1>4, <1>5 DEF Next, vars, learning

LEMMA OneJudge ==
  ASSUME FoldInv, CellInv
  PROVE  JudgedByOne
  <1>1. SUFFICES ASSUME NEW p \in Scorable, NEW c \in judges[p], NEW d \in judges[p]
                 PROVE  c = d
    BY DEF JudgedByOne
  <1>2. {c[1], c[2]} = {d[1], d[2]}
    BY DEF FoldInv, JudgedInItsFolds
  <1>3. Ordered(c) /\ Ordered(d)
    BY DEF CellInv
  <1>4. c = <<c[1], c[2]>> /\ d = <<d[1], d[2]>>
    BY <1>3 DEF Ordered
  <1>5. c[1] = d[1] /\ c[2] = d[2]
    BY <1>2, <1>3 DEF Ordered
  <1> QED
    BY <1>4, <1>5

(* No pair is scored by two models: an ordered couple of folds is          *)
(* determined by the set of its folds, so the cells of the upper triangle  *)
(* part the pairs among them (the loop over fi and fj in ml_attribution).  *)
THEOREM ScoredByOneModel == Spec => []JudgedByOne
  <1>1. Init => FoldInv /\ CellInv
    BY InitFolds, InitCells
  <1>2. FoldInv /\ CellInv /\ [Next]_vars => FoldInv' /\ CellInv'
    BY NextFolds, NextCells
  <1>3. FoldInv /\ CellInv => JudgedByOne
    BY OneJudge
  <1>4. QED
    BY <1>1, <1>2, <1>3, PTL DEF Spec

-----------------------------------------------------------------------------
(* What may be observed: numbered records over the accounts.               *)
LedgerInv == ledger \in Seq(Record) /\ IsNumbered(ledger)

LEMMA ObserveKeeps ==
  ASSUME LedgerInv, NEW r \in Transfers, NEW gap \in Gaps, Observe(r, gap)
  PROVE  LedgerInv'
  <1> DEFINE n == Len(ledger)
             q == [sig |-> n + 1, slot |-> n + 1,
                   ts |-> IF ledger = << >> THEN 0 ELSE Last(ledger).ts + gap,
                   src |-> r.src, dst |-> r.dst, fee |-> r.fee, amt |-> r.amt, op |-> r.op]
  <1>1. ledger' = Append(ledger, q)
    BY DEF Observe
  <1>2. n \in Nat /\ DOMAIN ledger = 1..n /\ \A i \in 1..n : ledger[i] \in Record
    BY DEF LedgerInv
  <1>3. gap \in Int
    BY LedgersAssumption
  <1>4. q.ts \in Int
    <2>1. CASE ledger = << >>
      BY <2>1
    <2>2. CASE ledger # << >>
      <3>1. n \in 1..n
        BY <1>2, <2>2 DEF LedgerInv
      <3>2. Last(ledger).ts \in Int
        BY <1>2, <3>1 DEF Last, Record
      <3> QED
        BY <2>2, <3>2, <1>3
    <2> QED
      BY <2>1, <2>2
  <1>5. q \in Record
    BY <1>2, <1>4, TransfersAssumption DEF Record
  <1>6. q.sig = n + 1 /\ q.slot = n + 1
    OBVIOUS
  <1> HIDE DEF q
  <1>7. ledger' \in Seq(Record) /\ Len(ledger') = n + 1
        /\ \A i \in 1..(n + 1) : ledger'[i] = IF i = n + 1 THEN q ELSE ledger[i]
    BY <1>1, <1>2, <1>5 DEF LedgerInv
  <1>8. \A i \in 1..(n + 1) : ledger'[i].sig = i /\ ledger'[i].slot = i
    BY <1>2, <1>6, <1>7 DEF LedgerInv, IsNumbered
  <1> QED
    BY <1>2, <1>7, <1>8 DEF LedgerInv, IsNumbered

LEMMA NextLedger ==
  ASSUME [Next]_vars
  PROVE  ledger' = ledger \/ (phase = "observe" /\ UNCHANGED <<clustering, class, learning>>
                              /\ \E r \in Transfers, gap \in Gaps : Observe(r, gap))
  BY DEF Next, vars, Cluster, StartClustering, NextHeuristic, UnionLink, Prepare, Validate,
         SkipCell, Unite, Observe

LEMMA LedgerKept ==
  /\ Init => LedgerInv
  /\ LedgerInv /\ [Next]_vars => LedgerInv'
  <1>1. Init => LedgerInv
    BY LedgersAssumption DEF Init, AnalysisInit, LedgerInv
  <1>2. LedgerInv /\ ledger' = ledger => LedgerInv'
    BY DEF LedgerInv, IsNumbered
  <1> QED
    BY <1>1, <1>2, NextLedger, ObserveKeeps

(* Owners are finitely many, and each has a label.                         *)
LEMMA OwnedFacts ==
  ASSUME LedgerInv
  PROVE  /\ IsFiniteSet(Owned(ledger)) /\ Owned(ledger) \subseteq Account
         /\ IsFiniteSet(OwningOperators) /\ OwningOperators \subseteq Nat
  <1> DEFINE D == {i \in 1..Len(ledger) : ledger[i].op # NoOperator}
             f == [i \in D |-> ledger[i].src]
             S == Owned(ledger)
             g == [a \in S |-> OwnerOf(ledger, a)]
  <1>1. Len(ledger) \in Nat /\ DOMAIN ledger = 1..Len(ledger)
        /\ \A i \in 1..Len(ledger) : ledger[i] \in Record
    BY DEF LedgerInv
  <1>2. Records(ledger) = {ledger[i] : i \in 1..Len(ledger)}
    BY <1>1 DEF Records, Range
  <1>3. S = {ledger[i].src : i \in D}
    BY <1>2 DEF Owned
  <1>4. IsFiniteSet(D)
    <2>1. IsFiniteSet(1..Len(ledger))
      BY <1>1, FS_Interval
    <2>2. D \subseteq 1..Len(ledger)
      OBVIOUS
    <2> QED
      BY <2>1, <2>2, FS_Subset
  <1>5. f \in Surjection(D, S)
    BY <1>3 DEF Surjection
  <1>6. IsFiniteSet(S)
    BY <1>4, <1>5, FS_Surjection
  <1>7. S \subseteq Account
    BY <1>1, <1>3 DEF Record
  <1>8. OwningOperators = {g[a] : a \in S}
    BY DEF OwningOperators
  <1>9. g \in Surjection(S, OwningOperators)
    BY <1>8 DEF Surjection
  <1>10. IsFiniteSet(OwningOperators)
    BY <1>6, <1>9, FS_Surjection
  <1>11. ASSUME NEW a \in S PROVE OwnerOf(ledger, a) \in Nat
    <2>1. \E r \in Records(ledger) : r.src = a /\ r.op # NoOperator
      BY <1>2, <1>3
    <2>2. \A r \in Records(ledger) : r.op \in Nat
      BY <1>1, <1>2 DEF Record
    <2> QED
      BY <2>1, <2>2 DEF OwnerOf
  <1>12. OwningOperators \subseteq Nat
    BY <1>11 DEF OwningOperators
  <1> QED
    BY <1>6, <1>7, <1>10, <1>12

LEMMA FoldCountFacts ==
  ASSUME LedgerInv
  PROVE  /\ FoldCount \in Nat \ {0}
         /\ FoldCount >= 2 => FoldCount <= Cardinality(OwningOperators)
  <1> DEFINE n == Cardinality(OwningOperators)
  <1>1. n \in Nat /\ Folds \in Nat
    BY OwnedFacts, FS_CardinalityType, ConfigAssumption
  <1>2. ASSUME NEW x \in Nat, NEW y \in Nat
        PROVE  /\ Min({x, y}) \in Nat /\ Min({x, y}) <= x /\ Min({x, y}) <= y
               /\ Max({x, y}) \in {x, y} /\ Max({x, y}) >= x /\ Max({x, y}) >= y
    <2>1. \E z \in {x, y} : \A w \in {x, y} : z <= w
      OBVIOUS
    <2>2. \E z \in {x, y} : \A w \in {x, y} : z >= w
      OBVIOUS
    <2>3. Min({x, y}) \in {x, y} /\ \A w \in {x, y} : Min({x, y}) <= w
      BY <2>1 DEF Min
    <2>4. Max({x, y}) \in {x, y} /\ \A w \in {x, y} : Max({x, y}) >= w
      BY <2>2 DEF Max
    <2> QED
      BY <2>3, <2>4
  <1> DEFINE m == Min({Folds, n})
  <1>3. m \in Nat /\ m <= n
    BY <1>1, <1>2
  <1>4. FoldCount \in {m, 1} /\ FoldCount >= 1
    <2> HIDE DEF n, m
    <2>1. Max({m, 1}) \in {m, 1} /\ Max({m, 1}) >= 1
      BY <1>2, <1>3
    <2> QED
      BY <2>1 DEF FoldCount, m, n
  <1> HIDE DEF n, m
  <1> QED
    BY <1>1, <1>3, <1>4 DEF n

(* Every fold is dealt an operator.                                        *)
LEMMA FoldHit ==
  ASSUME LedgerInv, FoldCount >= 2
  PROVE  /\ \A op \in OwningOperators : FoldOf(op) \in 0..(FoldCount - 1)
         /\ \A k \in 0..(FoldCount - 1) : \E op \in OwningOperators : FoldOf(op) = k
  <1> DEFINE R == {x \in Nat \X Nat : x[1] < x[2]}
             S == OwningOperators
  <1>1. IsFiniteSet(S) /\ S \subseteq Nat /\ Cardinality(S) \in Nat
    BY OwnedFacts, FS_CardinalityType
  <1>2. Orders(R, S)
    <2>1. \A x, y \in S : <<x, y>> \in R <=> x < y
      BY <1>1
    <2>2. \A x, y \in S : x \in Nat /\ y \in Nat
      BY <1>1
    <2> HIDE DEF R, S
    <2> QED
      BY <2>1, <2>2 DEF Orders
  <1>3. ASSUME NEW op \in S
        PROVE  FoldOf(op) = Rank(R, S, op) % FoldCount /\ Rank(R, S, op) \in 0..(Cardinality(S) - 1)
    <2>1. {o \in S : o < op} = {o \in S : <<o, op>> \in R}
      BY <1>1
    <2>2. Rank(R, S, op) \in 0..(Cardinality(S) - 1)
      BY <1>1, <1>2, RankBounds
    <2> QED
      BY <2>1, <2>2 DEF FoldOf, Rank
  <1>4. FoldCount \in Nat \ {0} /\ FoldCount <= Cardinality(S)
    BY FoldCountFacts
  <1>5. \A j \in 0..(Cardinality(S) - 1) : \E x \in S : Rank(R, S, x) = j
    <2>1. IsFiniteSet(S)
      BY <1>1
    <2> HIDE DEF R, S
    <2> QED
      BY ONLY <2>1, <1>2, RankHit
  <1>6. ASSUME NEW k \in 0..(FoldCount - 1)
        PROVE  \E op \in S : FoldOf(op) = k
    <2>1. k \in 0..(Cardinality(S) - 1)
      BY <1>1, <1>4
    <2>2. PICK op \in S : Rank(R, S, op) = k
      BY <2>1, <1>5
    <2>3. k % FoldCount = k
      BY <1>4
    <2> QED
      BY <1>3, <2>2, <2>3
  <1>7. \A op \in S : FoldOf(op) \in 0..(FoldCount - 1)
    <2> HIDE DEF R, S
    <2> QED
      BY <1>3, <1>4, <1>1
  <1> QED
    BY <1>6, <1>7

(* With four folds, two are left to learn from whatever two are held out:  *)
(* an account of each makes a pair.                                        *)
LEMMA SomethingToLearn ==
  ASSUME LedgerInv, FoldInv, FoldCount >= 4, Scorable = OwnedPairs, NEW c
  PROVE  Train(c) # {}
  <1>1. FoldCount \in Nat /\ FoldCount >= 2
    BY FoldCountFacts
  <1>2. PICK k \in 0..3, m \in 0..3 : k # m /\ k \notin {c[1], c[2]} /\ m \notin {c[1], c[2]}
    <2>1. 0 \in 0..3 /\ 1 \in 0..3 /\ 2 \in 0..3 /\ 3 \in 0..3
      OBVIOUS
    <2>2. 0 # 1 /\ 0 # 2 /\ 0 # 3 /\ 1 # 2 /\ 1 # 3 /\ 2 # 3
      OBVIOUS
    <2> QED
      BY <2>1, <2>2
  <1>3. k \in 0..(FoldCount - 1) /\ m \in 0..(FoldCount - 1)
    BY <1>1
  <1>4. PICK o \in OwningOperators : FoldOf(o) = k
    BY <1>1, <1>3, FoldHit
  <1>5. PICK q \in OwningOperators : FoldOf(q) = m
    BY <1>1, <1>3, FoldHit
  <1>6. PICK a \in Owned(ledger) : OwnerOf(ledger, a) = o
    BY DEF OwningOperators
  <1>7. PICK b \in Owned(ledger) : OwnerOf(ledger, b) = q
    BY DEF OwningOperators
  <1>8. a # b
    BY <1>2, <1>4, <1>5, <1>6, <1>7
  <1>9. {a, b} \in Scorable
    BY <1>8 DEF OwnedPairs
  <1>10. OwnersOf({a, b}) = {o, q}
    BY <1>6, <1>7 DEF OwnersOf
  <1>11. pairs[{a, b}].folds = {k, m}
    BY <1>4, <1>5, <1>9, <1>10 DEF FoldInv, FoldsShown
  <1> QED
    BY <1>2, <1>9, <1>11 DEF Train

(* The cells that were reached before c.                                   *)
Before(x, y, c) == x < c[1] \/ (x = c[1] /\ y < c[2])

(* While the cells are gone through, every pair that lies in an earlier    *)
(* one has its judge; afterwards every pair has.                           *)
Behind(p) ==
  \A x, y \in 0..(FoldCount - 1) :
    x <= y /\ pairs[p].folds = {x, y} /\ (phase = "validate" => Before(x, y, cell)) =>
      judges[p] # {}
CoverInv ==
  /\ phase \in {"observe", "cluster", "validate", "unite", "done"}
  /\ phase = "observe" => cell = <<0, 0>>
  /\ phase \in {"validate", "unite", "done"} => Scorable = OwnedPairs
  /\ phase = "validate" => Defined
  /\ phase \in {"validate", "unite", "done"} /\ Defined /\ FoldCount >= 4 =>
       \A p \in Scorable : Behind(p)

LEMMA FinalFleet ==
  ASSUME ledger' = ledger
  PROVE  /\ FoldCount' = FoldCount /\ OwnedPairs' = OwnedPairs
         /\ pairs' = pairs => Defined' = Defined
         /\ Defined' = Enough(pairs')
  BY DEF FoldCount, OwningOperators, OwnedPairs, Defined, Enough

(* The loops pass from one cell to the next, and on to the end.            *)
LEMMA NextIsNext ==
  ASSUME LedgerInv, ledger' = ledger, Ordered(cell), NextCell,
         NEW x \in 0..(FoldCount - 1), NEW y \in 0..(FoldCount - 1), x <= y,
         phase' = "validate" => Before(x, y, cell')
  PROVE  Before(x, y, cell) \/ cell = <<x, y>>
  <1>1. FoldCount \in Nat
    BY FoldCountFacts
  <1>2. PICK i \in Nat, j \in Nat : cell = <<i, j>> /\ i <= j
    BY DEF Ordered
  <1>3. x \in Nat /\ y \in Nat /\ x < FoldCount /\ y < FoldCount
    BY <1>1
  <1>4. CASE j + 1 < FoldCount
    <2>1. cell' = <<i, j + 1>> /\ phase' = "validate"
      BY <1>1, <1>2, <1>4 DEF NextCell
    <2> QED
      BY <1>2, <1>3, <2>1 DEF Before
  <1>5. CASE ~(j + 1 < FoldCount)
    <2>1. cell' = <<i + 1, i + 1>>
      BY <1>1, <1>2, <1>5 DEF NextCell
    <2>2. phase' = "validate" \/ i + 1 >= FoldCount
      BY <1>1, <1>2, <2>1 DEF NextCell
    <2> QED
      BY <1>1, <1>2, <1>3, <1>5, <2>1, <2>2 DEF Before
  <1> QED
    BY <1>4, <1>5

LEMMA InitCover == Init => CoverInv
  BY DEF Init, CoverInv

LEMMA NextCover ==
  ASSUME LedgerInv, FoldInv, CellInv, CoverInv, [Next]_vars
  PROVE  CoverInv'
  <1>1. CASE phase' = phase /\ phase \notin {"validate", "unite", "done"} /\ cell' = cell
    BY <1>1 DEF CoverInv
  <1>2. CASE UNCHANGED <<ledger, learning>>
    <2>1. UNCHANGED <<phase, pairs, cell, judges>> /\ ledger' = ledger
      BY <1>2 DEF learning
    <2>2. FoldCount' = FoldCount /\ OwnedPairs' = OwnedPairs /\ Defined' = Defined
      BY <2>1, FinalFleet
    <2> QED
      BY <2>1, <2>2 DEF CoverInv, Behind, Scorable
  <1>3. CASE Cluster /\ phase' = "cluster" /\ UNCHANGED <<pairs, cell, proba, judges>>
    BY <1>3 DEF CoverInv
  <1>4. CASE Prepare
    <2> DEFINE ps == [p \in OwnedPairs |-> PairRecord(p)]
    <2>1. /\ pairs' = ps /\ ledger' = ledger /\ cell' = cell /\ phase = "observe"
          /\ phase' = IF Enough(ps) THEN "validate" ELSE "unite"
      BY <1>4 DEF Prepare
    <2>2. Scorable' = OwnedPairs'
      BY <2>1, FinalFleet DEF Scorable
    <2>3. Defined' <=> Enough(ps)
      <3>1. Enough(pairs') <=> Enough(ps)
        BY <2>1
      <3> QED
        BY <2>1, <3>1, FinalFleet
    <2>4. cell' = <<0, 0>>
      BY <2>1 DEF CoverInv
    <2>5. FoldCount' \in Nat
      BY <2>1, FinalFleet, FoldCountFacts
    <2>6. ASSUME Defined', NEW p \in Scorable' PROVE Behind(p)'
      <3>1. phase' = "validate"
        BY <2>1, <2>3, <2>6
      <3>2. \A x, y \in 0..(FoldCount' - 1) : ~Before(x, y, <<0, 0>>)
        BY <2>5 DEF Before
      <3> QED
        BY <2>4, <3>1, <3>2 DEF Behind
    <2> QED
      BY <2>1, <2>2, <2>3, <2>6 DEF CoverInv
  <1>5. CASE Validate \/ SkipCell
    <2>1. UNCHANGED <<ledger, pairs>> /\ phase = "validate" /\ NextCell
      BY <1>5 DEF Validate, SkipCell
    <2>2. FoldCount' = FoldCount /\ OwnedPairs' = OwnedPairs /\ Defined' = Defined /\ Defined
      BY <2>1, FinalFleet DEF CoverInv
    <2>3. Scorable = OwnedPairs /\ Scorable' = Scorable
      BY <2>1 DEF CoverInv, Scorable
    <2>4. phase' \in {"validate", "unite"}
      BY <2>1 DEF NextCell
    <2>5. ASSUME FoldCount >= 4, NEW p \in Scorable,
                 NEW x \in 0..(FoldCount - 1), NEW y \in 0..(FoldCount - 1),
                 x <= y, pairs[p].folds = {x, y}, phase' = "validate" => Before(x, y, cell')
          PROVE  judges'[p] # {}
      <3>1. Before(x, y, cell) \/ cell = <<x, y>>
        BY <2>1, <2>5, NextIsNext DEF CellInv
      <3>2. CASE SkipCell
        <4>1. judges' = judges /\ (Holdout(cell) = {} \/ Train(cell) = {})
          BY <3>2 DEF SkipCell
        <4>2. cell = <<x, y>> => p \in Holdout(cell)
          BY <2>5 DEF Holdout
        <4>3. Train(cell) # {}
          BY <2>3, <2>5, SomethingToLearn
        <4>4. Before(x, y, cell)
          BY <3>1, <4>1, <4>2, <4>3
        <4> QED
          BY <2>1, <2>2, <2>5, <4>1, <4>4 DEF CoverInv, Behind
      <3>3. CASE Validate
        <4>1. judges' = [q \in Scorable |-> IF q \in Holdout(cell) THEN judges[q] \cup {cell}
                                                                   ELSE judges[q]]
          BY <3>3 DEF Validate
        <4>2. cell = <<x, y>> => p \in Holdout(cell)
          BY <2>5 DEF Holdout
        <4>3. Before(x, y, cell) => judges[p] # {}
          BY <2>1, <2>2, <2>5 DEF CoverInv, Behind
        <4> QED
          BY <3>1, <4>1, <4>2, <4>3
      <3> QED
        BY <1>5, <3>2, <3>3
    <2>6. ASSUME FoldCount >= 4, NEW p \in Scorable PROVE Behind(p)'
      BY <2>1, <2>2, <2>5, <2>6 DEF Behind
    <2> QED
      BY <2>2, <2>3, <2>4, <2>6 DEF CoverInv
  <1>6. CASE Unite
    <2>1. phase = "unite" /\ phase' = "done" /\ UNCHANGED <<ledger, pairs, judges>>
      BY <1>6 DEF Unite
    <2>2. FoldCount' = FoldCount /\ OwnedPairs' = OwnedPairs /\ Defined' = Defined
      BY <2>1, FinalFleet
    <2> QED
      BY <2>1, <2>2 DEF CoverInv, Behind, Scorable
  <1> QED
    <2>1. CASE \E r \in Transfers, gap \in Gaps : Observe(r, gap) /\ phase = "observe" /\ UNCHANGED learning
      BY <2>1, <1>1 DEF learning
    <2>2. CASE UNCHANGED vars
      BY <2>2, <1>2 DEF vars, learning
    <2> QED
      BY <2>1, <2>2, <1>3, <1>4, <1>5, <1>6 DEF Next

(* The pooled scores of ml_attribution are one per pair, and with four     *)
(* folds or more none of them is the zero of a pair that no cell scored,   *)
(* however the accounts are spread over the operators (ml.rs:490, the      *)
(* continue of an empty training set, is never taken then).                *)
THEOREM EveryPairScoredOnce == Spec => []ScoredOnce
  <1> DEFINE Inv == LedgerInv /\ FoldInv /\ CellInv /\ CoverInv
  <1>1. Init => Inv
    BY LedgerKept, InitFolds, InitCells, InitCover
  <1>2. Inv /\ [Next]_vars => Inv'
    BY LedgerKept, NextFolds, NextCells, NextCover
  <1>3. Inv => ScoredOnce
    <2>1. SUFFICES ASSUME Inv PROVE ScoredOnce
      OBVIOUS
    <2>2. JudgedByOne
      BY <2>1, OneJudge
    <2>3. ASSUME phase \in {"unite", "done"}, Defined, FoldCount >= 4, NEW p \in OwnedPairs
          PROVE  judges[p] # {}
      <3>1. p \in Scorable /\ Behind(p)
        BY <2>1, <2>3 DEF CoverInv
      <3>2. PICK a \in Owned(ledger), b \in Owned(ledger) : p = {a, b}
        BY DEF OwnedPairs
      <3> DEFINE x == FoldOf(OwnerOf(ledger, a))
                 y == FoldOf(OwnerOf(ledger, b))
      <3>3. pairs[p].folds = {x, y}
        BY <2>1, <3>1, <3>2 DEF FoldInv, FoldsShown, OwnersOf
      <3>4. FoldCount \in Nat /\ FoldCount >= 2
        BY <2>1, <2>3, FoldCountFacts
      <3>5. x \in 0..(FoldCount - 1) /\ y \in 0..(FoldCount - 1)
        BY <2>1, <3>4, FoldHit DEF OwningOperators
      <3> HIDE DEF x, y
      <3>6. x <= y \/ y <= x
        BY <3>4, <3>5
      <3>7. {x, y} = {y, x}
        OBVIOUS
      <3> QED
        BY <2>3, <3>1, <3>3, <3>5, <3>6, <3>7 DEF Behind
    <2> QED
      BY <2>2, <2>3 DEF ScoredOnce
  <1>4. QED
    BY <1>1, <1>2, <1>3, PTL DEF Spec

-----------------------------------------------------------------------------
(* Time groups.  Records are listed in the order of their times, and in    *)
(* that of their slots, which is that of their places.                     *)
TimeOrder(l) == {x \in Nat \X Nat : TimeBefore(l[x[1]], l[x[2]])}
SlotOrder(l) == {x \in Nat \X Nat : SlotBefore(l[x[1]], l[x[2]])}
IsLedger(l) == l \in Seq(Record) /\ IsNumbered(l)

LEMMA LedgerShape ==
  ASSUME NEW l, IsLedger(l)
  PROVE  /\ Len(l) \in Nat /\ DOMAIN l = 1..Len(l)
         /\ \A i \in 1..Len(l) : l[i] \in Record /\ l[i].ts \in Int
                                   /\ l[i].sig = i /\ l[i].slot = i
  <1>1. Len(l) \in Nat /\ DOMAIN l = 1..Len(l) /\ \A i \in 1..Len(l) : l[i] \in Record
    BY DEF IsLedger
  <1>2. \A i \in 1..Len(l) : l[i].ts \in Int
    BY <1>1 DEF Record
  <1> QED
    BY <1>1, <1>2 DEF IsLedger, IsNumbered

LEMMA PlacesOrdered ==
  ASSUME NEW l, IsLedger(l), NEW g \in SUBSET (DOMAIN l)
  PROVE  /\ IsFiniteSet(g) /\ Cardinality(g) \in Nat
         /\ Orders(TimeOrder(l), g) /\ Orders(SlotOrder(l), g)
         /\ \A i, j \in g : /\ <<i, j>> \in TimeOrder(l) <=> TimeBefore(l[i], l[j])
                            /\ <<i, j>> \in SlotOrder(l) <=> SlotBefore(l[i], l[j])
                            /\ <<i, j>> \in TimeOrder(l) => l[i].ts <= l[j].ts
                            /\ <<i, j>> \in SlotOrder(l) => i < j
  <1>1. /\ Len(l) \in Nat /\ DOMAIN l = 1..Len(l)
        /\ \A i \in 1..Len(l) : l[i].ts \in Int /\ l[i].sig = i /\ l[i].slot = i
    BY LedgerShape
  <1>2. IsFiniteSet(g)
    <2>1. IsFiniteSet(1..Len(l))
      BY <1>1, FS_Interval
    <2> QED
      BY <1>1, <2>1, FS_Subset
  <1>3. \A i \in g : i \in Nat /\ l[i].ts \in Int /\ l[i].sig = i /\ l[i].slot = i
    BY <1>1
  <1>4. ASSUME NEW i \in g, NEW j \in g
        PROVE  /\ <<i, j>> \in TimeOrder(l) <=> TimeBefore(l[i], l[j])
               /\ <<i, j>> \in SlotOrder(l) <=> SlotBefore(l[i], l[j])
               /\ TimeBefore(l[i], l[j]) <=> (l[i].ts < l[j].ts \/ (l[i].ts = l[j].ts /\ i < j))
               /\ SlotBefore(l[i], l[j]) <=> i < j
    <2>1. i \in Nat /\ j \in Nat
      BY <1>3
    <2>2. /\ <<i, j>> \in TimeOrder(l) <=> TimeBefore(l[i], l[j])
          /\ <<i, j>> \in SlotOrder(l) <=> SlotBefore(l[i], l[j])
      BY <2>1 DEF TimeOrder, SlotOrder
    <2>3. TimeBefore(l[i], l[j]) <=> (l[i].ts < l[j].ts \/ (l[i].ts = l[j].ts /\ i < j))
      BY <1>3, <2>1 DEF TimeBefore
    <2>4. SlotBefore(l[i], l[j]) <=> i < j
      BY <1>3 DEF SlotBefore
    <2> QED
      BY <2>2, <2>3, <2>4
  <1>5. Orders(TimeOrder(l), g)
    BY <1>3, <1>4 DEF Orders
  <1>6. Orders(SlotOrder(l), g)
    BY <1>3, <1>4 DEF Orders
  <1> QED
    BY <1>2, <1>3, <1>4, <1>5, <1>6, FS_CardinalityType

LEMMA PlacesListed ==
  ASSUME NEW l, IsLedger(l), NEW g \in SUBSET (DOMAIN l)
  PROVE  /\ Lists(InTimeOrder(l, g), TimeOrder(l), g)
         /\ Lists(InSlotOrder(l, g), SlotOrder(l), g)
  <1> DEFINE n == Cardinality(g)
  <1>1. n \in Nat /\ IsFiniteSet(g)
    BY PlacesOrdered
  <1>2. ASSUME NEW R, Orders(R, g), NEW k \in 1..n
        PROVE  \E x \in g : Rank(R, g, x) = k - 1
    <2>1. \A j \in 0..(n - 1) : \E x \in g : Rank(R, g, x) = j
      BY <1>1, <1>2, RankHit
    <2>2. k - 1 \in 0..(n - 1)
      BY <1>1
    <2> QED
      BY <2>1, <2>2
  <1>3. ASSUME NEW i \in g
        PROVE  /\ Rank(TimeOrder(l), g, i) = Cardinality({j \in g : TimeBefore(l[j], l[i])})
               /\ Rank(SlotOrder(l), g, i) = Cardinality({j \in g : SlotBefore(l[j], l[i])})
    <2>1. /\ {j \in g : TimeBefore(l[j], l[i])} = {j \in g : <<j, i>> \in TimeOrder(l)}
          /\ {j \in g : SlotBefore(l[j], l[i])} = {j \in g : <<j, i>> \in SlotOrder(l)}
      BY PlacesOrdered
    <2> QED
      BY <2>1 DEF Rank
  <1> DEFINE t == InTimeOrder(l, g)
             s == InSlotOrder(l, g)
  <1>4. t = [k \in 1..n |-> CHOOSE i \in g : Cardinality({j \in g : TimeBefore(l[j], l[i])}) = k - 1]
    BY DEF InTimeOrder, Sorted
  <1>5. s = [k \in 1..n |-> CHOOSE i \in g : Cardinality({j \in g : SlotBefore(l[j], l[i])}) = k - 1]
    BY DEF InSlotOrder, Sorted
  <1>6. ASSUME NEW k \in 1..n
        PROVE  t[k] \in g /\ Rank(TimeOrder(l), g, t[k]) = k - 1
    <2> DEFINE T(i) == Cardinality({j \in g : TimeBefore(l[j], l[i])})
    <2>1. \E x \in g : Rank(TimeOrder(l), g, x) = k - 1
      BY <1>2, PlacesOrdered
    <2>2. t[k] = CHOOSE i \in g : T(i) = k - 1
      BY <1>4
    <2>3. \A x \in g : Rank(TimeOrder(l), g, x) = T(x)
      BY <1>3
    <2> HIDE DEF T, t
    <2>4. \E x \in g : T(x) = k - 1
      BY <2>1, <2>3
    <2> QED
      BY <2>2, <2>3, <2>4
  <1>7. ASSUME NEW k \in 1..n
        PROVE  s[k] \in g /\ Rank(SlotOrder(l), g, s[k]) = k - 1
    <2> DEFINE T(i) == Cardinality({j \in g : SlotBefore(l[j], l[i])})
    <2>1. \E x \in g : Rank(SlotOrder(l), g, x) = k - 1
      BY <1>2, PlacesOrdered
    <2>2. s[k] = CHOOSE i \in g : T(i) = k - 1
      BY <1>5
    <2>3. \A x \in g : Rank(SlotOrder(l), g, x) = T(x)
      BY <1>3
    <2> HIDE DEF T, s
    <2>4. \E x \in g : T(x) = k - 1
      BY <2>1, <2>3
    <2> QED
      BY <2>2, <2>3, <2>4
  <1>8. IsSeq(t) /\ Len(t) = n
    <2>1. t = [k \in 1..n |-> t[k]]
      BY <1>4
    <2> HIDE DEF t
    <2> QED
      BY <1>1, <2>1, ShapeSeq
  <1>9. IsSeq(s) /\ Len(s) = n
    <2>1. s = [k \in 1..n |-> s[k]]
      BY <1>5
    <2> HIDE DEF s
    <2> QED
      BY <1>1, <2>1, ShapeSeq
  <1> QED
    BY <1>6, <1>7, <1>8, <1>9 DEF Lists

(* The groups of a scan over q that starts anew at the places of T.        *)
GroupAt(q, T, k) == {q[m] : m \in Block(T, Len(q), k)}
GroupsOf(q, T) == {GroupAt(q, T, k) : k \in T}
TimeStarts(l, q, w) ==
  {k \in 1..Len(q) : k = 1 \/ ~(l[q[k]].ts - l[q[k - 1]].ts <= NonNegative(w))}
BurstStarts(l, q) ==
  {k \in 1..Len(q) : k = 1 \/ ~(/\ l[q[k]].ts = l[q[k - 1]].ts
                                /\ l[q[k]].slot = l[q[k - 1]].slot + 1)}

LEMMA ScanGroups ==
  ASSUME NEW l, IsLedger(l)
  PROVE  /\ \A g \in SUBSET (DOMAIN l) : \A w :
              ProximityRuns(l, g, w) =
                GroupsOf(InTimeOrder(l, g), TimeStarts(l, InTimeOrder(l, g), w))
         /\ BurstGroups(l) =
              GroupsOf(InSlotOrder(l, DOMAIN l), BurstStarts(l, InSlotOrder(l, DOMAIN l)))
  <1>1. ASSUME NEW g \in SUBSET (DOMAIN l), NEW w
        PROVE  ProximityRuns(l, g, w) =
                 GroupsOf(InTimeOrder(l, g), TimeStarts(l, InTimeOrder(l, g), w))
    <2> DEFINE q == InTimeOrder(l, g)
               T == {k \in DOMAIN q : k = 1 \/ ~(l[q[k]].ts - l[q[k - 1]].ts <= NonNegative(w))}
    <2>1. DOMAIN q = 1..Len(q)
      BY PlacesListed, SeqShape DEF Lists
    <2>2. T = TimeStarts(l, q, w)
      BY <2>1 DEF TimeStarts
    <2>3. ProximityRuns(l, g, w) =
            {{q[m] : m \in {n \in k..Len(q) : ~\E b \in T : k < b /\ b <= n}} : k \in T}
      BY DEF ProximityRuns, Runs
    <2> HIDE DEF q, T
    <2> QED
      BY <2>2, <2>3 DEF GroupsOf, GroupAt, Block, q
  <1>2. BurstGroups(l) =
          GroupsOf(InSlotOrder(l, DOMAIN l), BurstStarts(l, InSlotOrder(l, DOMAIN l)))
    <2> DEFINE q == InSlotOrder(l, DOMAIN l)
               T == {k \in DOMAIN q : k = 1 \/ ~(l[q[k]].ts = l[q[k - 1]].ts
                                                  /\ l[q[k]].slot = l[q[k - 1]].slot + 1)}
    <2>1. DOMAIN q = 1..Len(q)
      BY PlacesListed, SeqShape DEF Lists
    <2>2. T = BurstStarts(l, q)
      BY <2>1 DEF BurstStarts
    <2>3. BurstGroups(l) =
            {{q[m] : m \in {n \in k..Len(q) : ~\E b \in T : k < b /\ b <= n}} : k \in T}
      BY DEF BurstGroups, Runs
    <2> HIDE DEF q, T
    <2> QED
      BY <2>2, <2>3 DEF GroupsOf, GroupAt, Block, q
  <1> QED
    BY <1>1, <1>2

(* Groups part the records they are made of.                               *)
Parts(groups, g) ==
  /\ \A G \in groups : G \subseteq g
  /\ \A i \in g : \E G \in groups : i \in G
  /\ \A G, H \in groups : \A i \in G : i \in H => G = H

LEMMA GroupsPart ==
  ASSUME NEW S, IsFiniteSet(S), NEW R, Orders(R, S), NEW q, Lists(q, R, S),
         NEW T \in SUBSET (1..Len(q)), 1 \in T \/ Len(q) = 0
  PROVE  Parts(GroupsOf(q, T), S)
  <1> DEFINE n == Len(q)
  <1>1. /\ n \in Nat /\ \A k \in 1..n : q[k] \in S
        /\ \A x \in S : \E k \in 1..n : q[k] = x
        /\ \A k, m \in 1..n : q[k] = q[m] => k = m
    BY ListsFacts
  <1>2. \A k \in T : Block(T, n, k) \subseteq 1..n
    BY <1>1 DEF Block
  <1>3. \A m \in 1..n : /\ \E k \in T : m \in Block(T, n, k)
                        /\ \A k, b \in T : m \in Block(T, n, k) /\ m \in Block(T, n, b) => k = b
    BY <1>1, BlocksPart
  <1>4. GroupsOf(q, T) = {{q[m] : m \in Block(T, n, k)} : k \in T}
    BY DEF GroupsOf, GroupAt
  <1> HIDE DEF n
  <1>5. \A G \in GroupsOf(q, T) : G \subseteq S
    BY <1>1, <1>2, <1>4
  <1>6. ASSUME NEW i \in S PROVE \E G \in GroupsOf(q, T) : i \in G
    <2>1. PICK m \in 1..n : q[m] = i
      BY <1>1
    <2>2. PICK k \in T : m \in Block(T, n, k)
      BY <1>3
    <2>3. i \in {q[x] : x \in Block(T, n, k)}
      BY <2>1, <2>2
    <2> QED
      BY <1>4, <2>3
  <1>7. ASSUME NEW G \in GroupsOf(q, T), NEW H \in GroupsOf(q, T), NEW i \in G, i \in H
        PROVE  G = H
    <2>1. PICK k \in T : G = {q[m] : m \in Block(T, n, k)}
      BY <1>4
    <2>2. PICK b \in T : H = {q[m] : m \in Block(T, n, b)}
      BY <1>4
    <2>3. PICK m \in Block(T, n, k) : i = q[m]
      BY <2>1
    <2>4. PICK x \in Block(T, n, b) : i = q[x]
      BY <1>7, <2>2
    <2>5. m = x /\ m \in 1..n
      BY <1>1, <1>2, <2>3, <2>4
    <2>6. k = b
      BY <1>3, <2>3, <2>4, <2>5
    <2> QED
      BY <2>1, <2>2, <2>6
  <1> QED
    BY <1>5, <1>6, <1>7 DEF Parts

Near(l, i, j, w) == l[j].ts - l[i].ts \in 0..w
Chained(l, G, w) ==
  \E first \in G : \A j \in G \ {first} :
    \E i \in G : TimeBefore(l[i], l[j]) /\ Near(l, i, j, w)

(* Time groups are the components of being near.                           *)
LEMMA ProximityFacts ==
  ASSUME NEW l, IsLedger(l), NEW g \in SUBSET (DOMAIN l), NEW w \in Nat
  PROVE  LET groups == ProximityRuns(l, g, w)
         IN /\ Parts(groups, g)
            /\ \A G \in groups : \A i \in G : \A j \in g : Near(l, i, j, w) => j \in G
            /\ \A G \in groups : Chained(l, G, w)
  <1> DEFINE groups == ProximityRuns(l, g, w)
             q == InTimeOrder(l, g)
             n == Len(q)
             T == TimeStarts(l, q, w)
             t(k) == l[q[k]].ts
  <1>1. /\ IsFiniteSet(g) /\ Orders(TimeOrder(l), g) /\ Lists(q, TimeOrder(l), g)
        /\ \A i \in g : l[i].ts \in Int
    BY PlacesOrdered, PlacesListed, LedgerShape
  <1>2. /\ n \in Nat /\ \A k \in 1..n : q[k] \in g
        /\ \A x \in g : \E k \in 1..n : q[k] = x
        /\ \A k, m \in 1..n : k < m => <<q[k], q[m]>> \in TimeOrder(l)
        /\ \A k, m \in 1..n : q[k] = q[m] => k = m
    BY <1>1, ListsFacts
  <1>3. \A k \in 1..n : t(k) \in Int
    BY <1>1, <1>2
  <1>4. ASSUME NEW k \in 1..n, NEW m \in 1..n, k <= m PROVE t(k) <= t(m)
    <2>1. CASE k = m
      BY <1>3, <2>1
    <2>2. CASE k < m
      <3>1. <<q[k], q[m]>> \in TimeOrder(l) /\ q[k] \in g /\ q[m] \in g
        BY <1>2, <2>2
      <3> QED
        BY <3>1, PlacesOrdered
    <2> QED
      BY <1>2, <1>4, <2>1, <2>2
  <1>5. NonNegative(w) = w
    BY DEF NonNegative
  <1>6. T = {k \in 1..n : k = 1 \/ ~(t(k) - t(k - 1) <= w)}
    BY <1>5 DEF TimeStarts
  <1>7. groups = {{q[m] : m \in Block(T, n, k)} : k \in T}
    BY ScanGroups DEF GroupsOf, GroupAt
  <1>8. T \in SUBSET (1..n) /\ (1 \in T \/ n = 0)
    BY <1>2, <1>6
  <1>9. Parts(groups, g)
    <2>1. groups = GroupsOf(q, T)
      BY ScanGroups
    <2> HIDE DEF groups, q, T
    <2> QED
      BY <1>1, <1>8, <2>1, GroupsPart DEF n
  <1>10. \A k \in T : Block(T, n, k) \subseteq 1..n /\ k \in Block(T, n, k)
    BY <1>2, <1>8 DEF Block
  <1>11. \A i \in g, k \in 1..n : q[k] = i => l[i].ts = t(k)
    OBVIOUS
  <1> HIDE DEF groups, q, n, T, t
  <1>12. ASSUME NEW G \in groups, NEW i \in G, NEW j \in g, Near(l, i, j, w)
         PROVE  j \in G
    <2>1. PICK k \in T : G = {q[m] : m \in Block(T, n, k)}
      BY <1>7
    <2>2. PICK m \in Block(T, n, k) : i = q[m]
      BY <2>1
    <2>3. PICK x \in 1..n : j = q[x]
      BY <1>2
    <2>4. m \in 1..n /\ i \in g
      BY <1>2, <1>10, <2>2
    <2>5. t(x) - t(m) \in 0..w
      BY <1>11, <1>12, <2>2, <2>3, <2>4 DEF Near
    <2>6. ASSUME NEW b \in T PROVE ~(m < b /\ b <= x) /\ ~(x < b /\ b <= m)
      <3>1. b \in 1..n /\ (b = 1 \/ ~(t(b) - t(b - 1) <= w))
        BY <1>6
      <3>2. ASSUME m < b, b <= x PROVE FALSE
        <4>1. b - 1 \in 1..n /\ m <= b - 1 /\ b # 1
          BY <1>2, <2>4, <3>1, <3>2
        <4>2. t(m) <= t(b - 1) /\ t(b) <= t(x) /\ ~(t(b) - t(b - 1) <= w)
          BY <1>4, <2>4, <3>1, <3>2, <4>1
        <4> QED
          BY <1>3, <2>4, <2>5, <3>1, <4>1, <4>2
      <3>3. ASSUME x < b, b <= m PROVE FALSE
        <4>1. b - 1 \in 1..n /\ x <= b - 1 /\ b # 1
          BY <1>2, <2>4, <3>1, <3>3
        <4>2. t(x) <= t(b - 1) /\ t(b) <= t(m) /\ ~(t(b) - t(b - 1) <= w)
          BY <1>4, <2>4, <3>1, <3>3, <4>1
        <4> QED
          BY <1>3, <2>4, <2>5, <3>1, <4>1, <4>2
      <3> QED
        BY <3>2, <3>3
    <2>7. x \in Block(T, n, k)
      BY <1>2, <1>8, <2>6, BlocksJoin
    <2> QED
      BY <2>1, <2>3, <2>7
  <1>13. ASSUME NEW G \in groups
         PROVE  Chained(l, G, w)
    <2>1. PICK k \in T : G = {q[m] : m \in Block(T, n, k)}
      BY <1>7
    <2>2. q[k] \in G
      BY <1>10, <2>1
    <2>3. ASSUME NEW j \in G \ {q[k]} PROVE \E i \in G : TimeBefore(l[i], l[j]) /\ Near(l, i, j, w)
      <3>1. PICK m \in Block(T, n, k) : j = q[m]
        BY <2>1
      <3>2. k \in 1..n /\ m \in 1..n /\ m \in k..n /\ ~\E b \in T : k < b /\ b <= m
        BY <1>8, <1>10 DEF Block
      <3>3. m # k
        BY <2>3, <3>1
      <3>4. m - 1 \in k..n /\ m - 1 \in 1..n /\ k < m /\ m # 1
        BY <1>2, <3>2, <3>3
      <3>5. m - 1 \in Block(T, n, k)
        BY <3>2, <3>4 DEF Block
      <3>6. m \notin T
        BY <3>2, <3>4
      <3>7. t(m) - t(m - 1) <= w
        BY <1>6, <3>2, <3>6
      <3>8. t(m - 1) <= t(m)
        BY <1>4, <3>2, <3>4
      <3>9. TimeBefore(l[q[m - 1]], l[q[m]]) /\ q[m - 1] \in G
        <4>1. m - 1 < m
          BY <3>2
        <4>2. <<q[m - 1], q[m]>> \in TimeOrder(l) /\ q[m - 1] \in G
          BY <1>2, <2>1, <3>2, <3>4, <3>5, <4>1
        <4> QED
          BY <4>2 DEF TimeOrder
      <3>10. Near(l, q[m - 1], j, w)
        <4>1. l[q[m - 1]].ts = t(m - 1) /\ l[q[m]].ts = t(m)
          BY DEF t
        <4>2. t(m) - t(m - 1) \in 0..w
          BY <1>3, <3>2, <3>4, <3>7, <3>8
        <4> QED
          BY <3>1, <4>1, <4>2 DEF Near
      <3> QED
        BY <3>1, <3>9, <3>10
    <2> QED
      BY <2>2, <2>3 DEF Chained
  <1> QED
    BY <1>9, <1>12, <1>13 DEF groups

(* A wider window starts fewer groups.                                     *)
LEMMA WiderMerges ==
  ASSUME NEW l, IsLedger(l), NEW g \in SUBSET (DOMAIN l), NEW w \in Nat, NEW v \in Nat, v <= w,
         NEW G \in ProximityRuns(l, g, v)
  PROVE  \E H \in ProximityRuns(l, g, w) : G \subseteq H
  <1> DEFINE q == InTimeOrder(l, g)
             n == Len(q)
             Tv == TimeStarts(l, q, v)
             Tw == TimeStarts(l, q, w)
  <1>1. /\ IsFiniteSet(g) /\ Orders(TimeOrder(l), g) /\ Lists(q, TimeOrder(l), g)
        /\ \A i \in g : l[i].ts \in Int
    BY PlacesOrdered, PlacesListed, LedgerShape
  <1>2. n \in Nat /\ \A k \in 1..n : q[k] \in g
    BY <1>1, ListsFacts
  <1>3. \A k \in 1..n : l[q[k]].ts \in Int
    BY <1>1, <1>2
  <1>4. NonNegative(w) = w /\ NonNegative(v) = v
    BY DEF NonNegative
  <1>5. \A k \in 1..n : k # 1 => k - 1 \in 1..n
    BY <1>2
  <1>6. Tw \subseteq Tv
    BY <1>3, <1>4, <1>5 DEF TimeStarts
  <1>7. Tv \in SUBSET (1..n) /\ Tw \in SUBSET (1..n) /\ (1 \in Tw \/ n = 0)
    BY <1>2 DEF TimeStarts
  <1>8. ProximityRuns(l, g, v) = GroupsOf(q, Tv) /\ ProximityRuns(l, g, w) = GroupsOf(q, Tw)
    BY ScanGroups
  <1> HIDE DEF q, Tv, Tw
  <1>9. PICK k \in Tv : G = GroupAt(q, Tv, k)
    BY <1>8 DEF GroupsOf
  <1> HIDE DEF n
  <1>10. G = {q[m] : m \in Block(Tv, n, k)} /\ k \in 1..n
    BY <1>7, <1>9 DEF GroupAt, n
  <1>11. PICK b \in Tw : k \in Block(Tw, n, b)
    BY <1>2, <1>7, <1>10, BlocksPart
  <1>12. ASSUME NEW m \in Block(Tv, n, k) PROVE m \in Block(Tw, n, b)
    <2>1. m \in k..n /\ m \in 1..n /\ \A c \in Tv : ~(k < c /\ c <= m)
      BY <1>2, <1>10 DEF Block
    <2>2. \A c \in Tw : ~(k < c /\ c <= m) /\ ~(m < c /\ c <= k)
      <3>1. \A c \in Tw : c \in Nat
        BY <1>7
      <3> QED
        BY <1>2, <1>6, <1>10, <2>1, <3>1
    <2> QED
      BY <1>2, <1>7, <1>11, <2>1, <2>2, BlocksJoin
  <1>13. GroupAt(q, Tw, b) \in ProximityRuns(l, g, w)
    BY <1>8 DEF GroupsOf
  <1>14. G \subseteq GroupAt(q, Tw, b)
    BY <1>10, <1>12 DEF GroupAt, n
  <1> QED
    BY <1>13, <1>14

(* The records of a burst have one time.                                   *)
LEMMA BurstFacts ==
  ASSUME NEW l, IsLedger(l)
  PROVE  /\ Parts(BurstGroups(l), DOMAIN l)
         /\ \A G \in BurstGroups(l) : \E i \in G : \A j \in G : l[j].ts = l[i].ts
  <1> DEFINE g == DOMAIN l
             q == InSlotOrder(l, g)
             n == Len(q)
             T == BurstStarts(l, q)
  <1>1. IsFiniteSet(g) /\ Orders(SlotOrder(l), g) /\ Lists(q, SlotOrder(l), g)
    BY PlacesOrdered, PlacesListed
  <1>2. n \in Nat
    BY <1>1, ListsFacts
  <1>3. T \in SUBSET (1..n) /\ (1 \in T \/ n = 0)
    BY <1>2 DEF BurstStarts
  <1>4. BurstGroups(l) = GroupsOf(q, T)
    BY ScanGroups
  <1>5. \A m \in 1..n : m > 1 /\ m \notin T => l[q[m]].ts = l[q[m - 1]].ts
    BY <1>2 DEF BurstStarts
  <1> HIDE DEF g, q, T
  <1>6. Parts(BurstGroups(l), g)
    BY <1>1, <1>3, <1>4, GroupsPart DEF n
  <1> HIDE DEF n
  <1>7. ASSUME NEW G \in BurstGroups(l)
        PROVE  \E i \in G : \A j \in G : l[j].ts = l[i].ts
    <2>1. PICK k \in T : G = {q[m] : m \in Block(T, n, k)}
      BY <1>4 DEF GroupsOf, GroupAt, n
    <2> DEFINE P == {m \in Nat : l[q[m]].ts = l[q[k]].ts}
    <2>2. k \in P /\ k \in Block(T, n, k)
      BY <1>2, <1>3 DEF Block
    <2>3. \A m \in 1..n : m - 1 \in P /\ m > 1 /\ m \notin T => m \in P
      BY <1>5
    <2>4. P \in SUBSET Nat
      OBVIOUS
    <2> HIDE DEF P
    <2>5. Block(T, n, k) \subseteq P
      BY <1>2, <1>3, <2>2, <2>3, <2>4, BlockStep
    <2>6. q[k] \in G /\ \A j \in G : l[j].ts = l[q[k]].ts
      BY <2>1, <2>2, <2>5 DEF P
    <2> QED
      BY <2>6
  <1> QED
    BY <1>6, <1>7 DEF g

(* The grouping of window_groups and burst_groups (heuristics.rs:181-226): *)
(* every record is in exactly one time group, time groups are the          *)
(* components of being near in time, a wider window only merges them, and  *)
(* no window splits a burst.                                               *)
THEOREM TimeGroupsAreComponents == Spec => []GroupsAreComponents
  <1>1. LedgerInv => GroupsAreComponents
    <2> SUFFICES ASSUME LedgerInv PROVE GroupsAreComponents
      OBVIOUS
    <2> DEFINE g == DOMAIN ledger
    <2>1. IsLedger(ledger) /\ g \in SUBSET (DOMAIN ledger)
      BY DEF LedgerInv, IsLedger
    <2>2. ASSUME NEW w \in Widths
          PROVE  /\ \A i \in DOMAIN ledger :
                      Cardinality({G \in WindowGroups(ledger, w) : i \in G}) = 1
                 /\ \A G \in WindowGroups(ledger, w) : \A i \in G : \A j \in DOMAIN ledger :
                      Near(ledger, i, j, w) => j \in G
                 /\ \A G \in WindowGroups(ledger, w) : Chained(ledger, G, w)
                 /\ \A v \in Widths : v <= w =>
                      \A G \in WindowGroups(ledger, v) : \E H \in WindowGroups(ledger, w) : G \subseteq H
                 /\ \A G \in BurstGroups(ledger) : \E H \in WindowGroups(ledger, w) : G \subseteq H
      <3> DEFINE groups == WindowGroups(ledger, w)
      <3>1. w \in Nat
        BY DEF Widths
      <3>2. groups = ProximityRuns(ledger, g, w)
        BY DEF WindowGroups
      <3>3. /\ Parts(groups, g)
            /\ \A G \in groups : \A i \in G : \A j \in g : Near(ledger, i, j, w) => j \in G
            /\ \A G \in groups : Chained(ledger, G, w)
        BY <2>1, <3>1, <3>2, ProximityFacts
      <3> HIDE DEF groups
      <3>4. ASSUME NEW i \in g PROVE Cardinality({G \in groups : i \in G}) = 1
        <4>1. PICK G \in groups : i \in G
          BY <3>3 DEF Parts
        <4>2. {H \in groups : i \in H} = {G}
          BY <3>3, <4>1 DEF Parts
        <4> QED
          BY <4>2, FS_Singleton
      <3>5. ASSUME NEW v \in Widths, v <= w, NEW G \in WindowGroups(ledger, v)
            PROVE  \E H \in groups : G \subseteq H
        <4>1. v \in Nat /\ G \in ProximityRuns(ledger, g, v)
          BY <3>5 DEF Widths, WindowGroups
        <4> QED
          BY <2>1, <3>1, <3>2, <3>5, <4>1, WiderMerges
      <3>6. ASSUME NEW G \in BurstGroups(ledger)
            PROVE  \E H \in groups : G \subseteq H
        <4>1. PICK i \in G : \A j \in G : ledger[j].ts = ledger[i].ts
          BY <2>1, BurstFacts
        <4>2. G \subseteq g /\ i \in g
          BY <2>1, BurstFacts DEF Parts
        <4>3. PICK H \in groups : i \in H
          BY <3>3, <4>2 DEF Parts
        <4>4. ASSUME NEW j \in G PROVE j \in H
          <5>1. ledger[i].ts \in Int /\ ledger[j].ts = ledger[i].ts
            BY <2>1, <4>1, <4>2, LedgerShape
          <5>2. Near(ledger, i, j, w)
            BY <3>1, <5>1 DEF Near
          <5> QED
            BY <3>3, <4>2, <4>3, <5>2
        <4> QED
          BY <4>4
      <3> QED
        BY <3>3, <3>4, <3>5, <3>6 DEF groups
    <2> QED
      BY <2>2 DEF GroupsAreComponents, Near, Chained
  <1>2. QED
    BY <1>1, LedgerKept, PTL DEF Spec

-----------------------------------------------------------------------------
(* Clusters.  Whatever the configuration, evidence links accounts.         *)
LEMMA RunsPart ==
  ASSUME NEW l, IsLedger(l), NEW g \in SUBSET (DOMAIN l), NEW w
  PROVE  Parts(ProximityRuns(l, g, w), g)
  <1> DEFINE q == InTimeOrder(l, g)
             T == TimeStarts(l, q, w)
  <1>1. IsFiniteSet(g) /\ Orders(TimeOrder(l), g) /\ Lists(q, TimeOrder(l), g)
    BY PlacesOrdered, PlacesListed
  <1>2. Len(q) \in Nat
    BY <1>1, ListsFacts
  <1>3. T \in SUBSET (1..Len(q)) /\ (1 \in T \/ Len(q) = 0)
    BY <1>2 DEF TimeStarts
  <1>4. ProximityRuns(l, g, w) = GroupsOf(q, T)
    BY ScanGroups
  <1> HIDE DEF q, T
  <1> QED
    BY <1>1, <1>3, <1>4, GroupsPart

LEMMA LinksTyped ==
  ASSUME NEW l, IsLedger(l), NEW c, NEW k \in DOMAIN Heuristics
  PROVE  LinksOf(c, l, Heuristics[k]) \subseteq Account \X Account
  <1>1. \A i \in DOMAIN l : l[i].src \in Account /\ l[i].dst \in Account /\ l[i].fee \in Account
    BY LedgerShape DEF Record
  <1>2. \A r \in Records(l) : r.src \in Account /\ r.dst \in Account /\ r.fee \in Account
    BY <1>1 DEF Records, Range
  <1>3. FeePayerLinks(l) \subseteq Account \X Account
    BY <1>1, <1>2 DEF FeePayerLinks
  <1>4. ActiveSources(l) \subseteq Account
    BY <1>2 DEF ActiveSources
  <1>5. CospendLinks(c, l) \subseteq Account \X Account
    <2> DEFINE Payers(d) == {r.src : r \in {q \in Records(l) : MovesValue(q) /\ q.dst = d}}
               D == {e \in ActiveSources(l) : Cardinality(Payers(e)) \in 2..c.maxSources}
    <2>1. \A d : Payers(d) \subseteq Account
      BY <1>2
    <2>2. D \subseteq Account
      BY <1>4
    <2>3. CospendLinks(c, l) = UNION {{d} \X Payers(d) : d \in D}
      BY DEF CospendLinks
    <2> HIDE DEF Payers, D
    <2> QED
      BY <2>1, <2>2, <2>3
  <1>6. PeelLinks(c, l) \subseteq Account \X Account
    BY <1>2 DEF PeelLinks
  <1>7. LineageLinks(c, l) \subseteq Account \X Account
    BY <1>2 DEF LineageLinks
  <1>8. ASSUME NEW buckets, NEW m PROVE RepeatedPairs(l, buckets, m) \subseteq Account \X Account
    BY <1>4 DEF RepeatedPairs
  <1>9. CopayLinks(c, l) \subseteq Account \X Account /\ CoactLinks(c, l) \subseteq Account \X Account
    BY <1>8 DEF CopayLinks, CoactLinks
  <1>10. FunderLinks(c, l) \subseteq Account \X Account
    <2>1. \A e \in FundingEdges(l) : e[1] \in Account
      BY <1>2 DEF FundingEdges
    <2> QED
      BY <1>2, <2>1 DEF FunderLinks
  <1>11. CeilingLinks(c, l) \subseteq Account \X Account
    <2>1. \A G \in Groups(c, l) : G \subseteq DOMAIN l
      <3>1. \A G \in BurstGroups(l) : G \subseteq DOMAIN l
        BY BurstFacts DEF Parts
      <3>2. \A G \in WindowGroups(l, c.window) : G \subseteq DOMAIN l
        BY RunsPart DEF Parts, WindowGroups
      <3> QED
        BY <3>1, <3>2 DEF Groups
    <2>2. \A G \in Groups(c, l) : SourcesOf(l, G) \subseteq Account
      BY <1>1, <2>1 DEF SourcesOf
    <2> QED
      BY <2>2 DEF CeilingLinks, OfSize
  <1>12. DOMAIN Heuristics = 1..8
    BY DEF Heuristics
  <1>13. Heuristics[k] \in {"fee_payer", "cospend", "temporal_amount", "activation_lineage",
           "burst_copay", "burst_coactivity", "funder_graph", "burst_union_ceiling"}
    BY <1>12 DEF Heuristics
  <1> QED
    BY <1>3, <1>5, <1>6, <1>7, <1>9, <1>10, <1>11, <1>13 DEF LinksOf

(* A function that gives every account its class in a partition.           *)
IsClassing(cl) ==
  /\ \A a \in Account : a \in cl[a] /\ cl[a] \subseteq Account
  /\ \A a \in Account : \A b \in cl[a] : cl[b] = cl[a]

(* No part of a class is cut off without cutting a link.                   *)
Generated(cl, links) ==
  \A a \in Account : \A part \in SUBSET cl[a] :
    part # {} /\ part # cl[a] =>
      \E x \in part, y \in cl[a] \ part : {x, y} \in links

Singletons == [a \in Account |-> {a}]
JoinedBy(cl, a, b) ==
  [x \in Account |-> IF x \in cl[a] \cup cl[b] THEN cl[a] \cup cl[b] ELSE cl[x]]

LEMMA SingletonsFacts ==
  ASSUME NEW links
  PROVE  IsClassing(Singletons) /\ Generated(Singletons, links)
  BY DEF Singletons, IsClassing, Generated

LEMMA MoreLinks ==
  ASSUME NEW cl, NEW few, NEW many, few \subseteq many, Generated(cl, few)
  PROVE  Generated(cl, many)
  BY DEF Generated

LEMMA JoinedFacts ==
  ASSUME NEW cl, IsClassing(cl), NEW links, Generated(cl, links),
         NEW a \in Account, NEW b \in Account, {a, b} \in links
  PROVE  /\ IsClassing(JoinedBy(cl, a, b)) /\ Generated(JoinedBy(cl, a, b), links)
         /\ JoinedBy(cl, a, b)[a] = JoinedBy(cl, a, b)[b]
         /\ \A x, y \in Account : cl[x] = cl[y] => JoinedBy(cl, a, b)[x] = JoinedBy(cl, a, b)[y]
  <1> DEFINE new == JoinedBy(cl, a, b)
             k == cl[a] \cup cl[b]
  <1>1. \A x \in Account : new[x] = IF x \in k THEN k ELSE cl[x]
    BY DEF JoinedBy
  <1>2. /\ \A x \in Account : x \in cl[x] /\ cl[x] \subseteq Account
        /\ \A x \in Account : \A y \in cl[x] : cl[y] = cl[x]
    BY DEF IsClassing
  <1>3. a \in k /\ b \in k /\ k \subseteq Account
    BY <1>2
  <1>4. \A x \in k : cl[x] \subseteq k
    BY <1>2
  <1>5. \A x \in Account : x \notin k => cl[x] \cap k = {}
    BY <1>2, <1>4
  <1> HIDE DEF new
  <1>6. IsClassing(new)
    <2>1. \A x \in Account : x \in new[x] /\ new[x] \subseteq Account
      BY <1>1, <1>2, <1>3
    <2>2. ASSUME NEW x \in Account, NEW y \in new[x] PROVE new[y] = new[x]
      BY <1>1, <1>2, <1>3, <1>5
    <2> QED
      BY <2>1, <2>2 DEF IsClassing
  <1>7. new[a] = new[b]
    BY <1>1, <1>3
  <1>8. ASSUME NEW x \in Account, NEW y \in Account, cl[x] = cl[y] PROVE new[x] = new[y]
    <2>1. x \in k <=> y \in k
      BY <1>2, <1>4, <1>8
    <2> QED
      BY <1>1, <1>8, <2>1
  <1>9. Generated(new, links)
    <2>1. SUFFICES ASSUME NEW x \in Account, NEW part \in SUBSET new[x],
                          part # {}, part # new[x]
                   PROVE  \E u \in part, v \in new[x] \ part : {u, v} \in links
      BY DEF Generated
    <2>2. \A z \in Account : \A p \in SUBSET cl[z] : p # {} /\ p # cl[z] =>
            \E u \in p, v \in cl[z] \ p : {u, v} \in links
      BY DEF Generated
    <2>3. CASE x \notin k
      <3>1. new[x] = cl[x]
        BY <1>1, <2>3
      <3> QED
        BY <2>1, <2>2, <3>1
    <2>4. CASE x \in k
      <3>1. new[x] = k
        BY <1>1, <2>4
      <3>2. ASSUME NEW z \in {a, b}, part \cap cl[z] # {}, part \cap cl[z] # cl[z]
            PROVE  \E u \in part, v \in k \ part : {u, v} \in links
        <4>1. PICK u \in part \cap cl[z], v \in cl[z] \ (part \cap cl[z]) : {u, v} \in links
          BY <2>2, <3>2
        <4>2. u \in part /\ v \in k \ part
          BY <4>1
        <4> QED
          BY <4>1, <4>2
      <3>3. CASE \A z \in {a, b} : part \cap cl[z] = {} \/ part \cap cl[z] = cl[z]
        <4>1. (a \in part /\ b \notin part) \/ (b \in part /\ a \notin part)
          <5>1. a \in part => cl[a] \subseteq part
            BY <1>2, <3>3
          <5>2. b \in part => cl[b] \subseteq part
            BY <1>2, <3>3
          <5>3. a \notin part => part \cap cl[a] = {}
            BY <1>2, <3>3
          <5>4. b \notin part => part \cap cl[b] = {}
            BY <1>2, <3>3
          <5> QED
            BY <2>1, <3>1, <5>1, <5>2, <5>3, <5>4
        <4>2. {a, b} \in links /\ {b, a} \in links
          <5>1. {a, b} = {b, a}
            OBVIOUS
          <5> QED
            BY <5>1
        <4> QED
          BY <1>3, <3>1, <4>1, <4>2
      <3> QED
        BY <3>1, <3>2, <3>3
    <2> QED
      BY <2>3, <2>4
  <1> QED
    BY <1>6, <1>7, <1>8, <1>9 DEF new

(* The links of the rules up to the s-th.                                  *)
Rule(h) == LinksOf(cfg, ledger, Heuristics[h])
LinksUpTo(s) == {{l[1], l[2]} : l \in UNION {Rule(h) : h \in 1..s}}

(* While the rules run: what was unioned is together, and nothing else is. *)
Underway ==
  /\ todo \subseteq Rule(stage)
  /\ \A h \in 1..stage : \A l \in Rule(h) : h < stage \/ l \notin todo => class[l[1]] = class[l[2]]
  /\ Generated(class, LinksUpTo(stage))
RulesInv ==
  /\ stage \in 0..Len(Heuristics) /\ (stage # 0 <=> phase = "cluster")
  /\ phase # "done" => IsClassing(class)
  /\ stage = 0 /\ phase # "done" => class = Singletons /\ todo = {}
  /\ stage # 0 => Underway

LEMMA HeuristicsCount == Len(Heuristics) = 8 /\ DOMAIN Heuristics = 1..8
  BY DEF Heuristics

LEMMA InitRules == Init => RulesInv
  <1> SUFFICES ASSUME Init PROVE RulesInv
    OBVIOUS
  <1>1. class = Singletons /\ stage = 0 /\ todo = {} /\ phase = "observe"
    BY DEF Init, AnalysisInit, Singletons
  <1> QED
    BY <1>1, HeuristicsCount, SingletonsFacts DEF RulesInv

LEMMA SameRules ==
  ASSUME UNCHANGED <<ledger, cfg>>
  PROVE  \A h : Rule(h)' = Rule(h)
  BY DEF Rule

LEMMA ClusterKeeps ==
  ASSUME LedgerInv, RulesInv, phase \in {"observe", "cluster"}, phase' = "cluster", Cluster
  PROVE  RulesInv'
  <1>1. CASE \E c \in Adversaries : StartClustering(c)
    <2>1. /\ stage = 0 /\ stage' = 1 /\ todo' = LinksOf(cfg', ledger', Heuristics[1])
          /\ class' = class /\ ledger' = ledger
      BY <1>1 DEF StartClustering
    <2>2. class' = Singletons
      BY <2>1 DEF RulesInv
    <2>3. Underway'
      <3>1. todo' = Rule(stage)'
        BY <2>1 DEF Rule
      <3>2. Generated(class', LinksUpTo(stage)')
        BY <2>2, SingletonsFacts
      <3>3. \A h \in 1..stage' : h = stage'
        BY <2>1
      <3> QED
        BY <3>1, <3>2, <3>3, <2>1 DEF Underway
    <2> QED
      BY <2>1, <2>2, <2>3, HeuristicsCount, SingletonsFacts DEF RulesInv
  <1>2. CASE NextHeuristic
    <2>1. /\ todo = {} /\ stage \in 1..(Len(Heuristics) - 1) /\ stage' = stage + 1
          /\ todo' = LinksOf(cfg, ledger, Heuristics[stage + 1])
          /\ UNCHANGED <<cfg, ledger, class>>
      BY <1>2 DEF NextHeuristic
    <2>2. Underway /\ IsClassing(class) /\ stage' \in 1..Len(Heuristics)
      BY <2>1, HeuristicsCount DEF RulesInv
    <2>3. \A h : Rule(h)' = Rule(h)
      BY <2>1, SameRules
    <2>4. todo' = Rule(stage')
      BY <2>1 DEF Rule
    <2>5. LinksUpTo(stage) \subseteq LinksUpTo(stage)'
      <3>1. 1..stage \subseteq 1..stage'
        BY <2>1, HeuristicsCount
      <3> QED
        BY <2>3, <3>1 DEF LinksUpTo
    <2>6. Generated(class', LinksUpTo(stage)')
      BY <2>1, <2>2, <2>5, MoreLinks DEF Underway
    <2>7. ASSUME NEW h \in 1..stage', NEW l \in Rule(h), h < stage' \/ l \notin todo'
          PROVE  class'[l[1]] = class'[l[2]]
      <3>1. h < stage'
        BY <2>1, <2>4, <2>7, HeuristicsCount
      <3>2. h \in 1..stage
        BY <2>1, <3>1, HeuristicsCount
      <3> QED
        BY <2>1, <2>2, <2>7, <3>2 DEF Underway
    <2>8. Underway'
      BY <2>3, <2>4, <2>6, <2>7 DEF Underway
    <2> QED
      BY <2>1, <2>2, <2>8, HeuristicsCount DEF RulesInv
  <1>3. ASSUME NEW l \in todo, UnionLink(l[1], l[2])
        PROVE  RulesInv'
    <2>1. /\ class' = Merged(l[1], l[2]) /\ todo' = todo \ {<<l[1], l[2]>>}
          /\ UNCHANGED <<cfg, ledger, stage>>
      BY <1>3 DEF UnionLink
    <2>2. stage # 0 /\ stage \in 1..Len(Heuristics)
      BY HeuristicsCount DEF RulesInv
    <2>3. Underway /\ IsClassing(class)
      BY <2>2 DEF RulesInv
    <2>4. IsLedger(ledger)
      BY DEF LedgerInv, IsLedger
    <2>5. \A h \in 1..Len(Heuristics) : Rule(h) \subseteq Account \X Account
      BY <2>4, LinksTyped, HeuristicsCount DEF Rule
    <2>6. l \in Rule(stage) /\ l[1] \in Account /\ l[2] \in Account /\ l = <<l[1], l[2]>>
      BY <2>2, <2>3, <2>5 DEF Underway
    <2>7. {l[1], l[2]} \in LinksUpTo(stage)
      BY <2>2, <2>6 DEF LinksUpTo
    <2>8. class' = JoinedBy(class, l[1], l[2])
      BY <2>1 DEF Merged, JoinedBy
    <2>9. /\ IsClassing(class') /\ Generated(class', LinksUpTo(stage))
          /\ class'[l[1]] = class'[l[2]]
          /\ \A x, y \in Account : class[x] = class[y] => class'[x] = class'[y]
      BY <2>3, <2>6, <2>7, <2>8, JoinedFacts DEF Underway
    <2>10. \A h : Rule(h)' = Rule(h)
      BY <2>1, SameRules
    <2>11. LinksUpTo(stage)' = LinksUpTo(stage)
      BY <2>1, <2>10 DEF LinksUpTo
    <2>12. ASSUME NEW h \in 1..stage, NEW m \in Rule(h), h < stage \/ m \notin todo'
           PROVE  class'[m[1]] = class'[m[2]]
      <3>1. m[1] \in Account /\ m[2] \in Account
        BY <2>2, <2>5
      <3>2. CASE m = l
        BY <2>9, <3>2
      <3>3. CASE m # l
        <4>1. h < stage \/ m \notin todo
          BY <2>1, <2>6, <2>12, <3>3
        <4> QED
          BY <2>3, <2>9, <3>1, <4>1 DEF Underway
      <3> QED
        BY <3>2, <3>3
    <2>13. Underway'
      BY <2>1, <2>3, <2>9, <2>10, <2>11, <2>12 DEF Underway
    <2> QED
      BY <2>1, <2>2, <2>9, <2>13 DEF RulesInv
  <1> QED
    BY <1>1, <1>2, <1>3 DEF Cluster

LEMMA NextRules ==
  ASSUME LedgerInv, RulesInv, [Next]_vars
  PROVE  RulesInv'
  <1>1. CASE /\ UNCHANGED <<cfg, stage, todo, class>>
             /\ \/ phase' = phase /\ ledger' = ledger
                \/ phase \notin {"cluster", "done"} /\ phase' \notin {"cluster", "done"}
    <2>1. ledger' = ledger => \A h : Rule(h)' = Rule(h)
      BY <1>1, SameRules
    <2>2. ASSUME ledger' = ledger, Underway PROVE Underway'
      <3>1. \A h : Rule(h)' = Rule(h)
        BY <2>1, <2>2
      <3>2. LinksUpTo(stage)' = LinksUpTo(stage)
        BY <1>1, <3>1 DEF LinksUpTo
      <3> QED
        BY <1>1, <2>2, <3>1, <3>2 DEF Underway
    <2> QED
      BY <1>1, <2>2 DEF RulesInv
  <1>2. CASE Cluster /\ phase \in {"observe", "cluster"} /\ phase' = "cluster"
    BY <1>2, ClusterKeeps
  <1>3. CASE Unite
    BY <1>3 DEF Unite, RulesInv, clustering
  <1>4. CASE Prepare \/ Validate \/ SkipCell
    <2>1. /\ UNCHANGED <<cfg, stage, todo, class>>
          /\ phase \notin {"cluster", "done"} /\ phase' \notin {"cluster", "done"}
      BY <1>4 DEF Prepare, Validate, SkipCell, NextCell, clustering
    <2> QED
      BY <1>1, <2>1
  <1>5. CASE \E r \in Transfers, gap \in Gaps : Observe(r, gap) /\ phase = "observe" /\ UNCHANGED learning
    <2>1. UNCHANGED <<cfg, stage, todo, class>> /\ phase = "observe" /\ phase' = "observe"
      BY <1>5 DEF Observe, clustering, learning
    <2> QED
      BY <1>1, <2>1
  <1>6. CASE UNCHANGED vars
    <2>1. UNCHANGED <<cfg, stage, todo, class>> /\ phase' = phase /\ ledger' = ledger
      BY <1>6 DEF vars, learning, clustering
    <2> QED
      BY <1>1, <2>1
  <1> QED
    BY <1>2, <1>3, <1>4, <1>5, <1>6 DEF Next

(* The learned links are joined one after the other.                       *)
United(f, S) ==
  f = [s \in SUBSET S |->
         IF s = {} THEN [a \in Account |-> {a}]
         ELSE [a \in Account |->
                 IF a \in UNION {f[s \ {CHOOSE x \in s : TRUE}][b] : b \in CHOOSE x \in s : TRUE}
                 THEN UNION {f[s \ {CHOOSE x \in s : TRUE}][b] : b \in CHOOSE x \in s : TRUE}
                 ELSE f[s \ {CHOOSE x \in s : TRUE}][a]]]

LEMMA UniteUnites ==
  ASSUME Unite
  PROVE  class' = (CHOOSE f : United(f, Linked))[Linked]
  BY DEF Unite, FoldSet, MapThenFoldSet, United

Chosen(s) == CHOOSE x \in s : TRUE
JoinAll(cl, p) ==
  [a \in Account |-> IF a \in UNION {cl[b] : b \in p} THEN UNION {cl[b] : b \in p} ELSE cl[a]]
Joining(f, s) == IF s = {} THEN Singletons ELSE JoinAll(f[s \ {Chosen(s)}], Chosen(s))

LEMMA UnitedPointwise ==
  ASSUME NEW f, NEW S
  PROVE  /\ United(f, S) => \A s \in SUBSET S : f[s] = Joining(f, s)
         /\ f = [s \in SUBSET S |-> Joining(f, s)] => United(f, S)
  BY DEF United, Joining, JoinAll, Chosen, Singletons

LEMMA UnitedExists ==
  ASSUME NEW S, IsFiniteSet(S)
  PROVE  \E f : United(f, S)
  <1> DEFINE Upto(n) == \E f : /\ f = [s \in SUBSET S |-> f[s]]
                               /\ \A s \in SUBSET S : Cardinality(s) <= n => f[s] = Joining(f, s)
             bad == {n \in Nat : ~Upto(n)}
  <1>1. \A s \in SUBSET S : IsFiniteSet(s) /\ Cardinality(s) \in Nat /\ Cardinality(s) <= Cardinality(S)
    BY FS_Subset, FS_CardinalityType
  <1>2. \A s \in SUBSET S : s # {} =>
          s \ {Chosen(s)} \in SUBSET S /\ Cardinality(s \ {Chosen(s)}) = Cardinality(s) - 1
    <2>1. SUFFICES ASSUME NEW s \in SUBSET S, s # {}
                   PROVE  Cardinality(s \ {Chosen(s)}) = Cardinality(s) - 1
      OBVIOUS
    <2>2. Chosen(s) \in s
      BY <2>1 DEF Chosen
    <2> QED
      BY <1>1, <2>2, FS_RemoveElement
  <1>3. bad = {}
    <2>1. SUFFICES ASSUME bad # {} PROVE FALSE
      OBVIOUS
    <2>2. PICK n \in bad : \A m \in bad : n <= m
      BY <2>1, LeastElement
    <2>3. \E f : /\ f = [s \in SUBSET S |-> f[s]]
                 /\ \A s \in SUBSET S : Cardinality(s) <= n - 1 => f[s] = Joining(f, s)
      <3>1. CASE n = 0
        <4> DEFINE f == [s \in SUBSET S |-> Singletons]
        <4>1. f = [s \in SUBSET S |-> f[s]]
          OBVIOUS
        <4>2. \A s \in SUBSET S : ~(Cardinality(s) <= n - 1)
          BY <1>1, <3>1
        <4> QED
          BY <4>1, <4>2
      <3>2. CASE n # 0
        <4>1. n - 1 \in Nat /\ ~(n <= n - 1)
          BY <3>2
        <4>2. Upto(n - 1)
          BY <2>2, <4>1
        <4> QED
          BY <4>2
      <3> QED
        BY <3>1, <3>2
    <2>4. PICK f : /\ f = [s \in SUBSET S |-> f[s]]
                   /\ \A s \in SUBSET S : Cardinality(s) <= n - 1 => f[s] = Joining(f, s)
      BY <2>3
    <2> DEFINE g == [s \in SUBSET S |-> IF Cardinality(s) <= n - 1 THEN f[s] ELSE Joining(f, s)]
    <2>5. \A s \in SUBSET S : Cardinality(s) <= n - 1 => g[s] = f[s]
      OBVIOUS
    <2>6. \A s \in SUBSET S : g[s] = Joining(f, s)
      BY <2>4
    <2>7. g = [s \in SUBSET S |-> g[s]]
      OBVIOUS
    <2> HIDE DEF g
    <2>8. ASSUME NEW s \in SUBSET S, Cardinality(s) <= n PROVE g[s] = Joining(g, s)
      <3>1. CASE s = {}
        BY <2>6, <3>1 DEF Joining
      <3>2. CASE s # {}
        <4>1. /\ s \ {Chosen(s)} \in SUBSET S
              /\ Cardinality(s \ {Chosen(s)}) = Cardinality(s) - 1
          BY <1>2, <3>2
        <4>2. Cardinality(s \ {Chosen(s)}) <= n - 1
          BY <1>1, <2>8, <4>1
        <4>3. g[s \ {Chosen(s)}] = f[s \ {Chosen(s)}]
          BY <2>5, <4>1, <4>2
        <4> QED
          BY <2>6, <3>2, <4>3 DEF Joining
      <3> QED
        BY <3>1, <3>2
    <2>9. Upto(n)
      BY <2>7, <2>8
    <2> QED
      BY <2>2, <2>9
  <1>4. Cardinality(S) \in Nat
    BY FS_CardinalityType
  <1>5. Upto(Cardinality(S))
    BY <1>3, <1>4
  <1>6. PICK f : /\ f = [s \in SUBSET S |-> f[s]]
                 /\ \A s \in SUBSET S : Cardinality(s) <= Cardinality(S) => f[s] = Joining(f, s)
    BY <1>5
  <1>7. \A s \in SUBSET S : f[s] = Joining(f, s)
    BY <1>1, <1>6
  <1>8. f = [s \in SUBSET S |-> Joining(f, s)]
    BY <1>6, <1>7
  <1> QED
    BY <1>8, UnitedPointwise

(* The classes that joining a set of pairs of accounts makes.              *)
Clusters(cl, links) ==
  /\ IsClassing(cl) /\ Generated(cl, links)
  /\ \A l \in links : \A x, y \in l : cl[x] = cl[y]
ArePairs(links) == \A l \in links : \E a, b \in Account : l = {a, b}

LEMMA UnitedClusters ==
  ASSUME NEW S, IsFiniteSet(S), ArePairs(S), NEW f, United(f, S)
  PROVE  Clusters(f[S], S)
  <1> DEFINE bad == {n \in Nat : \E s \in SUBSET S : Cardinality(s) = n /\ ~Clusters(f[s], s)}
  <1>1. \A s \in SUBSET S : f[s] = Joining(f, s)
    BY UnitedPointwise
  <1>2. \A s \in SUBSET S : IsFiniteSet(s) /\ Cardinality(s) \in Nat
    BY FS_Subset, FS_CardinalityType
  <1>3. bad = {}
    <2>1. SUFFICES ASSUME bad # {} PROVE FALSE
      OBVIOUS
    <2>2. PICK n \in bad : \A m \in bad : n <= m
      BY <2>1, LeastElement
    <2>3. PICK s \in SUBSET S : Cardinality(s) = n /\ ~Clusters(f[s], s)
      BY <2>2
    <2>4. CASE s = {}
      <3>1. f[s] = Singletons
        BY <1>1, <2>4 DEF Joining
      <3> QED
        BY <2>3, <2>4, <3>1, SingletonsFacts DEF Clusters
    <2>5. CASE s # {}
      <3> DEFINE p == Chosen(s)
                 r == s \ {p}
                 cl == f[r]
      <3>1. p \in s
        BY <2>5 DEF Chosen
      <3>2. r \in SUBSET S /\ Cardinality(r) = n - 1 /\ n - 1 \in Nat
        <4>1. Cardinality(r) = Cardinality(s) - 1
          BY <1>2, <3>1, FS_RemoveElement
        <4>2. r \in SUBSET S
          OBVIOUS
        <4>3. Cardinality(r) \in Nat
          BY <1>2, <4>2
        <4> QED
          BY <2>3, <4>1, <4>2, <4>3
      <3>3. ~(n <= n - 1)
        BY <3>2
      <3>4. Clusters(cl, r)
        BY <2>2, <3>2, <3>3
      <3>5. PICK a \in Account, b \in Account : p = {a, b}
        BY <3>1 DEF ArePairs
      <3>6. f[s] = JoinAll(cl, p)
        BY <1>1, <2>5 DEF Joining
      <3>7. UNION {cl[x] : x \in p} = cl[a] \cup cl[b]
        BY <3>5
      <3>8. f[s] = JoinedBy(cl, a, b)
        BY <3>6, <3>7 DEF JoinAll, JoinedBy
      <3> HIDE DEF p, r, cl
      <3>9. r \subseteq s /\ s = r \cup {p}
        BY <3>1 DEF r
      <3>10. IsClassing(cl) /\ Generated(cl, s) /\ {a, b} \in s
        BY <3>1, <3>4, <3>5, <3>9, MoreLinks DEF Clusters
      <3>11. /\ IsClassing(f[s]) /\ Generated(f[s], s) /\ f[s][a] = f[s][b]
             /\ \A x, y \in Account : cl[x] = cl[y] => f[s][x] = f[s][y]
        BY <3>8, <3>10, JoinedFacts
      <3>12. ASSUME NEW l \in s, NEW x \in l, NEW y \in l PROVE f[s][x] = f[s][y]
        <4>1. x \in Account /\ y \in Account
          BY DEF ArePairs
        <4>2. CASE l = p
          BY <3>5, <3>11, <4>2
        <4>3. CASE l # p
          BY <3>4, <3>9, <3>11, <4>1, <4>3 DEF Clusters
        <4> QED
          BY <4>2, <4>3
      <3>13. Clusters(f[s], s)
        BY <3>11, <3>12 DEF Clusters
      <3> QED
        BY <2>3, <3>13
    <2> QED
      BY <2>4, <2>5
  <1>4. Cardinality(S) \in Nat
    BY FS_CardinalityType
  <1> QED
    BY <1>3, <1>4

(* A pair without a judge keeps the score zero; there are judges only when *)
(* there is enough to learn from.                                          *)
LearnInv ==
  \A p \in Scorable : /\ judges[p] = {} => proba[p] = 0
                      /\ judges[p] # {} => Defined
DoneInv == phase = "done" => Clusters(class, Linked)

LEMMA InitLearn == Init => LearnInv /\ DoneInv
  BY DEF Init, LearnInv, DoneInv, Scorable

LEMMA SameLinked ==
  ASSUME UNCHANGED <<ledger, pairs, proba>>
  PROVE  Linked' = Linked
  BY FinalFleet DEF Linked, Scorable

LEMMA NextLearn ==
  ASSUME LedgerInv, FoldInv, CoverInv, LearnInv, [Next]_vars
  PROVE  LearnInv'
  <1>1. CASE UNCHANGED <<ledger, pairs, proba, judges>>
    BY <1>1, FinalFleet DEF LearnInv, Scorable
  <1>2. CASE \E r \in Transfers, gap \in Gaps : Observe(r, gap) /\ phase = "observe" /\ UNCHANGED learning
    BY <1>2 DEF FoldInv, NoPairsYet, LearnInv, Scorable, learning
  <1>3. CASE Prepare
    BY <1>3 DEF Prepare, LearnInv, Scorable
  <1>4. CASE Validate
    <2>1. ledger' = ledger /\ pairs' = pairs /\ phase = "validate"
      BY <1>4 DEF Validate
    <2>2. Defined /\ Defined' = Defined /\ Scorable' = Scorable
      BY <2>1, FinalFleet DEF CoverInv, Scorable
    <2>3. judges' = [p \in Scorable |-> IF p \in Holdout(cell) THEN judges[p] \cup {cell}
                                                               ELSE judges[p]]
      BY <1>4 DEF Validate
    <2>4. \A p \in Scorable : p \notin Holdout(cell) => proba'[p] = proba[p]
      BY <1>4 DEF Validate
    <2> QED
      BY <2>2, <2>3, <2>4 DEF LearnInv
  <1>5. CASE SkipCell \/ Unite
    BY <1>1, <1>5 DEF SkipCell, Unite
  <1>6. CASE Cluster /\ UNCHANGED <<pairs, cell, proba, judges>>
    <2>1. ledger' = ledger
      BY <1>6 DEF Cluster, StartClustering, NextHeuristic, UnionLink
    <2> QED
      BY <1>1, <1>6, <2>1
  <1>7. CASE UNCHANGED vars
    BY <1>1, <1>7 DEF vars, learning
  <1> QED
    BY <1>2, <1>3, <1>4, <1>5, <1>6, <1>7 DEF Next

LEMMA NextDone ==
  ASSUME LedgerInv, CoverInv, DoneInv, [Next]_vars
  PROVE  DoneInv'
  <1>1. CASE UNCHANGED vars
    <2>1. UNCHANGED <<ledger, pairs, proba>> /\ phase' = phase /\ class' = class
      BY <1>1 DEF vars, learning
    <2>2. Linked' = Linked
      BY <2>1, SameLinked
    <2> QED
      BY <2>1, <2>2 DEF DoneInv
  <1>2. CASE Unite
    <2>1. UNCHANGED <<ledger, pairs, proba>> /\ phase = "unite"
      BY <1>2 DEF Unite
    <2>2. Linked' = Linked
      BY <2>1, SameLinked
    <2>3. /\ IsFiniteSet(Owned(ledger)) /\ Owned(ledger) \subseteq Account
          /\ Scorable = OwnedPairs
      BY <2>1, OwnedFacts DEF CoverInv
    <2>4. \A p \in Scorable : \E a, b \in Owned(ledger) : p = {a, b}
      BY <2>3 DEF OwnedPairs
    <2>5. Linked \subseteq SUBSET Owned(ledger) /\ ArePairs(Linked)
      BY <2>3, <2>4 DEF Linked, ArePairs
    <2>6. IsFiniteSet(Linked)
      BY <2>3, <2>5, FS_SUBSET, FS_Subset
    <2> DEFINE f == CHOOSE f : United(f, Linked)
    <2>7. United(f, Linked)
      BY <2>6, UnitedExists
    <2>8. class' = f[Linked]
      BY <1>2, UniteUnites
    <2> HIDE DEF f
    <2>9. Clusters(f[Linked], Linked)
      BY <2>5, <2>6, <2>7, UnitedClusters
    <2> QED
      BY <2>2, <2>8, <2>9 DEF DoneInv
  <1>3. CASE phase' # "done"
    BY <1>3 DEF DoneInv
  <1> QED
    <2>1. Prepare \/ Validate \/ SkipCell => phase' # "done"
      BY DEF Prepare, Validate, SkipCell, NextCell
    <2>2. CASE \E r \in Transfers, gap \in Gaps : Observe(r, gap) /\ phase = "observe" /\ UNCHANGED learning
      BY <2>2, <1>3 DEF learning
    <2> QED
      BY <1>1, <1>2, <1>3, <2>1, <2>2 DEF Next

LEMMA ClustersSuffice ==
  ASSUME NEW cl, NEW links, Clusters(cl, links),
         \A l \in links : \E a, b \in Account : l = {a, b}
  PROVE  LET clusters == {cl[a] : a \in Account}
         IN /\ \A a \in Account : a \in cl[a] /\ \A b \in cl[a] : cl[b] = cl[a]
            /\ \A l \in links : \E k \in clusters : l \subseteq k
            /\ \A k \in clusters : \A part \in (SUBSET k) \ {{}, k} :
                 \E l \in links : l \cap part # {} /\ l \cap (k \ part) # {}
  <1>1. /\ \A a \in Account : a \in cl[a] /\ cl[a] \subseteq Account
        /\ \A a \in Account : \A b \in cl[a] : cl[b] = cl[a]
    BY DEF Clusters, IsClassing
  <1>2. ASSUME NEW l \in links PROVE \E k \in {cl[a] : a \in Account} : l \subseteq k
    <2>1. PICK a \in Account, b \in Account : l = {a, b}
      OBVIOUS
    <2>2. cl[a] = cl[b]
      BY <2>1 DEF Clusters
    <2>3. a \in cl[a] /\ b \in cl[a]
      BY <1>1, <2>2
    <2> QED
      BY <2>1, <2>3
  <1>3. ASSUME NEW k \in {cl[a] : a \in Account}, NEW part \in (SUBSET k) \ {{}, k}
        PROVE  \E l \in links : l \cap part # {} /\ l \cap (k \ part) # {}
    <2>1. PICK a \in Account : k = cl[a]
      OBVIOUS
    <2>2. PICK x \in part, y \in k \ part : {x, y} \in links
      BY <2>1 DEF Clusters, Generated
    <2>3. x \in {x, y} \cap part /\ y \in {x, y} \cap (k \ part)
      OBVIOUS
    <2> QED
      BY <2>2, <2>3
  <1> QED
    BY <1>1, <1>2, <1>3

(* The clusters of cluster and of ml_attribution are the equivalence that  *)
(* their evidence generates, in whatever order the links are unioned.  A   *)
(* threshold of zero would unite the pairs that no cell scored, too        *)
(* (ml.rs:531); the default is one half.                                   *)
THEOREM ClustersAreGenerated ==
  ASSUME Threshold > 0
  PROVE  Spec => []ClustersAreEvidence
  <1> DEFINE Inv == LedgerInv /\ FoldInv /\ CellInv /\ CoverInv /\ RulesInv /\ LearnInv /\ DoneInv
  <1>1. Init => Inv
    BY LedgerKept, InitFolds, InitCells, InitCover, InitRules, InitLearn
  <1>2. Inv /\ [Next]_vars => Inv'
    BY LedgerKept, NextFolds, NextCells, NextCover, NextRules, NextLearn, NextDone
  <1>3. Inv => ClustersAreEvidence
    <2>1. SUFFICES ASSUME Inv, Scored \/ phase = "done"
                   PROVE  Clusters(class, Links) /\ \A l \in Links : \E a, b \in Account : l = {a, b}
      BY ClustersSuffice DEF ClustersAreEvidence
    <2>2. IsLedger(ledger)
      BY <2>1 DEF LedgerInv, IsLedger
    <2>3. CASE phase = "done"
      <3>1. Links = Linked
        <4>1. ASSUME NEW p \in Scorable
              PROVE  (judges[p] # {} /\ proba[p] >= Threshold)
                       <=> (Defined /\ proba[p] >= Threshold)
          <5>1. Threshold \in Nat /\ ~(0 >= Threshold)
            BY ConfigAssumption
          <5> QED
            BY <2>1, <5>1 DEF LearnInv
        <4> QED
          BY <2>3, <4>1 DEF Links, Linked
      <3>2. Clusters(class, Links)
        BY <2>1, <2>3, <3>1 DEF DoneInv
      <3>3. Owned(ledger) \subseteq Account /\ Scorable = OwnedPairs
        BY <2>1, <2>3, OwnedFacts DEF CoverInv
      <3> QED
        BY <3>1, <3>2, <3>3 DEF Linked, OwnedPairs
    <2>4. CASE phase # "done"
      <3>1. stage = 8 /\ todo = {} /\ Len(Heuristics) = 8
        BY <2>1, <2>4, HeuristicsCount DEF Scored
      <3>2. Underway /\ IsClassing(class)
        BY <2>1, <2>4, <3>1 DEF RulesInv
      <3>3. Links = LinksUpTo(8)
        <4>1. Range(Heuristics) = {Heuristics[h] : h \in 1..8}
          BY HeuristicsCount DEF Range
        <4>2. UNION {LinksOf(cfg, ledger, h) : h \in Range(Heuristics)} = UNION {Rule(h) : h \in 1..8}
          BY <4>1 DEF Rule
        <4> QED
          BY <2>4, <4>2 DEF Links, LinksUpTo
      <3>4. \A h \in 1..8 : Rule(h) \subseteq Account \X Account
        BY <2>2, LinksTyped, HeuristicsCount DEF Rule
      <3>5. \A l \in Links : \E h \in 1..8 : \E m \in Rule(h) : l = {m[1], m[2]}
        BY <3>3 DEF LinksUpTo
      <3>6. \A l \in Links : \E a, b \in Account : l = {a, b} /\ class[a] = class[b]
        <4>1. SUFFICES ASSUME NEW l \in Links
                       PROVE  \E a, b \in Account : l = {a, b} /\ class[a] = class[b]
          OBVIOUS
        <4>2. PICK h \in 1..8 : \E m \in Rule(h) : l = {m[1], m[2]}
          BY <3>5
        <4>3. PICK m \in Rule(h) : l = {m[1], m[2]}
          BY <4>2
        <4>4. class[m[1]] = class[m[2]]
          BY <3>1, <3>2 DEF Underway
        <4>5. m[1] \in Account /\ m[2] \in Account
          BY <3>4
        <4> QED
          BY <4>3, <4>4, <4>5
      <3>7. Generated(class, Links)
        BY <3>1, <3>2, <3>3 DEF Underway
      <3>8. \A l \in Links : \A x, y \in l : class[x] = class[y]
        BY <3>6
      <3> QED
        BY <3>2, <3>6, <3>7, <3>8 DEF Clusters
    <2> QED
      BY <2>3, <2>4
  <1>4. QED
    BY <1>1, <1>2, <1>3, PTL DEF Spec

-----------------------------------------------------------------------------
(* The wins that AucCountsWins counts.                                     *)
WinOf(score, couple) ==
  CASE score[couple[1]] > score[couple[2]] -> 2
    [] score[couple[1]] = score[couple[2]] -> 1
    [] OTHER -> 0
WinsIn(score, P, N) == SumFunction([couple \in P \X N |-> WinOf(score, couple)])

LEMMA RankSumCountsWins ==
  ASSUME NEW D, IsFiniteSet(D), NEW P, P \subseteq D,
         NEW score, DOMAIN score = D, \A x \in D : score[x] \in Int
  PROVE  TwiceU(score, P) = WinsIn(score, P, D \ P)
  <1> DEFINE g == [x \in P |-> TwiceRank(score, x)]
             w == [couple \in P \X (D \ P) |-> WinOf(score, couple)]
  <1>1. \A x \in P : g[x] = Ranks(score, D, x)
    BY DEF TwiceRank, Ranks, Lower, NotHigher
  <1>2. \A x \in P : \A z \in D \ P : w[<<x, z>>] = Adds(score, z, x)
    <2>1. SUFFICES ASSUME NEW x \in P, NEW z \in D \ P PROVE w[<<x, z>>] = Adds(score, z, x)
      OBVIOUS
    <2>2. w[<<x, z>>] = WinOf(score, <<x, z>>)
      OBVIOUS
    <2>3. score[x] \in Int /\ score[z] \in Int
      OBVIOUS
    <2> HIDE DEF w
    <2> QED
      BY <2>2, <2>3 DEF WinOf, Adds
  <1>3. SumFunction(g) = SumOf(g, P) /\ SumFunction(w) = SumOf(w, P \X (D \ P))
    BY DEF SumFunction, SumOf
  <1> HIDE DEF g, w
  <1>4. SumOf(g, P) - Cardinality(P) * (Cardinality(P) + 1) = SumOf(w, P \X (D \ P))
    BY <1>1, <1>2, RankSum
  <1> QED
    BY <1>3, <1>4 DEF TwiceU, WinsIn, g, w

-----------------------------------------------------------------------------
(* Every feature is an integer.                                            *)
LEMMA ExtremesExist ==
  ASSUME NEW S \in SUBSET Int, IsFiniteSet(S), S # {}
  PROVE  Min(S) \in S /\ Max(S) \in S
         /\ (\A x \in S : Min(S) <= x) /\ (\A x \in S : x <= Max(S))
  <1> DEFINE Bad == {t \in SUBSET S : t # {} /\ ~((\E x \in t : \A y \in t : x <= y)
                                                  /\ \E x \in t : \A y \in t : x >= y)}
  <1>1. ASSUME Bad # {} PROVE FALSE
    <2>1. PICK t \in Bad : \A x \in t : t \ {x} \notin Bad
      <3>1. Bad \subseteq SUBSET S
        OBVIOUS
      <3> HIDE DEF Bad
      <3> QED
        BY <1>1, <3>1, FewestElements
    <2>2. PICK a \in t : TRUE
      OBVIOUS
    <2>3. CASE t \ {a} = {}
      BY <2>1, <2>2, <2>3
    <2>4. CASE t \ {a} # {}
      <3>1. t \ {a} \notin Bad /\ t \ {a} \in SUBSET S
        BY <2>1, <2>2
      <3>2. PICK lo \in t \ {a} : \A y \in t \ {a} : lo <= y
        BY <2>4, <3>1
      <3>3. PICK hi \in t \ {a} : \A y \in t \ {a} : hi >= y
        BY <2>4, <3>1
      <3>4. t \subseteq Int
        BY <2>1
      <3>5. \E x \in t : \A y \in t : x <= y
        <4>1. CASE a <= lo
          BY <2>2, <3>2, <3>4, <4>1
        <4>2. CASE ~(a <= lo)
          BY <2>2, <3>2, <3>4, <4>2
        <4> QED
          BY <4>1, <4>2
      <3>6. \E x \in t : \A y \in t : x >= y
        <4>1. CASE a >= hi
          BY <2>2, <3>3, <3>4, <4>1
        <4>2. CASE ~(a >= hi)
          BY <2>2, <3>3, <3>4, <4>2
        <4> QED
          BY <4>1, <4>2
      <3> QED
        BY <2>1, <3>5, <3>6
    <2> QED
      BY <2>3, <2>4
  <1>2. (\E x \in S : \A y \in S : x <= y) /\ \E x \in S : \A y \in S : x >= y
    BY <1>1
  <1>3. Min(S) \in S /\ \A x \in S : Min(S) <= x
    BY <1>2 DEF Min
  <1>4. Max(S) \in S /\ \A x \in S : Max(S) >= x
    BY <1>2 DEF Max
  <1> QED
    BY <1>3, <1>4

LEMMA ShareTyped ==
  ASSUME NEW n \in Int, NEW d \in Nat
  PROVE  Share(n, d) \in Int
  <1>1. CASE d = 0
    BY <1>1 DEF Share
  <1>2. CASE d # 0
    <2>1. n * Unit \in Int
      BY DEF Unit
    <2> QED
      BY <1>2, <2>1 DEF Share
  <1> QED
    BY <1>1, <1>2

LEMMA JaccardTyped ==
  ASSUME NEW S, IsFiniteSet(S), NEW T, IsFiniteSet(T)
  PROVE  Jaccard(S, T) \in Int
  <1>1. IsFiniteSet(S \cap T) /\ IsFiniteSet(S \cup T)
    BY FS_Intersection, FS_Union
  <1>2. Cardinality(S \cap T) \in Nat /\ Cardinality(S \cup T) \in Nat
    BY <1>1, FS_CardinalityType
  <1> QED
    BY <1>2, ShareTyped DEF Jaccard

(* What an account did is finitely much, whichever account it is.          *)
LEMMA DeedsFinite ==
  ASSUME NEW l, IsLedger(l), NEW a
  PROVE  /\ IsFiniteSet(PayersFor(l, a)) /\ IsFiniteSet(DestsFrom(l, a))
         /\ IsFiniteSet(TimesOf(l, a)) /\ TimesOf(l, a) \subseteq Int
         /\ IsFiniteSet(DOMAIN l) /\ IsFiniteSet(DestsOf(l)) /\ IsFiniteSet(FundingEdges(l))
  <1>1. Len(l) \in Nat /\ DOMAIN l = 1..Len(l) /\ \A i \in 1..Len(l) : l[i].ts \in Int
    BY LedgerShape
  <1>2. IsFiniteSet(DOMAIN l)
    BY <1>1, FS_Interval
  <1>3. Records(l) = {l[i] : i \in DOMAIN l}
    BY DEF Records, Range
  <1>4. \A S, f : f \in Surjection(DOMAIN l, S) => IsFiniteSet(S)
    BY <1>2, FS_Surjection
  <1>5. ASSUME NEW S, NEW f, \A y \in S : \E i \in DOMAIN l : f[i] = y PROVE IsFiniteSet(S)
    <2> DEFINE D == {i \in DOMAIN l : f[i] \in S}
               h == [i \in D |-> f[i]]
    <2>1. IsFiniteSet(D)
      BY <1>2, FS_Subset
    <2>2. h \in Surjection(D, S)
      BY <1>5 DEF Surjection
    <2> QED
      BY <2>1, <2>2, FS_Surjection
  <1>6. IsFiniteSet(PayersFor(l, a))
    <2> DEFINE f == [i \in DOMAIN l |-> l[i].fee]
    <2>1. \A y \in PayersFor(l, a) : \E i \in DOMAIN l : f[i] = y
      BY <1>3 DEF PayersFor
    <2> QED
      BY <1>5, <2>1
  <1>7. IsFiniteSet(DestsFrom(l, a)) /\ IsFiniteSet(DestsOf(l))
    <2> DEFINE f == [i \in DOMAIN l |-> l[i].dst]
    <2>1. \A y \in DestsFrom(l, a) : \E i \in DOMAIN l : f[i] = y
      BY <1>3 DEF DestsFrom
    <2>2. \A y \in DestsOf(l) : \E i \in DOMAIN l : f[i] = y
      BY <1>3 DEF DestsOf
    <2> QED
      BY <1>5, <2>1, <2>2
  <1>8. IsFiniteSet(TimesOf(l, a)) /\ TimesOf(l, a) \subseteq Int
    <2> DEFINE f == [i \in DOMAIN l |-> l[i].ts]
    <2>1. \A y \in TimesOf(l, a) : \E i \in DOMAIN l : f[i] = y
      BY <1>3 DEF TimesOf
    <2>2. \A i \in DOMAIN l : f[i] \in Int
      BY <1>1
    <2> QED
      BY <1>5, <2>1, <2>2
  <1>9. IsFiniteSet(FundingEdges(l))
    <2> DEFINE f == [i \in DOMAIN l |-> <<l[i].src, l[i].dst>>]
    <2>1. \A y \in FundingEdges(l) : \E i \in DOMAIN l : f[i] = y
      BY <1>3 DEF FundingEdges
    <2> QED
      BY <1>5, <2>1
  <1> QED
    BY <1>2, <1>6, <1>7, <1>8, <1>9

LEMMA SpanTyped ==
  ASSUME NEW l, IsLedger(l), NEW a
  PROVE  SpanOf(l, a).from \in Int /\ SpanOf(l, a).to \in Int
  <1>1. IsFiniteSet(TimesOf(l, a)) /\ TimesOf(l, a) \subseteq Int
    BY DeedsFinite
  <1>2. CASE TimesOf(l, a) = {}
    BY <1>2 DEF SpanOf
  <1>3. CASE TimesOf(l, a) # {}
    <2>1. Min(TimesOf(l, a)) \in Int /\ Max(TimesOf(l, a)) \in Int
      BY <1>1, <1>3, ExtremesExist
    <2> QED
      BY <1>3, <2>1 DEF SpanOf
  <1> QED
    BY <1>2, <1>3

LEMMA OverlapTyped ==
  ASSUME NEW s, NEW t, s.from \in Int, s.to \in Int, t.from \in Int, t.to \in Int
  PROVE  Overlap(s, t) \in Int
  <1>1. ASSUME NEW x \in Int, NEW y \in Int
        PROVE  Min({x, y}) \in Int /\ Max({x, y}) \in Int /\ Max({x, y}) >= y
    <2>1. {x, y} \in SUBSET Int /\ {x, y} = {x} \cup {y} /\ {x, y} # {}
      OBVIOUS
    <2>2. IsFiniteSet({x, y})
      <3> DEFINE S == {x}
                 T == {y}
      <3>1. IsFiniteSet(S) /\ IsFiniteSet(T) /\ {x, y} = S \cup T
        BY FS_Singleton
      <3> HIDE DEF S, T
      <3>2. IsFiniteSet(S \cup T)
        BY <3>1, FS_Union
      <3> QED
        BY <3>1, <3>2
    <2>3. Min({x, y}) \in {x, y} /\ Max({x, y}) \in {x, y} /\ y <= Max({x, y})
      BY <2>1, <2>2, ExtremesExist
    <2> QED
      BY <2>3
  <1> DEFINE lo == Max({s.from, t.from})
             hi == Min({s.to, t.to})
             first == Min({s.from, t.from})
             last == Max({s.to, t.to})
  <1>2. lo \in Int /\ hi \in Int /\ first \in Int /\ last \in Int
    BY <1>1
  <1> HIDE DEF lo, hi, first, last
  <1>3. Max({last - first, 1}) \in Int /\ Max({last - first, 1}) >= 1
    BY <1>1, <1>2
  <1>4. NonNegative(hi - lo) \in Int
    BY <1>2 DEF NonNegative
  <1>5. Share(NonNegative(hi - lo), Max({last - first, 1})) \in Int
    BY <1>3, <1>4, ShareTyped
  <1> QED
    BY <1>5 DEF Overlap, lo, hi, first, last

LEMMA GroupsFinite ==
  ASSUME NEW l, IsLedger(l), NEW w
  PROVE  IsFiniteSet(BurstGroups(l)) /\ IsFiniteSet(WindowGroups(l, w))
  <1>1. IsFiniteSet(DOMAIN l)
    BY DeedsFinite
  <1>2. IsFiniteSet(SUBSET (DOMAIN l))
    BY <1>1, FS_SUBSET
  <1>3. BurstGroups(l) \subseteq SUBSET (DOMAIN l)
    BY BurstFacts DEF Parts
  <1>4. WindowGroups(l, w) \subseteq SUBSET (DOMAIN l)
    <2>1. Parts(ProximityRuns(l, DOMAIN l, w), DOMAIN l)
      BY RunsPart
    <2> QED
      BY <2>1 DEF Parts, WindowGroups
  <1> QED
    BY <1>2, <1>3, <1>4, FS_Subset

LEMMA FeaturesTyped ==
  ASSUME NEW l, IsLedger(l), NEW c, NEW p
  PROVE  \A f \in 1..8 : Vector(c, l, p)[f] \in Int
  <1>1. ASSUME NEW S, IsFiniteSet(S), NEW T, T \subseteq S PROVE Cardinality(T) \in Int
    <2>1. IsFiniteSet(T)
      BY <1>1, FS_Subset
    <2> QED
      BY <2>1, FS_CardinalityType
  <1>2. IsFiniteSet(DOMAIN l) /\ IsFiniteSet(FundingEdges(l)) /\ IsFiniteSet(DestsOf(l))
    BY DeedsFinite
  <1>3. \A a, b : Jaccard(PayersFor(l, a), PayersFor(l, b)) \in Int
    BY DeedsFinite, JaccardTyped
  <1>4. \A a, b : Jaccard(DestsFrom(l, a), DestsFrom(l, b)) \in Int
    BY DeedsFinite, JaccardTyped
  <1>5. Coburst(l, p) \in Int
    <2>1. IsFiniteSet(BurstGroups(l))
      BY GroupsFinite
    <2> DEFINE T == {g \in BurstGroups(l) : p \subseteq SourcesOf(l, g)}
    <2>2. T \subseteq BurstGroups(l)
      OBVIOUS
    <2> HIDE DEF T
    <2>3. Cardinality(T) \in Int
      BY <1>1, <2>1, <2>2
    <2> QED
      BY <2>3 DEF Coburst, T
  <1>6. WindowedCopay(c, l, p) \in Int
    <2> DEFINE S == WindowGroups(l, c.window) \X DestsOf(l)
               T == {x \in S : p \subseteq SourcesOf(l, {i \in x[1] : l[i].dst = x[2]})}
    <2>1. IsFiniteSet(WindowGroups(l, c.window))
      BY GroupsFinite
    <2>2. IsFiniteSet(S)
      BY <1>2, <2>1, FS_Product
    <2>3. T \subseteq S
      OBVIOUS
    <2>4. WindowedCopay(c, l, p) = Cardinality(T)
      BY DEF WindowedCopay
    <2> HIDE DEF S, T
    <2> QED
      BY <1>1, <2>2, <2>3, <2>4
  <1>7. FundingHop(l, p) \in Int
    <2> DEFINE E == FundingEdges(l)
               F == {e[1] : e \in E}
               k == [e \in E |-> e[1]]
               Fundees(f) == {e[2] : e \in {x \in E : x[1] = f}}
               Served(f) == {r.src : r \in {q \in Records(l) : q.fee # q.src /\ q.fee \in Fundees(f)}}
               T == {f \in F : p \subseteq Served(f)}
    <2>1. k \in Surjection(E, F)
      BY DEF Surjection
    <2>2. IsFiniteSet(F)
      BY <1>2, <2>1, FS_Surjection
    <2>3. T \subseteq F
      OBVIOUS
    <2>4. FundingHop(l, p) = Cardinality(T)
      BY DEF FundingHop
    <2> HIDE DEF E, F, k, T
    <2> QED
      BY <1>1, <2>2, <2>3, <2>4
  <1>8. Activations(c, l, p) \in Int
    <2> DEFINE T == {i \in DOMAIN l :
                       LET r == l[i]
                       IN /\ MovesValue(r) /\ {r.src, r.dst} = p
                          /\ TimesOf(l, r.dst) # {}
                          /\ Min(TimesOf(l, r.dst)) - r.ts \in 0..NonNegative(c.lineageWindow)}
    <2>1. T \subseteq DOMAIN l
      OBVIOUS
    <2>2. Activations(c, l, p) = Cardinality(T)
      BY DEF Activations
    <2> HIDE DEF T
    <2> QED
      BY <1>1, <1>2, <2>1, <2>2
  <1>9. Peels(c, l, p) \in Int
    <2> DEFINE S == (DOMAIN l) \X (DOMAIN l)
               T == {x \in S :
                      LET in == l[x[1]]
                          out == l[x[2]]
                          gap == IF in.amt > out.amt THEN in.amt - out.amt ELSE out.amt - in.amt
                      IN /\ MovesValue(in) /\ MovesValue(out) /\ out.src = in.dst
                         /\ out.ts \in in.ts..(in.ts + c.peelWindow) /\ in.sig # out.sig
                         /\ gap <= (in.amt * c.toleranceBps) \div 10000
                         /\ in.src # out.dst /\ {in.src, out.dst} = p}
    <2>1. IsFiniteSet(S)
      BY <1>2, FS_Product
    <2>2. T \subseteq S
      OBVIOUS
    <2>3. Peels(c, l, p) = Cardinality(T)
      BY DEF Peels
    <2> HIDE DEF S, T
    <2> QED
      BY <1>1, <2>1, <2>2, <2>3
  <1>10. \A a, b : Overlap(SpanOf(l, a), SpanOf(l, b)) \in Int
    BY SpanTyped, OverlapTyped
  <1> DEFINE a == CHOOSE x \in p : TRUE
             b == CHOOSE x \in p \ {a} : TRUE
             v == <<Jaccard(PayersFor(l, a), PayersFor(l, b)),
                    Jaccard(DestsFrom(l, a), DestsFrom(l, b)),
                    Coburst(l, p), WindowedCopay(c, l, p), FundingHop(l, p),
                    Activations(c, l, p), Peels(c, l, p),
                    Overlap(SpanOf(l, a), SpanOf(l, b))>>
  <1>11. Vector(c, l, p) = v
    BY DEF Vector
  <1> HIDE DEF a, b
  <1>12. \A f \in 1..8 : v[f] \in Int
    BY <1>3, <1>4, <1>5, <1>6, <1>7, <1>8, <1>9, <1>10
  <1> QED
    BY <1>11, <1>12

-----------------------------------------------------------------------------
(* Every pair is one of owned accounts, keeps the features it was formed   *)
(* with and has a score.                                                   *)
ScoreInv ==
  /\ DOMAIN proba = Scorable
  /\ \A p \in Scorable : p \in OwnedPairs /\ pairs[p] = PairRecord(p) /\ proba[p] \in Int

LEMMA InitScores == Init => ScoreInv
  BY DEF Init, ScoreInv, Scorable

LEMMA SameRecords ==
  ASSUME ledger' = ledger
  PROVE  OwnedPairs' = OwnedPairs /\ \A p : PairRecord(p)' = PairRecord(p)
  BY FinalLedger DEF PairRecord, OwnedPairs

LEMMA NextScores ==
  ASSUME FoldInv, ScoreInv, [Next]_vars
  PROVE  ScoreInv'
  <1>1. CASE ledger' = ledger /\ pairs' = pairs /\ proba' = proba
    BY <1>1, SameRecords DEF ScoreInv, Scorable
  <1>2. CASE phase = "observe" /\ pairs' = pairs /\ proba' = proba
    BY <1>2 DEF ScoreInv, FoldInv, NoPairsYet, Scorable
  <1>3. CASE Prepare
    <2>1. /\ ledger' = ledger /\ pairs' = [p \in OwnedPairs |-> PairRecord(p)]
          /\ proba' = [p \in OwnedPairs |-> 0]
      BY <1>3 DEF Prepare
    <2> QED
      BY <2>1, SameRecords DEF ScoreInv, Scorable
  <1>4. CASE Validate
    <2>1. /\ ledger' = ledger /\ pairs' = pairs
      BY <1>4 DEF Validate
    <2>2. PICK test \in {Holdout(cell)} : \E model \in [{pairs[p].x : p \in test} -> Scores] :
            proba' = [p \in Scorable |-> IF p \in test THEN model[pairs[p].x] ELSE proba[p]]
      BY <1>4 DEF Validate
    <2>3. PICK model \in [{pairs[p].x : p \in test} -> Scores] :
            proba' = [p \in Scorable |-> IF p \in test THEN model[pairs[p].x] ELSE proba[p]]
      BY <2>2
    <2>4. DOMAIN proba' = Scorable
      BY <2>3
    <2>5. \A p \in Scorable : proba'[p] \in Int
      <3>1. Scores \subseteq Int
        BY ConfigAssumption
      <3> QED
        BY <2>3, <3>1 DEF ScoreInv
    <2> QED
      BY <2>1, <2>4, <2>5, SameRecords DEF ScoreInv, Scorable
  <1>5. \/ ledger' = ledger /\ pairs' = pairs /\ proba' = proba
        \/ phase = "observe" /\ pairs' = pairs /\ proba' = proba
        \/ Prepare \/ Validate
    BY DEF Next, vars, learning, Cluster, StartClustering, NextHeuristic, UnionLink, SkipCell, Unite
  <1> QED
    BY <1>1, <1>2, <1>3, <1>4, <1>5

(* What ml_attribution reports as the ROC AUC, from the rank sum of the    *)
(* positives with ties averaged, is the share of the couples that the      *)
(* score puts in the right order: of the pooled scores and of every single *)
(* feature, for every ledger and whatever the models answer.               *)
THEOREM AucIsShareOfWins == Spec => []AucCountsWins
  <1> DEFINE Inv == LedgerInv /\ FoldInv /\ CellInv /\ CoverInv /\ ScoreInv
  <1>1. Init => Inv
    BY LedgerKept, InitFolds, InitCells, InitCover, InitScores
  <1>2. Inv /\ [Next]_vars => Inv'
    BY LedgerKept, NextFolds, NextCells, NextCover, NextScores
  <1>3. Inv => AucCountsWins
    <2>1. SUFFICES ASSUME Inv, phase = "done"
                   PROVE  /\ TwiceU(proba, Positive) = WinsIn(proba, Positive, Scorable \ Positive)
                          /\ \A f \in DOMAIN FeatureNames :
                               LET score == [p \in Scorable |-> pairs[p].x[f]]
                               IN TwiceU(score, Positive) = WinsIn(score, Positive, Scorable \ Positive)
      BY DEF AucCountsWins, WinsIn, WinOf
    <2>2. IsLedger(ledger)
      BY <2>1 DEF LedgerInv, IsLedger
    <2>3. IsFiniteSet(Scorable)
      <3>1. IsFiniteSet(SUBSET Owned(ledger))
        BY <2>1, OwnedFacts, FS_SUBSET
      <3>2. Scorable \subseteq SUBSET Owned(ledger)
        BY <2>1 DEF CoverInv, OwnedPairs
      <3> QED
        BY <3>1, <3>2, FS_Subset
    <2>4. Positive \subseteq Scorable
      BY DEF Positive
    <2>5. TwiceU(proba, Positive) = WinsIn(proba, Positive, Scorable \ Positive)
      <3>1. \A p \in Scorable : proba[p] \in Int
        BY <2>1 DEF ScoreInv
      <3>2. DOMAIN proba = Scorable
        BY <2>1 DEF ScoreInv
      <3> QED
        BY <2>3, <2>4, <3>1, <3>2, RankSumCountsWins
    <2>6. ASSUME NEW f \in DOMAIN FeatureNames
          PROVE  LET score == [p \in Scorable |-> pairs[p].x[f]]
                 IN TwiceU(score, Positive) = WinsIn(score, Positive, Scorable \ Positive)
      <3> DEFINE score == [p \in Scorable |-> pairs[p].x[f]]
      <3>1. f \in 1..8
        BY DEF FeatureNames
      <3>2. \A p \in Scorable : pairs[p].x = Vector(Windows, ledger, p)
        <4>1. \A p : PairRecord(p).x = Vector(Windows, ledger, p)
          BY DEF PairRecord
        <4>2. \A p \in Scorable : pairs[p] = PairRecord(p)
          BY <2>1 DEF ScoreInv
        <4> QED
          BY <4>1, <4>2
      <3>3. \A p \in Scorable : score[p] \in Int
        BY <2>2, <3>1, <3>2, FeaturesTyped
      <3>4. DOMAIN score = Scorable
        OBVIOUS
      <3> HIDE DEF score
      <3>5. TwiceU(score, Positive) = WinsIn(score, Positive, Scorable \ Positive)
        BY <2>3, <2>4, <3>3, <3>4, RankSumCountsWins
      <3> QED
        BY <3>5 DEF score
    <2> QED
      BY <2>5, <2>6
  <1>4. QED
    BY <1>1, <1>2, <1>3, PTL DEF Spec

-----------------------------------------------------------------------------
(* Pairs of what a function does not tell apart.                           *)
Together(S, f) == {p \in Couples(S) : \A a, b \in p : f[a] = f[b]}
BlockOf(S, f, a) == {b \in S : f[a] = f[b]}
Blocks(S, f) == {BlockOf(S, f, a) : a \in S}

LEMMA PairsAreCouples ==
  ASSUME NEW S, IsFiniteSet(S)
  PROVE  Pairs(Cardinality(S)) = Cardinality(Couples(S))
  <1> DEFINE k == Cardinality(S)
             c == Cardinality(Couples(S))
  <1>1. k \in Nat /\ c \in Nat /\ 2 * c = k * (k - 1)
    BY CouplesCount, FS_CardinalityType
  <1> HIDE DEF k, c
  <1>2. k * NonNegative(k - 1) = 2 * c
    <2>1. CASE k = 0
      BY <1>1, <2>1 DEF NonNegative
    <2>2. CASE k = 1
      BY <1>1, <2>2 DEF NonNegative
    <2>3. CASE k > 1
      <3>1. NonNegative(k - 1) = k - 1
        BY <1>1, <2>3 DEF NonNegative
      <3> QED
        BY <1>1, <3>1
    <2> QED
      BY <1>1, <2>1, <2>2, <2>3
  <1>3. (2 * c) \div 2 = c
    BY <1>1
  <1> QED
    BY <1>2, <1>3 DEF Pairs, k, c

(* A couple has two members, and is the couple of any two of them.         *)
LEMMA CoupleMembers ==
  ASSUME NEW S, IsFiniteSet(S), NEW p \in Couples(S)
  PROVE  \E a, b \in S : a # b /\ p = {a, b}
  <1>1. p \subseteq S /\ Cardinality(p) = 2
    BY DEF Couples
  <1>2. IsFiniteSet(p)
    BY <1>1, FS_Subset
  <1>3. PICK a, b : a # b /\ p = {a, b}
    BY <1>1, <1>2, Doubletons
  <1> QED
    BY <1>1, <1>3

LEMMA BlocksFinite ==
  ASSUME NEW S, IsFiniteSet(S), NEW f
  PROVE  /\ IsFiniteSet(Blocks(S, f)) /\ Blocks(S, f) \subseteq SUBSET S
         /\ \A B \in Blocks(S, f) : IsFiniteSet(B) /\ Cardinality(B) \in Nat
  <1>1. Blocks(S, f) \subseteq SUBSET S
    BY DEF Blocks, BlockOf
  <1>2. IsFiniteSet(Blocks(S, f))
    BY <1>1, FS_SUBSET, FS_Subset
  <1>3. \A B \in Blocks(S, f) : IsFiniteSet(B)
    BY <1>1, FS_Subset
  <1> QED
    BY <1>1, <1>2, <1>3, FS_CardinalityType

LEMMA BlocksCountTogether ==
  ASSUME NEW S, IsFiniteSet(S), NEW f
  PROVE  PairsWithin(Blocks(S, f)) = Cardinality(Together(S, f))
  <1> DEFINE K == Blocks(S, f)
             g == [B \in K |-> Pairs(Cardinality(B))]
             F == [B \in K |-> Couples(B)]
  <1>1. IsFiniteSet(K) /\ \A B \in K : IsFiniteSet(B) /\ B \subseteq S
    BY BlocksFinite
  <1>2. PairsWithin(K) = SumOf(g, K)
    BY DEF PairsWithin, SumFunction, SumOf
  <1>3. \A B \in K : IsFiniteSet(F[B]) /\ g[B] = Cardinality(F[B])
    BY <1>1, CouplesCount, PairsAreCouples
  <1>4. ASSUME NEW B \in K, NEW C \in K, NEW a \in B, a \in C PROVE B = C
    BY <1>4 DEF Blocks, BlockOf
  <1>5. \A B, C \in K : B # C => F[B] \cap F[C] = {}
    <2>1. SUFFICES ASSUME NEW B \in K, NEW C \in K, NEW p, p \in Couples(B), p \in Couples(C)
                   PROVE  B = C
      OBVIOUS
    <2>2. PICK a, b \in B : a # b /\ p = {a, b}
      BY <1>1, <2>1, CoupleMembers
    <2>3. a \in C
      BY <2>1, <2>2 DEF Couples
    <2> QED
      BY <2>2, <2>3, <1>4
  <1>6. UNION {F[B] : B \in K} = Together(S, f)
    <2>1. ASSUME NEW B \in K, NEW p \in Couples(B) PROVE p \in Together(S, f)
      BY <1>1, <2>1 DEF Together, Couples, Blocks, BlockOf
    <2>2. ASSUME NEW p \in Together(S, f) PROVE \E B \in K : p \in Couples(B)
      <3>1. p \in Couples(S) /\ \A a, b \in p : f[a] = f[b]
        BY DEF Together
      <3>2. PICK a, b \in S : a # b /\ p = {a, b}
        BY <3>1, CoupleMembers
      <3>3. BlockOf(S, f, a) \in K
        BY <3>2 DEF Blocks
      <3>4. p \subseteq BlockOf(S, f, a)
        BY <3>1, <3>2 DEF BlockOf
      <3> QED
        BY <3>1, <3>3, <3>4 DEF Couples
    <2> QED
      BY <2>1, <2>2
  <1> HIDE DEF K, g, F
  <1>7. Cardinality(UNION {F[B] : B \in K}) = SumOf(g, K)
    BY <1>1, <1>3, <1>5, CountUnion
  <1> QED
    BY <1>2, <1>6, <1>7 DEF K

LEMMA TogetherFinite ==
  ASSUME NEW S, IsFiniteSet(S), NEW f
  PROVE  /\ IsFiniteSet(Together(S, f)) /\ Cardinality(Together(S, f)) \in Nat
         /\ Cardinality(Together(S, f)) <= Cardinality(Couples(S))
         /\ Cardinality(Together(S, f)) = Cardinality(Couples(S)) => Together(S, f) = Couples(S)
  <1>1. IsFiniteSet(Couples(S)) /\ Together(S, f) \in SUBSET Couples(S)
    BY CouplesCount DEF Together
  <1> QED
    BY <1>1, FS_Subset, FS_CardinalityType

(* One block is as large as the whole iff nothing is told apart.           *)
LEMMA LargestBlock ==
  ASSUME NEW S, IsFiniteSet(S), NEW f
  PROVE  (IF Blocks(S, f) = {} THEN 0 ELSE Max({Cardinality(B) : B \in Blocks(S, f)}))
            = Cardinality(S)
         <=> Cardinality(Together(S, f)) = Cardinality(Couples(S))
  <1> DEFINE K == Blocks(S, f)
             sizes == {Cardinality(B) : B \in K}
  <1>1. IsFiniteSet(K) /\ \A B \in K : IsFiniteSet(B) /\ B \subseteq S /\ Cardinality(B) \in Nat
    BY BlocksFinite
  <1>2. CASE S = {}
    <2>1. K = {} /\ Cardinality(S) = 0
      BY <1>2, FS_EmptySet DEF Blocks
    <2>2. Together(S, f) = Couples(S)
      BY <1>2 DEF Together, Couples
    <2> QED
      BY <2>1, <2>2
  <1>3. CASE S # {}
    <2>1. PICK s \in S : TRUE
      BY <1>3
    <2>2. BlockOf(S, f, s) \in K /\ K # {}
      BY DEF Blocks
    <2>3. Max(sizes) \in sizes /\ \A n \in sizes : n <= Max(sizes)
      <3> DEFINE h == [B \in K |-> Cardinality(B)]
      <3>1. h \in Surjection(K, sizes)
        BY DEF Surjection
      <3>2. IsFiniteSet(sizes)
        BY <1>1, <3>1, FS_Surjection
      <3>3. sizes \in SUBSET Int /\ sizes # {}
        BY <1>1, <2>2
      <3> HIDE DEF sizes
      <3> QED
        BY <3>2, <3>3, ExtremesExist
    <2>4. ASSUME Max(sizes) = Cardinality(S) PROVE Together(S, f) = Couples(S)
      <3>1. PICK B \in K : Cardinality(B) = Cardinality(S)
        BY <2>3, <2>4
      <3>2. B = S
        BY <1>1, <3>1, FS_Subset
      <3>3. \A a, b \in S : f[a] = f[b]
        BY <3>2 DEF Blocks, BlockOf
      <3> QED
        BY <3>3 DEF Together, Couples
    <2>5. ASSUME Together(S, f) = Couples(S) PROVE Max(sizes) = Cardinality(S)
      <3>1. \A a, b \in S : f[a] = f[b]
        <4>1. SUFFICES ASSUME NEW a \in S, NEW b \in S, a # b PROVE f[a] = f[b]
          OBVIOUS
        <4>2. {a, b} \in Couples(S)
          <5> DEFINE p == {a, b}
          <5>1. p \subseteq S /\ \E x, y : x # y /\ p = {x, y}
            BY <4>1
          <5> HIDE DEF p
          <5>2. IsFiniteSet(p)
            BY <5>1, FS_Subset
          <5>3. Cardinality(p) = 2
            BY <5>1, <5>2, Doubletons
          <5> QED
            BY <5>1, <5>3 DEF Couples, p
        <4> QED
          BY <2>5, <4>2 DEF Together
      <3>2. K = {S}
        BY <2>1, <3>1 DEF Blocks, BlockOf
      <3>3. sizes = {Cardinality(S)}
        BY <3>2
      <3> QED
        BY <2>3, <3>3
    <2>6. Together(S, f) = Couples(S) <=> Cardinality(Together(S, f)) = Cardinality(Couples(S))
      BY TogetherFinite
    <2> QED
      BY <2>2, <2>4, <2>5, <2>6
  <1> QED
    BY <1>2, <1>3

-----------------------------------------------------------------------------
(* The contingency table of a clustering counts pairs of accounts, whatever *)
(* the ledger and the order of the links, so that the unsigned differences *)
(* of pairwise_metrics never underflow (metric.rs).                        *)
THEOREM MetricAlwaysCountsPairs == Spec => []MetricCountsPairs
  <1> DEFINE Inv == LedgerInv /\ RulesInv
  <1>1. Init => Inv
    BY LedgerKept, InitRules
  <1>2. Inv /\ [Next]_vars => Inv'
    BY LedgerKept, NextRules
  <1>3. Inv => MetricCountsPairs
    <2>1. SUFFICES ASSUME Inv, Scored PROVE MetricCountsPairs
      BY DEF MetricCountsPairs
    <2> DEFINE O == Owned(ledger)
               own == [a \in O |-> OwnerOf(ledger, a)]
               both == [a \in O |-> <<OwnerOf(ledger, a), class[a]>>]
               windows == WindowGroups(ledger, cfg.window)
    <2>2. IsLedger(ledger) /\ IsFiniteSet(O) /\ O \subseteq Account
      BY <2>1, OwnedFacts DEF LedgerInv, IsLedger
    <2>3. IsClassing(class)
      <3>1. stage # 0 /\ stage = 8
        BY <2>1, HeuristicsCount DEF Scored
      <3>2. phase = "cluster"
        BY <2>1, <3>1 DEF RulesInv
      <3> QED
        BY <2>1, <3>2 DEF RulesInv
    <2>4. \A a, b \in O : b \in class[a] <=> class[a] = class[b]
      BY <2>2, <2>3 DEF IsClassing
    <2> DEFINE couples == {p \in SUBSET O : Cardinality(p) = 2}
               clustered == {p \in couples : \A a, b \in p : b \in class[a]}
               ofOne == {p \in couples : \A a, b \in p : OwnerOf(ledger, a) = OwnerOf(ledger, b)}
    <2>5. couples = Couples(O) /\ \A p \in couples : p \subseteq O
      BY DEF Couples
    <2>6. clustered = Together(O, class)
      BY <2>4, <2>5 DEF Together
    <2>7. ofOne = Together(O, own)
      BY <2>5 DEF Together
    <2>8. clustered \cap ofOne = Together(O, both)
      BY <2>4, <2>5 DEF Together
    <2>9. TruePositives(ledger, class) = PairsWithin(Blocks(O, both))
      <3>1. Blocks(O, both) = {{b \in O : OwnerOf(ledger, a) = OwnerOf(ledger, b) /\ class[a] = class[b]} : a \in O}
        BY DEF Blocks, BlockOf
      <3> QED
        BY <3>1 DEF TruePositives, OwnedBlocks
    <2>10. PredictedPositives(ledger, class) = PairsWithin(Blocks(O, class))
      BY DEF PredictedPositives, OwnedBlocks, Blocks, BlockOf
    <2>11. SameOperatorPairs(ledger) = PairsWithin(Blocks(O, own))
      <3>1. Blocks(O, own) = {{b \in O : OwnerOf(ledger, a) = OwnerOf(ledger, b)} : a \in O}
        BY DEF Blocks, BlockOf
      <3> QED
        BY <3>1 DEF SameOperatorPairs, OwnedBlocks
    <2>12. LargestCluster(ledger, class)
             = IF Blocks(O, class) = {} THEN 0 ELSE Max({Cardinality(B) : B \in Blocks(O, class)})
      BY DEF LargestCluster, OwnedBlocks, Blocks, BlockOf
    <2>13. PurePairs(ledger, windows) <= TotalPairs(ledger, windows)
      <3> DEFINE In(g) == OwnedIn(ledger, g)
                 pure == [g \in windows |-> PairsWithin({{b \in In(g) : OwnerOf(ledger, a) = OwnerOf(ledger, b)} :
                                                          a \in In(g)})]
                 total == [g \in windows |-> Pairs(Cardinality(In(g)))]
      <3>1. IsFiniteSet(windows)
        BY <2>2, GroupsFinite
      <3>2. ASSUME NEW g \in windows
            PROVE  pure[g] \in Int /\ total[g] \in Int /\ pure[g] <= total[g]
        <4> DEFINE T == OwnedIn(ledger, g)
                   f == [a \in T |-> OwnerOf(ledger, a)]
        <4>1. IsFiniteSet(T)
          BY <2>2, FS_Subset DEF OwnedIn
        <4>2. Blocks(T, f) = {{b \in T : OwnerOf(ledger, a) = OwnerOf(ledger, b)} : a \in T}
          BY DEF Blocks, BlockOf
        <4>3. pure[g] = PairsWithin(Blocks(T, f)) /\ total[g] = Pairs(Cardinality(T))
          BY <4>2
        <4> HIDE DEF T, f, pure, total
        <4>4. PairsWithin(Blocks(T, f)) = Cardinality(Together(T, f))
          BY <4>1, BlocksCountTogether
        <4>5. Pairs(Cardinality(T)) = Cardinality(Couples(T)) /\ Cardinality(Couples(T)) \in Nat
          BY <4>1, PairsAreCouples, CouplesCount
        <4>6. Cardinality(Together(T, f)) \in Nat /\ Cardinality(Together(T, f)) <= Cardinality(Couples(T))
          BY <4>1, TogetherFinite
        <4> QED
          BY <4>3, <4>4, <4>5, <4>6
      <3>3. PurePairs(ledger, windows) = SumOf(pure, windows)
        BY DEF PurePairs, SumFunction, SumOf
      <3>4. TotalPairs(ledger, windows) = SumOf(total, windows)
        BY DEF TotalPairs, SumFunction, SumOf
      <3> HIDE DEF pure, total, windows
      <3>5. SumOf(pure, windows) <= SumOf(total, windows)
        BY <3>1, <3>2, SumAtMost
      <3> QED
        BY <3>3, <3>4, <3>5
    <2> HIDE DEF O, own, both, couples, clustered, ofOne, windows
    <2>14. /\ TruePositives(ledger, class) = Cardinality(clustered \cap ofOne)
           /\ PredictedPositives(ledger, class) = Cardinality(clustered)
           /\ SameOperatorPairs(ledger) = Cardinality(ofOne)
      BY <2>2, <2>6, <2>7, <2>8, <2>9, <2>10, <2>11, BlocksCountTogether
    <2>15. /\ Cardinality(clustered \cap ofOne) <= Cardinality(clustered)
           /\ Cardinality(clustered \cap ofOne) <= Cardinality(ofOne)
      <3>1. IsFiniteSet(clustered) /\ IsFiniteSet(ofOne)
        BY <2>2, <2>6, <2>7, TogetherFinite
      <3>2. clustered \cap ofOne \in SUBSET clustered /\ clustered \cap ofOne \in SUBSET ofOne
        OBVIOUS
      <3> QED
        BY <3>1, <3>2, FS_Subset
    <2>16. LargestCluster(ledger, class) = Cardinality(O)
             <=> PredictedPositives(ledger, class) = Pairs(Cardinality(O))
      <3>1. Pairs(Cardinality(O)) = Cardinality(Couples(O))
        BY <2>2, PairsAreCouples
      <3>2. PredictedPositives(ledger, class) = Cardinality(Together(O, class))
        BY <2>6, <2>14
      <3> QED
        BY <2>2, <2>12, <3>1, <3>2, LargestBlock
    <2> QED
      BY <2>13, <2>14, <2>15, <2>16
         DEF MetricCountsPairs, O, couples, clustered, ofOne, windows
  <1>4. QED
    BY <1>1, <1>2, <1>3, PTL DEF Spec

-----------------------------------------------------------------------------
(* Evidence shows in the features.                                         *)
LEMMA PositiveCount ==
  ASSUME NEW S, IsFiniteSet(S), NEW T, T \subseteq S
  PROVE  Cardinality(T) > 0 <=> T # {}
  <1>1. IsFiniteSet(T)
    BY FS_Subset
  <1>2. Cardinality(T) \in Nat /\ (Cardinality(T) = 0 <=> T = {})
    BY <1>1, FS_CardinalityType, FS_EmptySet
  <1> QED
    BY <1>2

(* That p is linked, in one direction or the other.                        *)
LinkedBy(p, links) == \E a, b \in p : a # b /\ <<a, b>> \in links
IsCouple(p) == \E a, b : a # b /\ p = {a, b}

LEMMA LineageShows ==
  ASSUME NEW l, IsLedger(l), NEW c, c.lineageWindow \in Int, NEW p, IsCouple(p)
  PROVE  LinkedBy(p, LineageLinks(c, l)) <=> Activations(c, l, p) > 0
  <1> DEFINE w == NonNegative(c.lineageWindow)
             A == {i \in DOMAIN l :
                     LET r == l[i]
                     IN /\ MovesValue(r) /\ {r.src, r.dst} = p
                        /\ TimesOf(l, r.dst) # {}
                        /\ Min(TimesOf(l, r.dst)) - r.ts \in 0..w}
             In(r) == /\ \E q \in Records(l) : q.src = r.dst /\ q.ts <= r.ts + w
                      /\ \A q \in Records(l) : q.src = r.dst => q.ts >= r.ts
  <1>1. IsFiniteSet(DOMAIN l) /\ A \subseteq DOMAIN l
    BY DeedsFinite
  <1>2. Activations(c, l, p) = Cardinality(A)
    BY DEF Activations
  <1>3. LineageLinks(c, l) = {<<r.src, r.dst>> : r \in {q \in Records(l) : MovesValue(q) /\ In(q)}}
    BY DEF LineageLinks
  <1>4. /\ Records(l) = {l[i] : i \in DOMAIN l}
        /\ \A q \in Records(l) : q.ts \in Int
    BY LedgerShape DEF Records, Range
  <1>5. w \in Nat
    BY DEF NonNegative
  <1>6. \A r \in Records(l) : In(r) <=>
          TimesOf(l, r.dst) # {} /\ Min(TimesOf(l, r.dst)) - r.ts \in 0..w
    <2>1. SUFFICES ASSUME NEW r \in Records(l)
                   PROVE  In(r) <=> TimesOf(l, r.dst) # {} /\ Min(TimesOf(l, r.dst)) - r.ts \in 0..w
      OBVIOUS
    <2> DEFINE T == TimesOf(l, r.dst)
    <2>2. T = {q.ts : q \in {x \in Records(l) : x.src = r.dst}}
      BY DEF TimesOf
    <2>3. IsFiniteSet(T) /\ T \in SUBSET Int
      BY DeedsFinite
    <2>4. T # {} => Min(T) \in T /\ \A x \in T : Min(T) <= x
      BY <2>3, ExtremesExist
    <2>5. In(r) <=> (\E t \in T : t <= r.ts + w) /\ \A t \in T : t >= r.ts
      BY <2>2
    <2> HIDE DEF T, w, In
    <2>6. r.ts \in Int
      BY <1>4
    <2>7. ASSUME In(r) PROVE T # {} /\ Min(T) - r.ts \in 0..w
      <3>1. PICK t \in T : t <= r.ts + w
        BY <2>5, <2>7
      <3>2. Min(T) \in T /\ Min(T) <= t /\ Min(T) >= r.ts
        BY <2>4, <2>5, <2>7, <3>1
      <3>3. t \in Int /\ Min(T) \in Int
        BY <2>3, <3>1, <3>2
      <3> QED
        BY <1>5, <2>6, <3>1, <3>2, <3>3
    <2>8. ASSUME T # {}, Min(T) - r.ts \in 0..w PROVE In(r)
      <3>1. Min(T) \in T /\ Min(T) \in Int /\ \A x \in T : Min(T) <= x /\ x \in Int
        BY <2>3, <2>4, <2>8
      <3>2. Min(T) <= r.ts + w /\ Min(T) >= r.ts
        BY <1>5, <2>6, <2>8, <3>1
      <3>3. \A x \in T : x >= r.ts
        BY <2>6, <3>1, <3>2
      <3> QED
        BY <2>5, <3>1, <3>2, <3>3
    <2> QED
      BY <2>7, <2>8 DEF T
  <1> HIDE DEF w, In
  <1>7. A = {i \in DOMAIN l : MovesValue(l[i]) /\ {l[i].src, l[i].dst} = p /\ In(l[i])}
    BY <1>4, <1>6
  <1> HIDE DEF A
  <1>8. ASSUME LinkedBy(p, LineageLinks(c, l)) PROVE A # {}
    <2>1. PICK a, b \in p : a # b /\ <<a, b>> \in LineageLinks(c, l)
      BY <1>8 DEF LinkedBy
    <2>2. PICK r \in Records(l) : MovesValue(r) /\ In(r) /\ <<a, b>> = <<r.src, r.dst>>
      BY <1>3, <2>1
    <2>3. {r.src, r.dst} = p
      BY <2>1, <2>2 DEF IsCouple
    <2>4. PICK i \in DOMAIN l : l[i] = r
      BY <1>4
    <2> QED
      BY <1>7, <2>2, <2>3, <2>4
  <1>9. ASSUME A # {} PROVE LinkedBy(p, LineageLinks(c, l))
    <2>1. PICK i \in DOMAIN l : MovesValue(l[i]) /\ {l[i].src, l[i].dst} = p /\ In(l[i])
      BY <1>7, <1>9
    <2>2. l[i] \in Records(l) /\ l[i].src # l[i].dst
      BY <1>4, <2>1 DEF MovesValue
    <2>3. <<l[i].src, l[i].dst>> \in LineageLinks(c, l)
      BY <1>3, <2>1, <2>2
    <2>4. l[i].src \in p /\ l[i].dst \in p
      BY <2>1
    <2> QED
      BY <2>2, <2>3, <2>4 DEF LinkedBy
  <1> QED
    BY <1>1, <1>2, <1>8, <1>9, PositiveCount

LEMMA PeelsShow ==
  ASSUME NEW l, IsLedger(l), NEW c, NEW p, IsCouple(p)
  PROVE  LinkedBy(p, PeelLinks(c, l)) <=> Peels(c, l, p) > 0
  <1> DEFINE Gap(x, y) == IF x.amt > y.amt THEN x.amt - y.amt ELSE y.amt - x.amt
             Follows(x, y) == /\ MovesValue(x) /\ MovesValue(y) /\ y.src = x.dst
                              /\ y.ts \in x.ts..(x.ts + c.peelWindow) /\ x.sig # y.sig
                              /\ Gap(x, y) <= (x.amt * c.toleranceBps) \div 10000
             D == (DOMAIN l) \X (DOMAIN l)
             P == {x \in D : /\ Follows(l[x[1]], l[x[2]])
                             /\ l[x[1]].src # l[x[2]].dst /\ {l[x[1]].src, l[x[2]].dst} = p}
  <1>1. IsFiniteSet(D) /\ P \subseteq D
    BY DeedsFinite, FS_Product
  <1>2. Peels(c, l, p) = Cardinality(P)
    <2>1. P = {x \in D :
                 LET in == l[x[1]]
                     out == l[x[2]]
                     gap == IF in.amt > out.amt THEN in.amt - out.amt ELSE out.amt - in.amt
                 IN /\ MovesValue(in) /\ MovesValue(out) /\ out.src = in.dst
                    /\ out.ts \in in.ts..(in.ts + c.peelWindow) /\ in.sig # out.sig
                    /\ gap <= (in.amt * c.toleranceBps) \div 10000
                    /\ in.src # out.dst /\ {in.src, out.dst} = p}
      OBVIOUS
    <2> HIDE DEF P, Follows
    <2> QED
      BY <2>1 DEF Peels
  <1>3. \A a, b : <<a, b>> \in PeelLinks(c, l) <=>
          \E x, y \in Records(l) : Follows(x, y) /\ a = x.src /\ b = y.dst
    <2> DEFINE txs == {r \in Records(l) : MovesValue(r)}
               Near2(x, y) == LET gap == IF x.amt > y.amt THEN x.amt - y.amt ELSE y.amt - x.amt
                              IN gap <= (x.amt * c.toleranceBps) \div 10000
               Q == {q \in txs \X txs : /\ q[2].src = q[1].dst
                            /\ q[2].ts \in q[1].ts..(q[1].ts + c.peelWindow)
                            /\ q[1].sig # q[2].sig
                            /\ Near2(q[1], q[2])}
    <2>1. PeelLinks(c, l) = {<<q[1].src, q[2].dst>> : q \in Q}
      BY DEF PeelLinks
    <2>2. \A x, y : <<x, y>> \in Q <=> x \in Records(l) /\ y \in Records(l) /\ Follows(x, y)
      OBVIOUS
    <2>3. \A q \in Q : q = <<q[1], q[2]>>
      OBVIOUS
    <2> HIDE DEF Q, Follows
    <2>4. ASSUME NEW a, NEW b, <<a, b>> \in PeelLinks(c, l)
          PROVE  \E x, y \in Records(l) : Follows(x, y) /\ a = x.src /\ b = y.dst
      <3>1. PICK q \in Q : <<a, b>> = <<q[1].src, q[2].dst>>
        BY <2>1, <2>4
      <3> DEFINE x == q[1]
                 y == q[2]
      <3>2. <<x, y>> \in Q /\ a = x.src /\ b = y.dst
        BY <2>3, <3>1
      <3> HIDE DEF x, y
      <3> QED
        BY <2>2, <3>2
    <2>5. ASSUME NEW a, NEW b, NEW x \in Records(l), NEW y \in Records(l), Follows(x, y),
                 a = x.src, b = y.dst
          PROVE  <<a, b>> \in PeelLinks(c, l)
      <3> DEFINE q == <<x, y>>
      <3>1. q \in Q /\ q[1] = x /\ q[2] = y
        BY <2>2, <2>5
      <3>2. <<a, b>> = <<q[1].src, q[2].dst>>
        BY <2>5, <3>1
      <3> HIDE DEF q
      <3> QED
        BY <2>1, <3>1, <3>2
    <2> QED
      <3> SUFFICES ASSUME NEW a, NEW b
                   PROVE  <<a, b>> \in PeelLinks(c, l) <=>
                            \E x, y \in Records(l) : Follows(x, y) /\ a = x.src /\ b = y.dst
        OBVIOUS
      <3>1. <<a, b>> \in PeelLinks(c, l) =>
              \E x, y \in Records(l) : Follows(x, y) /\ a = x.src /\ b = y.dst
        BY <2>4
      <3>2. (\E x, y \in Records(l) : Follows(x, y) /\ a = x.src /\ b = y.dst) =>
              <<a, b>> \in PeelLinks(c, l)
        BY <2>5
      <3> QED
        BY <3>1, <3>2
  <1>4. Records(l) = {l[i] : i \in DOMAIN l}
    BY DEF Records, Range
  <1> HIDE DEF Follows
  <1>5. ASSUME LinkedBy(p, PeelLinks(c, l)) PROVE P # {}
    <2>1. PICK a, b \in p : a # b /\ <<a, b>> \in PeelLinks(c, l)
      BY <1>5 DEF LinkedBy
    <2>2. PICK x, y \in Records(l) : Follows(x, y) /\ a = x.src /\ b = y.dst
      BY <1>3, <2>1
    <2>3. PICK i \in DOMAIN l : l[i] = x
      BY <1>4
    <2>4. PICK j \in DOMAIN l : l[j] = y
      BY <1>4
    <2>5. {a, b} = p
      BY <2>1 DEF IsCouple
    <2>6. <<i, j>> \in P
      BY <2>1, <2>2, <2>3, <2>4, <2>5
    <2> QED
      BY <2>6
  <1>6. ASSUME P # {} PROVE LinkedBy(p, PeelLinks(c, l))
    <2>1. PICK x \in P : TRUE
      BY <1>6
    <2> DEFINE a == l[x[1]]
               b == l[x[2]]
    <2>2. a \in Records(l) /\ b \in Records(l) /\ Follows(a, b) /\ a.src # b.dst /\ {a.src, b.dst} = p
      BY <1>4
    <2> HIDE DEF a, b
    <2>3. <<a.src, b.dst>> \in PeelLinks(c, l)
      BY <1>3, <2>2
    <2>4. a.src \in p /\ b.dst \in p
      BY <2>2
    <2> QED
      BY <2>2, <2>3, <2>4 DEF LinkedBy
  <1> HIDE DEF P, D
  <1> QED
    BY <1>1, <1>2, <1>5, <1>6, PositiveCount

LEMMA ShareShows ==
  ASSUME NEW n \in Nat, NEW d \in Nat, n > 0, d > 0, d <= Unit
  PROVE  Share(n, d) > 0
  <1>1. n * Unit \in Nat /\ n * Unit >= d
    BY DEF Unit
  <1> DEFINE x == n * Unit
  <1>2. x \in Nat /\ x >= d
    BY <1>1
  <1> HIDE DEF x
  <1>3. x \div d > 0
    BY <1>2
  <1> QED
    BY <1>3 DEF Share, x

LEMMA PayersShow ==
  ASSUME NEW l, IsLedger(l), Len(l) <= Unit, NEW p, IsCouple(p), NEW c,
         \A a, b \in p : PayersFor(l, a) \cap PayersFor(l, b) # {}
  PROVE  Vector(c, l, p)[1] > 0
  <1> DEFINE a == CHOOSE x \in p : TRUE
             b == CHOOSE x \in p \ {a} : TRUE
  <1>1. a \in p /\ b \in p
    BY DEF IsCouple
  <1>2. Vector(c, l, p)[1] = Jaccard(PayersFor(l, a), PayersFor(l, b))
    BY DEF Vector
  <1> DEFINE S == PayersFor(l, a)
             T == PayersFor(l, b)
  <1>3. S \cap T # {}
    BY <1>1
  <1> HIDE DEF a, b
  <1>4. IsFiniteSet(S) /\ IsFiniteSet(T)
    BY DeedsFinite
  <1>5. Len(l) \in Nat /\ DOMAIN l = 1..Len(l)
    BY LedgerShape
  <1>6. S \cup T \subseteq {l[i].fee : i \in DOMAIN l}
    BY DEF PayersFor, Records, Range
  <1> HIDE DEF S, T
  <1>7. IsFiniteSet(S \cup T) /\ Cardinality(S \cup T) \in Nat /\ Cardinality(S \cup T) <= Len(l)
    <2> DEFINE U == S \cup T
               D == {i \in DOMAIN l : l[i].fee \in U}
               h == [i \in D |-> l[i].fee]
    <2>1. IsFiniteSet(DOMAIN l) /\ Cardinality(DOMAIN l) = Len(l)
      <3>1. \A n \in Nat : IsFiniteSet(1..n) /\ Cardinality(1..n) = n
        <4>1. ASSUME NEW n \in Nat PROVE IsFiniteSet(1..n) /\ Cardinality(1..n) = n
          <5>1. IsFiniteSet(1..n) /\ Cardinality(1..n) = IF 1 > n THEN 0 ELSE n - 1 + 1
            BY FS_Interval
          <5> QED
            BY <5>1
        <4> QED
          BY <4>1
      <3> QED
        BY <1>5, <3>1
    <2>2. IsFiniteSet(D) /\ Cardinality(D) <= Len(l) /\ Cardinality(D) \in Nat
      <3>1. D \in SUBSET (DOMAIN l)
        OBVIOUS
      <3> HIDE DEF D
      <3> QED
        BY <2>1, <3>1, FS_Subset, FS_CardinalityType
    <2>3. h \in Surjection(D, U)
      BY <1>6 DEF Surjection
    <2> HIDE DEF U, D, h
    <2>4. IsFiniteSet(U) /\ Cardinality(U) <= Cardinality(D)
      BY <2>2, <2>3, FS_Surjection
    <2>5. Cardinality(U) \in Nat
      BY <2>4, FS_CardinalityType
    <2> QED
      BY <1>5, <2>2, <2>4, <2>5 DEF U
  <1>8. IsFiniteSet(S \cap T) /\ Cardinality(S \cap T) \in Nat /\ Cardinality(S \cap T) # 0
    <2>1. IsFiniteSet(S \cap T)
      BY <1>4, FS_Intersection
    <2> QED
      BY <1>3, <2>1, FS_CardinalityType, FS_EmptySet
  <1>9. Cardinality(S \cup T) # 0
    BY <1>3, <1>7, FS_EmptySet
  <1>10. Share(Cardinality(S \cap T), Cardinality(S \cup T)) > 0
    <2>1. Unit \in Nat
      BY DEF Unit
    <2> QED
      BY <1>5, <1>7, <1>8, <1>9, <2>1, ShareShows
  <1> QED
    BY <1>2, <1>10 DEF Jaccard, S, T

LEMMA CoactShows ==
  ASSUME NEW l, IsLedger(l), NEW c, NEW k \in Nat, NEW p, IsCouple(p),
         LinkedBy(p, RepeatedPairs(l, CoactBuckets(c, l, BurstGroups(l)), k))
  PROVE  Coburst(l, p) >= k
  <1> DEFINE Sponsored(g) == {i \in g : l[i].fee # l[i].src}
             buckets == CoactBuckets(c, l, BurstGroups(l))
             Shared == {bucket \in buckets : p \subseteq SourcesOf(l, bucket)}
             C == {g \in BurstGroups(l) : p \subseteq SourcesOf(l, g)}
             D == {g \in C : Sponsored(g) \in Shared}
             h == [g \in D |-> Sponsored(g)]
  <1>1. Cardinality(Shared) >= k
    <2>1. PICK a, b \in p : a # b /\ <<a, b>> \in RepeatedPairs(l, buckets, k)
      BY DEF LinkedBy
    <2>2. Cardinality({bucket \in buckets : {a, b} \subseteq SourcesOf(l, bucket)}) >= k
      BY <2>1 DEF RepeatedPairs
    <2>3. {a, b} = p
      BY <2>1 DEF IsCouple
    <2> QED
      BY <2>2, <2>3
  <1>2. IsFiniteSet(BurstGroups(l))
    BY GroupsFinite
  <1>3. IsFiniteSet(C) /\ IsFiniteSet(D) /\ Cardinality(D) <= Cardinality(C)
    <2>1. IsFiniteSet(C)
      BY <1>2, FS_Subset
    <2>2. D \in SUBSET C
      OBVIOUS
    <2> HIDE DEF C, D
    <2> QED
      BY <2>1, <2>2, FS_Subset
  <1>4. h \in Surjection(D, Shared)
    <2>1. \A s \in Shared : \E g \in D : Sponsored(g) = s
      <3>1. SUFFICES ASSUME NEW s \in Shared PROVE \E g \in D : Sponsored(g) = s
        OBVIOUS
      <3>2. PICK g \in BurstGroups(l) : s = Sponsored(g)
        BY DEF CoactBuckets, OfSize
      <3>3. p \subseteq SourcesOf(l, g)
        BY <3>2 DEF SourcesOf
      <3> QED
        BY <3>2, <3>3
    <2> QED
      BY <2>1 DEF Surjection
  <1>5. Coburst(l, p) = Cardinality(C)
    BY DEF Coburst
  <1> HIDE DEF Shared, C, D, h, buckets
  <1>6. IsFiniteSet(Shared) /\ Cardinality(Shared) <= Cardinality(D)
    BY <1>3, <1>4, FS_Surjection
  <1>7. Cardinality(Shared) \in Nat /\ Cardinality(C) \in Nat /\ Cardinality(D) \in Nat
    BY <1>3, <1>6, FS_CardinalityType
  <1> QED
    BY <1>1, <1>3, <1>5, <1>6, <1>7

(* An episode of some of the records is within one of all of them.         *)
LEMMA EpisodeInWindow ==
  ASSUME NEW l, IsLedger(l), NEW g \in SUBSET (DOMAIN l), NEW w \in Int,
         NEW G \in ProximityRuns(l, g, w)
  PROVE  \E H \in WindowGroups(l, w) : G \subseteq H
  <1> DEFINE v == NonNegative(w)
             D == DOMAIN l
             R == TimeOrder(l)
  <1>1. v \in Nat /\ NonNegative(v) = v
    BY DEF NonNegative
  <1>2. ProximityRuns(l, g, w) = ProximityRuns(l, g, v)
        /\ ProximityRuns(l, D, w) = ProximityRuns(l, D, v)
    <2>1. \A q : TimeStarts(l, q, w) = TimeStarts(l, q, v)
      BY <1>1 DEF TimeStarts
    <2> HIDE DEF v
    <2> QED
      BY <2>1, ScanGroups
  <1> HIDE DEF v
  <1>3. G \in ProximityRuns(l, g, v)
    BY <1>2
  <1>4. G \subseteq g /\ Chained(l, G, v)
    BY <1>1, <1>3, ProximityFacts DEF Parts
  <1>5. PICK first \in G : \A j \in G \ {first} :
          \E i \in G : TimeBefore(l[i], l[j]) /\ Near(l, i, j, v)
    BY <1>4 DEF Chained
  <1>6. /\ Parts(ProximityRuns(l, D, v), D)
        /\ \A H \in ProximityRuns(l, D, v) : \A i \in H : \A j \in D : Near(l, i, j, v) => j \in H
    BY <1>1, ProximityFacts
  <1>7. PICK H \in ProximityRuns(l, D, v) : first \in H
    BY <1>4, <1>5, <1>6 DEF Parts
  <1>8. /\ IsFiniteSet(D) /\ Orders(R, D)
        /\ \A i, j \in D : <<i, j>> \in R <=> TimeBefore(l[i], l[j])
    BY PlacesOrdered
  <1>9. ASSUME G \ H # {} PROVE FALSE
    <2> DEFINE T == {Rank(R, D, j) : j \in G \ H}
    <2>1. \A j \in D : Rank(R, D, j) \in Nat
      <3> HIDE DEF R, D
      <3>1. \A j \in D : Rank(R, D, j) \in 0..(Cardinality(D) - 1)
        BY <1>8, RankBounds
      <3> QED
        BY <3>1
    <2>2. T \subseteq Nat /\ T # {}
      BY <1>4, <1>9, <2>1
    <2>3. PICK n \in T : \A m \in T : n <= m
      <3> HIDE DEF T
      <3> QED
        BY <2>2, LeastElement
    <2>4. PICK j \in G \ H : n = Rank(R, D, j)
      BY <2>3
    <2>5. PICK i \in G : TimeBefore(l[i], l[j]) /\ Near(l, i, j, v)
      BY <1>5, <1>7, <2>4
    <2>6. i \in D /\ j \in D
      BY <1>4, <2>4, <2>5
    <2>7. Rank(R, D, i) < Rank(R, D, j)
      <3>1. <<i, j>> \in R
        BY <1>8, <2>5, <2>6
      <3> HIDE DEF R, D
      <3> QED
        BY <1>8, <2>6, <3>1, RankGrows
    <2>8. i \in H
      <3>1. CASE i \in G \ H
        <4>1. Rank(R, D, j) <= Rank(R, D, i)
          BY <2>3, <2>4, <3>1
        <4> QED
          BY <2>1, <2>6, <2>7, <4>1
      <3> QED
        BY <2>5, <3>1
    <2> QED
      BY <1>6, <1>7, <2>4, <2>5, <2>6, <2>8
  <1>10. WindowGroups(l, w) = ProximityRuns(l, D, v)
    BY <1>2 DEF WindowGroups
  <1> QED
    BY <1>7, <1>9, <1>10

LEMMA CopayShows ==
  ASSUME NEW l, IsLedger(l), NEW c, c.window \in Int, NEW k, NEW p, IsCouple(p),
         LinkedBy(p, RepeatedPairs(l, WindowedCopayBuckets(c, l), k))
  PROVE  WindowedCopay(c, l, p) > 0
  <1> DEFINE S == WindowGroups(l, c.window) \X DestsOf(l)
             T == {x \in S : p \subseteq SourcesOf(l, {i \in x[1] : l[i].dst = x[2]})}
             To(d) == {i \in DOMAIN l : l[i].dst = d /\ l[i].amt >= c.copayMinAmount}
  <1>1. PICK B \in WindowedCopayBuckets(c, l) : p \subseteq SourcesOf(l, B)
    <2>1. PICK a, b \in p : a # b /\ <<a, b>> \in RepeatedPairs(l, WindowedCopayBuckets(c, l), k)
      BY DEF LinkedBy
    <2>2. {bucket \in WindowedCopayBuckets(c, l) : {a, b} \subseteq SourcesOf(l, bucket)} # {}
      BY <2>1 DEF RepeatedPairs
    <2>3. {a, b} = p
      BY <2>1 DEF IsCouple
    <2> QED
      BY <2>2, <2>3
  <1>2. PICK d \in DestsOf(l) : B \in ProximityRuns(l, To(d), c.window)
    BY <1>1 DEF WindowedCopayBuckets, OfSize
  <1>3. PICK H \in WindowGroups(l, c.window) : B \subseteq H
    <2>1. To(d) \in SUBSET (DOMAIN l)
      OBVIOUS
    <2> HIDE DEF To
    <2> QED
      BY <1>2, <2>1, EpisodeInWindow
  <1>4. B \subseteq {i \in H : l[i].dst = d}
    <2>1. B \subseteq To(d)
      <3>1. To(d) \in SUBSET (DOMAIN l)
        OBVIOUS
      <3> HIDE DEF To
      <3> QED
        BY <1>2, <3>1, RunsPart DEF Parts
    <2> QED
      BY <1>3, <2>1
  <1>5. <<H, d>> \in T
    BY <1>1, <1>2, <1>3, <1>4 DEF SourcesOf
  <1>6. IsFiniteSet(S) /\ T \subseteq S
    <2>1. IsFiniteSet(WindowGroups(l, c.window)) /\ IsFiniteSet(DestsOf(l))
      BY GroupsFinite, DeedsFinite
    <2> QED
      BY <2>1, FS_Product
  <1>7. WindowedCopay(c, l, p) = Cardinality(T)
    BY DEF WindowedCopay
  <1> HIDE DEF S, T
  <1> QED
    BY <1>5, <1>6, <1>7, PositiveCount

LEMMA FundersShow ==
  ASSUME NEW l, IsLedger(l), NEW c, NEW p, IsCouple(p), NEW f,
         \A a \in p : <<f, a>> \in FunderLinks(c, l)
  PROVE  FundingHop(l, p) > 0
  <1> DEFINE E == FundingEdges(l)
             F == {e[1] : e \in E}
             Fundees(x) == {e[2] : e \in {y \in E : y[1] = x}}
             Served(x) == {r.src : r \in {q \in Records(l) : q.fee # q.src /\ q.fee \in Fundees(x)}}
             T == {x \in F : p \subseteq Served(x)}
  <1>1. FundingHop(l, p) = Cardinality(T)
    BY DEF FundingHop
  <1>2. \A a : <<f, a>> \in FunderLinks(c, l) => f \in F /\ a \in Served(f)
    BY DEF FunderLinks
  <1>3. f \in T
    BY <1>2 DEF IsCouple
  <1>4. IsFiniteSet(F)
    <2> DEFINE k == [e \in E |-> e[1]]
    <2>1. k \in Surjection(E, F)
      BY DEF Surjection
    <2>2. IsFiniteSet(E)
      BY DeedsFinite
    <2> HIDE DEF E, F, k
    <2> QED
      BY <2>1, <2>2, FS_Surjection
  <1>5. T \subseteq F
    OBVIOUS
  <1> HIDE DEF T, F, E
  <1> QED
    BY <1>1, <1>3, <1>4, <1>5, PositiveCount

-----------------------------------------------------------------------------
(* A ledger is no longer than the model's bounds let it be.                *)
LengthInv == Len(ledger) <= Unit

LEMMA LengthKept ==
  ASSUME MaxRecords \in Nat, MaxRecords <= Unit, \A l \in Ledgers : Len(l) <= Unit
  PROVE  /\ Init => LengthInv
         /\ LedgerInv /\ LengthInv /\ [Next]_vars => LengthInv'
  <1>1. Init => LengthInv
    BY DEF Init, AnalysisInit, LengthInv
  <1>2. ASSUME LedgerInv, LengthInv, [Next]_vars PROVE LengthInv'
    <2>1. CASE ledger' = ledger
      BY <1>2, <2>1 DEF LengthInv
    <2>2. CASE \E r \in Transfers, gap \in Gaps : Observe(r, gap)
      <3>1. PICK r \in Transfers, gap \in Gaps : Observe(r, gap)
        BY <2>2
      <3>2. Len(ledger) \in Nat /\ Len(ledger) < MaxRecords /\ \E q : ledger' = Append(ledger, q)
        BY <1>2, <3>1 DEF Observe, LedgerInv
      <3>3. Len(ledger') = Len(ledger) + 1
        BY <1>2, <3>2 DEF LedgerInv
      <3> QED
        BY <3>2, <3>3 DEF LengthInv, Unit
    <2> QED
      BY <1>2, <2>1, <2>2, NextLedger
  <1> QED
    BY <1>1, <1>2

(* The learned adversary sees what the rules see: whatever a rule links    *)
(* shows in the feature that stands for it (ml.rs, extract_features).  In  *)
(* the model a share is counted in parts of Unit, which is fine enough for *)
(* ledgers of up to Unit records.                                          *)
THEOREM RulesShowInFeatures ==
  ASSUME MaxRecords \in Nat, MaxRecords <= Unit, \A l \in Ledgers : Len(l) <= Unit
  PROVE  Spec => []FeaturesShowEvidence
  <1> DEFINE Inv == LedgerInv /\ LengthInv /\ FoldInv /\ ScoreInv
  <1>1. Init => Inv
    BY LedgerKept, LengthKept, InitFolds, InitScores
  <1>2. Inv /\ [Next]_vars => Inv'
    BY LedgerKept, LengthKept, NextFolds, NextScores
  <1>3. Inv => FeaturesShowEvidence
    <2>1. SUFFICES ASSUME Inv, phase # "done", NEW p \in Scorable
                   PROVE  LET c == Windows
                              v == pairs[p].x
                              Link(links) == \E a, b \in p : a # b /\ <<a, b>> \in links
                          IN /\ Link(LineageLinks(c, ledger)) <=> v[6] > 0
                             /\ Link(PeelLinks(c, ledger)) <=> v[7] > 0
                             /\ (\A a, b \in p : PayersFor(ledger, a) \cap PayersFor(ledger, b) # {}) => v[1] > 0
                             /\ Link(RepeatedPairs(ledger, CoactBuckets(c, ledger, BurstGroups(ledger)), c.coactMinShared))
                                  => v[3] >= c.coactMinShared
                             /\ Link(RepeatedPairs(ledger, WindowedCopayBuckets(c, ledger), c.copayMinShared))
                                  => v[4] > 0
                             /\ (\E f \in Account : \A a \in p : <<f, a>> \in FunderLinks(c, ledger)) => v[5] > 0
      BY DEF FeaturesShowEvidence
    <2> DEFINE c == Windows
               l == ledger
    <2>2. IsLedger(l) /\ Len(l) <= Unit
      BY <2>1 DEF LedgerInv, LengthInv, IsLedger
    <2>3. IsCouple(p)
      <3>1. p \in OwnedPairs
        BY <2>1 DEF ScoreInv
      <3>2. \E a \in Owned(ledger) : \E b \in Owned(ledger) \ {a} : p = {a, b}
        BY <3>1 DEF OwnedPairs
      <3> QED
        BY <3>2 DEF IsCouple
    <2>4. /\ pairs[p].x[1] = Vector(c, l, p)[1] /\ pairs[p].x[3] = Coburst(l, p)
          /\ pairs[p].x[4] = WindowedCopay(c, l, p) /\ pairs[p].x[5] = FundingHop(l, p)
          /\ pairs[p].x[6] = Activations(c, l, p) /\ pairs[p].x[7] = Peels(c, l, p)
      <3>1. PairRecord(p).x = Vector(Windows, ledger, p)
        BY DEF PairRecord
      <3>2. pairs[p].x = Vector(c, l, p)
        BY <2>1, <3>1 DEF ScoreInv
      <3> QED
        BY <3>2 DEF Vector
    <2>5. c.window \in Int /\ c.lineageWindow \in Int /\ c.coactMinShared \in Nat
      BY ConfigAssumption
    <2> HIDE DEF c, l
    <2>6. /\ LinkedBy(p, LineageLinks(c, l)) <=> Activations(c, l, p) > 0
          /\ LinkedBy(p, PeelLinks(c, l)) <=> Peels(c, l, p) > 0
      BY <2>2, <2>3, <2>5, LineageShows, PeelsShow
    <2>7. (\A a, b \in p : PayersFor(l, a) \cap PayersFor(l, b) # {}) => Vector(c, l, p)[1] > 0
      BY <2>2, <2>3, PayersShow
    <2>8. LinkedBy(p, RepeatedPairs(l, CoactBuckets(c, l, BurstGroups(l)), c.coactMinShared))
            => Coburst(l, p) >= c.coactMinShared
      BY <2>2, <2>3, <2>5, CoactShows
    <2>9. LinkedBy(p, RepeatedPairs(l, WindowedCopayBuckets(c, l), c.copayMinShared))
            => WindowedCopay(c, l, p) > 0
      BY <2>2, <2>3, <2>5, CopayShows
    <2>10. (\E f \in Account : \A a \in p : <<f, a>> \in FunderLinks(c, l)) => FundingHop(l, p) > 0
      BY <2>2, <2>3, FundersShow
    <2> QED
      BY <2>4, <2>6, <2>7, <2>8, <2>9, <2>10 DEF LinkedBy, c, l
  <1>4. QED
    BY <1>1, <1>2, <1>3, PTL DEF Spec
=============================================================================
