------------------------------- MODULE Metric -------------------------------
(***************************************************************************)
(* The integer counts behind the scores of crates/adversary/src/metric.rs, *)
(* for a ledger and a clustering given as the class of each account.  The  *)
(* scores are quotients of these counts.  This is the only place where the *)
(* operator of a record is read.  An account signs for one operator only,  *)
(* so a record's operator is the operator of its source.                   *)
(***************************************************************************)
EXTENDS Evidence

NoOperator == 0

(* Mutant: k * k / 2. *)
MutantPairs(k) == (k * k) \div 2

(* c2: unordered pairs among k items. *)
Pairs(k) == (k * NonNegative(k - 1)) \div 2
PairsWithin(blocks) == SumFunction([block \in blocks |-> Pairs(Cardinality(block))])

Owned(ledger) == {r.src : r \in {q \in Records(ledger) : q.op # NoOperator}}
OwnerOf(ledger, a) == (CHOOSE r \in Records(ledger) : r.src = a /\ r.op # NoOperator).op
OwnedBlocks(ledger, Same(_, _)) ==
  {{b \in Owned(ledger) : Same(a, b)} : a \in Owned(ledger)}

(* The contingency table of operators and clusters, and its margins.       *)
TruePositives(ledger, class) ==
  PairsWithin(OwnedBlocks(ledger, LAMBDA a, b :
    OwnerOf(ledger, a) = OwnerOf(ledger, b) /\ class[a] = class[b]))
PredictedPositives(ledger, class) ==
  PairsWithin(OwnedBlocks(ledger, LAMBDA a, b : class[a] = class[b]))
SameOperatorPairs(ledger) ==
  PairsWithin(OwnedBlocks(ledger, LAMBDA a, b : OwnerOf(ledger, a) = OwnerOf(ledger, b)))

(* Clusters over which the operators' accounts are spread, in all.         *)
Fragments(ledger, class) ==
  Cardinality({<<OwnerOf(ledger, a), class[a]>> : a \in Owned(ledger)})

(* The owned accounts of the cluster that has most of them.                *)
LargestCluster(ledger, class) ==
  LET blocks == OwnedBlocks(ledger, LAMBDA a, b : class[a] = class[b])
  IN IF blocks = {} THEN 0 ELSE Max({Cardinality(block) : block \in blocks})

(* Purity of groups: pairs of owned sources in one group, and those of one *)
(* operator.                                                               *)
OwnedIn(ledger, group) == SourcesOf(ledger, group) \cap Owned(ledger)
TotalPairs(ledger, groups) ==
  SumFunction([g \in groups |-> Pairs(Cardinality(OwnedIn(ledger, g)))])
PurePairs(ledger, groups) ==
  SumFunction([g \in groups |-> PairsWithin({{b \in OwnedIn(ledger, g) :
                                                OwnerOf(ledger, a) = OwnerOf(ledger, b)} :
                                               a \in OwnedIn(ledger, g)})])

(* Mutant: any transfer to an account that pays fees.                      *)
MutantIsFunding(ledger, r) == r.src # r.dst /\ r.dst \in FeePayers(ledger)

(* A funding transaction is signed by its source and lands on a fee payer. *)
IsFunding(ledger, r) == r.fee = r.src /\ r.src # r.dst /\ r.dst \in FeePayers(ledger)
FundingRecords(ledger) == Cardinality({i \in DOMAIN ledger : IsFunding(ledger, ledger[i])})

(* The operators behind each funder of two fee payers or more.             *)
OperatorsBehind(ledger, fundees) ==
  {r.op : r \in {q \in Records(ledger) :
                   q.fee # q.src /\ q.fee \in fundees /\ q.op # NoOperator}}
AnonymitySets(ledger) ==
  LET Fundees(f) == {e[2] : e \in {x \in FundingEdges(ledger) : x[1] = f}}
      funders == {e[1] : e \in FundingEdges(ledger)}
  IN [f \in {g \in funders : /\ Cardinality(Fundees(g)) >= 2
                             /\ OperatorsBehind(ledger, Fundees(g)) # {}} |->
        OperatorsBehind(ledger, Fundees(f))]
=============================================================================
