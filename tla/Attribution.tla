------------------------------ MODULE Attribution ------------------------------
(***************************************************************************)
(* ml_attribution of crates/adversary/src/ml.rs: the learned adversary and *)
(* its operator-disjoint cross-validation, beside the rule-based adversary *)
(* of module Analysis on the same ledgers.  The operators that own         *)
(* accounts are dealt to folds; for every cell, a couple of folds, a model *)
(* is fitted on the pairs of accounts that avoid both folds and scores the *)
(* pairs that lie in them; the pairs that score high enough are united.    *)
(* The regression itself is abstract: a fitted model is any function from  *)
(* feature vectors to Scores.                                              *)
(***************************************************************************)
EXTENDS Analysis, Features

CONSTANTS
  Windows,           \* the windows of MlConfig, see Features
  Folds,             \* MlConfig.folds
  MinOperators,      \* MlConfig.min_operators
  MinPositivePairs,  \* MlConfig.min_positive_pairs
  Scores,            \* the quantised probabilities that are told apart
  Threshold          \* MlConfig.threshold

ASSUME ConfigAssumption ==
  /\ {Folds, MinOperators, MinPositivePairs} \subseteq Nat
  /\ Scores \subseteq Nat /\ 0 \in Scores /\ Threshold \in Nat
  /\ {Windows.window, Windows.lineageWindow} \subseteq Int /\ Windows.coactMinShared \in Nat

VARIABLES phase,  \* "observe", "cluster", "validate", "unite" or "done"
          pairs,  \* pair of owned accounts -> its features, whether both
                  \* have one operator, and the folds of their operators
          cell,   \* the couple of folds that is validated next
          proba,  \* pair -> its score, 0 until it has one
          judges  \* pair -> the cells whose model scored it (history)

learning == <<phase, pairs, cell, proba, judges>>
vars == <<ledger, clustering, class, learning>>

-----------------------------------------------------------------------------
OwnedPairs == UNION {{{a, b} : b \in Owned(ledger) \ {a}} : a \in Owned(ledger)}
OwnersOf(pair) == {OwnerOf(ledger, a) : a \in pair}
OwningOperators == {OwnerOf(ledger, a) : a \in Owned(ledger)}

(* Operators are dealt to the folds in their order, one after the other.   *)
FoldCount == Max({Min({Folds, Cardinality(OwningOperators)}), 1})
FoldOf(op) == Cardinality({o \in OwningOperators : o < op}) % FoldCount

PairRecord(p) ==
  [x    |-> Vector(Windows, ledger, p),
   same |-> Cardinality(OwnersOf(p)) = 1,
   folds |-> {FoldOf(op) : op \in OwnersOf(p)}]

Scorable == DOMAIN pairs
Positive == {p \in Scorable : pairs[p].same}

(* Whether there is enough to report anything.                             *)
Enough(ps) ==
  /\ Cardinality(OwningOperators) >= MinOperators
  /\ Cardinality({p \in DOMAIN ps : ps[p].same}) >= MinPositivePairs
  /\ FoldCount >= 2
Defined == Enough(pairs)

(* Mutants: a pair is left out of the training only when both its accounts *)
(* are in the held-out folds; a cell scores the pairs inside its folds, as *)
(* well.                                                                   *)
MutantTrain(c) == {p \in Scorable : ~(pairs[p].folds \subseteq {c[1], c[2]})}
MutantHoldout(c) == {p \in Scorable : pairs[p].folds \subseteq {c[1], c[2]}}

Holdout(c) == {p \in Scorable : pairs[p].folds = {c[1], c[2]}}
Train(c) == {p \in Scorable : pairs[p].folds \cap {c[1], c[2]} = {}}

-----------------------------------------------------------------------------
Init ==
  /\ AnalysisInit
  /\ phase = "observe"
  /\ cell = <<0, 0>>
  /\ pairs = << >> /\ proba = << >> /\ judges = << >>

(* The pairs are formed with their features; too small a fleet is not      *)
(* validated at all.                                                       *)
Prepare ==
  /\ phase = "observe" /\ ledger # << >>
  /\ \E ps \in {[p \in OwnedPairs |-> PairRecord(p)]} :
       /\ pairs' = ps
       /\ proba' = [p \in DOMAIN ps |-> 0]
       /\ judges' = [p \in DOMAIN ps |-> {}]
       /\ phase' = IF Enough(ps) THEN "validate" ELSE "unite"
  /\ UNCHANGED <<ledger, clustering, class, cell>>

NextCell ==
  /\ cell' = IF cell[2] + 1 < FoldCount THEN <<cell[1], cell[2] + 1>>
             ELSE <<cell[1] + 1, cell[1] + 1>>
  /\ phase' = IF cell'[1] < FoldCount THEN "validate" ELSE "unite"

(* A model is fitted and scores the pairs of its cell; equal feature       *)
(* vectors get equal scores.                                               *)
Validate ==
  /\ phase = "validate" /\ Holdout(cell) # {} /\ Train(cell) # {}
  /\ \E test \in {Holdout(cell)} :
       /\ \E model \in [{pairs[p].x : p \in test} -> Scores] :
            proba' = [p \in Scorable |-> IF p \in test THEN model[pairs[p].x] ELSE proba[p]]
       /\ judges' = [p \in Scorable |->
                       IF p \in test THEN judges[p] \cup {cell} ELSE judges[p]]
  /\ NextCell
  /\ UNCHANGED <<ledger, clustering, class, pairs>>

(* Nothing to score, or nothing to learn from: the scores stay at 0.       *)
SkipCell ==
  /\ phase = "validate" /\ (Holdout(cell) = {} \/ Train(cell) = {})
  /\ NextCell
  /\ UNCHANGED <<ledger, clustering, class, pairs, proba, judges>>

Linked == {p \in Scorable : Defined /\ proba[p] >= Threshold}

(* The union-find joins the linked pairs, and materialize reads it out.    *)
Unite ==
  /\ phase = "unite" /\ phase' = "done"
  /\ class' = FoldSet(LAMBDA p, sofar :
                        LET joined == UNION {sofar[a] : a \in p}
                        IN [a \in Account |-> IF a \in joined THEN joined ELSE sofar[a]],
                      [a \in Account |-> {a}], Linked)
  /\ UNCHANGED <<ledger, clustering, pairs, cell, proba, judges>>

(* One ledger is attributed by rules or by learning.                       *)
Next ==
  \/ /\ phase = "observe"
     /\ \E r \in Transfers, gap \in Gaps : Observe(r, gap)
     /\ UNCHANGED learning
  \/ /\ phase \in {"observe", "cluster"} /\ phase' = "cluster"
     /\ Cluster
     /\ UNCHANGED <<pairs, cell, proba, judges>>
  \/ Prepare \/ Validate \/ SkipCell \/ Unite

Spec == Init /\ [][Next]_vars

-----------------------------------------------------------------------------
(* What links accounts: by rules, all their links, by learning, the pairs  *)
(* whose held-out score reaches the threshold.                             *)
Links ==
  IF phase = "done"
  THEN {p \in Scorable : judges[p] # {} /\ proba[p] >= Threshold}
  ELSE {{l[1], l[2]} : l \in UNION {LinksOf(cfg, ledger, h) : h \in Range(Heuristics)}}

(* The clusters are what that evidence generates and no more, in whatever  *)
(* order the hash maps of the code yield the links (cluster and            *)
(* ml_attribution): every account is in one cluster, a cluster is left by  *)
(* no link, and cannot be parted without cutting one.                      *)
ClustersAreEvidence ==
  Scored \/ phase = "done" =>
    LET clusters == {class[a] : a \in Account}
    IN /\ \A a \in Account : a \in class[a] /\ \A b \in class[a] : class[b] = class[a]
       /\ \E links \in {Links} :
            /\ \A l \in links : \E k \in clusters : l \subseteq k
            /\ \A k \in clusters : \A part \in (SUBSET k) \ {{}, k} :
                 \E l \in links : l \cap part # {} /\ l \cap (k \ part) # {}

(* Time groups are proximity components and not buckets: every record is   *)
(* in exactly one group, records no further apart than the window are      *)
(* never separated, whatever lies between them, and everyone but the first *)
(* is that close to an earlier one; a wider window only merges groups, and *)
(* a burst is never split by any window (the doc comment of window_groups).*)
Widths == {0, 1, 2, 3}
GroupsAreComponents ==
  phase = "observe" =>
    /\ \A w \in Widths :
         LET groups == WindowGroups(ledger, w)
             Within(i, j) == ledger[j].ts - ledger[i].ts \in 0..w
         IN /\ \A i \in DOMAIN ledger : Cardinality({g \in groups : i \in g}) = 1
            /\ \A g \in groups : \A i \in g : \A j \in DOMAIN ledger :
                 Within(i, j) => j \in g
            /\ \A g \in groups : \E first \in g : \A j \in g \ {first} :
                 \E i \in g : TimeBefore(ledger[i], ledger[j]) /\ Within(i, j)
            /\ \A v \in Widths : v <= w =>
                 \A g \in WindowGroups(ledger, v) : \E h \in groups : g \subseteq h
            /\ \A g \in BurstGroups(ledger) : \E h \in groups : g \subseteq h

(* No label leakage: whoever scored a pair trained on no pair that touches *)
(* either of its operators, so a score has never seen its own answer.      *)
BlindToOperators ==
  \A p \in Scorable : \A c \in judges[p] : \A q \in Train(c) :
    OwnersOf(p) \cap OwnersOf(q) = {}

(* The pooled scores are one per pair: no pair is scored twice, by models  *)
(* that learned from different pairs, and with four folds or more none is  *)
(* missed, however the accounts are spread over the operators.             *)
JudgedByOne == \A p \in Scorable : \A c, d \in judges[p] : c = d
ScoredOnce ==
  /\ JudgedByOne
  /\ phase \in {"unite", "done"} /\ Defined /\ FoldCount >= 4 =>
       \A p \in OwnedPairs : judges[p] # {}

(* The pairs of owned accounts that the rules of the other adversary link, *)
(* rule by rule, show in the features: activations and peel chains exactly *)
(* when the lineage and the temporal rule link them, shared fee payers,    *)
(* repeated co-activity and co-payment, and common funders at least then.  *)
FeaturesShowEvidence ==
  (phase # "done" /\ \A p \in Scorable : judges[p] = {}) =>
  LET c == Windows
      lineage == LineageLinks(c, ledger)
      peels == PeelLinks(c, ledger)
      coact == RepeatedPairs(ledger, CoactBuckets(c, ledger, BurstGroups(ledger)), c.coactMinShared)
      copay == RepeatedPairs(ledger, WindowedCopayBuckets(c, ledger), c.copayMinShared)
      sponsors == FunderLinks(c, ledger)
  IN \A p \in Scorable :
       LET Link(links) == \E a, b \in p : a # b /\ <<a, b>> \in links
           v == pairs[p].x
       IN /\ Link(lineage) <=> v[6] > 0
          /\ Link(peels) <=> v[7] > 0
          /\ (\A a, b \in p : PayersFor(ledger, a) \cap PayersFor(ledger, b) # {}) => v[1] > 0
          /\ Link(coact) => v[3] >= c.coactMinShared
          /\ Link(copay) => v[4] > 0
          /\ (\E f \in Account : \A a \in p : <<f, a>> \in sponsors) => v[5] > 0

(* What is reported as the ROC AUC is the share of the couples of a        *)
(* same-operator and another pair in which the former scores higher, a tie *)
(* counting half: of the held-out scores, and of every feature alone.      *)
AucCountsWins ==
  LET Wins(score) == SumFunction(
        [couple \in Positive \X (Scorable \ Positive) |->
           CASE score[couple[1]] > score[couple[2]] -> 2
             [] score[couple[1]] = score[couple[2]] -> 1
             [] OTHER -> 0])
  IN phase = "done" /\ AucDefined(proba, Positive) =>
       /\ TwiceU(proba, Positive) = Wins(proba)
       /\ \A f \in DOMAIN FeatureNames :
            LET score == [p \in Scorable |-> pairs[p].x[f]]
            IN TwiceU(score, Positive) = Wins(score)
=============================================================================
