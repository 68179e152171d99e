------------------------------ MODULE Analysis ------------------------------
(***************************************************************************)
(* analyze of crates/adversary/src/lib.rs: a ledger is observed record by  *)
(* record, then cluster runs its heuristics one after the other, and the   *)
(* result is scored.  A heuristic unions its links in whatever order its   *)
(* hash map yields them: any order here.  The union-find appears as the    *)
(* partition it implements (module UnionFind).  Module Attribution adds    *)
(* the learned adversary and states the specification of both.             *)
(***************************************************************************)
EXTENDS Metric

CONSTANTS Account,     \* every account that may appear
          Ledgers,     \* what has been observed at the start
          Transfers,   \* what a further record may be, but for place and time
          Gaps,        \* seconds from one record to the next; a funding
                       \* suffix may go back in time
          MaxRecords,  \* bound on the length of a ledger
          Adversaries  \* adversary configurations

(* What a record may be.  The chain numbers signatures and slots.          *)
Record == [sig : Nat, slot : Nat, ts : Int, amt : Nat, op : Nat,
           src : Account, dst : Account, fee : Account]
IsNumbered(l) == \A i \in DOMAIN l : l[i].sig = i /\ l[i].slot = i

ASSUME LedgersAssumption ==
  /\ Ledgers \subseteq Seq(Record) /\ \A l \in Ledgers : IsNumbered(l)
  /\ Gaps \subseteq Int

ASSUME TransfersAssumption ==
  \A r \in Transfers :
    /\ {r.src, r.dst, r.fee} \subseteq Account /\ r.amt \in Nat /\ r.op \in Nat
    /\ \A q \in Transfers : q.src = r.src => q.op = r.op

VARIABLES ledger, \* the records
          cfg,    \* the adversary's configuration, << >> when there is none yet
          stage,  \* the heuristic that is running, 0 when there is none yet
          todo,   \* its links that are not unioned yet
          class   \* account -> the accounts in the same cluster so far

clustering == <<cfg, stage, todo>>

AnalysisInit ==
  /\ ledger \in Ledgers
  /\ cfg = << >>
  /\ stage = 0
  /\ todo = {}
  /\ class = [a \in Account |-> {a}]

Observe(r, gap) ==
  /\ stage = 0 /\ Len(ledger) < MaxRecords
  /\ ledger' = Append(ledger,
       [sig |-> Len(ledger) + 1, slot |-> Len(ledger) + 1,
        ts |-> IF ledger = << >> THEN 0 ELSE Last(ledger).ts + gap,
        src |-> r.src, dst |-> r.dst, fee |-> r.fee, amt |-> r.amt, op |-> r.op])
  /\ UNCHANGED <<clustering, class>>

(* cluster is called with a configuration.                                 *)
StartClustering(c) ==
  /\ stage = 0 /\ ledger # << >>
  /\ cfg' = c
  /\ stage' = 1
  /\ todo' = LinksOf(c, ledger, Heuristics[1])
  /\ UNCHANGED <<ledger, class>>

(* Mutant: the next heuristic starts although links are left. *)
MutantNextHeuristic ==
  /\ stage \in 1..(Len(Heuristics) - 1)
  /\ stage' = stage + 1
  /\ todo' = LinksOf(cfg, ledger, Heuristics[stage + 1])
  /\ UNCHANGED <<cfg, ledger, class>>

(* The next heuristic starts when the links of the last one are all used.  *)
NextHeuristic ==
  /\ todo = {}
  /\ stage \in 1..(Len(Heuristics) - 1)
  /\ stage' = stage + 1
  /\ todo' = LinksOf(cfg, ledger, Heuristics[stage + 1])
  /\ UNCHANGED <<cfg, ledger, class>>

Merged(a, b) ==
  [x \in Account |->
     IF x \in class[a] \cup class[b] THEN class[a] \cup class[b] ELSE class[x]]

UnionLink(a, b) ==
  /\ class' = Merged(a, b)
  /\ todo' = todo \ {<<a, b>>}
  /\ UNCHANGED <<cfg, ledger, stage>>

Cluster ==
  \/ \E c \in Adversaries : StartClustering(c)
  \/ NextHeuristic
  \/ \E l \in todo : UnionLink(l[1], l[2])

Scored == stage = Len(Heuristics) /\ todo = {}

-----------------------------------------------------------------------------
(* The contingency table counts what the scores say: pairs of owned        *)
(* accounts, so that the subtractions pred_pos - tp and same_op - tp of    *)
(* unsigned numbers cannot underflow, no purity exceeds one, and the       *)
(* largest cluster is one only if no pair is left apart.                   *)
MetricCountsPairs ==
  Scored =>
    LET owned == Owned(ledger)
        couples == {p \in SUBSET owned : Cardinality(p) = 2}
        clustered == {p \in couples : \A a, b \in p : b \in class[a]}
        ofOne == {p \in couples : \A a, b \in p : OwnerOf(ledger, a) = OwnerOf(ledger, b)}
        tp == TruePositives(ledger, class)
        windows == WindowGroups(ledger, cfg.window)
    IN /\ tp = Cardinality(clustered \cap ofOne)
       /\ PredictedPositives(ledger, class) = Cardinality(clustered)
       /\ SameOperatorPairs(ledger) = Cardinality(ofOne)
       /\ tp <= PredictedPositives(ledger, class) /\ tp <= SameOperatorPairs(ledger)
       /\ PurePairs(ledger, windows) <= TotalPairs(ledger, windows)
       /\ LargestCluster(ledger, class) = Cardinality(owned) <=>
            PredictedPositives(ledger, class) = Pairs(Cardinality(owned))
=============================================================================
