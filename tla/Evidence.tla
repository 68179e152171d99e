------------------------------ MODULE Evidence ------------------------------
(***************************************************************************)
(* The heuristics of crates/adversary/src/heuristics.rs as pure operators: *)
(* which pairs of accounts each of them links, given a ledger.             *)
(*                                                                         *)
(* A ledger is a sequence of records r with sig, slot, ts, fee, src, dst,  *)
(* amt and op (the operator's label, which no operator here reads); a      *)
(* group of records is a set of positions.  An adversary configuration c   *)
(* is a record with the fields of AdversaryConfig under shorter names: use *)
(* (the heuristics whose use_ flag is set), windowed, window, peelWindow,  *)
(* toleranceBps, lineageWindow, copayMinSources, copayMinShared,           *)
(* copayMinAmount, coactMinShared, maxSources, minFundees, maxFunded.      *)
(***************************************************************************)
EXTENDS Integers, Sequences, FiniteSets, SequencesExt

NonNegative(n) == IF n > 0 THEN n ELSE 0
Records(ledger) == Range(ledger)
SourcesOf(ledger, group) == {ledger[i].src : i \in group}
ActiveSources(ledger) == {r.src : r \in Records(ledger)}
DestsOf(ledger) == {r.dst : r \in Records(ledger)}
FeePayers(ledger) == {r.fee : r \in Records(ledger)}
MovesValue(r) == r.amt > 0 /\ r.src # r.dst

(* Every distinct account that appears in the ledger. *)
AccountsOf(ledger) == FeePayers(ledger) \cup ActiveSources(ledger) \cup DestsOf(ledger)

-----------------------------------------------------------------------------
(* Grouping: a scan over sorted positions that starts a new group wherever *)
(* a record does not join the one before it.                               *)
Runs(order, Joins(_, _)) ==
  LET starts == {k \in DOMAIN order : k = 1 \/ ~Joins(order[k - 1], order[k])}
  IN {{order[m] : m \in {n \in k..Len(order) : ~\E b \in starts : k < b /\ b <= n}} :
        k \in starts}

(* The members of a group, each at the place after those that precede it.  *)
Sorted(group, Precedes(_, _)) ==
  [k \in 1..Cardinality(group) |->
     CHOOSE i \in group : Cardinality({j \in group : Precedes(j, i)}) = k - 1]

SlotBefore(r, q) == r.slot < q.slot
TimeBefore(r, q) ==
  \/ r.ts < q.ts
  \/ r.ts = q.ts /\ r.slot < q.slot
  \/ r.ts = q.ts /\ r.slot = q.slot /\ r.sig < q.sig

InSlotOrder(ledger, group) == Sorted(group, LAMBDA i, j : SlotBefore(ledger[i], ledger[j]))
InTimeOrder(ledger, group) == Sorted(group, LAMBDA i, j : TimeBefore(ledger[i], ledger[j]))

(* Bursts: one timestamp and contiguous slots. *)
BurstGroups(ledger) ==
  Runs(InSlotOrder(ledger, DOMAIN ledger),
       LAMBDA i, j : ledger[j].ts = ledger[i].ts /\ ledger[j].slot = ledger[i].slot + 1)

(* Mutant: the window is a fixed bucket of absolute time. *)
MutantProximityRuns(ledger, group, window) ==
  {{i \in group : ledger[i].ts \div (NonNegative(window) + 1) = t} :
     t \in {ledger[i].ts \div (NonNegative(window) + 1) : i \in group}}

(* Episodes: a gap of more than the window to the record just before starts *)
(* a new one.                                                              *)
ProximityRuns(ledger, group, window) ==
  Runs(InTimeOrder(ledger, group),
       LAMBDA i, j : ledger[j].ts - ledger[i].ts <= NonNegative(window))

WindowGroups(ledger, window) == ProximityRuns(ledger, DOMAIN ledger, window)

-----------------------------------------------------------------------------
(* Repetition: the pairs of sources that at least k buckets have in common. *)
RepeatedPairs(ledger, buckets, k) ==
  LET Shared(a, b) == {bucket \in buckets : {a, b} \subseteq SourcesOf(ledger, bucket)}
  IN {p \in ActiveSources(ledger) \X ActiveSources(ledger) :
        p[1] # p[2] /\ Shared(p[1], p[2]) # {} /\ Cardinality(Shared(p[1], p[2])) >= k}

OfSize(ledger, buckets, lo, hi) ==
  {bucket \in buckets : Cardinality(SourcesOf(ledger, bucket)) \in lo..hi}

(* The records of each group, by destination. *)
CopayBuckets(c, ledger, groups) ==
  OfSize(ledger,
         UNION {{{i \in g : ledger[i].dst = d /\ ledger[i].amt >= c.copayMinAmount} :
                   d \in DestsOf(ledger)} : g \in groups},
         c.copayMinSources, c.maxSources)

(* Episodes of each destination on its own, destinations that transact only. *)
WindowedCopayBuckets(c, ledger) ==
  OfSize(ledger,
         UNION {ProximityRuns(ledger,
                              {i \in DOMAIN ledger : ledger[i].dst = d
                                 /\ ledger[i].amt >= c.copayMinAmount},
                              c.window) : d \in DestsOf(ledger) \cap ActiveSources(ledger)},
         c.copayMinSources, c.maxSources)

(* The sponsored records of each group. *)
CoactBuckets(c, ledger, groups) ==
  OfSize(ledger, {{i \in g : ledger[i].fee # ledger[i].src} : g \in groups}, 2, c.maxSources)

(* The funding graph as pairs of a funder and an account it funds: whoever *)
(* sends to an account that is somewhere a fee payer.                      *)
FundingEdges(ledger) ==
  {<<r.src, r.dst>> : r \in {q \in Records(ledger) : q.src # q.dst /\ q.dst \in FeePayers(ledger)}}

-----------------------------------------------------------------------------
(* The links of each heuristic.  (1) Payer and source of a transaction,    *)
(* and all the sources of a fee payer through the first of them.           *)
FeePayerLinks(ledger) ==
  {<<r.fee, r.src>> : r \in Records(ledger)} \cup
  UNION {{<<ledger[i].src, ledger[j].src>> :
            j \in {n \in DOMAIN ledger : i < n /\ ledger[n].fee = ledger[i].fee}} :
         i \in {m \in DOMAIN ledger : ~\E b \in 1..(m - 1) : ledger[b].fee = ledger[m].fee}}

(* (2) A destination that transacts, and its sources if they are few.      *)
CospendLinks(c, ledger) ==
  LET Payers(d) == {r.src : r \in {q \in Records(ledger) : MovesValue(q) /\ q.dst = d}}
  IN UNION {{d} \X Payers(d) : d \in {e \in ActiveSources(ledger) :
                                        Cardinality(Payers(e)) \in 2..c.maxSources}}

(* (3) Almost the same value moves on soon after it arrived.               *)
PeelLinks(c, ledger) ==
  LET txs == {r \in Records(ledger) : MovesValue(r)}
      Near(x, y) == LET gap == IF x.amt > y.amt THEN x.amt - y.amt ELSE y.amt - x.amt
                    IN gap <= (x.amt * c.toleranceBps) \div 10000
  IN {<<p[1].src, p[2].dst>> : p \in
        {q \in txs \X txs : /\ q[2].src = q[1].dst
                            /\ q[2].ts \in q[1].ts..(q[1].ts + c.peelWindow)
                            /\ q[1].sig # q[2].sig
                            /\ Near(q[1], q[2])}}

(* (4) Value enters an account whose first own transaction follows soon.   *)
LineageLinks(c, ledger) ==
  LET ActivatedIn(r) ==
        /\ \E q \in Records(ledger) : q.src = r.dst /\ q.ts <= r.ts + NonNegative(c.lineageWindow)
        /\ \A q \in Records(ledger) : q.src = r.dst => q.ts >= r.ts
  IN {<<r.src, r.dst>> : r \in {q \in Records(ledger) : MovesValue(q) /\ ActivatedIn(q)}}

Groups(c, ledger) ==
  IF c.windowed THEN WindowGroups(ledger, c.window) ELSE BurstGroups(ledger)

CopayLinks(c, ledger) ==
  RepeatedPairs(ledger,
                IF c.windowed THEN WindowedCopayBuckets(c, ledger)
                ELSE CopayBuckets(c, ledger, Groups(c, ledger)),
                c.copayMinShared)

(* (5) Co-activity is counted over bursts even when windows are used.      *)
CoactLinks(c, ledger) ==
  RepeatedPairs(ledger, CoactBuckets(c, ledger, BurstGroups(ledger)), c.coactMinShared)

(* (7) A funder of enough fee payers and all the sources they paid for.    *)
FunderLinks(c, ledger) ==
  LET edges == FundingEdges(ledger)
      Fundees(f) == {e[2] : e \in {x \in edges : x[1] = f}}
      Served(f) == {r.src : r \in {q \in Records(ledger) : q.fee # q.src /\ q.fee \in Fundees(f)}}
  IN UNION {{f} \X Served(f) : f \in {e[1] : e \in {x \in edges :
              /\ Cardinality(Fundees(x[1])) >= c.minFundees
              /\ Cardinality(Served(x[1])) \in 2..c.maxFunded}}}

(* (6) The ablation: all the sources of a group.                           *)
CeilingLinks(c, ledger) ==
  UNION {SourcesOf(ledger, g) \X SourcesOf(ledger, g) :
           g \in OfSize(ledger, Groups(c, ledger), 2, c.maxSources)}

-----------------------------------------------------------------------------
(* The order in which cluster runs them. *)
Heuristics ==
  <<"fee_payer", "cospend", "temporal_amount", "activation_lineage",
    "burst_copay", "burst_coactivity", "funder_graph", "burst_union_ceiling">>

LinksOf(c, ledger, h) ==
  IF h \notin c.use THEN {}
  ELSE CASE h = "fee_payer" -> FeePayerLinks(ledger)
         [] h = "cospend" -> CospendLinks(c, ledger)
         [] h = "temporal_amount" -> PeelLinks(c, ledger)
         [] h = "activation_lineage" -> LineageLinks(c, ledger)
         [] h = "burst_copay" -> CopayLinks(c, ledger)
         [] h = "burst_coactivity" -> CoactLinks(c, ledger)
         [] h = "funder_graph" -> FunderLinks(c, ledger)
         [] h = "burst_union_ceiling" -> CeilingLinks(c, ledger)
=============================================================================
