------------------------------- MODULE Features -------------------------------
(***************************************************************************)
(* The observable features of a pair of accounts that the learned adversary *)
(* of crates/adversary/src/ml.rs is trained on, and the ranking quality it *)
(* reports, as pure operators over the ledgers of module Evidence.  A pair *)
(* is a set of two accounts.  A configuration c has the fields window,     *)
(* peelWindow, toleranceBps and lineageWindow of MlConfig.  Counts stand   *)
(* for their logarithms, which order and separate pairs in the same way.   *)
(***************************************************************************)
EXTENDS Metric

(* Jaccard indices and overlaps, in parts of Unit: exact for quotients     *)
(* with a denominator of at most ten.                                      *)
Unit == 2520
Share(part, whole) == IF whole = 0 THEN 0 ELSE (part * Unit) \div whole

PayersFor(ledger, a) == {r.fee : r \in {q \in Records(ledger) : q.src = a}}
DestsFrom(ledger, a) == {r.dst : r \in {q \in Records(ledger) : q.src = a}}
TimesOf(ledger, a) == {r.ts : r \in {q \in Records(ledger) : q.src = a}}

Jaccard(S, T) == Share(Cardinality(S \cap T), Cardinality(S \cup T))

(* The common part of the two accounts' life spans; an account that never  *)
(* signs gets the span (0, 0).                                             *)
SpanOf(ledger, a) ==
  IF TimesOf(ledger, a) = {} THEN [from |-> 0, to |-> 0]
  ELSE [from |-> Min(TimesOf(ledger, a)), to |-> Max(TimesOf(ledger, a))]
Overlap(s, t) ==
  Share(NonNegative(Min({s.to, t.to}) - Max({s.from, t.from})),
        Max({Max({s.to, t.to}) - Min({s.from, t.from}), 1}))

(* Bursts, and windows by destination, in which both accounts are sources. *)
Coburst(ledger, pair) ==
  Cardinality({g \in BurstGroups(ledger) : pair \subseteq SourcesOf(ledger, g)})
WindowedCopay(c, ledger, pair) ==
  Cardinality({x \in WindowGroups(ledger, c.window) \X DestsOf(ledger) :
                 pair \subseteq SourcesOf(ledger, {i \in x[1] : ledger[i].dst = x[2]})})

(* Funders behind fee payers of both.                                      *)
FundingHop(ledger, pair) ==
  LET Fundees(f) == {e[2] : e \in {x \in FundingEdges(ledger) : x[1] = f}}
      Served(f) == {r.src : r \in {q \in Records(ledger) : q.fee # q.src /\ q.fee \in Fundees(f)}}
  IN Cardinality({f \in {e[1] : e \in FundingEdges(ledger)} : pair \subseteq Served(f)})

(* Mutant: the account may have signed before the value arrived.           *)
MutantActivations(c, ledger, pair) ==
  Cardinality({i \in DOMAIN ledger :
    LET r == ledger[i]
    IN MovesValue(r) /\ {r.src, r.dst} = pair
       /\ \E q \in Records(ledger) : q.src = r.dst /\ q.ts - r.ts <= NonNegative(c.lineageWindow)})

(* Transfers between the two whose receiver first signs within the window. *)
Activations(c, ledger, pair) ==
  Cardinality({i \in DOMAIN ledger :
    LET r == ledger[i]
    IN /\ MovesValue(r) /\ {r.src, r.dst} = pair
       /\ TimesOf(ledger, r.dst) # {}
       /\ Min(TimesOf(ledger, r.dst)) - r.ts \in 0..NonNegative(c.lineageWindow)})

(* Value that leaves one and reaches the other over an account in between. *)
Peels(c, ledger, pair) ==
  Cardinality({x \in (DOMAIN ledger) \X (DOMAIN ledger) :
    LET in == ledger[x[1]]
        out == ledger[x[2]]
        gap == IF in.amt > out.amt THEN in.amt - out.amt ELSE out.amt - in.amt
    IN /\ MovesValue(in) /\ MovesValue(out) /\ out.src = in.dst
       /\ out.ts \in in.ts..(in.ts + c.peelWindow) /\ in.sig # out.sig
       /\ gap <= (in.amt * c.toleranceBps) \div 10000
       /\ in.src # out.dst /\ {in.src, out.dst} = pair})

FeatureNames ==
  <<"fee_payer_jaccard", "dest_jaccard", "coburst", "windowed_copay",
    "funding_hop", "activation_lineage", "peel", "timespan_overlap">>

(* Features::vector.                                                       *)
Vector(c, ledger, pair) ==
  LET a == CHOOSE x \in pair : TRUE
      b == CHOOSE x \in pair \ {a} : TRUE
  IN <<Jaccard(PayersFor(ledger, a), PayersFor(ledger, b)),
       Jaccard(DestsFrom(ledger, a), DestsFrom(ledger, b)),
       Coburst(ledger, pair),
       WindowedCopay(c, ledger, pair),
       FundingHop(ledger, pair),
       Activations(c, ledger, pair),
       Peels(c, ledger, pair),
       Overlap(SpanOf(ledger, a), SpanOf(ledger, b))>>

-----------------------------------------------------------------------------
(* Mutant: everyone of a tie gets the last rank of the tie.                *)
MutantTwiceRank(score, x) == 2 * Cardinality({y \in DOMAIN score : score[y] <= score[x]})

(* Twice the average rank of x among the equally scored: from one more     *)
(* than those below it to all but those above it.                          *)
TwiceRank(score, x) ==
  1 + Cardinality({y \in DOMAIN score : score[y] < score[x]})
    + Cardinality({y \in DOMAIN score : score[y] <= score[x]})

(* roc_auc: the Mann-Whitney statistic of the positives from their rank    *)
(* sum, doubled so that it is an integer; the AUC is its quotient by twice *)
(* the number of couples of a positive and a negative.  It is undefined    *)
(* when one of the classes is empty.                                       *)
AucDefined(score, positive) == positive # {} /\ DOMAIN score \ positive # {}
TwiceU(score, positive) ==
  SumFunction([x \in positive |-> TwiceRank(score, x)])
    - Cardinality(positive) * (Cardinality(positive) + 1)
=============================================================================
