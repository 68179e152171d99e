------------------------------ MODULE FundedRun ------------------------------
(***************************************************************************)
(* A run of the engine and then the funding post-pass of                   *)
(* crates/agent-runtime/src/funding.rs: every throwaway fee payer of the   *)
(* finished ledger is funded by one appended transfer that is dated before *)
(* its first use.  The funding generator's draws (relayer, lead time) are  *)
(* nondeterministic.  A configuration has one more field, funding: a       *)
(* record of kind ("none", "hub", "dedicated" or "relayers"), k (relayers  *)
(* in the pool) and sticky.                                                *)
(***************************************************************************)
EXTENDS FleetRun, Metric

CONSTANTS Leads,     \* results of drawing lead_min_secs..=lead_max_secs
          Analyst    \* the configuration of an analyst of the funder graph

ASSUME FundingAssumption ==
  /\ \A c \in Configs :
       /\ c.funding.kind \in {"none", "hub", "dedicated", "relayers"}
       /\ c.funding.k \in Nat /\ c.funding.sticky \in BOOLEAN
  /\ Leads \subseteq Nat \ {0}
  /\ {Analyst.minFundees, Analyst.maxFunded} \subseteq Nat

VARIABLES suffix,  \* the records that the post-pass appended
          funded   \* whether it is over

vars == <<engine, suffix, funded>>

AgentsOfRun == DOMAIN sim.main
policy == cfg.funding

-----------------------------------------------------------------------------
(* Accounts drawn from the funding generator, a stream of its own.         *)
FundingDraw(j) == <<-2, 0, j>>
Pool(p) == {FundingDraw(j) : j \in 1..(IF p.k < 1 THEN 1 ELSE p.k)}

(* Mutant: one dedicated funder is drawn, and not one per operator.        *)
MutantFundersFor(p, a) ==
  CASE p.kind = "hub" -> {sim.main[a]}
    [] p.kind = "dedicated" -> {FundingDraw(1)}
    [] p.kind = "relayers" -> Pool(p)

(* The funders the policy lets operator a have. *)
FundersFor(p, a) ==
  CASE p.kind = "hub" -> {sim.main[a]}
    [] p.kind = "dedicated" -> {FundingDraw(a)}
    [] p.kind = "relayers" -> Pool(p)

(* A sticky relayer is drawn once per operator, others once per event.     *)
KeptFor(p, funder) ==
  p.kind = "relayers" /\ p.sticky =>
    \A i, j \in DOMAIN funder : ledger[i].op = ledger[j].op => funder[i] = funder[j]

(* The first use of every fee payer that is no source itself.              *)
FirstUses ==
  {i \in DOMAIN ledger :
     /\ ledger[i].fee \notin ActiveSources(ledger)
     /\ ~\E j \in 1..(i - 1) : ledger[j].fee = ledger[i].fee}

(* Mutant: the lead is added. *)
MutantFundingAt(i, lead) == ledger[i].ts + lead

FundingAt(i, lead) == ledger[i].ts - lead

(* Relayers are third parties. *)
Label(p, i) == IF p.kind = "relayers" THEN NoOperator ELSE ledger[i].op

(* Events in the order of time; ties are in the order of the fee payers'   *)
(* random bytes, so in any.                                                *)
TimeOrders(events, lead) ==
  {order \in Bijection(1..Cardinality(events), events) :
     \A m, n \in DOMAIN order :
       m < n => FundingAt(order[m], lead[order[m]]) <= FundingAt(order[n], lead[order[n]])}

Appended(p, order, funder, lead) ==
  [n \in DOMAIN order |->
     LET i == order[n]
     IN [sig |-> sim.sig + n, slot |-> sim.slot + n, ts |-> FundingAt(i, lead[i]),
         src |-> funder[i], dst |-> ledger[i].fee, fee |-> funder[i], op |-> Label(p, i)]]

NothingFunded == policy.kind = "none" \/ cfg.mode = "naive"

(* apply_funding.  The base records stay as they are: the ledger that is   *)
(* returned is the base ledger and the suffix.                             *)
ApplyFunding ==
  /\ Done(cfg, sim) /\ ~funded
  /\ funded' = TRUE
  /\ UNCHANGED engine
  /\ IF NothingFunded THEN UNCHANGED suffix
     ELSE \E funder \in [FirstUses -> UNION {FundersFor(policy, a) : a \in AgentsOfRun}],
             lead \in [FirstUses -> Leads] :
            /\ \A i \in FirstUses : funder[i] \in FundersFor(policy, ledger[i].op)
            /\ KeptFor(policy, funder)
            /\ \E order \in TimeOrders({i \in FirstUses : funder[i] # ledger[i].fee}, lead) :
                 suffix' = Appended(policy, order, funder, lead)

Init ==
  /\ EngineInit
  /\ suffix = << >> /\ funded = FALSE

Next ==
  \/ \E d \in Draws : Turn(d) /\ UNCHANGED <<suffix, funded>>
  \/ ApplyFunding

Spec == Init /\ [][Next]_vars

-----------------------------------------------------------------------------
(* The ledger that simulate returns. *)
Returned == ledger \o suffix

(* Every throwaway fee payer is funded by exactly one appended transfer,   *)
(* dated before all of its uses (which relies on the engine's records      *)
(* being in the order of time, since the pass looks at the first one       *)
(* only), and by a funder its operator may have; the suffix funds nothing  *)
(* else, continues the numbering and is in the order of time.              *)
FundedOnceBeforeUse ==
  funded /\ ~NothingFunded =>
    /\ \A r \in Range(ledger) :
         LET fundings == {n \in DOMAIN suffix : suffix[n].dst = r.fee}
         IN /\ Cardinality(fundings) = 1
            /\ \A n \in fundings : /\ suffix[n].ts < r.ts
                                   /\ suffix[n].src \in FundersFor(policy, r.op)
    /\ \A q \in Range(suffix) : \E r \in Range(ledger) : r.fee = q.dst
    /\ \A n \in DOMAIN Returned : Returned[n].sig = n /\ Returned[n].slot = n
    /\ \A m, n \in DOMAIN suffix : m < n => suffix[m].ts <= suffix[n].ts

(* What the metric infers from structure alone is the truth: it counts as  *)
(* funding exactly the appended records, there is no funding edge before   *)
(* them (cooked ledgers only: in a naive one the rebalance pays the        *)
(* account that pays the fees), and the operators it finds behind a funder *)
(* are the ones that were assigned to it.                                  *)
MetricSeesFunding ==
  /\ FundingRecords(Returned) = Len(suffix)
  /\ cfg.mode # "naive" => FundingEdges(ledger) = {}
  /\ funded /\ ~NothingFunded =>
       LET sets == AnonymitySets(Returned)
       IN \A f \in DOMAIN sets :
            sets[f] = {r.op : r \in {q \in Range(ledger) : \E s \in Range(suffix) :
                                       s.src = f /\ s.dst = q.fee}}

(* The accounts one can reach from x over links, in either direction.      *)
Linked(links, S) == S \cup {l[1] : l \in {k \in links : k[2] \in S}}
                      \cup {l[2] : l \in {k \in links : k[1] \in S}}
ClusterOf(links, x, n) ==
  LET reach[m \in 0..n] == IF m = 0 THEN {x} ELSE Linked(links, reach[m - 1])
  IN reach[n]

(* The leak the funding model exists to show: from fee payers and funders  *)
(* alone, an analyst links every two sources of an operator that paid from *)
(* its own hub or from a wallet of its own for as many fee payers as the   *)
(* analyst asks for, unless it has more sources than the analyst puts down *)
(* to one funder; likewise in every naive run, where the main account pays *)
(* for all of them (README.md: naive is fully de-anonymized).  And,        *)
(* relayers apart, it never links two operators.                           *)
FundersGiveAway ==
  funded /\ (cfg.mode = "naive" \/ policy.kind \in {"hub", "dedicated"}) =>
    LET links == FeePayerLinks(Returned) \cup FunderLinks(Analyst, Returned)
        SourcesFor(a) == {r.src : r \in {q \in Range(ledger) : q.op = a}}
        FeesFor(a) == {r.fee : r \in {q \in Range(ledger) : q.op = a}}
        GivenAway(a) ==
          \/ cfg.mode = "naive"
          \/ /\ Cardinality(FeesFor(a)) >= Analyst.minFundees
             /\ Cardinality(SourcesFor(a)) <= Analyst.maxFunded
    IN \A x \in Owned(Returned) :
         LET cluster == ClusterOf(links, x, Cardinality(AccountsOf(Returned)))
         IN \A y \in Owned(Returned) :
              /\ y \in cluster => OwnerOf(Returned, x) = OwnerOf(Returned, y)
              /\ \A a \in AgentsOfRun :
                   GivenAway(a) /\ {x, y} \subseteq SourcesFor(a) => y \in cluster
=============================================================================
