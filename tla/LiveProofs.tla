------------------------------ MODULE LiveProofs ------------------------------
(***************************************************************************)
(* Proofs about LiveAction for every set of actions, every limit and every *)
(* behaviour of the cluster.  The inductive invariant LiveInv says which   *)
(* transactions the client may have let out of its hands at each place of  *)
(* its program, and that the ledger holds nothing else.                    *)
(***************************************************************************)
EXTENDS LiveAction, FiniteSetTheorems, TLAPS

(* What the client sent: one transaction for each role at most, none       *)
(* before the blockhash for it was fetched, and the action only after the  *)
(* funding was confirmed.                                                  *)
SentOnce == \A x, y \in sent : x.role = y.role => x = y
SentRoles == \A x \in sent : x.role \in {Fund, Act}
SentInOrder ==
  /\ pc \in {"stake", "quote", "quote_funding", "balance"} => sent = {}
  /\ pc \in {"hash", "requote"} => \A x \in sent : x.role # tx.role
  /\ pc \in {"send", "valid", "status"} => \A x \in sent : x.role = tx.role => x = tx
  /\ pc \notin {"stake", "quote", "quote_funding", "balance", "done"} => tx.role \in {Fund, Act}
  /\ pc = "requote" => tx.role = Act
  /\ pc # "done" /\ tx.role # Act => \A x \in sent : x.role # Act
FundingConfirmed ==
  \E l \in landed : l.tx.role = Fund /\ l.ok /\ l.status = "confirmed"
ActedOnFunding ==
  tx.role = Act \/ (\E x \in sent : x.role = Act) => FundingConfirmed

(* The transaction in hand and the entries of the ledger are records.      *)
Shapes ==
  /\ tx = [role |-> tx.role, hash |-> tx.hash]
  /\ \A l \in landed : l = [tx |-> l.tx, status |-> l.status, ok |-> l.ok, fee |-> l.fee]

(* What is in the ledger was sent, and is there once.                      *)
LandedSent == \A l \in landed : l.tx \in sent
LandedOnce == \A l, m \in landed : l.tx = m.tx => l = m

EarlyExit == {"stake_minimum", "topup_limit", "debit_limit", "poor", "quoted", "fee_rose"}
Receipt ==
  /\ ret = "ok" => /\ FundingConfirmed
                   /\ \E l \in landed : l.tx.role = Act /\ l.ok /\ l.status = "confirmed"
  /\ ret \in EarlyExit => \A x \in sent : x.role # Act
  /\ pc = "done" \/ ret = "none"

LiveInv ==
  /\ Shapes /\ SentOnce /\ SentRoles /\ SentInOrder /\ ActedOnFunding
  /\ LandedSent /\ LandedOnce /\ Receipt

-----------------------------------------------------------------------------
LEMMA LiveInit == Init => LiveInv
  BY DEF Init, LiveInv, Shapes, SentOnce, SentRoles, SentInOrder, ActedOnFunding, LandedSent,
         LandedOnce, Receipt, EarlyExit, NoTx, Fund, Act

(* The client's steps leave the ledger alone: what was confirmed stays so. *)
LEMMA ClientKeeps ==
  ASSUME LiveInv, ClientStep \/ RpcError
  PROVE  LiveInv'
  <1> USE DEF LiveInv, Fund, Act
  <1>0. UNCHANGED landed
    BY DEF ClientStep, RpcError, CheckStake, QuoteAction, QuoteFunding, CheckBalance, GetBlockhash,
           Requote, Resend, CheckBlockhash, StatusFailed, StatusConfirmed, StatusPending, cluster
  <1>1. FundingConfirmed <=> FundingConfirmed'
    BY <1>0 DEF FundingConfirmed
  <1>2. CASE CheckStake \/ QuoteAction \/ QuoteFunding
    BY <1>0, <1>1, <1>2
       DEF CheckStake, QuoteAction, QuoteFunding, Return, cluster, Shapes, SentOnce, SentRoles,
           SentInOrder, ActedOnFunding, LandedSent, LandedOnce, Receipt, EarlyExit
  <1>3. CASE CheckBalance
    BY <1>0, <1>1, <1>3
       DEF CheckBalance, NoTx, Return, cluster, Shapes, SentOnce, SentRoles,
           SentInOrder, ActedOnFunding, LandedSent, LandedOnce, Receipt, EarlyExit
  <1>4. CASE GetBlockhash
    BY <1>0, <1>1, <1>4
       DEF GetBlockhash, cluster, Shapes, SentOnce, SentRoles,
           SentInOrder, ActedOnFunding, LandedSent, LandedOnce, Receipt, EarlyExit
  <1>5. CASE Requote
    BY <1>0, <1>1, <1>5
       DEF Requote, Return, cluster, Shapes, SentOnce, SentRoles,
           SentInOrder, ActedOnFunding, LandedSent, LandedOnce, Receipt, EarlyExit
  <1>6. CASE Resend
    BY <1>0, <1>1, <1>6
       DEF Resend, Return, cluster, Shapes, SentOnce, SentRoles,
           SentInOrder, ActedOnFunding, LandedSent, LandedOnce, Receipt, EarlyExit
  <1>7. CASE CheckBlockhash \/ StatusFailed \/ StatusPending \/ RpcError
    BY <1>0, <1>1, <1>7
       DEF CheckBlockhash, StatusFailed, StatusPending, RpcError, Return, cluster, Shapes, SentOnce,
           SentRoles, SentInOrder, ActedOnFunding, LandedSent, LandedOnce, Receipt, EarlyExit
  <1>8. CASE StatusConfirmed
    BY <1>0, <1>1, <1>8
       DEF StatusConfirmed, Confirmed, FundingConfirmed, NoTx, Return, cluster, Shapes, SentOnce,
           SentRoles, SentInOrder, ActedOnFunding, LandedSent, LandedOnce, Receipt, EarlyExit
  <1> QED
    BY <1>2, <1>3, <1>4, <1>5, <1>6, <1>7, <1>8 DEF ClientStep

(* The cluster's steps leave the client alone: only the ledger changes.    *)
LEMMA ClusterKeeps ==
  ASSUME LiveInv, ClusterStep
  PROVE  LiveInv'
  <1> USE DEF LiveInv, Fund, Act
  <1>1. UNCHANGED <<client, sent>>
    BY DEF ClusterStep, Tick, ChangeRate, SpendElsewhere, Land, Confirm, AbandonFork
  <1>2. SUFFICES /\ FundingConfirmed => FundingConfirmed'
                 /\ \A l \in landed' :
                      /\ l = [tx |-> l.tx, status |-> l.status, ok |-> l.ok, fee |-> l.fee]
                      /\ l.tx \in sent
                 /\ \A l, m \in landed' : l.tx = m.tx => l = m
                 /\ (\E l \in landed : l.tx.role = Act /\ l.ok /\ l.status = "confirmed")
                      => \E l \in landed' : l.tx.role = Act /\ l.ok /\ l.status = "confirmed"
    BY <1>1 DEF client, Shapes, SentOnce, SentRoles, SentInOrder, ActedOnFunding, LandedSent,
                LandedOnce, Receipt
  <1>3. CASE UNCHANGED landed
    BY <1>3 DEF FundingConfirmed, Shapes, LandedSent, LandedOnce
  <1>4. ASSUME NEW x \in sent, Land(x)
        PROVE  \E l : /\ l = [tx |-> l.tx, status |-> l.status, ok |-> l.ok, fee |-> l.fee]
                      /\ l.tx = x
                      /\ landed' = landed \cup {l}
                      /\ \A m \in landed : m.tx # x
    BY <1>4 DEF Land, Landing
  <1>5. CASE \E x \in sent : Land(x)
    BY <1>4, <1>5 DEF FundingConfirmed, Shapes, LandedSent, LandedOnce
  <1>6. ASSUME NEW l \in landed, Confirm(l)
        PROVE  \E m : /\ m = [tx |-> l.tx, status |-> "confirmed", ok |-> l.ok, fee |-> l.fee]
                      /\ landed' = (landed \ {l}) \cup {m}
                      /\ l.status # "confirmed"
    <2>1. [l EXCEPT !.status = "confirmed"]
            = [tx |-> l.tx, status |-> "confirmed", ok |-> l.ok, fee |-> l.fee]
      BY DEF Shapes
    <2> QED
      BY <1>6, <2>1 DEF Confirm
  <1>7. CASE \E l \in landed : Confirm(l)
    BY <1>6, <1>7 DEF FundingConfirmed, Shapes, LandedSent, LandedOnce
  <1>8. CASE \E l \in landed : AbandonFork(l)
    BY <1>8 DEF AbandonFork, FundingConfirmed, Shapes, LandedSent, LandedOnce
  <1> QED
    BY <1>3, <1>5, <1>7, <1>8 DEF ClusterStep, Tick, ChangeRate, SpendElsewhere

LEMMA Stutters ==
  ASSUME LiveInv, UNCHANGED vars
  PROVE  LiveInv'
  BY DEF vars, LiveInv, Shapes, SentOnce, SentRoles, SentInOrder, FundingConfirmed, ActedOnFunding,
         LandedSent, LandedOnce, Receipt

(* The inductive invariant holds in every reachable state.                 *)
LEMMA LiveInvariant == Spec => []LiveInv
  <1>1. LiveInv /\ [Next]_vars => LiveInv'
    BY ClientKeeps, ClusterKeeps, Stutters DEF Next
  <1> QED
    BY LiveInit, <1>1, PTL DEF Spec

-----------------------------------------------------------------------------
(* However often send_idempotent sends the same bytes again, and whatever  *)
(* the cluster does with them, each of the two transactions is in the      *)
(* ledger at most once.                                                    *)
THEOREM OneEffect == Spec => []AtMostOneEffect
  <1>1. LiveInv => AtMostOneEffect
    <2>1. SUFFICES ASSUME LiveInv, NEW role \in {Fund, Act}
                   PROVE  Cardinality(Entries(role)) <= 1
      BY DEF AtMostOneEffect
    <2>2. \A l, m \in Entries(role) : l = m
      BY <2>1 DEF LiveInv, LandedSent, LandedOnce, SentOnce, Entries
    <2>3. CASE Entries(role) = {}
      BY <2>3, FS_EmptySet
    <2>4. CASE Entries(role) # {}
      <3>1. PICK l : Entries(role) = {l}
        BY <2>2, <2>4
      <3> QED
        BY <3>1, FS_Singleton
    <2> QED
      BY <2>3, <2>4
  <1> QED
    BY LiveInvariant, <1>1, PTL

(* run_live_action submits the action only after the transfer that funds   *)
(* its fee payer is confirmed: no fork the cluster abandons later can take *)
(* the money back.                                                         *)
THEOREM FundingIsSafe == Spec => []FundedBeforeAction
  <1>1. LiveInv => FundedBeforeAction
    BY DEF LiveInv, ActedOnFunding, FundingConfirmed, FundedBeforeAction, Entries
  <1> QED
    BY LiveInvariant, <1>1, PTL

(* A receipt of run_live_action means that both transactions took effect,  *)
(* and its early errors mean that the action was never sent.               *)
THEOREM ReceiptHolds == Spec => []ReceiptIsTrue
  <1>1. LiveInv => ReceiptIsTrue
    BY DEF LiveInv, Receipt, FundingConfirmed, LandedSent, EarlyExit, ReceiptIsTrue, Entries
  <1> QED
    BY LiveInvariant, <1>1, PTL

-----------------------------------------------------------------------------
(* What the ledger adds up to.  A role has one entry at most, so the sum   *)
(* of its fees is that entry's fee.                                        *)
FeeSum(f, S) ==
  f = [s \in SUBSET S |-> IF s = {} THEN 0
                          ELSE (CHOOSE x \in s : TRUE).fee + f[s \ {CHOOSE x \in s : TRUE}]]

LEMMA FeesOfNone ==
  ASSUME NEW role, Entries(role) = {}
  PROVE  FeesOf(role) = 0
  <1> DEFINE S == Entries(role)
             F == CHOOSE f : FeeSum(f, S)
             g == [s \in SUBSET S |-> 0]
  <1>1. FeeSum(g, S)
    BY DEF FeeSum
  <1>2. FeeSum(F, S)
    BY <1>1
  <1>3. FeesOf(role) = F[S]
    BY DEF FeesOf, MapThenSumSet, MapThenFoldSet, FeeSum
  <1> HIDE DEF F
  <1> QED
    BY <1>2, <1>3 DEF FeeSum

LEMMA FeesOfOne ==
  ASSUME NEW role, NEW x, Entries(role) = {x}
  PROVE  FeesOf(role) = x.fee + 0
  <1> DEFINE S == Entries(role)
             F == CHOOSE f : FeeSum(f, S)
             g == [s \in SUBSET S |-> IF s = {} THEN 0 ELSE x.fee + 0]
  <1>1. ASSUME NEW s \in SUBSET S
        PROVE  g[s] = IF s = {} THEN 0
                      ELSE (CHOOSE y \in s : TRUE).fee + g[s \ {CHOOSE y \in s : TRUE}]
    <2>1. CASE s = {}
      BY <2>1
    <2>2. CASE s = S
      <3>1. (CHOOSE y \in s : TRUE) = x /\ s \ {x} = {} /\ {} \in SUBSET S
        BY <2>2
      <3> QED
        BY <2>2, <3>1
    <2> QED
      BY <2>1, <2>2
  <1>2. FeeSum(g, S)
    BY <1>1 DEF FeeSum
  <1>3. FeeSum(F, S)
    BY <1>2
  <1>4. FeesOf(role) = F[S]
    BY DEF FeesOf, MapThenSumSet, MapThenFoldSet, FeeSum
  <1> HIDE DEF F
  <1>5. F[S] = x.fee + F[S \ {x}]
    BY <1>3 DEF FeeSum
  <1>6. F[{}] = 0 /\ S \ {x} = {}
    BY <1>3 DEF FeeSum
  <1> QED
    BY <1>4, <1>5, <1>6

(* What is moved for a role is nothing, or once the amount if its entry    *)
(* took effect.                                                            *)
LEMMA MovedByFacts ==
  ASSUME NEW role, NEW amount \in Nat
  PROVE  /\ Entries(role) = {} => MovedBy(role, amount) = 0
         /\ \A x : Entries(role) = {x} => MovedBy(role, amount) = IF x.ok THEN amount ELSE 0
  <1> DEFINE oks == {l \in Entries(role) : l.ok}
  <1>1. MovedBy(role, amount) = amount * Cardinality(oks)
    BY DEF MovedBy
  <1>2. Cardinality({}) = 0 /\ \A x : Cardinality({x}) = 1
    BY FS_EmptySet, FS_Singleton
  <1>3. oks = {} => MovedBy(role, amount) = 0
    BY <1>1, <1>2
  <1>4. ASSUME NEW x, oks = {x} PROVE MovedBy(role, amount) = amount
    <2>1. Cardinality(oks) = 1
      BY <1>2, <1>4
    <2> HIDE DEF oks
    <2> QED
      BY <1>1, <2>1
  <1>5. ASSUME NEW x, Entries(role) = {x} PROVE IF x.ok THEN oks = {x} ELSE oks = {}
    BY <1>5
  <1>6. Entries(role) = {} => oks = {}
    OBVIOUS
  <1> HIDE DEF oks
  <1> QED
    BY <1>3, <1>4, <1>5, <1>6

(* The amounts are naturals, and everything that was sent was sent within  *)
(* the limits and on demand.                                               *)
Amounts ==
  /\ action \in Actions /\ execute \in BOOLEAN /\ rate \in Rates
  /\ actionFee \in Nat /\ fundingFee \in Nat
  /\ \A l \in landed : l.fee \in Nat
Underway == pc \in {"hash", "requote", "send", "valid", "status"} \/ sent # {}
WithinLimits ==
  /\ pc \in {"quote_funding", "balance"} \/ Underway => Topup <= MaxFeePayerTopup
  /\ pc = "balance" \/ Underway => RequiredDebit <= MaxTotalDebit
  /\ Underway => execute
LimitInv == Amounts /\ WithinLimits

LEMMA LimitFacts ==
  /\ \A a \in Actions : a.debit \in Nat /\ a.sigs \in Nat \ {0}
  /\ Rates \subseteq Nat /\ Rent \in Nat /\ MaxTotalDebit \in Nat /\ MaxFeePayerTopup \in Nat
  BY LimitsAssumption

LEMMA LimitInit == Init => LimitInv
  BY LimitFacts DEF Init, LimitInv, Amounts, WithinLimits, Underway

LEMMA LimitStep == LiveInv /\ LimitInv /\ [Next]_vars => LimitInv'
  <1> SUFFICES ASSUME LiveInv, LimitInv, [Next]_vars PROVE LimitInv'
    OBVIOUS
  <1> USE LimitFacts DEF LimitInv
  <1>1. \A a \in Actions, r \in Rates : a.sigs * r \in Nat
    OBVIOUS
  <1>2. CASE CheckStake
    BY <1>2 DEF CheckStake, Return, cluster, Amounts, WithinLimits, Underway, RequiredDebit, Topup
  <1>3. CASE QuoteAction
    BY <1>1, <1>3 DEF QuoteAction, Return, cluster, Amounts, WithinLimits, Underway, Topup,
                      LiveInv, SentInOrder
  <1>4. CASE QuoteFunding
    BY <1>4 DEF QuoteFunding, Return, cluster, Amounts, WithinLimits, Underway, RequiredDebit, Topup,
                LiveInv, SentInOrder
  <1>5. CASE CheckBalance
    BY <1>5 DEF CheckBalance, Return, cluster, Amounts, WithinLimits, Underway, RequiredDebit, Topup
  <1>6. CASE GetBlockhash \/ Requote \/ Resend \/ CheckBlockhash
    BY <1>6 DEF GetBlockhash, Requote, Resend, CheckBlockhash, Return, cluster, Amounts, WithinLimits,
                Underway, RequiredDebit, Topup
  <1>7. CASE StatusFailed \/ StatusConfirmed \/ StatusPending \/ RpcError
    BY <1>7 DEF StatusFailed, StatusConfirmed, StatusPending, RpcError, Return, cluster, Amounts,
                WithinLimits, Underway, RequiredDebit, Topup
  <1>8. CASE ClusterStep
    <2>1. UNCHANGED <<client, sent>>
      BY <1>8 DEF ClusterStep, Tick, ChangeRate, SpendElsewhere, Land, Confirm, AbandonFork
    <2>2. WithinLimits'
      BY <2>1 DEF client, WithinLimits, Underway, RequiredDebit, Topup
    <2>3. rate' \in Rates
      BY <1>8 DEF ClusterStep, Tick, ChangeRate, SpendElsewhere, Land, Confirm, AbandonFork, Amounts
    <2>4. ASSUME NEW l \in landed' PROVE l.fee \in Nat
      <3>1. CASE UNCHANGED landed
        BY <3>1 DEF Amounts
      <3>2. CASE \E x \in sent : Land(x)
        BY <1>1, <3>2 DEF Land, Landing, Amounts
      <3>3. CASE \E m \in landed : Confirm(m)
        BY <3>3 DEF Confirm, Amounts, LiveInv, Shapes
      <3>4. CASE \E m \in landed : AbandonFork(m)
        BY <3>4 DEF AbandonFork, Amounts
      <3> QED
        BY <1>8, <3>1, <3>2, <3>3, <3>4 DEF ClusterStep, Tick, ChangeRate, SpendElsewhere
    <2> QED
      BY <2>1, <2>2, <2>3, <2>4 DEF client, Amounts
  <1>9. CASE UNCHANGED vars
    BY <1>9 DEF vars, Amounts, WithinLimits, Underway, RequiredDebit, Topup
  <1> QED
    BY <1>2, <1>3, <1>4, <1>5, <1>6, <1>7, <1>8, <1>9 DEF Next, ClientStep

LEMMA LimitInvariant == Spec => []LimitInv
  <1> QED
    BY LiveInvariant, LimitInit, LimitStep, PTL DEF Spec

(* Entries of a role: none, or one.                                        *)
LEMMA OneEntry ==
  ASSUME LiveInv, NEW role \in {Fund, Act}
  PROVE  Entries(role) = {} \/ \E x \in landed : Entries(role) = {x} /\ x.tx.role = role
  <1>1. \A l, m \in Entries(role) : l = m
    BY DEF LiveInv, LandedSent, LandedOnce, SentOnce, Entries
  <1>2. \A l \in Entries(role) : l \in landed /\ l.tx.role = role
    BY DEF Entries
  <1>3. ASSUME NEW l \in Entries(role) PROVE Entries(role) = {l}
    BY <1>1
  <1> QED
    BY <1>2, <1>3

(* The action that run_live_action re-quotes before it submits it can be   *)
(* paid for: while the rate is not above the quote, its fee payer affords  *)
(* it and stays rent-exempt, for every fee rate and number of signatures.  *)
THEOREM TopupAlwaysSuffices == Spec => []TopupSuffices
  <1>1. LiveInv /\ LimitInv => TopupSuffices
    <2> SUFFICES ASSUME LiveInv, LimitInv, pc \in {"send", "valid", "status"}, tx.role = Act,
                        action.sigs * rate <= actionFee, Entries(Act) = {}
                 PROVE  PayerBalance - action.sigs * rate >= Rent
      BY DEF TopupSuffices
    <2>1. /\ action.sigs \in Nat /\ rate \in Nat /\ actionFee \in Nat /\ Rent \in Nat
          /\ action.sigs * rate \in Nat /\ Topup \in Nat /\ Topup = actionFee + Rent
      BY LimitFacts DEF LimitInv, Amounts, Topup
    <2>2. PICK x \in landed : x.tx.role = Fund /\ x.ok
      BY DEF LiveInv, ActedOnFunding, FundingConfirmed
    <2>3. Entries(Fund) = {x}
      <3>1. x \in Entries(Fund)
        BY <2>2 DEF Entries
      <3> QED
        BY <3>1, OneEntry
    <2>4. MovedBy(Fund, Topup) = Topup
      BY <2>1, <2>2, <2>3, MovedByFacts
    <2>5. FeesOf(Act) = 0
      BY FeesOfNone
    <2> QED
      BY <2>1, <2>4, <2>5 DEF PayerBalance
  <1> QED
    BY <1>1, LiveInvariant, LimitInvariant, PTL

(* What leaves the source stays within max_total_debit but for the rise of *)
(* the funding fee after it was quoted, and the top-up within its own      *)
(* limit, whatever the cluster charges, drops, delays or abandons.         *)
THEOREM DebitStaysWithinQuote == Spec => []DebitWithinQuote
  <1>1. LiveInv /\ LimitInv => DebitWithinQuote
    <2> SUFFICES ASSUME LiveInv, LimitInv PROVE DebitWithinQuote
      OBVIOUS
    <2> DEFINE rise == {l.fee - fundingFee : l \in Entries(Fund)} \cup {0}
    <2>1. /\ action.debit \in Nat /\ actionFee \in Nat /\ fundingFee \in Nat /\ Rent \in Nat
          /\ Topup \in Nat /\ MaxTotalDebit \in Nat /\ \A l \in landed : l.fee \in Nat
      BY LimitFacts DEF LimitInv, Amounts, Topup
    <2>2. CASE Entries(Fund) = {}
      <3>1. Entries(Act) = {}
        <4>1. \A l \in landed : l.tx.role # Fund
          BY <2>2 DEF Entries
        <4> QED
          BY <4>1 DEF LiveInv, LandedSent, ActedOnFunding, FundingConfirmed, Entries
      <3>2. Debited = 0
        BY <2>1, <2>2, <3>1, FeesOfNone, MovedByFacts DEF Debited
      <3>3. rise = {0}
        BY <2>2
      <3> HIDE DEF rise
      <3>4. Max(rise) = 0
        BY <3>3 DEF Max
      <3>5. Debited <= MaxTotalDebit + Max(rise)
        BY <2>1, <3>2, <3>4
      <3> QED
        BY <2>2, <3>5 DEF DebitWithinQuote, rise
    <2>3. ASSUME NEW x \in landed, Entries(Fund) = {x} PROVE DebitWithinQuote
      <3>1. x.fee \in Nat /\ FeesOf(Fund) = x.fee
        BY <2>1, <2>3, FeesOfOne
      <3>2. MovedBy(Fund, Topup) \in {0, Topup}
        BY <2>1, <2>3, MovedByFacts
      <3>3. MovedBy(Act, action.debit) \in {0, action.debit}
        BY <2>1, OneEntry, MovedByFacts
      <3>4. Debited <= x.fee + Topup + action.debit
        BY <2>1, <3>1, <3>2, <3>3 DEF Debited
      <3>5. x.tx \in sent
        BY DEF LiveInv, LandedSent
      <3>6. execute /\ Topup <= MaxFeePayerTopup /\ RequiredDebit <= MaxTotalDebit
        BY <3>5 DEF LimitInv, WithinLimits, Underway
      <3>7. rise = {x.fee - fundingFee, 0}
        BY <2>3
      <3> HIDE DEF rise
      <3>8. Max(rise) \in Int /\ x.fee - fundingFee <= Max(rise)
        <4>1. x.fee - fundingFee \in Int
          BY <2>1, <3>1
        <4>2. \E m \in rise : \A n \in rise : m >= n
          BY <3>7, <4>1
        <4> QED
          BY <3>7, <4>1, <4>2 DEF Max
      <3>9. Debited <= MaxTotalDebit + Max(rise)
        <4>1. Debited \in Int
          BY <2>1, <3>1, <3>2, <3>3 DEF Debited
        <4>2. x.fee + Topup + action.debit <= MaxTotalDebit + (x.fee - fundingFee)
          BY <2>1, <3>1, <3>6 DEF RequiredDebit
        <4> QED
          BY <2>1, <3>1, <3>4, <3>8, <4>1, <4>2
      <3> QED
        BY <3>6, <3>9 DEF DebitWithinQuote, rise
    <2> QED
      BY <2>2, <2>3, OneEntry
  <1> QED
    BY <1>1, LiveInvariant, LimitInvariant, PTL
=============================================================================
