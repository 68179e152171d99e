-------------------------------- MODULE Payment --------------------------------
(***************************************************************************)
(* How a cooked wake arrives at the amounts it sends: perform_action and   *)
(* emit_with_noise of crates/agent-runtime/src/lib.rs with choose_action   *)
(* of crates/persona/src/lib.rs and split_amount of                        *)
(* crates/noise-core/src/split.rs.  A kind of action is picked by weight,  *)
(* an amount is sampled, the adapter plans one transaction, which is       *)
(* broken into parts: each starts at a floor, what exceeds the floors is   *)
(* shared out by random weights, and what truncation left over goes to a   *)
(* random part.  Weights and shares are floating-point numbers.            *)
(***************************************************************************)
EXTENDS Floats

CONSTANTS
  Tables,     \* action_weights: sequences of [key, weight] in the order of keys
  Amounts,    \* results of sample_amount, never below 1
  Policies,   \* SplitPolicy: [min, max, floor]
  Shares,     \* the random weights of the parts, scaled to integers
  Checked     \* whether integer arithmetic panics instead of wrapping

(* What validate demands of a table, and a BTreeMap of its keys.           *)
Valid(t) ==
  /\ t \in Seq([key : STRING, weight : Numbers])
  /\ \E i \in DOMAIN t : t[i].weight[1] > 0
  /\ \A i, j \in DOMAIN t : i # j => t[i].key # t[j].key

ASSUME PaymentAssumption ==
  /\ \A t \in Tables : Valid(t)
  /\ Amounts \subseteq Nat \ {0} /\ Checked \in BOOLEAN
  /\ Shares \subseteq Nat \ {0}
  /\ \A p \in Policies : {p.min, p.max, p.floor} \subseteq Nat

VARIABLES
  pc,         \* "choose", "chosen", "sample", "split", "leftover", "sent" or "panic"
  table,      \* the persona's weights
  draw,       \* the random number, in [0, 1)
  at,         \* the entry of the table that is looked at
  pick,       \* what is left of the scaled draw
  kind,       \* the kind of action
  total,      \* the planned amount
  splitting,  \* the policy it is split by
  parts       \* the amounts sent

paymentVars == <<pc, table, draw, at, pick, kind, total, splitting, parts>>
choosing == <<table, draw, at, pick>>
sending == <<total, splitting, parts>>

-----------------------------------------------------------------------------
TotalWeight(t) == Total([i \in DOMAIN t |-> t[i].weight])

(* rng.random::<f64>() is a multiple of 2^-Precision.                      *)
Randoms == {<<k, Pow2[Precision]>> : k \in 0..(Pow2[Precision] - 1)}

PaymentInit ==
  /\ pc = "choose" /\ table \in Tables /\ draw \in Randoms
  /\ at = 1 /\ pick = Product(draw, TotalWeight(table))
  /\ kind = "none"
  /\ total = 0 /\ splitting \in Policies /\ parts = << >>

-----------------------------------------------------------------------------
(* choose_action: the weights are subtracted from the draw, key by key,    *)
(* until nothing is left of it.                                            *)
Looking == pc = "choose" /\ at <= Len(table)
Weight == table[at].weight

Skip ==
  /\ Looking /\ Weight[1] = 0
  /\ at' = at + 1
  /\ UNCHANGED <<pc, table, draw, pick, kind, sending>>

(* Mutant: the weight is compared but not subtracted.                      *)
MutantPass ==
  /\ Looking /\ Weight[1] > 0 /\ ~AtMost(pick, Weight)
  /\ at' = at + 1
  /\ UNCHANGED <<pc, table, draw, pick, kind, sending>>

Pass ==
  /\ Looking /\ Weight[1] > 0 /\ ~AtMost(pick, Weight)
  /\ at' = at + 1 /\ pick' = Minus(pick, Weight)
  /\ UNCHANGED <<pc, table, draw, kind, sending>>

Choose ==
  /\ Looking /\ Weight[1] > 0 /\ AtMost(pick, Weight)
  /\ pc' = "chosen" /\ kind' = table[at].key
  /\ UNCHANGED <<choosing, sending>>

FallBack ==
  /\ pc = "choose" /\ at > Len(table)
  /\ pc' = "chosen" /\ kind' = "transfer"
  /\ UNCHANGED <<choosing, sending>>

(* choose_action returns: only the kind is left of it.                     *)
ChooseReturns ==
  /\ pc = "chosen" /\ pc' = "sample"
  /\ table' = << >> /\ draw' = <<0, 1>> /\ at' = 1 /\ pick' = <<0, 1>>
  /\ UNCHANGED <<kind, sending>>

(* The adapter of the kind plans the amount that was sampled, a memo none. *)
Plan(amount) ==
  /\ pc = "sample" /\ pc' = "split"
  /\ total' = IF kind = "memo" THEN 0 ELSE amount
  /\ UNCHANGED <<choosing, kind, splitting, parts>>

-----------------------------------------------------------------------------
(* Mutant: the share is rounded to an integer, not truncated.              *)
MutantTruncated(x) == Nearest(x[1], x[2])

Truncated(x) == x[1] \div x[2]

(* ((w / wsum) * remainder as f64) as u64.                                 *)
ShareOf(w, weights, remainder) ==
  LET wsum == Total([i \in DOMAIN weights |-> <<weights[i], 1>>])
  IN Truncated(Product(Quotient(<<w, 1>>, wsum), Rounded(remainder, 1)))

(* How many parts there may be.                                            *)
Floor == Max({splitting.floor, 1})
Counts ==
  LET most == Min({Max({splitting.max, 1}), total \div Floor})
      least == Min({Max({splitting.min, 1}), most})
  IN least..most

(* Nothing to split, or too little: one transaction, be it of nothing.     *)
Whole ==
  /\ pc = "split" /\ pc' = "sent"
  /\ total <= Floor
  /\ parts' = <<total>>
  /\ UNCHANGED <<choosing, kind, total, splitting>>

(* Every part starts at the floor and gets its share of the remainder.     *)
Distribute ==
  /\ pc = "split" /\ pc' = "leftover"
  /\ total > Floor
  /\ \E n \in Counts : \E weights \in [1..n -> Shares] :
       parts' = [i \in 1..n |-> Floor + ShareOf(weights[i], weights, total - Floor * n)]
  /\ UNCHANGED <<choosing, kind, total, splitting>>

(* A random part gets what truncation left over: unsigned arithmetic, so   *)
(* that when the shares exceed the remainder the subtraction panics, or    *)
(* wraps and is wrapped back by the addition.                              *)
Leftover ==
  /\ pc = "leftover"
  /\ IF Checked /\ SumFunction(parts) > total
     THEN pc' = "panic" /\ UNCHANGED parts
     ELSE /\ pc' = "sent"
          /\ \E i \in DOMAIN parts : parts' = [parts EXCEPT ![i] = @ + (total - SumFunction(parts))]
  /\ UNCHANGED <<choosing, kind, total, splitting>>

PaymentNext ==
  \/ Skip \/ Pass \/ Choose \/ FallBack \/ ChooseReturns
  \/ \E amount \in Amounts : Plan(amount)
  \/ Whole \/ Distribute \/ Leftover

PaymentSpec == PaymentInit /\ [][PaymentNext]_paymentVars

-----------------------------------------------------------------------------
(* Exact sums, as numerators over Denominator.                             *)
Exact(x) == x[1] * (Denominator \div x[2])

(* Few enough entries that the roundings do not add up to a part, and no   *)
(* sum of weights that leaves the range of the numbers.                    *)
TablesInReach ==
  \A t \in Tables :
    /\ (2 * Len(t) + 1) * (2 * Len(t) + 2) <= Pow2[Precision]
    /\ 2 * SumFunction([i \in DOMAIN t |-> Exact(t[i].weight)]) < Denominator * Denominator

Before(n) == SumFunctionOnSet([i \in DOMAIN table |-> Exact(table[i].weight)], 1..n)

(* Every kind gets the share of the draws that its weight is of all the    *)
(* weights, to within the rounding of two operations for each entry and    *)
(* two more: the draw lies in the interval of the entry that was chosen,   *)
(* and beyond the last interval when the pick fell back (choose_action).   *)
ChosenByWeight ==
  pc = "chosen" =>
    LET whole == Before(Len(table))
        place == draw[1] * whole
        slack == 2 * (Len(table) + 1) * whole
    IN /\ Before(at - 1) * draw[2] <= place + slack
       /\ at <= Len(table) => Weight[1] > 0 /\ place <= Before(at) * draw[2] + slack

(* Payments small enough, for the number of their parts, that what the     *)
(* roundings add to the shares is less than truncation takes.              *)
SplitsInReach ==
  \A p \in Policies :
    LET most == Max({p.max, 1})
    IN /\ \A amount \in Amounts : amount * (most + 5) <= Pow2[Precision]
       /\ \A w \in Shares : 2 * most * w < Denominator

(* The amounts sent sum exactly to what was planned, each is at least the  *)
(* floor unless the payment was not split, there are as many as the policy *)
(* allows as far as that is affordable, only a memo sends nothing, and no  *)
(* subtraction fails on the way (split_amount and its callers).            *)
SplitIsExact ==
  /\ pc # "panic"
  /\ pc = "sent" =>
       /\ SumFunction(parts) = total
       /\ \A i \in DOMAIN parts : parts[i] >= Floor \/ Len(parts) = 1
       /\ \A i \in DOMAIN parts : parts[i] = 0 <=> kind = "memo"
       /\ Len(parts) \in Min({Max({splitting.min, 1}), Max({splitting.max, 1}),
                              Max({total \div Floor, 1})})..Max({splitting.max, 1})
=============================================================================
