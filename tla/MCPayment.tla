------------------------------- MODULE MCPayment -------------------------------
(* Small weights, payments and policies for TLC, in numbers of eight bits. *)
EXTENDS Payment

(* The sums of the weights are rounded, and some draws that are scaled by  *)
(* them outlast the table.  Keys are in order.                             *)
MCWeight == {<<0, 1>>, <<27, 2>>, <<91, 1>>}
MCEntry(key, weight) == [key |-> key, weight |-> weight]
MCTables ==
  {t \in {<<MCEntry("dust", a), MCEntry("memo", b), MCEntry("stake", c),
            MCEntry("swap", d), MCEntry("transfer", e)>> :
            a \in MCWeight, b \in MCWeight, c \in MCWeight, d \in MCWeight,
            e \in {<<0, 1>>, <<27, 2>>}} : Valid(t)}

MCAmounts == 1..16

(* A usual policy, one that cannot afford its minimum, a floor of zero and *)
(* no splitting at all.                                                    *)
MCPolicy(min, max, floor) == [min |-> min, max |-> max, floor |-> floor]
MCPolicies ==
  {MCPolicy(2, 3, 2), MCPolicy(3, 3, 4), MCPolicy(1, 3, 0), MCPolicy(0, 0, 3)}
MCShares == {1, 2, 3, 5, 7, 12, 101}

(* The reach that the theorems about choices and splits are stated for: in *)
(* numbers of eight bits these tables, amounts and policies are within it. *)
ASSUME MCInReach == TablesInReach /\ SplitsInReach
=============================================================================
