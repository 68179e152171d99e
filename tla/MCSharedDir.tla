------------------------------ MODULE MCSharedDir ------------------------------
(* Two processes and short runs for TLC. *)
EXTENDS SharedDir

MCTwoEvents == <<1, 1>>
(* A mixture from which a run goes on astray, and one whose count exceeds  *)
(* its journal, so that a resume is refused after the cut.                 *)
MCMixture(n, len) ==
  [tag |-> "checkpoint", sound |-> FALSE, events |-> 1, left |-> 1, records |-> n, jlen |-> len]
MCMixtures == {MCMixture(1, 2), MCMixture(2, 3)}
MCStrays == {1}
MCSymmetry == Permutations(Process)
=============================================================================
