------------------------------ MODULE UnionFind ------------------------------
(***************************************************************************)
(* The union-find of crates/adversary/src/heuristics.rs: path halving and  *)
(* union by rank over a map that learns accounts as they are mentioned.    *)
(* Its caller may call find and union with any accounts in any order; each *)
(* call runs step by step, one iteration of find's loop per step, so that  *)
(* what a union remembers from its first find (the root of a, while the    *)
(* second find rewrites parents) is visible.                               *)
(***************************************************************************)
EXTENDS Integers, FiniteSets

CONSTANT Account

ASSUME AccountAssumption == IsFiniteSet(Account)

VARIABLES parent,  \* known account -> its parent
          rank,    \* known account -> its rank
          call     \* where the caller is: at "idle", in "find", or in the
                   \* "left" or "right" find of a union of a and b; x is
                   \* find's loop variable, root what the left find returned

vars == <<parent, rank, call>>

Known == DOMAIN parent
IsRoot(x) == parent[x] = x

-----------------------------------------------------------------------------
Idle == [at |-> "idle"]

(* UnionFind::new over the accounts of a ledger. *)
Init ==
  \E accounts \in SUBSET Account :
    /\ parent = [x \in accounts |-> x]
    /\ rank = [x \in accounts |-> 0]
    /\ call = Idle

(* ensure(a): an account mentioned for the first time is its own root.     *)
EnsuredParent(a) == [x \in Known \cup {a} |-> IF x \in Known THEN parent[x] ELSE x]
EnsuredRank(a) == [x \in Known \cup {a} |-> IF x \in Known THEN rank[x] ELSE 0]
Ensure(a) == parent' = EnsuredParent(a) /\ rank' = EnsuredRank(a)

Find(a) ==
  /\ call.at = "idle"
  /\ Ensure(a)
  /\ call' = [at |-> "find", x |-> a]

(* union(a, b) starts with find(a). *)
Union(a, b) ==
  /\ call.at = "idle"
  /\ Ensure(a)
  /\ call' = [at |-> "left", a |-> a, b |-> b, x |-> a]

(* Mutant: the loop variable is not advanced. *)
MutantHalve ==
  /\ call.at # "idle"
  /\ ~IsRoot(call.x)
  /\ parent' = [parent EXCEPT ![call.x] = parent[parent[call.x]]]
  /\ UNCHANGED <<rank, call>>

(* One iteration of find's loop: x and its parent pointer move to the      *)
(* grandparent.                                                            *)
Halve ==
  /\ call.at # "idle"
  /\ ~IsRoot(call.x)
  /\ parent' = [parent EXCEPT ![call.x] = parent[parent[call.x]]]
  /\ call' = [call EXCEPT !.x = parent[parent[call.x]]]
  /\ UNCHANGED rank

(* find returned to its caller. *)
FindDone ==
  /\ call.at = "find"
  /\ IsRoot(call.x)
  /\ call' = Idle
  /\ UNCHANGED <<parent, rank>>

(* find(a) returned, find(b) begins. *)
LeftDone ==
  /\ call.at = "left"
  /\ IsRoot(call.x)
  /\ Ensure(call.b)
  /\ call' = [at |-> "right", a |-> call.a, b |-> call.b, root |-> call.x, x |-> call.b]

Big(ra, rb) == IF rank[ra] >= rank[rb] THEN ra ELSE rb

(* Mutant: the case of a smaller first tree was forgotten. *)
MutantLink(ra, rb) ==
  IF rank[ra] < rank[rb]
  THEN UNCHANGED <<parent, rank>>
  ELSE /\ parent' = [parent EXCEPT ![rb] = ra]
       /\ rank' = IF rank[ra] = rank[rb] THEN [rank EXCEPT ![ra] = @ + 1] ELSE rank

Link(ra, rb) ==
  /\ parent' = [parent EXCEPT ![IF Big(ra, rb) = ra THEN rb ELSE ra] = Big(ra, rb)]
  /\ rank' = IF rank[ra] = rank[rb] THEN [rank EXCEPT ![Big(ra, rb)] = @ + 1] ELSE rank

(* find(b) returned: the roots are linked unless they are the same.        *)
RightDone ==
  /\ call.at = "right"
  /\ IsRoot(call.x)
  /\ IF call.root = call.x THEN UNCHANGED <<parent, rank>> ELSE Link(call.root, call.x)
  /\ call' = Idle

Step == Halve \/ FindDone \/ LeftDone \/ RightDone
Next == Step \/ \E a, b \in Account : Find(a) \/ Union(a, b)

Spec == Init /\ [][Next]_vars
FairSpec == Spec /\ WF_vars(Step)

-----------------------------------------------------------------------------
(* The calls and both maps keep their shape. *)
Calls ==
  {Idle} \cup [at : {"find"}, x : Known]
  \cup [at : {"left"}, a : Known, b : Account, x : Known]
  \cup [at : {"right"}, a : Known, b : Known, root : Known, x : Known]
TypeOK ==
  /\ Known \subseteq Account
  /\ parent \in [Known -> Known]
  /\ rank \in [Known -> Nat]
  /\ call \in Calls

(* The accounts a chain of parent pointers from x goes through: the least  *)
(* set that has x and is closed under parent.                              *)
Closed(S) == \A y \in S : parent[y] \in S
Ancestors(x) == {y \in Known : \A S \in SUBSET Known : x \in S /\ Closed(S) => y \in S}
ClassOf(x) ==
  IF x \in Known THEN {y \in Known : Ancestors(x) \cap Ancestors(y) # {}} ELSE {x}

(* Ranks grow along every parent pointer, however often paths were halved  *)
(* between the linking of roots, so that no call can loop.                 *)
RanksGrow == \A x \in Known : ~IsRoot(x) => rank[x] < rank[parent[x]]

(* The root that a union remembers from its first find is still a root,    *)
(* and still the root of a, when the second find has rewritten parents;    *)
(* and find never leaves the class it was asked about.                     *)
RootRemembered ==
  /\ call.at = "right" => IsRoot(call.root) /\ call.root \in Ancestors(call.a)
  /\ call.at = "right" => call.x \in ClassOf(call.b)
  /\ call.at = "left" => call.x \in ClassOf(call.a)

(* The caller sees a partition: a union joins the classes of its two      *)
(* arguments by the time it returns, and nothing else it or find does (no  *)
(* halving of a path, no first mention of an account) changes any class.   *)
Abstract ==
  INSTANCE Partition WITH
    class <- [x \in Account |-> ClassOf(x)],
    pending <- IF call.at \in {"left", "right"} THEN <<call.a, call.b>> ELSE << >>
ImplementsPartition == Abstract!Spec

(* Every call of find and union returns. *)
CallsReturn == call.at # "idle" ~> call.at = "idle"
=============================================================================
