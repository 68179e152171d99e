------------------------------ MODULE Partition ------------------------------
(***************************************************************************)
(* What a union-find over accounts promises: a partition of the accounts,  *)
(* given as the class of each.  A union that was called merges the classes *)
(* of its two arguments before it returns, at one moment, and nothing else *)
(* ever changes the partition.                                             *)
(***************************************************************************)
CONSTANT Account

VARIABLES class,    \* account -> the accounts of the same entity
          pending   \* the arguments of the union being executed, or << >>

vars == <<class, pending>>

Init ==
  /\ class = [x \in Account |-> {x}]
  /\ pending = << >>

Call(a, b) ==
  /\ pending = << >>
  /\ pending' = <<a, b>>
  /\ UNCHANGED class

Return(a, b) ==
  /\ pending = <<a, b>>
  /\ pending' = << >>
  /\ class' = [x \in Account |->
                 IF x \in class[a] \cup class[b] THEN class[a] \cup class[b] ELSE class[x]]

Next == \E a, b \in Account : Call(a, b) \/ Return(a, b)

Spec == Init /\ [][Next]_vars
=============================================================================
