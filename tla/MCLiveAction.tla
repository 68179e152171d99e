----------------------------- MODULE MCLiveAction -----------------------------
(* Small instances of LiveAction for TLC. *)
EXTENDS LiveAction

(* A stake account signs its own creation; the first stake is too small.   *)
MCActions ==
  {[kind |-> "transfer", debit |-> 1, sigs |-> 2],
   [kind |-> "stake", debit |-> 1, sigs |-> 3],
   [kind |-> "stake", debit |-> 2, sigs |-> 3],
   [kind |-> "memo", debit |-> 0, sigs |-> 2]}
=============================================================================
