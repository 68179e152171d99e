----------------------------- MODULE MCUnionFind -----------------------------
(* Four accounts for TLC: enough for a tree of rank two and a path to halve. *)
EXTENDS UnionFind

CONSTANTS a1, a2, a3, a4
MCAccount == {a1, a2, a3, a4}
=============================================================================
