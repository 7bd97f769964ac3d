------------------------------ MODULE MCStore -------------------------------
(***************************************************************************)
(* The store for TLC: every key but one starts with the one prefix, as     *)
(* every key the supermicro scripts write starts with "supermicro/".       *)
(***************************************************************************)
EXTENDS Store

CONSTANT Outside  \* the key that does not start with the prefix

MCUnder == [p \in Prefixes |-> Keys \ {Outside}]
=============================================================================
