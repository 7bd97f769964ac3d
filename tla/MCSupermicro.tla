---------------------------- MODULE MCSupermicro ----------------------------
(* The supermicro scripts for TLC: the boot orders in play.                *)
EXTENDS Supermicro

MCOrders == {<<>>, <<"Boot0001", "Boot0000">>}
MCLiveOrders == MCOrders \ {<<>>}
MCNoOrder == <<>>
=============================================================================
