----------------------------- MODULE MCBroadcast -----------------------------
(* Instances of Broadcast for TLC.                                           *)
EXTENDS Broadcast

CONSTANTS q1, q2

AllPairs == Kinds \X Queues
SomePairs == {<<1, q1>>, <<1, q2>>, <<2, q1>>}
===============================================================================
