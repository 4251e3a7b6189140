----------------------------- MODULE MCMqttClient -----------------------------
(* Instances of MqttClient for TLC.                                          *)
EXTENDS MqttClient, TLC

CONSTANTS t1, t2

TaskSymmetry == Permutations(Tasks)

\* A late answer is followed on its own: with it nothing is claimed but the types.
Explored == "slow" \in trouble => trouble = {"slow"}
===============================================================================
