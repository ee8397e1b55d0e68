---------------------------- MODULE MCConnections ---------------------------
(* A tab with one open contact, whose connection breaks once.              *)
EXTENDS Connections, TLC

MCHolds == "v1" :> "k1"
MCChances == {[mounts |-> 1, drops |-> 1, failures |-> 1, refusals |-> 0]}
=============================================================================
