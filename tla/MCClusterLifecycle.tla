------------------------- MODULE MCClusterLifecycle -------------------------
(***************************************************************************)
(* Instances of ClusterLifecycle for TLC: one watcher, the bounds of each    *)
(* run, and the two things the socket library may do when a socket closes.   *)
(***************************************************************************)
EXTENDS ClusterLifecycle

AllFaults == {"drop", "dial", "keepalive"}
NoDrops == {"dial", "keepalive"}
Either == BOOLEAN
Never == {FALSE}
=============================================================================
