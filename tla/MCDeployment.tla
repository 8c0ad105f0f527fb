---------------------------- MODULE MCDeployment ----------------------------
(* A small instance of Deployment for TLC. *)
EXTENDS Deployment

CONSTANTS k1, k2

\* A first key without a version, and a key that has been rotated once.
MCFirstEnv == {[explicit |-> 0, key |-> k1, old |-> NoRing],
               [explicit |-> 2, key |-> k2, old |-> [v \in {1} |-> k1]]}
=============================================================================
