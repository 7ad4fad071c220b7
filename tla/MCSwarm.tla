------------------------------ MODULE MCSwarm ------------------------------
(* Instances of Swarm for TLC. *)
EXTENDS Swarm, TLC

CONSTANTS a, b, d

\* a has both pieces; b dials a, and d, which has nothing either, dials b, which
\* may have none, one or both of them when it is asked.
MCDials == b :> a @@ d :> b
MCHas == a :> {0, 1} @@ b :> {} @@ d :> {}

=============================================================================
