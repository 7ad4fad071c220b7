----------------------------- MODULE MCProgram -----------------------------
(* An instance of Program for TLC. *)
EXTENDS Program, TLC

CONSTANTS t1, t2, r1

\* The remote asks for the torrent of a thread that need not have started yet.
MCWants == r1 :> t2

=============================================================================
