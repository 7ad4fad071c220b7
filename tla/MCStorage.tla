----------------------------- MODULE MCStorage ------------------------------
(* An instance of Storage for TLC. *)
EXTENDS Storage

\* Piece 1 spans the border of two files, the pieces around it do not.
MCTwoFiles == [p \in Pieces |-> IF p = 0 THEN {1} ELSE IF p = 1 THEN {1, 2} ELSE {2}]

=============================================================================
