-------------------------------- MODULE Store --------------------------------
(***************************************************************************)
(* What a torrent promises of its pieces: one that is stored stays, and    *)
(* only a complete torrent is published, for good.  The files promise it   *)
(* over crashes and starts (Storage), and a download of what it has        *)
(* written (Download).                                                     *)
(***************************************************************************)
CONSTANT Pieces

VARIABLES
  stored,    \* the pieces that are there
  published  \* whether the torrent is complete and was made known as such

stvars == <<stored, published>>

STInit == stored = {} /\ published = FALSE

Save(p) == /\ ~published
           /\ stored' = stored \cup {p}
           /\ UNCHANGED published

Publish == /\ stored = Pieces
           /\ published' = TRUE
           /\ UNCHANGED stored

STNext == Publish \/ \E p \in Pieces : Save(p)

STSpec == STInit /\ [][STNext]_stvars

=============================================================================
