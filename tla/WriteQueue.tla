----------------------------- MODULE WriteQueue -----------------------------
(***************************************************************************)
(* What the FileWriter promises to a torrent: the pieces given to it are   *)
(* handled one at a time and in the order they were given, each exactly    *)
(* once, until it is stopped.                                              *)
(***************************************************************************)
EXTENDS Sequences

CONSTANT Pieces

VARIABLES
  pending,  \* the pieces given and not handled yet, oldest first
  handled   \* the pieces handled, in that order

wqvars == <<pending, handled>>

WQInit == pending = <<>> /\ handled = <<>>

Give(p) == /\ pending' = Append(pending, p)
           /\ UNCHANGED handled

Handle == /\ pending # <<>>
          /\ handled' = Append(handled, Head(pending))
          /\ pending' = Tail(pending)

WQNext == Handle \/ \E p \in Pieces : Give(p)

WQSpec == WQInit /\ [][WQNext]_wqvars

=============================================================================
