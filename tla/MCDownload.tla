----------------------------- MODULE MCDownload -----------------------------
(* Instances of Download for TLC. *)
EXTENDS Download, TLC

\* A two-block piece and a shorter last one.
MCBlockCount == [p \in Pieces |-> IF p = NumPieces - 1 THEN 1 ELSE 2]

\* Remotes that have everything, or send no bitfield.
MCBitfields == {{}, Pieces}
MCSeeds == {Pieces}

\* What a Piece object nobody points to holds does not matter.
MCView == <<client, active, [o \in Objs \cap Held |-> heap[o]], queue, writer,
            disk, peer, net, used>>

\* What may go wrong together.  The bounds of an instance are the largest ones
\* here; all of them at once would be too many states.  In a scenario with
\* seeds, all remotes have all pieces.
MCNothing == [late |-> 0, bad |-> 0, fails |-> 0, chokes |-> 0, drops |-> 0,
              uploads |-> 0, peers |-> 1, seeds |-> TRUE]
MCScenarios ==
  { \* retries and corrupt blocks
    [MCNothing EXCEPT !.late = 1, !.bad = 1],
    \* anything else that fails, while a remote reads blocks
    [MCNothing EXCEPT !.bad = 1, !.fails = 1, !.chokes = 1, !.drops = 1, !.uploads = 1,
                      !.seeds = FALSE],
    [MCNothing EXCEPT !.late = 1, !.fails = 1, !.drops = 1],
    \* two remotes that have answers for one block under way
    [MCNothing EXCEPT !.late = 1, !.peers = 2] }

MCScenario ==
  \E s \in MCScenarios : /\ Cardinality(Connected) <= s.peers
                         /\ s.seeds => \A r \in Connected : peer[r].remote = Pieces
                         /\ \A bound \in DOMAIN used : used[bound] <= s[bound]

\* Peers are interchangeable.
MCSymmetry == Permutations(Peers)

=============================================================================
