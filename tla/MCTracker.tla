----------------------------- MODULE MCTracker -----------------------------
(* Instances of Tracker for TLC. *)
EXTENDS Tracker, TLC

CONSTANTS t1, t2, main, second, h1, h2, u1

\* Two torrents, asked for by their threads.
MCTorrent == main :> t1 @@ second :> t2

\* A tier of HTTP trackers first: what one throws is seen before the UDP tracker
\* answers, which the other torrent has too.
MCTiers == t1 :> <<{h1, h2}, {u1}>> @@ t2 :> <<{u1}>>

=============================================================================
