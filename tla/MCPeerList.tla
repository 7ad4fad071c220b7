---------------------------- MODULE MCPeerList -----------------------------
(* Instances of PeerList for TLC. *)
EXTENDS PeerList

CONSTANTS u1, u2

\* Trackers that know one remote for sure, which may have two peer ids, and may name
\* any others.
MCReplies == {reply \in UNION {[1 .. n -> Urls] : n \in 1 .. 3} :
                /\ Cardinality(Named(reply, u1)) \in {1, 2}
                /\ \A url \in Urls \ {u1} : Cardinality(Named(reply, url)) <= 1}

MCTimes == [url \in Urls |-> IF url = u1 THEN 2 ELSE 1]

=============================================================================
