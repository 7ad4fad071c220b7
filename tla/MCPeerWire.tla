---------------------------- MODULE MCPeerWire -----------------------------
(* Instances of PeerWire for TLC. *)
EXTENDS PeerWire

Handshakes == {<<"handshake">>, <<"handshake", "bitfield">>}

Supported == {"keepalive", "choke", "unchoke", "interested", "not_interested",
              "have", "request", "piece"}

\* Messages of all sizes in any order, a piece whose data has the text of a
\* handshake, one that is not supported, or one that is too large to be taken for a
\* message.
MCScripts == {h \o <<a, b>> : h \in Handshakes, a, b \in Supported}
              \cup {h \o <<kind, "have">> : h \in Handshakes, kind \in Unhandled}
              \cup {h \o <<"have", "piece_of_text">> : h \in Handshakes}
              \cup {h \o <<"piece_of_text", "have">> : h \in Handshakes}
              \cup {h \o <<"have", "too_large">> : h \in Handshakes}

\* Remotes that connect to this client.
MCIncoming == {h \o <<a, b>> : h \in Handshakes, a, b \in {"unchoke", "have", "piece"}}

=============================================================================
