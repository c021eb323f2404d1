----------------------------- MODULE MCPresence -----------------------------
(***************************************************************************)
(* Presence on one server and on two.                                      *)
(***************************************************************************)
EXTENDS Presence, TLC

CONSTANTS s1, s2, s3, alice, bob, chatserver1, chatserver2

TwoSessions   == {s1, s2}
ThreeSessions == {s1, s2, s3}
TwoUsers      == {alice, bob}
OneServer     == {chatserver1}
TwoServers    == {chatserver1, chatserver2}

\* All connections are accepted by one server.
OnOneServer == [s \in Sessions |-> chatserver1]

\* One connection is accepted by one server, the others by another.
OnTwoServers == [s \in Sessions |-> IF s = s1 THEN chatserver1 ELSE chatserver2]

\* The users are alike, and so are the connections to the second server
\* (for invariants only).
Symmetry == Permutations(TwoUsers) \cup Permutations({s2, s3})
=============================================================================
