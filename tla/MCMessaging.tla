----------------------------- MODULE MCMessaging -----------------------------
(***************************************************************************)
(* Instances of Messaging for TLC.                                         *)
(***************************************************************************)
EXTENDS Messaging, TLC

CONSTANTS alice, bob, chatserver1, chatserver2

TwoUsers == {alice, bob}
TwoServers == {chatserver1, chatserver2}

\* One user logs in once, the other twice; or both once.
OneTwo == [u \in Users |-> IF u = alice THEN 1 ELSE 2]
Once   == [u \in Users |-> 1]

Texts == {"text"}
All   == {"add", "auth", "text"}
=============================================================================
