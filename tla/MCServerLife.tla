----------------------------- MODULE MCServerLife -----------------------------
(***************************************************************************)
(* One server or two that stop, crash and restart.                         *)
(***************************************************************************)
EXTENDS ServerLife

CONSTANTS s1, s2, alice, chatserver1, chatserver2

TwoSessions  == {s1, s2}
OneUser      == {alice}
OneServer    == {chatserver1}
TwoServers   == {chatserver1, chatserver2}
OnOneServer  == [s \in Sessions |-> chatserver1]
OnTwoServers == [s \in Sessions |-> IF s = s1 THEN chatserver1 ELSE chatserver2]
=============================================================================
