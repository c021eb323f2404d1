---------------------------- MODULE MCLogicSystem ----------------------------
(***************************************************************************)
(* LogicSystem with two sessions, one message id that has a callback and   *)
(* one that has none.                                                      *)
(***************************************************************************)
EXTENDS LogicSystem
=============================================================================
