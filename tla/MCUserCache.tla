------------------------------ MODULE MCUserCache ------------------------------
(***************************************************************************)
(* Two servers and one user.                                               *)
(***************************************************************************)
EXTENDS UserCache

CONSTANTS alice, w1, w2, r1

OneUser    == {alice}
TwoWorkers == {w1, w2}
OneThread  == {r1}
=============================================================================
