--------------------------- MODULE MCCSessionSend ---------------------------
(***************************************************************************)
(* CSessionSend with the real limit on bodies and on short, a queue of two *)
(* or three nodes, and string sizes on both sides of every limit.          *)
(***************************************************************************)
EXTENDS CSessionSend

\* 0 and 2049 are refused by send, 32768 and 65537 by the overload for
\* strings (as a short they are -32768 and 1); 1 and 2048 are accepted.
MCSizes == {0, 1, 2048, 2049, 32768, 65537}
=============================================================================
