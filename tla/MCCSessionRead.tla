---------------------------- MODULE MCCSessionRead ----------------------------
(***************************************************************************)
(* A login without a body, one of two bytes that look like the start of a  *)
(* header, a text, a header refused for its id and one refused for its     *)
(* length, and the negative ones: an id (no handler has it), a length of   *)
(* -1, for which SIZE_MAX bytes are asked, and a length that throws.       *)
(***************************************************************************)
EXTENDS CSessionRead

MCFrames ==
  {[msg_id |-> 2001, len |-> 0, body |-> << >>],
   [msg_id |-> 2001, len |-> 2, body |-> <<7, 209>>],
   [msg_id |-> 2011, len |-> 1, body |-> <<0>>],
   [msg_id |-> MAX_LENGTH + 1, len |-> 0, body |-> << >>],
   [msg_id |-> 2011, len |-> MAX_LENGTH + 1, body |-> <<1>>],
   [msg_id |-> -1, len |-> 0, body |-> << >>],
   [msg_id |-> 2011, len |-> -1, body |-> <<1>>],
   [msg_id |-> 2011, len |-> -2, body |-> << >>]}
=============================================================================
