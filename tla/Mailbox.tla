------------------------------- MODULE Mailbox -------------------------------
(***************************************************************************)
(* What LogicSystem promises to the network layer: a mailbox.  Messages    *)
(* are accepted until the mailbox is closed; every accepted message is     *)
(* handled, once, in the order of acceptance, those that were accepted     *)
(* before the mailbox was closed included.  Nothing is said of threads,    *)
(* locks or wake-ups.                                                      *)
(***************************************************************************)
EXTENDS Naturals, Sequences

CONSTANT Message

VARIABLES
  accepted, \* every message accepted, in order
  handled,  \* every message handled, in order
  closed    \* nothing is accepted any more

mvars == <<accepted, handled, closed>>

Init ==
  /\ accepted = << >>
  /\ handled = << >>
  /\ closed = FALSE

Accept(m) ==
  /\ ~closed
  /\ accepted' = Append(accepted, m)
  /\ UNCHANGED <<handled, closed>>

Handle ==
  /\ Len(handled) < Len(accepted)
  /\ handled' = Append(handled, accepted[Len(handled) + 1])
  /\ UNCHANGED <<accepted, closed>>

Close ==
  /\ ~closed
  /\ closed' = TRUE
  /\ UNCHANGED <<accepted, handled>>

Next == (\E m \in Message : Accept(m)) \/ Handle \/ Close

SafeSpec == Init /\ [][Next]_mvars

Spec == SafeSpec /\ WF_mvars(Handle)
=============================================================================
