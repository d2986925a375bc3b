---------------------------- MODULE EventChannel ----------------------------
(***************************************************************************)
(* What ethereum/event/BREvent.h promises of an event handler: a signalled *)
(* event is queued and handled "in a strict 'first-in, first-out' basis",  *)
(* each event once.  BREvent.tla is the code and is shown to implement     *)
(* this module.                                                            *)
(***************************************************************************)
EXTENDS Naturals, Sequences

CONSTANT Event          \* what callers signal

VARIABLES
    sent,               \* every event signalled so far, oldest first
    handled             \* every event handed to its dispatcher so far

vars == <<sent, handled>>

Init == sent = <<>> /\ handled = <<>>

(* A caller signals an event. *)
Signal(e) == sent' = Append(sent, e) /\ UNCHANGED handled

(* The oldest event not yet handled is handled. *)
Handle ==
    /\ Len(handled) < Len(sent)
    /\ handled' = Append(handled, sent[Len(handled) + 1])
    /\ UNCHANGED sent

Next == Handle \/ \E e \in Event : Signal(e)

Spec == Init /\ [][Next]_vars
=============================================================================
