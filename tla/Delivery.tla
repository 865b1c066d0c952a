------------------------------ MODULE Delivery ------------------------------
(***************************************************************************)
(* What an input that checkpoints after it has delivered promises: the     *)
(* items of a numbered source leave it at least once and in order.  Items  *)
(* may be repeated, but an item leaves for the first time only when every  *)
(* earlier one has been dealt with.  Where in the source it begins is      *)
(* chosen once, at the first startup, and no restart passes over an item.  *)
(***************************************************************************)
EXTENDS Integers, Sequences

CONSTANT Unreadable    \* items that no entry can be made of

VARIABLES
  begun,    \* whether the input was started before
  from,     \* the promise is about the items after this one
  done,     \* the items up to this one have been dealt with
  out       \* the items delivered, in order

deliveryVars == <<begun, from, done, out>>

DeliveryInit == ~begun /\ from = 0 /\ done = 0 /\ out = <<>>

Deliver(n) ==
  /\ begun /\ n \in 1..(done + 1) /\ n \notin Unreadable
  /\ out' = Append(out, n)
  /\ done' = IF n > done THEN n ELSE done
  /\ UNCHANGED <<begun, from>>

Drop ==
  /\ begun /\ done + 1 \in Unreadable
  /\ done' = done + 1
  /\ UNCHANGED <<begun, from, out>>

\* The first startup: at the beginning or at the end of the source.
Begin ==
  /\ ~begun /\ begun'
  /\ done' \in Nat /\ from' = done'
  /\ UNCHANGED out

DeliveryNext == (\E n \in 1..(done + 1) : Deliver(n)) \/ Drop \/ Begin

DeliverySpec == DeliveryInit /\ [][DeliveryNext]_deliveryVars

-----------------------------------------------------------------------------
\* Every readable item of those dealt with has been delivered.
AtLeastOnce ==
  \A n \in (from + 1)..done : n \in Unreadable \/ \E i \in 1..Len(out) : out[i] = n

=============================================================================
