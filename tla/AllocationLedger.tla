-------------------------- MODULE AllocationLedger --------------------------
(***************************************************************************)
(* What the allocation of receiving addresses promises, whatever its       *)
(* authorities, retries and failures do: an operation takes one index of   *)
(* its wallet version for ever, is booked at most once, at that index and  *)
(* on an address of its own, and whoever asks for it again with the same   *)
(* intent is given that booking.                                           *)
(***************************************************************************)
EXTENDS Integers

CONSTANTS
  Keys,       \* pairs of a wallet version and an operation
  Drafts      \* payment intents

VARIABLES
  consumed,   \* the index each key has taken, or NoIndex
  booked,     \* the bookings made: key, draft, index, address, payment
  answers     \* the bookings given to callers

vars == <<consumed, booked, answers>>

NoIndex == -1

Init ==
  /\ consumed = [k \in Keys |-> NoIndex]
  /\ booked = {}
  /\ answers = {}

\* An index no other operation of the version has.
Consume(k) ==
  /\ consumed[k] = NoIndex
  /\ consumed'[k] \in Nat
  /\ \A l \in Keys : l[1] = k[1] /\ l # k => consumed[l] # consumed'[k]
  /\ consumed' = [consumed EXCEPT ![k] = consumed'[k]]
  /\ UNCHANGED <<booked, answers>>

Book(b) ==
  /\ b.key \in Keys
  /\ b.draft \in Drafts
  /\ b.index # NoIndex
  /\ b.index = consumed[b.key]
  /\ \A other \in booked : /\ other.key # b.key
                           /\ other.address # b.address
                           /\ other.payment # b.payment
  /\ booked' = booked \cup {b}
  /\ UNCHANGED <<consumed, answers>>

Answer(b) ==
  /\ answers' = answers \cup {b}
  /\ UNCHANGED <<consumed, booked>>

Next ==
  \/ \E k \in Keys : Consume(k)
  \/ \E b \in booked' \ booked : Book(b)
  \/ \E b \in booked : Answer(b)

Spec == Init /\ [][Next]_vars

=============================================================================
