----------------------------- MODULE PaymentTable -----------------------------
(***************************************************************************)
(* The payments of one merchant as those who only read them see them: rows *)
(* that appear, change their status and never go. A row is known by its    *)
(* place in the order of creation, and created_at is taken to be unique.   *)
(*                                                                         *)
(* The moves are those PaymentLifecycle's worker makes, the ones it makes  *)
(* with a status it read too long ago among them.                          *)
(***************************************************************************)
EXTENDS PaymentStatus, Sequences, FiniteSets

CONSTANTS
  RateLock,          \* rateLockMinutes
  MaxRows, MaxClock  \* bounds

ASSUME TableAssumption == RateLock \in Nat \ {0}

VARIABLES
  rows,    \* table payments
  clock

tableVars == <<rows, clock>>

NewRow(t) == [status |-> "AWAITING_PAYMENT", created |-> t, deadline |-> t + RateLock]

InitTable == rows = <<NewRow(0)>> /\ clock = 0

CreatePayment ==
  /\ Len(rows) < MaxRows
  /\ rows' = Append(rows, NewRow(clock))
  /\ UNCHANGED clock

\* What the message handlers write over a status.
HandlerMoves ==
  [AWAITING_PAYMENT |-> {"SEEN_IN_MEMPOOL"},
   SEEN_IN_MEMPOOL  |-> {"CONFIRMING", "CONFIRMED"},
   CONFIRMING       |-> {"CONFIRMED"},
   CONFIRMED        |-> {},
   EXPIRED          |-> {"SEEN_IN_MEMPOOL", "CONFIRMING", "CONFIRMED"}]

\* The expiry job's update is by id: it spares no status it did not expect.
Moves(row) ==
  HandlerMoves[row.status] \cup
    (IF Due(row.deadline, clock) THEN {"EXPIRED"} \ {row.status} ELSE {})

MovePayment(n) ==
  \E s \in Moves(rows[n]) :
    /\ rows' = [rows EXCEPT ![n].status = s]
    /\ UNCHANGED clock

ClockTicks == clock < MaxClock /\ clock' = clock + 1 /\ UNCHANGED rows

Shown(n, t) == EffectiveStatus(rows[n].status, rows[n].deadline, t)

=============================================================================
