------------------------------ MODULE CodConfirm ------------------------------
(***************************************************************************)
(* The confirmation of a COD order by its buyer (ADD-28): the ingest asks  *)
(* for it, the buyer's link answers it, a sweep of every minute settles    *)
(* what was not answered in the shop's window, by booking the order or by  *)
(* holding it, and auto-ship leaves an order alone that waits.  One order  *)
(* with one shipment.                                                      *)
(***************************************************************************)
EXTENDS Integers

CONSTANTS
  Sweepers,    \* runs of the cod-sweep job, which may overlap
  Windows,     \* the windows a merchant may set
  MaxAge,      \* bound: the age of the confirmation that is told apart
  MaxEdits,    \* bound: changes of the settings
  MaxIngests   \* bound: webhooks of the order

VARIABLES
  ingest,    \* where the ingest of the order stands
  conf,      \* the cod_confirmation row: state, age, times it was settled
  parcel,    \* the shipment: booking_state, why it waits, times it was queued
  setting,   \* notification_settings: the window and what to do at its end
  run,       \* each sweep: what it read of the row, what it decided
  bounds

confVars == <<ingest, conf, parcel, setting, run, bounds>>

Idle == [at |-> "idle"]

Init ==
  /\ ingest = "none"
  /\ conf = [state |-> "none", age |-> 0, settled |-> 0]
  /\ parcel = [state |-> "none", reason |-> "none", jobs |-> 0]
  /\ setting \in [window : Windows, policy : {"BOOK_ANYWAY", "HOLD"}]
  /\ run = [s \in Sweepers |-> Idle]
  /\ bounds = [edits |-> MaxEdits, ingests |-> MaxIngests]

----------------------------------------------------------------------------
(* The ingest and the other ways to a booking.                             *)

\* The derivation leaves a draft; the confirmation is asked for after it.
Derive ==
  /\ ingest = "none" /\ bounds.ingests > 0
  /\ ingest' = "derived"
  /\ parcel' = IF parcel.state = "none" THEN [parcel EXCEPT !.state = "DRAFT"] ELSE parcel
  /\ bounds' = [bounds EXCEPT !.ingests = @ - 1]
  /\ UNCHANGED <<conf, setting, run>>

\* ON CONFLICT (shop_id, order_id) DO NOTHING.
Start ==
  /\ ingest = "derived"
  /\ ingest' = "none"
  /\ conf' = IF conf.state = "none" THEN [conf EXCEPT !.state = "PENDING"] ELSE conf
  /\ UNCHANGED <<parcel, setting, run, bounds>>

IngestDies == ingest = "derived" /\ ingest' = "none"
              /\ UNCHANGED <<conf, parcel, setting, run, bounds>>

Queueable == {"DRAFT", "NEEDS_MANUAL_ASSIGNMENT"}
\* queueBooking refuses what is neither a draft nor waiting for a person.
Queued ==
  IF parcel.state \in Queueable
  THEN [state |-> "QUEUED", reason |-> "none", jobs |-> parcel.jobs + 1]
  ELSE parcel

MemberBooks ==
  /\ parcel.state \in Queueable
  /\ parcel' = Queued
  /\ UNCHANGED <<ingest, conf, setting, run, bounds>>

AutoShips ==
  /\ parcel.state = "DRAFT" /\ conf.state # "PENDING"
  /\ parcel' = Queued
  /\ UNCHANGED <<ingest, conf, setting, run, bounds>>

\* The buyer's answer: the window is not looked at, only the state.
Pending == conf.state = "PENDING"
Confirm ==
  /\ Pending
  /\ conf' = [conf EXCEPT !.state = "CONFIRMED", !.settled = @ + 1]
  /\ UNCHANGED <<ingest, parcel, setting, run, bounds>>

Edit ==
  /\ bounds.edits > 0
  /\ setting' \in [window : Windows, policy : {"BOOK_ANYWAY", "HOLD"}] \ {setting}
  /\ bounds' = [bounds EXCEPT !.edits = @ - 1]
  /\ UNCHANGED <<ingest, conf, parcel, run>>

Tick ==
  /\ conf.state = "PENDING" /\ conf.age < MaxAge
  /\ conf' = [conf EXCEPT !.age = @ + 1]
  /\ UNCHANGED <<ingest, parcel, setting, run, bounds>>

----------------------------------------------------------------------------
(* sweepExpired: every statement on its own.                               *)

ReadPending(s) ==
  /\ run[s].at = "idle" /\ conf.state = "PENDING"
  /\ run' = [run EXCEPT ![s] = [at |-> "read", age |-> conf.age]]
  /\ UNCHANGED <<ingest, conf, parcel, setting, bounds>>

\* The window, then the policy, as they are when the row's turn comes.
Decide(s) ==
  /\ run[s].at = "read"
  /\ run' = [run EXCEPT ![s] = IF run[s].age < setting.window THEN Idle
                               ELSE [at |-> "decided", policy |-> setting.policy]]
  /\ UNCHANGED <<ingest, conf, parcel, setting, bounds>>

\* Only drafts are held.
Held == parcel.state = "DRAFT"
Act(s) ==
  /\ run[s].at = "decided"
  /\ parcel' = CASE run[s].policy = "BOOK_ANYWAY" /\ parcel.state = "DRAFT" -> Queued
                 [] run[s].policy = "HOLD" /\ Held ->
                      [parcel EXCEPT !.state = "NEEDS_MANUAL_ASSIGNMENT", !.reason = "COD_UNCONFIRMED"]
                 [] OTHER -> parcel
  /\ run' = [run EXCEPT ![s] = [at |-> "acted", policy |-> run[s].policy]]
  /\ UNCHANGED <<ingest, conf, setting, bounds>>

Outcome == [BOOK_ANYWAY |-> "EXPIRED_BOOKED", HOLD |-> "EXPIRED_HELD"]
Settle(s) ==
  /\ run[s].at = "acted"
  /\ conf' = IF Pending THEN [conf EXCEPT !.state = Outcome[run[s].policy], !.settled = @ + 1]
             ELSE conf
  /\ run' = [run EXCEPT ![s] = Idle]
  /\ UNCHANGED <<ingest, parcel, setting, bounds>>

\* The booking refuses (an exception of the row is logged) or the worker dies.
SweepFails(s) ==
  /\ run[s].at \in {"decided", "acted"}
  /\ run' = [run EXCEPT ![s] = Idle]
  /\ UNCHANGED <<ingest, conf, parcel, setting, bounds>>

Next ==
  \/ Derive \/ Start \/ IngestDies \/ MemberBooks \/ AutoShips \/ Confirm \/ Edit \/ Tick
  \/ \E s \in Sweepers : ReadPending(s) \/ Decide(s) \/ Act(s) \/ Settle(s) \/ SweepFails(s)

Spec == Init /\ [][Next]_confVars

----------------------------------------------------------------------------

\* What this is for: however buyer, merchant and sweeps cross, a confirmation
\* has one answer, a shipment on its way to a courier is not pulled back for
\* want of one, and it is queued once.
ConfirmationsStand ==
  /\ conf.settled = (IF conf.state \in {"none", "PENDING"} THEN 0 ELSE 1)
  /\ parcel.jobs <= 1
  /\ parcel.jobs = 1 => parcel.state = "QUEUED"

\* The inductive invariant: what the sweeps decided is a policy there is.
Policies == {"BOOK_ANYWAY", "HOLD"}
ConfirmInv ==
  /\ conf = [state |-> conf.state, age |-> conf.age, settled |-> conf.settled]
  /\ parcel = [state |-> parcel.state, reason |-> parcel.reason, jobs |-> parcel.jobs] /\ parcel.jobs \in {0, 1}
  /\ setting.policy \in Policies
  /\ run = [s \in Sweepers |-> run[s]]
  /\ \A s \in Sweepers : run[s].at \in {"decided", "acted"} => run[s].policy \in Policies
  /\ ConfirmationsStand

\* Not so: an order whose buyer has confirmed is not held for want of an answer
\* (the sweep acts on the row it read, and settles after it has acted).
ConfirmedIsNotHeld == conf.state = "CONFIRMED" => parcel.reason # "COD_UNCONFIRMED"

\* Not so: an order that is held says why (the worker dies before it settles,
\* and the next sweep may find another policy).
HeldIsExpired ==
  parcel.reason = "COD_UNCONFIRMED" /\ (\A s \in Sweepers : run[s] = Idle)
    => conf.state \in {"PENDING", "EXPIRED_HELD"}
=============================================================================
