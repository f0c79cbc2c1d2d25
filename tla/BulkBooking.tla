------------------------------- MODULE BulkBooking -------------------------------
(***************************************************************************)
(* Bookings nobody clicks one by one: bulk batches worked off by a queue,  *)
(* their retries, and the auto-ship sweep.  All of them, and the members,  *)
(* go through queueBooking, which routes the shipment by the rules first;  *)
(* what happens to a shipment after that is module Booking.                *)
(***************************************************************************)
EXTENDS Integers, Sequences, FiniteSets, FiniteSetsExt, Functions

CONSTANTS
  Orders,        \* orders with one shipment each
  Batches,       \* batch ids, in the order they are created
  Runs,          \* runs of one batch's job that may be alive at a time
  BulkLimit,     \* MAX_CONCURRENT_BULK_JOBS_PER_SHOP
  JobAttempts,   \* attempts of a bulk job
  SweepCap,      \* auto_ship_sweep_cap
  MaxFaults      \* bound on deaths, stalls, errors thrown and bookings couriers refuse

VARIABLES
  parcel,    \* per order: booking_state, and who queued it
  slots,     \* the shop's Redis counter of bulk jobs
  batch,     \* the booking_batch rows
  job,       \* the bulk queue's jobs
  worker,    \* the runs of processBatch under way for each batch
  sweep,     \* the auto-ship sweep under way
  faults

bulkVars == <<parcel, slots, batch, job, worker, sweep, faults>>

----------------------------------------------------------------------------

Bookable == {"DRAFT", "FAILED", "NEEDS_MANUAL_ASSIGNMENT"}
Member == 0   \* who queued an order: a batch, a member, or the sweep
Sweep == -1
Terminal == {"SUCCEEDED", "PARTIAL", "FAILED", "CANCELLED"}

\* seen: the runs whose own results are the row's, as read or as written; by:
\* the run that settled it (history).
NoBatch ==
  [state |-> "NONE", orders |-> {}, results |-> <<>>, succeeded |-> 0, failed |-> 0, seen |-> {}, by |-> 0]
\* run: the one that holds the job's lock.
NoJob == [state |-> "none", left |-> 0, run |-> 0]
Idle == [pc |-> "idle", loaded |-> {}, results |-> <<>>, succeeded |-> 0, failed |-> 0]
NoSweep == [pc |-> "idle", todo |-> {}, booked |-> 0]

Init ==
  /\ parcel = [o \in Orders |-> [state |-> "DRAFT", by |-> {}, queued |-> 0, refused |-> 0]]
  /\ slots = 0
  /\ batch = [b \in Batches |-> NoBatch]
  /\ job = [b \in Batches |-> NoJob]
  /\ worker = [b \in Batches |-> [n \in Runs |-> Idle]]
  /\ sweep = NoSweep
  /\ faults = MaxFaults

----------------------------------------------------------------------------
(* queueBooking: the shipment's row is locked, its state looked at, its    *)
(* route evaluated by the rules, and it is QUEUED or held for a member.    *)

RefusesBug(o) == FALSE
Refuses(o) == parcel[o].state \notin Bookable

Outcomes(o) ==
  IF Refuses(o) THEN {parcel[o].state} ELSE {"QUEUED", "NEEDS_MANUAL_ASSIGNMENT"}
Queued(o, end) == ~Refuses(o) /\ end = "QUEUED"
QueueBooking(o, who, end) ==
  parcel' = [parcel EXCEPT ![o].state = end,
    ![o].by = IF Queued(o, end) THEN @ \cup {who} ELSE @,
    ![o].queued = IF Queued(o, end) THEN @ + 1 ELSE @]

MemberBooks(o) ==
  /\ parcel[o].state \in Bookable
  /\ \E end \in Outcomes(o) : QueueBooking(o, Member, end)
  /\ UNCHANGED <<slots, batch, job, worker, sweep, faults>>

\* The courier refuses what was queued: it may be booked again.
CourierRefuses(o) ==
  /\ parcel[o].state = "QUEUED" /\ faults > 0
  /\ parcel' = [parcel EXCEPT ![o].state = "FAILED", ![o].refused = @ + 1]
  /\ faults' = faults - 1
  /\ UNCHANGED <<slots, batch, job, worker, sweep>>

----------------------------------------------------------------------------
(* Batches.                                                                *)

Unused == {b \in Batches : batch[b].state = "NONE"}

\* createBatch: INCR is taken back when it exceeds the limit; the row, then the
\* job.  The request is served in one go.  It drops repeats, and the list may
\* stand in any order.
CreateBatch(orders) ==
  /\ slots < BulkLimit /\ Unused # {}
  /\ LET b == Min(Unused) IN
     /\ batch' = [batch EXCEPT ![b] = [NoBatch EXCEPT !.state = "QUEUED", !.orders = orders]]
     /\ job' = [job EXCEPT ![b] = [NoJob EXCEPT !.state = "waiting", !.left = JobAttempts]]
  /\ slots' = slots + 1
  /\ UNCHANGED <<parcel, worker, sweep, faults>>

RequestBatch == \E orders \in (SUBSET Orders) \ {{}} : CreateBatch(orders)

\* retryFailed: a new batch of the orders that failed.
FailedOf(b) == {r.of : r \in {q \in Range(batch[b].results) : ~q.queued}}
RetryFailed(b) ==
  /\ batch[b].state \in Terminal
  /\ FailedOf(b) # {}
  /\ CreateBatch(FailedOf(b))

\* releaseBulkSlot: DECR, and 0 when that went below it.
Release == slots' = IF slots > 0 THEN slots - 1 ELSE 0

\* processBatch up to its loop: a settled batch is left alone, without a
\* release; a redelivered job starts from the results on record, whether or not
\* a run of it is still alive.
StartBatch(b, n) ==
  /\ job[b].state = "waiting" /\ worker[b][n] = Idle
  /\ \A k \in Runs : worker[b][k] = Idle => n <= k   \* which number it has is nobody's choice
  /\ IF batch[b].state \in Terminal
     THEN /\ job' = [job EXCEPT ![b].state = "completed"]
          /\ UNCHANGED <<batch, worker>>
     ELSE /\ job' = [job EXCEPT ![b] = [state |-> "active", left |-> @.left - 1, run |-> n]]
          /\ batch' = [batch EXCEPT ![b].state = "RUNNING", ![b].seen = @ \cup {n}]
          /\ worker' = [worker EXCEPT ![b][n] =
               [pc |-> "book", loaded |-> {o \in batch[b].orders : parcel[o].state \in Bookable},
                results |-> batch[b].results, succeeded |-> batch[b].succeeded, failed |-> batch[b].failed]]
  /\ UNCHANGED <<parcel, slots, sweep, faults>>

Done(w) == {r.of : r \in Range(w.results)}
Todo(b, n) == batch[b].orders \ Done(worker[b][n])

\* processOneOrder: the states were loaded with the batch; queueBooking looks
\* again.
ProcessOneOrder(b, n, o) ==
  /\ worker[b][n].pc = "book" /\ o \in Todo(b, n)
  /\ LET w == worker[b][n]
         Record(queued) ==
           worker' = [worker EXCEPT ![b][n] =
             [pc |-> "progress", loaded |-> w.loaded,
              results |-> Append(w.results, [of |-> o, queued |-> queued]),
              succeeded |-> IF queued THEN w.succeeded + 1 ELSE w.succeeded,
              failed |-> IF queued THEN w.failed ELSE w.failed + 1]]
     IN IF o \notin w.loaded
        THEN Record(FALSE) /\ UNCHANGED parcel
        ELSE \E end \in Outcomes(o) : QueueBooking(o, b, end) /\ Record(Queued(o, end))
  /\ UNCHANGED <<slots, batch, job, sweep, faults>>

\* The counters and results after each order: an UPDATE that asks for nothing,
\* the state the batch is in least of all.
WriteProgress(b, n) ==
  /\ worker[b][n].pc = "progress"
  /\ batch' = [batch EXCEPT ![b].results = worker[b][n].results,
       ![b].succeeded = worker[b][n].succeeded, ![b].failed = worker[b][n].failed, ![b].seen = {n}]
  /\ worker' = [worker EXCEPT ![b][n] = [@ EXCEPT !.pc = "book"]]
  /\ UNCHANGED <<parcel, slots, job, sweep, faults>>

\* A run that no longer holds the job ends without a word on it.
Holds(b, n) == job[b].state = "active" /\ job[b].run = n
JobEnds(b, n, state) == job' = IF Holds(b, n) THEN [job EXCEPT ![b].state = state, ![b].run = 0] ELSE job

FinishBatch(b, n) ==
  /\ worker[b][n].pc = "book" /\ Todo(b, n) = {}
  /\ batch' = [batch EXCEPT ![b].state = IF worker[b][n].failed = 0 THEN "SUCCEEDED" ELSE "PARTIAL", ![b].by = n]
  /\ JobEnds(b, n, "completed")
  /\ worker' = [worker EXCEPT ![b][n] = Idle]
  /\ Release
  /\ UNCHANGED <<parcel, sweep, faults>>

\* A statement throws: finally releases the slot and the job is tried again;
\* a process that dies releases nothing.
Retried(b) == IF job[b].left > 0 THEN "waiting" ELSE "failed"
BatchThrows(b, n) ==
  /\ worker[b][n].pc # "idle" /\ faults > 0
  /\ JobEnds(b, n, Retried(b))
  /\ worker' = [worker EXCEPT ![b][n] = Idle]
  /\ faults' = faults - 1
  /\ Release
  /\ UNCHANGED <<parcel, batch, sweep>>
BatchDies(b, n) ==
  /\ worker[b][n].pc # "idle" /\ faults > 0
  /\ JobEnds(b, n, "waiting")
  /\ worker' = [worker EXCEPT ![b][n] = Idle]
  /\ faults' = faults - 1
  /\ UNCHANGED <<parcel, slots, batch, sweep>>
\* A run that keeps its process too long loses the lock: the job is delivered
\* again, and the run goes on.
BatchStalls(b, n) ==
  /\ worker[b][n].pc # "idle" /\ Holds(b, n) /\ faults > 0
  /\ JobEnds(b, n, "waiting")
  /\ faults' = faults - 1
  /\ UNCHANGED <<parcel, slots, batch, worker, sweep>>

----------------------------------------------------------------------------
(* The auto-ship sweep.                                                    *)

\* loadCandidates: the drafts of READY orders.
LoadCandidates ==
  /\ sweep = NoSweep
  /\ LET todo == {o \in Orders : parcel[o].state = "DRAFT"} IN
     todo # {} /\ sweep' = [pc |-> "book", todo |-> todo, booked |-> 0]
  /\ UNCHANGED <<parcel, slots, batch, job, worker, faults>>

\* resolveServiceId evaluates the rules: no route holds the shipment.
Route(o) ==
  parcel' = IF Refuses(o) THEN parcel ELSE [parcel EXCEPT ![o].state = "NEEDS_MANUAL_ASSIGNMENT"]

\* One candidate, after its route: past the cap it waits for the next sweep.
\* The list it stands in was read long before.
SweepOne(o) ==
  /\ sweep.pc = "book" /\ o \in sweep.todo
  /\ LET left == sweep.todo \ {o}
         Next1(n) == sweep' = IF left = {} THEN NoSweep ELSE [sweep EXCEPT !.todo = left, !.booked = n]
     IN IF sweep.booked >= SweepCap
        THEN Next1(sweep.booked) /\ (Route(o) \/ UNCHANGED parcel)
        ELSE \E end \in Outcomes(o) :
               /\ QueueBooking(o, Sweep, end)
               /\ Next1(IF Queued(o, end) THEN sweep.booked + 1 ELSE sweep.booked)
  /\ UNCHANGED <<slots, batch, job, worker, faults>>

----------------------------------------------------------------------------

Next ==
  \/ RequestBatch
  \/ \E b \in Batches : RetryFailed(b)
  \/ \E b \in Batches, n \in Runs :
       \/ StartBatch(b, n) \/ WriteProgress(b, n) \/ FinishBatch(b, n)
       \/ BatchThrows(b, n) \/ BatchDies(b, n) \/ BatchStalls(b, n)
       \/ \E o \in batch[b].orders : ProcessOneOrder(b, n, o)
  \/ LoadCandidates
  \/ \E o \in Orders : MemberBooks(o) \/ CourierRefuses(o) \/ SweepOne(o)

Spec == Init /\ [][Next]_bulkVars

----------------------------------------------------------------------------

\* However often a job is redelivered, a batch retried and a sweep repeated, an
\* order is queued again only after its courier refused it (queueBooking).
QueuedOnce == \A o \in Orders : parcel[o].queued <= 1 + parcel[o].refused

\* A run beside the one that settled the batch, of a job delivered again while
\* its first run was alive, wrote its own progress over what that run reported.
Overwritten(b) == batch[b].by \notin batch[b].seen

\* What a batch reports queued it has queued itself, once per order, and its
\* counters count what it reports; a settled batch reports each of its orders,
\* unless it was overwritten (INV-20).
ReportsAddUp ==
  \A b \in Batches : LET r == batch[b].results IN
    /\ \A i \in DOMAIN r : r[i].queued => b \in parcel[r[i].of].by
    /\ \A i, j \in DOMAIN r : r[i].of = r[j].of => i = j
    /\ batch[b].succeeded = Cardinality({i \in DOMAIN r : r[i].queued})
    /\ batch[b].succeeded + batch[b].failed = Len(r)
    /\ batch[b].state \in Terminal => Len(r) = Cardinality(batch[b].orders) \/ Overwritten(b)

BulkStands == QueuedOnce /\ ReportsAddUp

\* At most BulkLimit bulk jobs of a shop at a time (S-21).  Not so: a job that
\* throws gives its slot back before it is tried again.
BulkLimited == Cardinality({b \in Batches : job[b].state \in {"waiting", "active"}}) <= BulkLimit
\* An order a batch has queued is reported as queued.  Not so after a death
\* between queueBooking and the progress update.
QueuedIsReported ==
  \A b \in Batches : batch[b].state \in Terminal =>
    \A i \in DOMAIN batch[b].results : ~batch[b].results[i].queued => b \notin parcel[batch[b].results[i].of].by
=============================================================================
