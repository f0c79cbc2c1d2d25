------------------------------ MODULE Transit ------------------------------
(***************************************************************************)
(* A booked parcel until its last scan: cancellation                       *)
(* (CancellationService), pickup scheduling and its manifests              *)
(* (PickupService), and the courier's scans from their raw rows through    *)
(* the `tracking-ingest' queue to the movement reducer and its seams       *)
(* (CourierWebhookIngestService, TrackingIngestService,                    *)
(* MovementReducerService).  All of them write the shipment row; the       *)
(* courier cancels, picks up and scans on its own.                         *)
(*                                                                         *)
(* Booking ends where this module starts, with a CONFIRMED row.  The       *)
(* collectible that a VOID row gives back is Booking's Carrier.            *)
(***************************************************************************)
EXTENDS Naturals, FiniteSets, Sequences, TLC

CONSTANTS
  Shipments,         \* booked shipments of one shop and courier account
  Cancellers,        \* requests running requestCancellation
  Schedulers,        \* requests running schedulePickups
  Workers,           \* workers of the tracking-ingest queue
  Viewers,           \* members replaying a raw payload
  Statuses,          \* the carrier statuses this courier sends
  MaxScans,          \* bound: reports of scans per parcel
  MaxManifests,      \* bound: no pickup starts once so many manifests exist
  JobAttempts,       \* BullMQ `attempts' of a raw-event job (10 in the code)
  MaxStalls,         \* BullMQ maxStalledCount (1 by default)
  MaxVersionRetries, \* reads of the row per applyEvent (5 in the code)
  Nobody,            \* no worker holds the job
  Budget             \* bound: how often each kind of fault may happen

Trackers == Workers \cup Viewers
Scans == Shipments \X (1..MaxScans)        \* <<shipment, report number>>
FaultKinds == {"crash", "stall", "apiCrash", "seamFails", "strayPickup", "correction",
               "rekeyed", "unsubscribe", "disable"}

CarrierEventStatuses ==
  {"PICKUP_SCHEDULED", "PICKED_UP", "IN_TRANSIT", "OUT_FOR_DELIVERY",
   "UNDELIVERED_ATTEMPT", "DELIVERED", "RTO_INITIATED", "RTO_IN_TRANSIT",
   "RTO_OUT_FOR_DELIVERY", "RTO_DELIVERED", "LOST_OR_DAMAGED", "CANCELLED_BY_COURIER"}

ASSUME ParcelAssumption ==
  /\ Statuses \subseteq CarrierEventStatuses \cup {"UNMAPPED"}
  /\ MaxScans \in Nat /\ MaxManifests \in Nat /\ MaxStalls \in Nat
  /\ JobAttempts \in Nat \ {0} /\ MaxVersionRetries \in Nat \ {0}
  /\ Nobody \notin Trackers
  /\ Budget \in [FaultKinds -> Nat]
ASSUME ProcessAssumption == Workers \cap Viewers = {}

PrePickup == {"PICKUP_PENDING", "PICKUP_SCHEDULED"}
CustodyStates == PrePickup \cup {"IN_CUSTODY", "CANCEL_REQUESTED", "CANCELLED"}
TerminalMovement == {"DELIVERED", "RTO_DELIVERED", "LOST_OR_DAMAGED", "CANCELLED_BY_COURIER"}
MovementStates == TerminalMovement \cup
  {"NOT_SHIPPED", "IN_TRANSIT", "OUT_FOR_DELIVERY", "NDR", "RTO_INITIATED",
   "RTO_IN_TRANSIT", "RTO_OUT_FOR_DELIVERY"}

EventToMovement == [status \in CarrierEventStatuses |->
  IF status \in {"PICKUP_SCHEDULED", "PICKED_UP"} THEN "IN_TRANSIT"
  ELSE IF status = "UNDELIVERED_ATTEMPT" THEN "NDR" ELSE status]

\* The composite seams of the tracking module, in the order applyEvent calls
\* them once the movement state has changed.
SeamNames == {"syncBack", "ndrClose", "codExpectation", "ndrAttempt", "codRto"}
SeamsOf(m) == <<"syncBack">> \o
  (IF m = "DELIVERED" THEN <<"ndrClose", "codExpectation">>
   ELSE IF m = "NDR" THEN <<"ndrAttempt">>
   ELSE IF m = "RTO_INITIATED" THEN <<"codRto">>
   ELSE IF m = "RTO_DELIVERED" THEN <<"ndrClose", "codRto">>
   ELSE IF m \in TerminalMovement THEN <<"ndrClose">> ELSE <<>>)

VARIABLES
  booking, custody, movement,  \* columns of the shipment rows
  isTest, subscribed, enabled, \* the test mark; an active subscription; disabled_at IS NULL
  reversed,                    \* shipments with a REVERSAL in the ledger
  manifests,                   \* the day's manifest documents: their numbers
  canceller, scheduler,        \* the requests, with what they hold in memory
  parcel, scan, tells,         \* at the courier: parcels, reports, the scan each tells of
  raw, stored, flagged,        \* parse results; tracking_event rows; review flags
  toEnqueue, job,              \* raw rows committed and not enqueued; BullMQ jobs
  tracker, fresh,              \* processRawEvent; whose read is the row's version
  accepted, exhausted, fired,  \* history: reports processed; out of retries; seams called
  budget                       \* faults that may still happen

rowVars     == <<booking, custody, movement, isTest>>
accountVars == <<subscribed, enabled, reversed>>
courierVars == <<parcel, scan, tells>>
eventVars   == <<raw, stored, flagged, accepted, exhausted, fired>>
queueVars   == <<toEnqueue, job>>
trackerVars == <<tracker, fresh>>
vars == <<rowVars, accountVars, manifests, canceller, scheduler, courierVars,
          eventVars, queueVars, trackerVars, budget>>

Idle == [pc |-> "idle"]
Cancelling(pc, s, previous) == [pc |-> pc, shipment |-> s, previous |-> previous]
Scheduling(pc, group, number) == [pc |-> pc, group |-> group, number |-> number]
Tracking(pc, i, seen, todo, tries) ==
  [pc |-> pc, scan |-> i, seen |-> seen, todo |-> todo, tries |-> tries]
Job(state, holder, failures, stalls) ==
  [state |-> state, holder |-> holder, failures |-> failures, stalls |-> stalls]
Row(s) == [movement |-> movement[s], custody |-> custody[s]]
NoRow == [movement |-> "NOT_SHIPPED", custody |-> "PICKUP_PENDING"]

Init ==
  /\ booking = [s \in Shipments |-> "CONFIRMED"]
  /\ custody = [s \in Shipments |-> "PICKUP_PENDING"]
  /\ movement = [s \in Shipments |-> "NOT_SHIPPED"]
  /\ isTest \in [Shipments -> BOOLEAN]
  /\ subscribed = TRUE /\ enabled = TRUE /\ reversed = {} /\ manifests = <<>>
  /\ canceller = [c \in Cancellers |-> Idle] /\ scheduler = [p \in Schedulers |-> Idle]
  /\ parcel = [s \in Shipments |-> "awaiting"] /\ scan = [i \in Scans |-> "NONE"]
  /\ tells = [i \in Scans |-> i[2]]
  /\ raw = [i \in Scans |-> "NONE"] /\ stored = {} /\ flagged = {}
  /\ toEnqueue = {} /\ job = [i \in Scans |-> Job("absent", Nobody, 0, 0)]
  /\ tracker = [t \in Trackers |-> Idle] /\ fresh = {}
  /\ accepted = {} /\ exhausted = {} /\ fired = [i \in Scans |-> <<>>]
  /\ budget = Budget

Spend(kind) == /\ budget[kind] > 0
               /\ budget' = [budget EXCEPT ![kind] = @ - 1]

\* Every UPDATE of a shipment row bumps its version: what a tracker has read of
\* the row is stale from then on.
StillFresh(written) == {t \in fresh : tracker[t].scan[1] \notin written}

(***************************************************************************)
(* Cancellation: request and COMMIT, ask the courier, settle its answer.   *)
(***************************************************************************)

\* CANCEL_REQUESTED is taken for a state that may be cancelled again.
CancellableBug(s) ==
  booking[s] = "CONFIRMED" /\ custody[s] \in PrePickup \cup {"CANCEL_REQUESTED"}

Cancellable(s) == booking[s] = "CONFIRMED" /\ custody[s] \in PrePickup

RequestCancellation(c, s) ==
  /\ canceller[c].pc = "idle" /\ Cancellable(s)
  /\ custody' = [custody EXCEPT ![s] = "CANCEL_REQUESTED"]
  /\ canceller' = [canceller EXCEPT ![c] = Cancelling("ask", s, custody[s])]
  /\ fresh' = StillFresh({s})
  /\ UNCHANGED <<booking, movement, isTest, accountVars, manifests, scheduler,
                 courierVars, eventVars, queueVars, tracker, budget>>

Answered(c, pc) == canceller' = [canceller EXCEPT ![c].pc = pc]

\* The courier decides; its answer may get lost (flagOutcomeUnknown: the row
\* stays CANCEL_REQUESTED).  A call that never left is such a loss, too.
CourierAnswersCancel(c) ==
  LET s == canceller[c].shipment IN
  /\ canceller[c].pc = "ask"
  /\ \/ /\ parcel[s] = "awaiting"
        /\ parcel' = [parcel EXCEPT ![s] = "cancelled"]
        /\ Answered(c, "cancelled") \/ canceller' = [canceller EXCEPT ![c] = Idle]
     \/ Answered(c, "rejected") /\ UNCHANGED parcel
     \/ canceller' = [canceller EXCEPT ![c] = Idle] /\ UNCHANGED parcel
  /\ UNCHANGED <<rowVars, accountVars, manifests, scheduler, scan, tells, eventVars,
                 queueVars, trackerVars, budget>>

\* The custody state is not read again under the lock.
SettleCancelledBug(c) ==
  LET s == canceller[c].shipment IN
  /\ canceller[c].pc = "cancelled"
  /\ custody' = [custody EXCEPT ![s] = "CANCELLED"]
  /\ booking' = [booking EXCEPT ![s] = "VOID"]
  /\ canceller' = [canceller EXCEPT ![c].pc = "reverse"]
  /\ fresh' = StillFresh({s})
  /\ UNCHANGED <<movement, isTest, accountVars, manifests, scheduler,
                 courierVars, eventVars, queueVars, tracker, budget>>

SettleCancelled(c) ==
  LET s == canceller[c].shipment IN
  /\ canceller[c].pc = "cancelled"
  /\ \/ /\ custody[s] = "CANCEL_REQUESTED"
        /\ custody' = [custody EXCEPT ![s] = "CANCELLED"]
        /\ booking' = [booking EXCEPT ![s] = "VOID"]
        /\ canceller' = [canceller EXCEPT ![c].pc = "reverse"]
        /\ fresh' = StillFresh({s})
     \/ /\ custody[s] # "CANCEL_REQUESTED"    \* the pickup won the race: flagged
        /\ canceller' = [canceller EXCEPT ![c] = Idle]
        /\ UNCHANGED <<custody, booking, fresh>>
  /\ UNCHANGED <<movement, isTest, accountVars, manifests, scheduler,
                 courierVars, eventVars, queueVars, tracker, budget>>

\* EntitlementLedgerService.reverse, after the COMMIT; at most one row.
ReverseEntitlement(c) ==
  LET s == canceller[c].shipment IN
  /\ canceller[c].pc = "reverse"
  /\ reversed' = IF isTest[s] \/ ~subscribed THEN reversed ELSE reversed \cup {s}
  /\ canceller' = [canceller EXCEPT ![c] = Idle]
  /\ UNCHANGED <<rowVars, subscribed, enabled, manifests, scheduler, courierVars,
                 eventVars, queueVars, trackerVars, budget>>

\* CANCEL_REQUESTED -> CANCEL_REJECTED -> the state before, in one transaction.
SettleRejected(c) ==
  LET s == canceller[c].shipment IN
  /\ canceller[c].pc = "rejected"
  /\ canceller' = [canceller EXCEPT ![c] = Idle]
  /\ \/ /\ custody[s] = "CANCEL_REQUESTED"
        /\ custody' = [custody EXCEPT ![s] = canceller[c].previous]
        /\ fresh' = StillFresh({s})
     \/ custody[s] # "CANCEL_REQUESTED" /\ UNCHANGED <<custody, fresh>>
  /\ UNCHANGED <<booking, movement, isTest, accountVars, manifests, scheduler,
                 courierVars, eventVars, queueVars, tracker, budget>>

CrashCanceller(c) ==
  /\ canceller[c].pc # "idle"
  /\ Spend("apiCrash")
  /\ canceller' = [canceller EXCEPT ![c] = Idle]
  /\ UNCHANGED <<rowVars, accountVars, manifests, scheduler, courierVars,
                 eventVars, queueVars, trackerVars>>

(***************************************************************************)
(* Pickups: read what is eligible, ask the courier, mark, number, store.   *)
(***************************************************************************)

Schedulable(s) == booking[s] = "CONFIRMED" /\ custody[s] = "PICKUP_PENDING"

SelectEligible(p, group) ==
  /\ scheduler[p].pc = "idle" /\ Len(manifests) < MaxManifests
  /\ group # {} /\ \A s \in group : Schedulable(s)
  /\ scheduler' = [scheduler EXCEPT ![p] = Scheduling("ask", group, 0)]
  /\ UNCHANGED <<rowVars, accountVars, manifests, canceller, courierVars,
                 eventVars, queueVars, trackerVars, budget>>

CourierAnswersPickup(p) ==
  /\ scheduler[p].pc = "ask"
  /\ \/ scheduler' = [scheduler EXCEPT ![p].pc = "mark"]
     \/ scheduler' = [scheduler EXCEPT ![p] = Idle]      \* SCHEDULE_FAILED
  /\ UNCHANGED <<rowVars, accountVars, manifests, canceller, courierVars,
                 eventVars, queueVars, trackerVars, budget>>

StillPending(group) == {s \in group : custody[s] = "PICKUP_PENDING"}

MarkScheduled(p) ==
  LET marked == StillPending(scheduler[p].group) IN
  /\ scheduler[p].pc = "mark"
  /\ custody' = [s \in Shipments |-> IF s \in marked THEN "PICKUP_SCHEDULED" ELSE custody[s]]
  /\ scheduler' = [scheduler EXCEPT ![p].pc = "number"]
  /\ fresh' = StillFresh(marked)
  /\ UNCHANGED <<booking, movement, isTest, accountVars, manifests, canceller,
                 courierVars, eventVars, queueVars, tracker, budget>>

\* The day's documents are counted under an advisory lock that ends with COMMIT.
AllocateManifestNumber(p) ==
  /\ scheduler[p].pc = "number"
  /\ scheduler' = [scheduler EXCEPT ![p] = Scheduling("store", @.group, Len(manifests) + 1)]
  /\ UNCHANGED <<rowVars, accountVars, manifests, canceller, courierVars,
                 eventVars, queueVars, trackerVars, budget>>

StoreManifest(p) ==
  /\ scheduler[p].pc = "store"
  /\ manifests' = Append(manifests, scheduler[p].number)
  /\ scheduler' = [scheduler EXCEPT ![p] = Idle]
  /\ UNCHANGED <<rowVars, accountVars, canceller, courierVars,
                 eventVars, queueVars, trackerVars, budget>>

CrashScheduler(p) ==
  /\ scheduler[p].pc # "idle"
  /\ Spend("apiCrash")
  /\ scheduler' = [scheduler EXCEPT ![p] = Idle]
  /\ UNCHANGED <<rowVars, accountVars, manifests, canceller, courierVars,
                 eventVars, queueVars, trackerVars>>

(***************************************************************************)
(* The courier: parcels are picked up or cancelled, and scanned.           *)
(***************************************************************************)

Underway == {"IN_TRANSIT", "OUT_FOR_DELIVERY", "UNDELIVERED_ATTEMPT", "RTO_INITIATED",
             "RTO_IN_TRANSIT", "RTO_OUT_FOR_DELIVERY", "UNMAPPED"}
Endings == {"DELIVERED", "RTO_DELIVERED", "LOST_OR_DAMAGED"}

Scanned(s) == {n \in 1..MaxScans : scan[<<s, n>>] # "NONE"}

\* What a scan of this status needs of the parcel, and makes of it; the courier
\* may skip the scan of the pickup itself.
CourierScan(s, status) ==
  LET n == Cardinality(Scanned(s)) + 1 IN
  /\ status \in Statuses /\ n <= MaxScans
  /\ scan' = [scan EXCEPT ![<<s, n>>] = status]
  /\ \/ /\ status = "PICKUP_SCHEDULED" /\ parcel[s] = "awaiting"
        /\ UNCHANGED <<parcel, budget>>
     \/ /\ status = "PICKED_UP" /\ parcel[s] = "awaiting"
        /\ parcel' = [parcel EXCEPT ![s] = "picked"] /\ UNCHANGED budget
     \/ /\ status = "PICKED_UP" /\ parcel[s] = "cancelled"
        /\ Spend("strayPickup")                \* the driver did not know
        /\ parcel' = [parcel EXCEPT ![s] = "picked"]
     \/ /\ status \in Underway /\ parcel[s] \in {"awaiting", "picked"}
        /\ parcel' = [parcel EXCEPT ![s] = "picked"] /\ UNCHANGED budget
     \/ /\ status \in Endings /\ parcel[s] \in {"awaiting", "picked"}
        /\ parcel' = [parcel EXCEPT ![s] = "ended"] /\ UNCHANGED budget
     \/ /\ status \in Endings \cup Underway /\ parcel[s] = "ended"
        /\ Spend("correction")                 \* the courier takes its ending back
        /\ UNCHANGED parcel
     \/ /\ status = "CANCELLED_BY_COURIER" /\ parcel[s] \in {"awaiting", "cancelled"}
        /\ parcel' = [parcel EXCEPT ![s] = "ended"] /\ UNCHANGED budget
  /\ UNCHANGED <<rowVars, accountVars, manifests, canceller, scheduler, tells,
                 eventVars, queueVars, trackerVars>>

\* A scan is told again under another dedupe key: with an event id by webhook
\* and without one by poll, with another location or reason text, or without a
\* timestamp, for which the time of the ingest stands in.
Rekey(i) ==
  LET n == Cardinality(Scanned(i[1])) + 1 IN
  /\ scan[i] # "NONE" /\ n <= MaxScans
  /\ Spend("rekeyed")
  /\ scan' = [scan EXCEPT ![<<i[1], n>>] = scan[i]]
  /\ tells' = [tells EXCEPT ![<<i[1], n>>] = tells[i]]
  /\ UNCHANGED <<rowVars, accountVars, manifests, canceller, scheduler, parcel,
                 eventVars, queueVars, trackerVars>>

(***************************************************************************)
(* From a report to its job.  A delivery with the same dedupe key is a     *)
(* DUPLICATE row and changes nothing; reports arrive in any order.         *)
(***************************************************************************)

\* persistAndQueue up to its COMMIT.
Persist(i) ==
  /\ scan[i] # "NONE" /\ raw[i] = "NONE"
  /\ raw' = [raw EXCEPT ![i] = "PENDING"]
  /\ toEnqueue' = toEnqueue \cup {i}
  /\ UNCHANGED <<rowVars, accountVars, manifests, canceller, scheduler, courierVars,
                 stored, flagged, accepted, exhausted, fired, job, trackerVars, budget>>

Webhook(i) == Persist(i)

PollableBug(s) == enabled /\ booking[s] = "CONFIRMED" /\ movement[s] = "NOT_SHIPPED"

\* listPollCandidates: the NEW and IN_TRANSIT cohorts together, of accounts that
\* are switched on.
Pollable(s) == enabled /\ booking[s] = "CONFIRMED" /\ movement[s] \notin TerminalMovement

Poll(i) == Pollable(i[1]) /\ Persist(i)

EnqueueRawEvent(i) ==
  /\ i \in toEnqueue
  /\ toEnqueue' = toEnqueue \ {i}
  /\ job' = [job EXCEPT ![i] = Job("waiting", Nobody, 0, 0)]
  /\ UNCHANGED <<rowVars, accountVars, manifests, canceller, scheduler, courierVars,
                 eventVars, trackerVars, budget>>

\* The process dies, or Redis refuses, after COMMIT: the row stays PENDING.
LoseRawEvent(i) ==
  /\ i \in toEnqueue
  /\ Spend("apiCrash")
  /\ toEnqueue' = toEnqueue \ {i}
  /\ UNCHANGED <<rowVars, accountVars, manifests, canceller, scheduler, courierVars,
                 eventVars, job, trackerVars>>

Begin(t, i) == tracker' = [tracker EXCEPT ![t] = Tracking("record", i, NoRow, <<>>, 1)]

Deliver(w, i) ==
  /\ tracker[w].pc = "idle" /\ job[i].state = "waiting"
  /\ job' = [job EXCEPT ![i] = Job("active", w, @.failures, @.stalls)]
  /\ Begin(w, i)
  /\ UNCHANGED <<rowVars, accountVars, manifests, canceller, scheduler, courierVars,
                 eventVars, toEnqueue, fresh, budget>>

\* replayPayload runs processRawEvent in the member's request.
Replay(v, i) ==
  /\ tracker[v].pc = "idle" /\ raw[i] # "NONE"
  /\ Begin(v, i)
  /\ UNCHANGED <<rowVars, accountVars, manifests, canceller, scheduler, courierVars,
                 eventVars, queueVars, fresh, budget>>

Rest(t) == tracker' = [tracker EXCEPT ![t] = Idle] /\ fresh' = fresh \ {t}

\* processRawEvent returned; the job completes if this worker still holds it.
Finish(t) ==
  LET i == tracker[t].scan IN
  /\ Rest(t)
  /\ job' = IF job[i].holder = t
              THEN [job EXCEPT ![i] = Job("completed", Nobody, @.failures, @.stalls)]
              ELSE job

\* processRawEvent threw: BullMQ retries until the attempts are used up.
Throw(t) ==
  LET i == tracker[t].scan
      f == job[i].failures + 1
  IN
  /\ Rest(t)
  /\ job' = IF job[i].holder = t
              THEN [job EXCEPT ![i] = Job(IF f < JobAttempts THEN "waiting" ELSE "failed",
                                          Nobody, f, @.stalls)]
              ELSE job

\* The job's lock expired: its worker died, or merely lost the lock ("stall").
Working(t, i) == tracker[t].pc # "idle" /\ tracker[t].scan = i
RecoverStalled(i) ==
  /\ job[i].state = "active"
  /\ IF Working(job[i].holder, i) THEN Spend("stall") ELSE UNCHANGED budget
  /\ job' = [job EXCEPT ![i] =
               IF @.stalls < MaxStalls THEN Job("waiting", Nobody, @.failures, @.stalls + 1)
                                       ELSE Job("failed", Nobody, @.failures, @.stalls)]
  /\ UNCHANGED <<rowVars, accountVars, manifests, canceller, scheduler, courierVars,
                 eventVars, toEnqueue, trackerVars>>

CrashTracker(t) ==
  /\ tracker[t].pc # "idle"
  /\ Spend("crash")
  /\ Rest(t)
  /\ UNCHANGED <<rowVars, accountVars, manifests, canceller, scheduler, courierVars,
                 eventVars, queueVars>>

(***************************************************************************)
(* processRawEvent: record the event, reduce it, call the seams, accept.   *)
(***************************************************************************)

At(t, pc) == tracker' = [tracker EXCEPT ![t].pc = pc]

\* The event is inserted without looking for its dedupe key.
AlreadyStoredBug(i) == FALSE

\* The dedupe key, not the scan, is what is looked for.
AlreadyStored(i) == i \in stored

\* One transaction under the lock of the dedupe key; duplicates and unmapped
\* statuses end here.
RecordEvent(t) ==
  LET i == tracker[t].scan
      mapped == scan[i] # "UNMAPPED"
  IN
  /\ tracker[t].pc = "record"
  /\ IF AlreadyStored(i)
       THEN /\ Finish(t) /\ UNCHANGED <<stored, flagged>>
            /\ raw' = [raw EXCEPT ![i] = "DUPLICATE"]
       ELSE /\ stored' = stored \cup {i}
            /\ IF mapped
                 THEN At(t, "read") /\ UNCHANGED <<raw, flagged, job, fresh>>
                 ELSE /\ Finish(t)
                      /\ raw' = [raw EXCEPT ![i] = "UNMAPPED_STATUS"]
                      /\ flagged' = flagged \cup {i}
  /\ UNCHANGED <<rowVars, accountVars, manifests, canceller, scheduler, courierVars,
                 accepted, exhausted, fired, toEnqueue, budget>>

\* decideTransition
Regresses(row, status) ==
  row.movement \in TerminalMovement /\ EventToMovement[status] # row.movement
MovementChanges(row, status) ==
  EventToMovement[status] # row.movement /\ ~Regresses(row, status)
\* A pending cancellation keeps the courier's pickup out.
TakesCustodyBug(row, status) ==
  /\ status = "PICKED_UP" /\ ~Regresses(row, status) /\ row.custody \in PrePickup

TakesCustody(row, status) ==
  /\ status = "PICKED_UP" /\ ~Regresses(row, status)
  /\ row.custody \in PrePickup \cup {"CANCEL_REQUESTED"}
CustodyRace(row, status) == TakesCustody(row, status) /\ row.custody = "CANCEL_REQUESTED"

\* applyEvent reads the row and decides; without a change the event is done, but
\* for a repeated delivery attempt.
ReadShipment(t) ==
  LET i == tracker[t].scan
      row == Row(i[1])
      repeated == scan[i] = "UNDELIVERED_ATTEMPT" /\ row.movement = "NDR"
  IN
  /\ tracker[t].pc = "read"
  /\ flagged' = IF Regresses(row, scan[i]) \/ CustodyRace(row, scan[i])
                  THEN flagged \cup {i} ELSE flagged
  /\ IF MovementChanges(row, scan[i]) \/ TakesCustody(row, scan[i])
       THEN /\ tracker' = [tracker EXCEPT ![t] = Tracking("write", i, row, <<>>, @.tries)]
            /\ fresh' = fresh \cup {t}
       ELSE /\ tracker' = [tracker EXCEPT ![t] =
                 IF repeated THEN Tracking("seams", i, row, <<"ndrAttempt">>, @.tries)
                             ELSE Tracking("accept", i, row, <<>>, @.tries)]
            /\ UNCHANGED fresh
  /\ UNCHANGED <<rowVars, accountVars, manifests, canceller, scheduler, courierVars,
                 raw, stored, accepted, exhausted, fired, queueVars, budget>>

\* The UPDATE is not conditional on the version that was read.
VersionMatchesBug(t) == TRUE

VersionMatches(t) == t \in fresh

WriteShipment(t) ==
  LET i == tracker[t].scan
      s == i[1]
      row == tracker[t].seen
  IN
  /\ tracker[t].pc = "write" /\ VersionMatches(t)
  /\ movement' = [movement EXCEPT ![s] =
       IF MovementChanges(row, scan[i]) THEN EventToMovement[scan[i]] ELSE row.movement]
  /\ custody' = IF TakesCustody(row, scan[i])
                  THEN [custody EXCEPT ![s] = "IN_CUSTODY"] ELSE custody
  /\ tracker' = [tracker EXCEPT ![t] =
       IF MovementChanges(row, scan[i])
         THEN Tracking("seams", i, row, SeamsOf(EventToMovement[scan[i]]), @.tries)
         ELSE Tracking("accept", i, row, <<>>, @.tries)]
  /\ fresh' = StillFresh({s})
  /\ UNCHANGED <<booking, isTest, accountVars, manifests, canceller, scheduler,
                 courierVars, eventVars, queueVars, budget>>

\* After the last mismatch applyEvent returns instead of throwing.
VersionMismatchBug(t) ==
  /\ tracker[t].pc = "write" /\ ~VersionMatches(t)
  /\ IF tracker[t].tries < MaxVersionRetries
       THEN /\ tracker' = [tracker EXCEPT ![t] =
                 Tracking("read", @.scan, @.seen, @.todo, @.tries + 1)]
            /\ UNCHANGED <<job, fresh>>
       ELSE Finish(t)
  /\ UNCHANGED <<rowVars, accountVars, manifests, canceller, scheduler, courierVars,
                 eventVars, toEnqueue, budget>>

VersionMismatch(t) ==
  /\ tracker[t].pc = "write" /\ ~VersionMatches(t)
  /\ IF tracker[t].tries < MaxVersionRetries
       THEN /\ tracker' = [tracker EXCEPT ![t] =
                 Tracking("read", @.scan, @.seen, @.todo, @.tries + 1)]
            /\ UNCHANGED <<job, fresh, exhausted>>
       ELSE /\ Throw(t)                         \* ConflictException
            /\ exhausted' = exhausted \cup {tracker[t].scan}
  /\ UNCHANGED <<rowVars, accountVars, manifests, canceller, scheduler, courierVars,
                 raw, stored, flagged, accepted, fired, toEnqueue, budget>>

\* The seams run one after the other, each in statements of its own.
CallSeam(t) ==
  LET i == tracker[t].scan
      todo == tracker[t].todo
  IN
  /\ tracker[t].pc = "seams"
  /\ fired' = [fired EXCEPT ![i] = Append(@, Head(todo))]
  /\ tracker' = [tracker EXCEPT ![t] =
       Tracking(IF Len(todo) = 1 THEN "accept" ELSE "seams", i, @.seen, Tail(todo), @.tries)]
  /\ UNCHANGED <<rowVars, accountVars, manifests, canceller, scheduler, courierVars,
                 raw, stored, flagged, accepted, exhausted, queueVars, fresh, budget>>

\* A seam's own statement fails: the error leaves processRawEvent.
SeamThrows(t) ==
  /\ tracker[t].pc = "seams"
  /\ Spend("seamFails")
  /\ Throw(t)
  /\ UNCHANGED <<rowVars, accountVars, manifests, canceller, scheduler, courierVars,
                 eventVars, toEnqueue>>

Accept(t) ==
  LET i == tracker[t].scan IN
  /\ tracker[t].pc = "accept"
  /\ raw' = [raw EXCEPT ![i] = "ACCEPTED"]
  /\ accepted' = accepted \cup {i}
  /\ Finish(t)
  /\ UNCHANGED <<rowVars, accountVars, manifests, canceller, scheduler, courierVars,
                 stored, flagged, exhausted, fired, toEnqueue, budget>>

\* The subscription leaves TRIALING/ACTIVE, or returns to it.
ChangeSubscription ==
  /\ Spend("unsubscribe")
  /\ subscribed' = ~subscribed
  /\ UNCHANGED <<rowVars, enabled, reversed, manifests, canceller, scheduler, courierVars,
                 eventVars, queueVars, trackerVars>>

\* The courier account is switched off, or on again.
ToggleAccount ==
  /\ IF enabled THEN Spend("disable") ELSE UNCHANGED budget
  /\ enabled' = ~enabled
  /\ UNCHANGED <<rowVars, subscribed, reversed, manifests, canceller, scheduler,
                 courierVars, eventVars, queueVars, trackerVars>>

(***************************************************************************)
(* Specification.                                                          *)
(***************************************************************************)

CancellerStep(c) ==
  \/ CourierAnswersCancel(c) \/ SettleCancelled(c) \/ SettleRejected(c)
  \/ ReverseEntitlement(c) \/ CrashCanceller(c)

SchedulerStep(p) ==
  \/ CourierAnswersPickup(p) \/ MarkScheduled(p)
  \/ AllocateManifestNumber(p) \/ StoreManifest(p) \/ CrashScheduler(p)

TrackerStep(t) ==
  \/ RecordEvent(t) \/ ReadShipment(t) \/ WriteShipment(t) \/ VersionMismatch(t)
  \/ CallSeam(t) \/ Accept(t)

IngestStep(i) ==
  Webhook(i) \/ Poll(i) \/ EnqueueRawEvent(i) \/ LoseRawEvent(i) \/ RecoverStalled(i)

Next ==
  \/ \E c \in Cancellers, s \in Shipments : RequestCancellation(c, s)
  \/ \E c \in Cancellers : CancellerStep(c)
  \/ \E p \in Schedulers, group \in SUBSET Shipments : SelectEligible(p, group)
  \/ \E p \in Schedulers : SchedulerStep(p)
  \/ \E s \in Shipments, status \in Statuses : CourierScan(s, status)
  \/ \E i \in Scans : Rekey(i) \/ IngestStep(i)
  \/ \E w \in Workers, i \in Scans : Deliver(w, i)
  \/ \E v \in Viewers, i \in Scans : Replay(v, i)
  \/ \E t \in Trackers : TrackerStep(t) \/ SeamThrows(t) \/ CrashTracker(t)
  \/ ChangeSubscription \/ ToggleAccount

Spec == Init /\ [][Next]_vars

\* The poll sweep is a repeatable job, the ingest goes on to enqueue, BullMQ
\* delivers and recovers jobs, and a running processRawEvent takes its next step.
Fairness ==
  /\ \A i \in Scans :
       WF_vars(Poll(i)) /\ WF_vars(EnqueueRawEvent(i)) /\ WF_vars(RecoverStalled(i))
  /\ \A w \in Workers : WF_vars(\E i \in Scans : Deliver(w, i))
  /\ \A t \in Trackers : WF_vars(TrackerStep(t))

FairSpec == Spec /\ Fairness

(***************************************************************************)
(* Properties.                                                             *)
(***************************************************************************)

\* Every variable keeps its type: rows, requests, jobs and trackers hold only
\* values of the code's enums and of its in-memory records.
RowTypeOK ==
  /\ booking \in [Shipments -> {"CONFIRMED", "VOID"}]
  /\ custody \in [Shipments -> CustodyStates]
  /\ movement \in [Shipments -> MovementStates]
  /\ isTest \in [Shipments -> BOOLEAN]
AccountTypeOK ==
  /\ subscribed \in BOOLEAN /\ enabled \in BOOLEAN
  /\ reversed \subseteq Shipments /\ manifests \in Seq(Nat)
Cancellings == [pc : {"ask", "cancelled", "rejected", "reverse"},
                shipment : Shipments, previous : PrePickup]
Schedulings == [pc : {"ask", "mark", "number", "store"},
                group : SUBSET Shipments, number : Nat]
Rows == [movement : MovementStates, custody : CustodyStates]
Trackings == [pc : {"record", "read", "write", "seams", "accept"}, scan : Scans,
              seen : Rows, todo : Seq(SeamNames), tries : Nat]
RequestTypeOK ==
  /\ canceller \in [Cancellers -> Cancellings \cup {Idle}]
  /\ scheduler \in [Schedulers -> Schedulings \cup {Idle}]
CourierTypeOK ==
  /\ parcel \in [Shipments -> {"awaiting", "cancelled", "picked", "ended"}]
  /\ scan \in [Scans -> Statuses \cup {"NONE"}]
  /\ tells \in [Scans -> 1..MaxScans]
EventTypeOK ==
  /\ raw \in [Scans -> {"NONE", "PENDING", "ACCEPTED", "DUPLICATE", "UNMAPPED_STATUS"}]
  /\ stored \subseteq Scans /\ flagged \subseteq Scans
  /\ accepted \subseteq Scans /\ exhausted \subseteq Scans
  /\ fired \in [Scans -> Seq(SeamNames)]
Jobs == [state : {"absent", "waiting", "active", "completed", "failed"},
         holder : Workers \cup {Nobody}, failures : Nat, stalls : 0..MaxStalls]
QueueTypeOK == toEnqueue \subseteq Scans /\ job \in [Scans -> Jobs]
TrackerTypeOK ==
  /\ tracker \in [Trackers -> Trackings \cup {Idle}]
  /\ fresh \subseteq {t \in Trackers : tracker[t].pc # "idle"}
BudgetTypeOK == budget \in [FaultKinds -> Nat]
TypeOK == /\ RowTypeOK /\ AccountTypeOK /\ RequestTypeOK /\ CourierTypeOK
          /\ EventTypeOK /\ QueueTypeOK /\ TrackerTypeOK /\ BudgetTypeOK

\* Whatever cancellations, pickups and trackers interleave, the rows only go
\* through legal steps of their machines: terminal movement and custody states
\* stay (INV-17), and an entitlement returns only for a settled cancellation,
\* never for a parcel in custody (INV-12).
Machines == INSTANCE ShipmentMachines
ImplementsMachines == Machines!Spec

\* A pending cancellation belongs to one request: the state it restores on a
\* rejection is the one it replaced.
Attends(c, s) == canceller[c].pc \in {"ask", "cancelled", "rejected"} /\ canceller[c].shipment = s
SoleCanceller ==
  \A s \in Shipments, c, d \in Cancellers : Attends(c, s) /\ Attends(d, s) => c = d

\* A carrier event has its consequences at most once, however often it is
\* delivered, replayed or retried under one dedupe key; an ending has them once
\* under all its keys.  A scan that is no ending and told under two keys is two
\* events to the code, which may count an undelivered attempt twice.
Ends(i) == scan[i] \in CarrierEventStatuses /\ EventToMovement[scan[i]] \in TerminalMovement
SameEvent(i, j) == i = j \/ (i[1] = j[1] /\ tells[i] = tells[j] /\ Ends(i) /\ Ends(j))
SeamsFireOnce ==
  \A i, j \in Scans : SameEvent(i, j) =>
    \A a \in DOMAIN fired[i], b \in DOMAIN fired[j] : fired[i][a] = fired[j][b] => i = j /\ a = b

\* A parcel ends once: of its last scans, conflicting or told twice, one calls
\* the seams (closes the NDR case, opens the COD expectation, tells the shop);
\* the others are stored, flagged if they conflict, and call none.
EndedBy(i) == Ends(i) /\ fired[i] # <<>>
OneEnding == \A i, j \in Scans : i[1] = j[1] /\ EndedBy(i) /\ EndedBy(j) => i = j

\* INV-20, "nothing is silently dropped", as far as the code goes: a recorded
\* event that has a status is reduced and its seams are called, or somebody is
\* at it; one that is not was left by a process that died, a seam that threw, or
\* the last lost version race, and each of these leaves one event at most.
Reducing(t, i) == tracker[t].pc \in {"read", "write", "seams", "accept"} /\ tracker[t].scan = i
LeftUndone ==
  {i \in stored : /\ scan[i] # "UNMAPPED" /\ i \notin accepted \cup exhausted
                  /\ \A t \in Trackers : ~Reducing(t, i)}
Spent(kind) == Budget[kind] - budget[kind]
ScansTakeEffect == Cardinality(LeftUndone) <= Spent("crash") + Spent("seamFails")

\* A pickup takes the parcel into custody or is flagged for review, also when it
\* meets a pending cancellation (A1-04) -- as long as no driver picks up a parcel
\* whose cancellation the courier has confirmed.
Surfaced(i) == custody[i[1]] = "IN_CUSTODY" \/ i \in flagged
AllPickupsSurfaced == \A i \in accepted : scan[i] = "PICKED_UP" => Surfaced(i)
PickupSurfaced == budget["strayPickup"] = Budget["strayPickup"] => AllPickupsSurfaced

\* With polling as the fallback no webhook is needed: once its account stays
\* switched on, a parcel the courier has ended gets a terminal movement state,
\* unless its booking is void.
Ended(s) == \E n \in 1..MaxScans : scan[<<s, n>>] \in Endings
EndingsArrive ==
  <>[]enabled =>
    \A s \in Shipments : Ended(s) ~> (movement[s] \in TerminalMovement \/ booking[s] = "VOID")

----------------------------------------------------------------------------
(* Small instances: the fault budgets of the runs, and symmetry.           *)

Faults(kinds) == [k \in FaultKinds |-> IF k \in kinds THEN 1 ELSE 0]

\* Requests and trackers that die, a seam that fails, a driver who did not know,
\* a subscription that lapses.
RaceFaults == Faults({"apiCrash", "crash", "seamFails", "strayPickup", "unsubscribe"})
\* A job delivered twice at once, a courier that corrects itself or tells a scan
\* under a second key, an account switched off.
ScanFaults == Faults({"stall", "correction", "rekeyed", "disable"})

Symmetry == Permutations(Cancellers) \cup Permutations(Schedulers)
            \cup Permutations(Workers) \cup Permutations(Viewers)
            \cup Permutations(Shipments)
=============================================================================
