------------------------------- MODULE Booking -------------------------------
(***************************************************************************)
(* The booking machine of the sibling shipments of one order, from the     *)
(* member's "book" to a durably confirmed AWB and its entitlement debit:   *)
(* BookingService.queueBooking, the `booking' queue, BookingWorkerService  *)
(* (claim, create, settle, debit) and the resolution of an ambiguous       *)
(* create by lookup or by an operator.                                     *)
(*                                                                         *)
(* Three kinds of process interleave between the database transactions:    *)
(* the API processes (queueBooking's enqueue after COMMIT), the queue's    *)
(* workers, and the members who resolve an OUTCOME_UNKNOWN booking.        *)
(* What happens to a booked parcel afterwards is module Transit's.         *)
(***************************************************************************)
EXTENDS Naturals, FiniteSets, TLC

CONSTANTS
  Shipments,        \* the sibling shipments of one order
  Workers,          \* BullMQ worker processes; each runs one job at a time
  Members,          \* requests resolving an OUTCOME_UNKNOWN booking
  Awbs,             \* normalized AWB numbers of the one courier account
  NoAwb,            \* NULL
  Nobody,           \* no worker holds the job
  MaxAttempts,      \* bound: booking attempts per shipment
  JobAttempts,      \* BullMQ `attempts' of a booking job (5 in the code)
  MaxStalls,        \* BullMQ maxStalledCount (1 by default)
  Outstanding,      \* the order's cod_outstanding; 0 for a prepaid order
  Allowance,        \* awb_allowance_per_cycle of the plan
  OveragePermitted, \* the subscription's capped_amount is positive
  InitialModes,     \* bound: the modes the courier account may start in
  Budget            \* bound: how often each kind of fault may happen

FaultKinds == {"crash", "stall", "apiCrash", "backPressure", "late",
               "reuseAwb", "misjudge", "falseRefusal", "switchMode", "unsubscribe"}

ASSUME BoundsAssumption ==
  /\ MaxAttempts \in Nat /\ JobAttempts \in Nat \ {0} /\ MaxStalls \in Nat
  /\ Outstanding \in Nat /\ Allowance \in Nat
  /\ OveragePermitted \in BOOLEAN
  /\ Budget \in [FaultKinds -> Nat]

Modes == {"LIVE", "TEST"}
ASSUME ModeAssumption == InitialModes \subseteq Modes
ASSUME NullAssumption == NoAwb \notin Awbs /\ Nobody \notin Workers

Intents == Shipments \X (1..MaxAttempts)   \* <<shipment, attempt number>>

BookingStates == {"DRAFT", "NEEDS_MANUAL_ASSIGNMENT", "QUEUED", "SUBMITTED",
                  "OUTCOME_UNKNOWN", "CONFIRMED", "FAILED", "VOID"}
CustodyStates == {"NOT_APPLICABLE", "PICKUP_PENDING", "PICKUP_SCHEDULED",
                  "IN_CUSTODY", "CANCEL_REQUESTED", "CANCELLED", "CANCEL_REJECTED"}
Outcomes == {"NONE", "IN_FLIGHT", "CONFIRMED", "FAILED", "UNKNOWN",
             "RESOLVED_CONFIRMED", "RESOLVED_FAILED"}

\* What an adapter call came back with, held in the caller's memory.
NoAnswer     == [kind |-> "NONE", awb |-> NoAwb]
Confirmed(a) == [kind |-> "CONFIRMED", awb |-> a]
Failed       == [kind |-> "FAILED", awb |-> NoAwb]
Unknown      == [kind |-> "UNKNOWN", awb |-> NoAwb]
Answers == {NoAnswer, Failed, Unknown} \cup {Confirmed(a) : a \in Awbs}

Process(pc, intent, answer) == [pc |-> pc, intent |-> intent, answer |-> answer]
Idle == Process("idle", <<>>, NoAnswer)
Running == [pc     : {"claim", "create", "loaded", "settle", "debit", "return"},
            intent : Intents,
            answer : Answers]
Processes == Running \cup {Idle}
At(p, pc) == Process(pc, p.intent, p.answer)

Jobs == [state    : {"absent", "waiting", "active", "completed", "failed"},
         holder   : Workers \cup {Nobody},
         failures : Nat,
         stalls   : 0..MaxStalls]
Job(state, holder, failures, stalls) ==
  [state |-> state, holder |-> holder, failures |-> failures, stalls |-> stalls]
NoJob == Job("absent", Nobody, 0, 0)

Parcels == [ref : Intents, awb : Awbs, mode : Modes]
Entries == [shipment : Shipments, direction : {"DEBIT", "REVERSAL"}, cycle : Nat]

VARIABLES
  booking, custody, collectible, awb, isTest,  \* columns of the shipment rows
  attempts, outcome,    \* booking_intent rows: how many, and their outcome
  ledger,               \* awb_entitlement_ledger rows
  subscribed, cycle,    \* the subscription: TRIALING/ACTIVE, its billing cycle
  mode,                 \* courier_account.mode
  toEnqueue,            \* intents committed whose enqueue has not happened yet
  job,                  \* the BullMQ jobs, jobId = booking_intent_id
  worker, cache,        \* each worker's job and its adapter's createsByIntent
  member,               \* each resolving request
  parcels, wire,        \* at the courier: parcels; requests under way, and to which mode
  calls,                \* history: createShipment requests sent per intent
  budget                \* faults that may still happen

shipmentVars == <<booking, custody, collectible, awb, isTest, attempts, outcome>>
accountVars  == <<ledger, subscribed, cycle, mode>>
queueVars    == <<toEnqueue, job>>
courierVars  == <<parcels, wire, calls>>
vars == <<shipmentVars, accountVars, queueVars, worker, cache, member,
          courierVars, budget>>

Init ==
  /\ booking = [s \in Shipments |-> "DRAFT"]
  /\ custody = [s \in Shipments |-> "NOT_APPLICABLE"]
  /\ collectible = [s \in Shipments |-> 0]
  /\ awb = [s \in Shipments |-> NoAwb]
  /\ isTest = [s \in Shipments |-> FALSE]
  /\ attempts = [s \in Shipments |-> 0]
  /\ outcome = [i \in Intents |-> "NONE"]
  /\ ledger = {} /\ subscribed = TRUE /\ cycle = 0 /\ mode \in InitialModes
  /\ toEnqueue = {} /\ job = [i \in Intents |-> NoJob]
  /\ worker = [w \in Workers |-> Idle]
  /\ cache = [w \in Workers |-> [i \in Intents |-> NoAnswer]]
  /\ member = [m \in Members |-> Idle]
  /\ parcels = {} /\ wire = {} /\ calls = [i \in Intents |-> 0]
  /\ budget = Budget

Spend(kind) == /\ budget[kind] > 0
               /\ budget' = [budget EXCEPT ![kind] = @ - 1]

(***************************************************************************)
(* Database rules shared by the transactions.                              *)
(***************************************************************************)

\* A shipment that already collects the order's cash: INV-9's active carrier.
Carrier(t) == collectible[t] > 0 /\ awb[t] # NoAwb /\ booking[t] # "VOID"

SiblingCarries(s) == \E t \in Shipments \ {s} : Carrier(t)

\* Definitions named "...Bug" are plausible mistakes in the definition they
\* precede; every property must tell one of them from the code.
CollectibleGuardBug(s) == TRUE    \* the trigger is missing

\* The collectible_guard trigger: a write to the row of a shipment that has a
\* collectible raises while a sibling is an active carrier.
CollectibleGuard(s) == collectible[s] > 0 => ~SiblingCarries(s)

Consumed == Cardinality({e \in ledger : e.cycle = cycle /\ e.direction = "DEBIT"})
Reversed == Cardinality({e \in ledger : e.cycle = cycle /\ e.direction = "REVERSAL"})
Entitled == subscribed /\ (OveragePermitted \/ Consumed < Allowance + Reversed)

Debited(s) == \E e \in ledger : e.shipment = s /\ e.direction = "DEBIT"

AwbTakenBug(s, a) == FALSE        \* confirmBooking does not look for the AWB

\* Another live shipment of the shop and courier account holds the AWB (INV-6).
AwbTaken(s, a) == \E t \in Shipments \ {s} : awb[t] = a /\ booking[t] # "VOID"

(***************************************************************************)
(* queueBooking and what follows its COMMIT.                               *)
(***************************************************************************)

\* Rule evaluation, or the S-22 chain, finds no Service.
RouteToManual(s) ==
  /\ booking[s] \in {"DRAFT", "NEEDS_MANUAL_ASSIGNMENT"}
  /\ CollectibleGuard(s)
  /\ booking' = [booking EXCEPT ![s] = "NEEDS_MANUAL_ASSIGNMENT"]
  /\ UNCHANGED <<custody, collectible, awb, isTest, attempts, outcome,
                 accountVars, queueVars, worker, cache, member, courierVars, budget>>

\* One transaction under the shipment and order row locks. Every other early
\* return (INV-7, account state, no entitlement) rolls back and changes nothing.
QueueBooking(s) ==
  LET n == attempts[s] + 1
      claim == IF SiblingCarries(s) THEN 0 ELSE Outstanding
  IN
  /\ booking[s] \in {"DRAFT", "NEEDS_MANUAL_ASSIGNMENT", "FAILED"}
  /\ n <= MaxAttempts
  /\ Entitled
  /\ booking[s] # "DRAFT" => CollectibleGuard(s)  \* the UPDATE back to DRAFT
  /\ booking' = [booking EXCEPT ![s] = "QUEUED"]
  /\ collectible' = [collectible EXCEPT ![s] = claim]
  /\ attempts' = [attempts EXCEPT ![s] = n]
  /\ outcome' = [outcome EXCEPT ![<<s, n>>] = "IN_FLIGHT"]
  /\ toEnqueue' = toEnqueue \cup {<<s, n>>}
  /\ UNCHANGED <<custody, awb, isTest, accountVars, job, worker, cache, member,
                 courierVars, budget>>

Enqueue(i) ==
  /\ i \in toEnqueue
  /\ toEnqueue' = toEnqueue \ {i}
  /\ job' = IF job[i].state = "absent"      \* a repeated jobId is a no-op
              THEN [job EXCEPT ![i] = Job("waiting", Nobody, 0, 0)] ELSE job
  /\ UNCHANGED <<shipmentVars, accountVars, worker, cache, member, courierVars, budget>>

\* The API process dies, or Redis refuses, between COMMIT and enqueue.
LoseEnqueue(i) ==
  /\ i \in toEnqueue
  /\ Spend("apiCrash")
  /\ toEnqueue' = toEnqueue \ {i}
  /\ UNCHANGED <<shipmentVars, accountVars, job, worker, cache, member, courierVars>>

(***************************************************************************)
(* The queue: delivery, completion, retry, and the recovery of stalled     *)
(* jobs, which may deliver a job a second time while its first worker is   *)
(* still at it.                                                            *)
(***************************************************************************)

Deliver(w, i) ==
  /\ worker[w].pc = "idle" /\ job[i].state = "waiting"
  /\ job' = [job EXCEPT ![i] = Job("active", w, @.failures, @.stalls)]
  /\ worker' = [worker EXCEPT ![w] = Process("claim", i, NoAnswer)]
  /\ UNCHANGED <<shipmentVars, accountVars, toEnqueue, cache, member, courierVars, budget>>

\* A transaction or statement of processBooking committed; it returns next.
Committed(w) == worker' = [worker EXCEPT ![w] = At(@, "return")] /\ UNCHANGED job

\* processBooking returned: the job completes if this worker still holds it.
Finish(w) ==
  LET i == worker[w].intent IN
  /\ worker' = [worker EXCEPT ![w] = Idle]
  /\ job' = IF job[i].holder = w
              THEN [job EXCEPT ![i] = Job("completed", Nobody, @.failures, @.stalls)]
              ELSE job

ThrowBug(w) == Finish(w)          \* the worker swallows the error and returns

\* processBooking threw: BullMQ retries until the attempts are used up.
Throw(w) ==
  LET i == worker[w].intent
      f == job[i].failures + 1
  IN
  /\ worker' = [worker EXCEPT ![w] = Idle]
  /\ job' = IF job[i].holder = w
              THEN [job EXCEPT ![i] = Job(IF f < JobAttempts THEN "waiting" ELSE "failed",
                                          Nobody, f, @.stalls)]
              ELSE job

\* The job's lock expired: its worker died, or merely lost the lock ("stall").
RecoverStalled(i) ==
  /\ job[i].state = "active"
  /\ IF worker[job[i].holder].intent = i
       THEN Spend("stall") ELSE UNCHANGED budget
  /\ job' = IF job[i].stalls < MaxStalls
              THEN [job EXCEPT ![i] = Job("waiting", Nobody, @.failures, @.stalls + 1)]
              ELSE [job EXCEPT ![i] = Job("failed", Nobody, @.failures, @.stalls)]
  /\ UNCHANGED <<shipmentVars, accountVars, toEnqueue, worker, cache, member, courierVars>>

\* The process dies: its job stays active, its adapter's memory is gone.
CrashWorker(w) ==
  /\ worker[w].pc # "idle"
  /\ Spend("crash")
  /\ worker' = [worker EXCEPT ![w] = Idle]
  /\ cache' = [cache EXCEPT ![w] = [i \in Intents |-> NoAnswer]]
  /\ UNCHANGED <<shipmentVars, accountVars, queueVars, member, courierVars>>

(***************************************************************************)
(* processBooking, phase 1: claim QUEUED -> SUBMITTED.                     *)
(***************************************************************************)

ClaimableBug(i) == booking[i[1]] # "CONFIRMED"   \* the intent is not consulted

Claimable(i) == outcome[i] = "IN_FLIGHT" /\ booking[i[1]] \in {"QUEUED", "SUBMITTED"}

Claim(w) ==
  LET i == worker[w].intent
      s == i[1]
  IN
  /\ worker[w].pc = "claim"
  /\ \/ /\ Claimable(i)
        /\ booking[s] = "QUEUED" => CollectibleGuard(s)
        /\ booking' = [booking EXCEPT ![s] = "SUBMITTED"]
        /\ worker' = [worker EXCEPT ![w] = At(@, "create")]
        /\ UNCHANGED job
     \/ /\ Claimable(i)
        /\ booking[s] = "QUEUED" /\ ~CollectibleGuard(s)
        /\ Throw(w) /\ UNCHANGED booking
     \/ /\ ~Claimable(i)              \* a duplicate delivery
        /\ Finish(w) /\ UNCHANGED booking
  /\ UNCHANGED <<custody, collectible, awb, isTest, attempts, outcome, accountVars,
                 toEnqueue, cache, member, courierVars, budget>>

(***************************************************************************)
(* Phase 2: the adapter's createShipment.                                  *)
(***************************************************************************)

IssuedAwbs == {p.awb : p \in parcels}

AtCreate(w) == worker[w].pc = "create"

\* The call came back with an answer; settled in the next step.
Return(w, answer) ==
  worker' = [worker EXCEPT ![w] = Process("settle", @.intent, answer)]

\* The adapter records the outcome of an intent and answers a retry from it.
Remember(w, answer) ==
  /\ Return(w, answer)
  /\ cache' = [cache EXCEPT ![w] = [@ EXCEPT ![worker[w].intent] = answer]]

Send(w) ==
  /\ AtCreate(w) /\ cache[w][worker[w].intent] = NoAnswer
  /\ calls' = [calls EXCEPT ![worker[w].intent] = @ + 1]

CreateAnsweredFromMemory(w) ==
  /\ AtCreate(w) /\ cache[w][worker[w].intent] # NoAnswer
  /\ Return(w, cache[w][worker[w].intent])
  /\ UNCHANGED <<shipmentVars, accountVars, queueVars, cache, member, courierVars, budget>>

\* A request goes to the base URL of the mode its account has when it leaves.
ParcelIn(m, i, a) == [ref |-> i, awb |-> a, mode |-> m]
NewParcel(i, a) == ParcelIn(mode, i, a)

CreateAccepted(w) ==
  LET i == worker[w].intent IN
  /\ Send(w)
  /\ \/ \E a \in Awbs \ IssuedAwbs :                 \* a new parcel
          /\ parcels' = parcels \cup {NewParcel(i, a)}
          /\ Remember(w, Confirmed(a))
          /\ UNCHANGED budget
     \/ \E a \in IssuedAwbs :                        \* the courier recycled an AWB
          /\ Spend("reuseAwb")
          /\ parcels' = parcels \cup {NewParcel(i, a)}
          /\ Remember(w, Confirmed(a))
     \/ \E p \in parcels :                           \* the reference is known
          /\ p.ref = i /\ p.mode = mode
          /\ Remember(w, Confirmed(p.awb))
          /\ UNCHANGED <<parcels, budget>>
  /\ UNCHANGED <<shipmentVars, accountVars, queueVars, member, wire>>

\* A response without a waybill is taken for a booking.
CreateRejectedBug(w) ==
  /\ Send(w) /\ Remember(w, Confirmed(NoAwb))
  /\ UNCHANGED <<shipmentVars, accountVars, queueVars, member, parcels, wire, budget>>

\* The courier refuses, and no parcel is made -- but a 5xx, a reset connection
\* and a body that is no JSON are told FAILED, too, and the courier may have
\* made the parcel before it answered so.
CreateRejected(w) ==
  /\ Send(w) /\ Remember(w, Failed)
  /\ \/ UNCHANGED <<parcels, budget>>
     \/ /\ Spend("falseRefusal")
        /\ \E a \in Awbs \ IssuedAwbs : parcels' = parcels \cup {NewParcel(worker[w].intent, a)}
  /\ UNCHANGED <<shipmentVars, accountVars, queueVars, member, wire>>

\* The response is lost: the parcel was made, was not, or will be made later.
CreateTimedOut(w) ==
  LET i == worker[w].intent IN
  /\ Send(w) /\ Remember(w, Unknown)
  /\ \/ \E a \in Awbs \ IssuedAwbs :
          /\ parcels' = parcels \cup {NewParcel(i, a)}
          /\ UNCHANGED <<wire, budget>>
     \/ UNCHANGED <<parcels, wire, budget>>
     \/ /\ Spend("late")
        /\ wire' = wire \cup {<<i, mode>>}
        /\ UNCHANGED parcels
  /\ UNCHANGED <<shipmentVars, accountVars, queueVars, member>>

\* CourierAuthError / UnsupportedCapabilityError (definitive), or an error
\* before the request left (disabled account, no credentials: "ambiguous").
CreateNotSent(w) ==
  /\ AtCreate(w)
  /\ \E answer \in {Failed, Unknown} : Return(w, answer)
  /\ UNCHANGED <<shipmentVars, accountVars, queueVars, cache, member, courierVars, budget>>

\* Open breaker, exhausted budget or provider rate limit: rethrown.
CreateBackPressure(w) ==
  /\ AtCreate(w)
  /\ Spend("backPressure")
  /\ Throw(w)
  /\ UNCHANGED <<shipmentVars, accountVars, toEnqueue, cache, member, courierVars>>

LateArrival(i) ==
  /\ \E m \in Modes, a \in Awbs \ IssuedAwbs :
       /\ <<i, m>> \in wire
       /\ parcels' = parcels \cup {ParcelIn(m, i, a)}
       /\ wire' = wire \ {<<i, m>>}
  /\ UNCHANGED <<shipmentVars, accountVars, queueVars, worker, cache, member, calls, budget>>

(***************************************************************************)
(* The settling transactions. Each is enabled only when the collectible    *)
(* trigger lets its UPDATE through.                                        *)
(***************************************************************************)

Confirmable(s) == booking[s] \in {"SUBMITTED", "OUTCOME_UNKNOWN"}

\* confirmBooking's transaction; `result' is the intent outcome on success.
ConfirmBooking(s, i, a, result) ==
  /\ Confirmable(s) /\ CollectibleGuard(s)
  /\ IF AwbTaken(s, a)
       THEN /\ booking' = [booking EXCEPT ![s] = "FAILED"]   \* quarantined
            /\ outcome' = [outcome EXCEPT ![i] = "FAILED"]
            /\ UNCHANGED <<custody, awb, isTest>>
       ELSE /\ booking' = [booking EXCEPT ![s] = "CONFIRMED"]
            /\ outcome' = [outcome EXCEPT ![i] = result]
            /\ custody' = [custody EXCEPT ![s] = "PICKUP_PENDING"]
            /\ awb' = [awb EXCEPT ![s] = a]
            /\ isTest' = [isTest EXCEPT ![s] = (mode = "TEST")]
  /\ UNCHANGED <<collectible, attempts>>

\* UPDATE ... WHERE booking_state = ANY(from); the intent only if a row matched.
SettleAs(s, i, from, state, result) ==
  /\ IF booking[s] \in from
       THEN /\ CollectibleGuard(s)
            /\ booking' = [booking EXCEPT ![s] = state]
            /\ outcome' = [outcome EXCEPT ![i] = result]
       ELSE UNCHANGED <<booking, outcome>>
  /\ UNCHANGED <<custody, collectible, awb, isTest, attempts>>

\* The UPDATE forgets its state condition; the intent stays in flight.
SettleFailedAnyStateBug(s, i, from, result) ==
  SettleAs(s, i, BookingStates, "FAILED", result)
SettleFailedIntentBug(s, i, from, result) == SettleAs(s, i, from, "FAILED", "IN_FLIGHT")

SettleFailed(s, i, from, result) == SettleAs(s, i, from, "FAILED", result)

\* The intent stays in flight; the ambiguous answer is taken for a rejection.
MarkOutcomeUnknownIntentBug(s, i) ==
  SettleAs(s, i, {"SUBMITTED"}, "OUTCOME_UNKNOWN", "IN_FLIGHT")
MarkOutcomeUnknownFailedBug(s, i) == SettleAs(s, i, {"SUBMITTED"}, "FAILED", "FAILED")

MarkOutcomeUnknown(s, i) ==
  SettleAs(s, i, {"SUBMITTED"}, "OUTCOME_UNKNOWN", "UNKNOWN")

\* The debit forgets the test shipments.
DebitBug(s) ==
  ledger' = IF ~subscribed \/ Debited(s) THEN ledger
            ELSE ledger \cup {[shipment |-> s, direction |-> "DEBIT", cycle |-> cycle]}

\* EntitlementLedgerService.debit: at most one row per shipment (unique index),
\* none for a test shipment or without an active subscription.
Debit(s) ==
  ledger' = IF isTest[s] \/ ~subscribed \/ Debited(s) THEN ledger
            ELSE ledger \cup {[shipment |-> s, direction |-> "DEBIT", cycle |-> cycle]}

(***************************************************************************)
(* Phase 3: the worker settles the answer, then debits after the COMMIT.   *)
(***************************************************************************)

Settling(w, kind) == worker[w].pc = "settle" /\ worker[w].answer.kind = kind

SettleConfirmed(w) ==
  LET i == worker[w].intent
      s == i[1]
      a == worker[w].answer.awb
  IN
  /\ Settling(w, "CONFIRMED")
  /\ \/ /\ ConfirmBooking(s, i, a, "CONFIRMED")
        /\ IF AwbTaken(s, a) THEN Committed(w)
           ELSE worker' = [worker EXCEPT ![w] = At(@, "debit")] /\ UNCHANGED job
     \/ /\ ~Confirmable(s)                       \* INVALID_STATE is ignored
        /\ Finish(w) /\ UNCHANGED shipmentVars
     \/ /\ Confirmable(s) /\ ~CollectibleGuard(s)
        /\ Throw(w) /\ UNCHANGED shipmentVars
  /\ UNCHANGED <<accountVars, toEnqueue, cache, member, courierVars, budget>>

SettleOther(w) ==
  LET i == worker[w].intent
      s == i[1]
  IN
  /\ \/ Settling(w, "FAILED") /\ SettleFailed(s, i, {"SUBMITTED"}, "FAILED") /\ Committed(w)
     \/ Settling(w, "UNKNOWN") /\ MarkOutcomeUnknown(s, i) /\ Committed(w)
     \/ /\ Settling(w, "FAILED") \/ Settling(w, "UNKNOWN")
        /\ booking[s] = "SUBMITTED" /\ ~CollectibleGuard(s)
        /\ Throw(w) /\ UNCHANGED shipmentVars
  /\ UNCHANGED <<accountVars, toEnqueue, cache, member, courierVars, budget>>

WorkerDebits(w) ==
  /\ worker[w].pc = "debit"
  /\ Debit(worker[w].intent[1])
  /\ Committed(w)
  /\ UNCHANGED <<shipmentVars, subscribed, cycle, mode, toEnqueue, cache, member,
                 courierVars, budget>>

\* The job is only completed now: a crash before this delivers it again.
Complete(w) ==
  /\ worker[w].pc = "return"
  /\ Finish(w)
  /\ UNCHANGED <<shipmentVars, accountVars, toEnqueue, cache, member, courierVars, budget>>

(***************************************************************************)
(* Resolving OUTCOME_UNKNOWN: load without a lock, ask, then settle.       *)
(***************************************************************************)

UnknownAttempts(s) == {n \in 1..MaxAttempts : outcome[<<s, n>>] = "UNKNOWN"}

LoadOutcomeUnknown(m, s) ==
  /\ member[m].pc = "idle"
  /\ booking[s] = "OUTCOME_UNKNOWN"
  /\ \E n \in UnknownAttempts(s) :
       /\ \A k \in UnknownAttempts(s) : k <= n
       /\ member' = [member EXCEPT ![m] = Process("loaded", <<s, n>>, NoAnswer)]
  /\ UNCHANGED <<shipmentVars, accountVars, queueVars, worker, cache, courierVars, budget>>

Decide(m, answer) ==
  member' = [member EXCEPT ![m] = Process("settle", @.intent, answer)]

\* lookupByReference: what the courier knows of the reference right now, asked
\* with the mode the account has now.  A parcel of the other mode is not found.
LookupByReference(m) ==
  LET found == {p \in parcels : p.ref = member[m].intent /\ p.mode = mode} IN
  /\ member[m].pc = "loaded"
  /\ \/ \E p \in found : Decide(m, Confirmed(p.awb))
     \/ found = {} /\ Decide(m, Failed)
  /\ UNCHANGED <<shipmentVars, accountVars, queueVars, worker, cache, courierVars, budget>>

\* The operator states the outcome; "misjudge" lets the statement be wrong.
OperatorDecides(m) ==
  LET mine == {p \in parcels : p.ref = member[m].intent} IN
  /\ member[m].pc = "loaded"
  /\ \/ (\E p \in mine : Decide(m, Confirmed(p.awb))) /\ UNCHANGED budget
     \/ mine = {} /\ Decide(m, Failed) /\ UNCHANGED budget
     \/ /\ Spend("misjudge")
        /\ \E answer \in {Failed} \cup {Confirmed(a) : a \in Awbs} : Decide(m, answer)
  /\ UNCHANGED <<shipmentVars, accountVars, queueVars, worker, cache, courierVars>>

\* The lookup failed, the request died, or a settling UPDATE raised.
AbandonResolution(m) ==
  /\ member[m].pc \in {"loaded", "settle"}
  /\ member' = [member EXCEPT ![m] = Idle]
  /\ UNCHANGED <<shipmentVars, accountVars, queueVars, worker, cache, courierVars, budget>>

ResolveConfirmed(m) ==
  LET i == member[m].intent
      s == i[1]
      a == member[m].answer.awb
  IN
  /\ member[m].pc = "settle" /\ member[m].answer.kind = "CONFIRMED"
  /\ \/ /\ ConfirmBooking(s, i, a, "RESOLVED_CONFIRMED")
        /\ member' = IF AwbTaken(s, a) THEN [member EXCEPT ![m] = Idle]
                     ELSE [member EXCEPT ![m] = At(@, "debit")]
     \/ /\ ~Confirmable(s)
        /\ member' = [member EXCEPT ![m] = Idle]
        /\ UNCHANGED shipmentVars
  /\ UNCHANGED <<accountVars, queueVars, worker, cache, courierVars, budget>>

ResolveFailed(m) ==
  LET i == member[m].intent IN
  /\ member[m].pc = "settle" /\ member[m].answer.kind = "FAILED"
  /\ SettleFailed(i[1], i, {"OUTCOME_UNKNOWN"}, "RESOLVED_FAILED")
  /\ member' = [member EXCEPT ![m] = Idle]
  /\ UNCHANGED <<accountVars, queueVars, worker, cache, courierVars, budget>>

MemberDebits(m) ==
  /\ member[m].pc = "debit"
  /\ Debit(member[m].intent[1])
  /\ member' = [member EXCEPT ![m] = Idle]
  /\ UNCHANGED <<shipmentVars, subscribed, cycle, mode, queueVars, worker, cache,
                 courierVars, budget>>

CrashMember(m) ==
  /\ member[m].pc = "debit"
  /\ Spend("apiCrash")
  /\ member' = [member EXCEPT ![m] = Idle]
  /\ UNCHANGED <<shipmentVars, accountVars, queueVars, worker, cache, courierVars>>

(***************************************************************************)
(* The account around the booking.                                         *)
(***************************************************************************)

SwitchMode ==
  /\ Spend("switchMode")
  /\ mode' = IF mode = "LIVE" THEN "TEST" ELSE "LIVE"
  /\ UNCHANGED <<shipmentVars, ledger, subscribed, cycle, queueVars, worker, cache,
                 member, courierVars>>

\* The subscription leaves or re-enters TRIALING/ACTIVE, or its cycle renews.
ChangeSubscription ==
  /\ Spend("unsubscribe")
  /\ \/ subscribed' = ~subscribed /\ UNCHANGED cycle
     \/ cycle' = cycle + 1 /\ UNCHANGED subscribed
  /\ UNCHANGED <<shipmentVars, ledger, mode, queueVars, worker, cache, member, courierVars>>

(***************************************************************************)
(* Specification.                                                          *)
(***************************************************************************)

WorkerStep(w) ==
  \/ Claim(w)
  \/ CreateAnsweredFromMemory(w) \/ CreateAccepted(w) \/ CreateRejected(w)
  \/ CreateTimedOut(w) \/ CreateNotSent(w) \/ CreateBackPressure(w)
  \/ SettleConfirmed(w) \/ SettleOther(w) \/ WorkerDebits(w) \/ Complete(w)

MemberStep(m) ==
  \/ LookupByReference(m) \/ OperatorDecides(m)
  \/ ResolveConfirmed(m) \/ ResolveFailed(m) \/ MemberDebits(m)

Next ==
  \/ \E s \in Shipments : RouteToManual(s) \/ QueueBooking(s)
  \/ \E i \in Intents : Enqueue(i) \/ LoseEnqueue(i) \/ RecoverStalled(i) \/ LateArrival(i)
  \/ \E w \in Workers, i \in Intents : Deliver(w, i)
  \/ \E w \in Workers : WorkerStep(w) \/ CrashWorker(w)
  \/ \E m \in Members, s \in Shipments : LoadOutcomeUnknown(m, s)
  \/ \E m \in Members : MemberStep(m) \/ AbandonResolution(m) \/ CrashMember(m)
  \/ SwitchMode \/ ChangeSubscription

Spec == Init /\ [][Next]_vars

\* The API process goes on to enqueue, BullMQ delivers waiting jobs and
\* recovers stalled ones, and a running worker takes its next step.
Fairness ==
  /\ \A i \in Intents : WF_vars(Enqueue(i)) /\ WF_vars(RecoverStalled(i))
  /\ \A w \in Workers : /\ WF_vars(\E i \in Intents : Deliver(w, i))
                        /\ WF_vars(WorkerStep(w))

FairSpec == Spec /\ Fairness

(***************************************************************************)
(* Properties.                                                             *)
(***************************************************************************)

\* Every variable keeps its type: the columns, jobs and processes only ever
\* hold the values the code's enums and row types allow.
ShipmentTypeOK ==
  /\ booking \in [Shipments -> BookingStates]
  /\ custody \in [Shipments -> CustodyStates]
  /\ collectible \in [Shipments -> {0, Outstanding}]
  /\ awb \in [Shipments -> Awbs \cup {NoAwb}]
  /\ isTest \in [Shipments -> BOOLEAN]
  /\ attempts \in [Shipments -> 0..MaxAttempts]
  /\ outcome \in [Intents -> Outcomes]
AccountTypeOK ==
  ledger \subseteq Entries /\ subscribed \in BOOLEAN /\ cycle \in Nat /\ mode \in Modes
QueueTypeOK == toEnqueue \subseteq Intents /\ job \in [Intents -> Jobs]
ProcessTypeOK ==
  /\ worker \in [Workers -> Processes]
  /\ cache \in [Workers -> [Intents -> Answers]]
  /\ member \in [Members -> Processes]
CourierTypeOK ==
  parcels \subseteq Parcels /\ wire \subseteq Intents \X Modes /\ calls \in [Intents -> Nat]
BudgetTypeOK == budget \in [FaultKinds -> Nat]
TypeOK == /\ ShipmentTypeOK /\ AccountTypeOK /\ QueueTypeOK
          /\ ProcessTypeOK /\ CourierTypeOK /\ BudgetTypeOK

\* INV-6: confirmBooking stores an AWB under the advisory lock only if no other
\* live shipment of the courier account holds it, whoever settles the answer.
AwbUnique ==
  \A s, t \in Shipments :
    s # t /\ awb[s] # NoAwb /\ awb[s] = awb[t] => booking[s] = "VOID" \/ booking[t] = "VOID"

\* INV-9: of an order's shipments with an active AWB at most one collects the
\* cash, however the sibling bookings interleave between claim and confirm.
OneCarrier ==
  \A s, t \in Shipments : Carrier(s) /\ Carrier(t) => s = t

\* INV-5, INV-12, INV-19: a debit exists only for a confirmed, non-test AWB, and
\* only one per shipment; the debit runs after the COMMIT, in its own statement.
DebitOnlyBooked ==
  \A e \in ledger : e.direction = "DEBIT" =>
    /\ booking[e.shipment] \in {"CONFIRMED", "VOID"}
    /\ awb[e.shipment] # NoAwb /\ ~isTest[e.shipment]
    /\ \A f \in ledger : f.direction = "DEBIT" /\ f.shipment = e.shipment => f = e

\* A settled booking is final: no late worker, stale resolver or second delivery
\* takes a shipment out of CONFIRMED or replaces its AWB (INV-17, INV-20).
ConfirmedIsStable ==
  [][\A s \in Shipments : booking[s] = "CONFIRMED" =>
       booking'[s] \in {"CONFIRMED", "VOID"} /\ awb'[s] = awb[s] /\ isTest'[s] = isTest[s]]_vars

\* An OUTCOME_UNKNOWN shipment always has an UNKNOWN intent for
\* loadOutcomeUnknown to find; otherwise nothing could ever resolve it.
UnknownIsResolvable ==
  \A s \in Shipments : booking[s] = "OUTCOME_UNKNOWN" => UnknownAttempts(s) # {}

\* INV-5: a createShipment request leaves only for an attempt that is in flight,
\* never for one whose outcome is unknown or settled, however often a crashed
\* worker's job is delivered again (with one delivery of a job at a time).
NoCreateWhileUnknown ==
  [][\A i \in Intents : calls'[i] # calls[i] =>
       outcome[i] = "IN_FLIGHT" /\ booking[i[1]] = "SUBMITTED"]_vars

\* At most one intent of a shipment is active, and none once the shipment is at
\* rest: settling an attempt settles its own intent and no other.
ActiveIntents(s) == {n \in 1..MaxAttempts : outcome[<<s, n>>] \in {"IN_FLIGHT", "UNKNOWN"}}
IntentsSettled ==
  \A s \in Shipments :
    IF booking[s] \in {"QUEUED", "SUBMITTED", "OUTCOME_UNKNOWN"}
      THEN ActiveIntents(s) = {attempts[s]} ELSE ActiveIntents(s) = {}

\* A parcel the courier made is stored on its shipment, or the shipment is in a
\* state from which the parcel will still be found.  Where no job stalls, no answer
\* is late, no AWB is recycled and no operator is mistaken, the code loses sight of
\* one in three ways only: a worker dies with an answer nobody settled, a 5xx, a
\* reset or a body that is no JSON is told FAILED after the courier acted, or the
\* account is switched to the other mode before the lookup.
ForgettingKinds == {"crash", "falseRefusal", "switchMode"}
NoOrphanParcel ==
  (\A k \in ForgettingKinds : budget[k] = Budget[k]) =>
    \A p \in parcels : LET s == p.ref[1] IN
      awb[s] = p.awb \/ booking[s] \in {"SUBMITTED", "OUTCOME_UNKNOWN"}

\* A queued attempt is eventually settled, one way or another.
Settled(s) == booking[s] \in {"CONFIRMED", "FAILED", "OUTCOME_UNKNOWN", "VOID"}
AttemptsSettle ==
  \A s \in Shipments : booking[s] \in {"QUEUED", "SUBMITTED"} ~> Settled(s)

(***************************************************************************)
(* What comments and the specification say of the code, and it does not do.*)
(***************************************************************************)

\* processBooking: "a duplicate delivery of this job -- no second create, ever".
OneCreatePerIntent == \A i \in Intents : calls[i] <= 1

----------------------------------------------------------------------------
(* Small instances: the fault budgets of the runs, and symmetry.           *)

NoFaults == [k \in FaultKinds |-> 0]
Faults(kinds) == [k \in FaultKinds |-> IF k \in kinds THEN 1 ELSE 0]

\* A job delivered twice at once, a recycled AWB, a mistaken operator, an API
\* process that dies, a late answer.
SiblingFaults == Faults({"stall", "reuseAwb", "misjudge", "apiCrash", "late"})
\* Workers that die, a provider that pushes back or refuses what it has made, an
\* account that changes.
CrashFaults == Faults({"crash", "backPressure", "falseRefusal", "unsubscribe", "switchMode"})

Symmetry == Permutations(Workers) \cup Permutations(Members)
            \cup Permutations(Awbs) \cup Permutations(Shipments)
=============================================================================
