---------------------------- MODULE TransitProofs ----------------------------
(***************************************************************************)
(* Theorems about Transit for every value of its constants.                *)
(***************************************************************************)
EXTENDS Transit, FiniteSetTheorems, SequenceTheorems, TLAPS

(***************************************************************************)
(* The inductive invariant.                                                *)
(***************************************************************************)

\* A courier numbers the scans of a parcel 1, 2, 3, ...: none is overwritten.
ScansInOrder == \A s \in Shipments : \E k \in 0..MaxScans : Scanned(s) = 1..k

\* Only a scan the courier has made is stored, enqueued, or processed.
Arrived(i) == raw[i] # "NONE"
ArrivedScans ==
  /\ \A i \in Scans : Arrived(i) => scan[i] # "NONE"
  /\ \A i \in toEnqueue : Arrived(i)
  /\ \A i \in Scans : job[i].state # "absent" => Arrived(i)
  /\ \A t \in Trackers : tracker[t].pc # "idle" => Arrived(tracker[t].scan)

\* Past the record an event has a mapped status, and at its seams one is left.
ReducedEvents ==
  \A t \in Trackers :
    /\ tracker[t].pc \notin {"idle", "record"} => scan[tracker[t].scan] \in CarrierEventStatuses
    /\ tracker[t].pc = "seams" => tracker[t].todo # <<>>

TypeInv == TypeOK /\ ScansInOrder /\ ArrivedScans /\ ReducedEvents

\* A tracker whose version still matches is at its UPDATE, and what it has read
\* is the row.
ReadsCurrent ==
  \A t \in fresh : tracker[t].pc = "write" /\ tracker[t].seen = Row(tracker[t].scan[1])

\* While a cancellation is asked or settled the row waits for it, or a scan has
\* taken custody; it is reversed only once it is settled.
CancellationsAwaited ==
  \A c \in Cancellers, s \in Shipments :
    /\ Attends(c, s) => custody[s] \in {"CANCEL_REQUESTED", "IN_CUSTODY"}
    /\ canceller[c].pc = "reverse" /\ canceller[c].shipment = s =>
         booking[s] = "VOID" /\ custody[s] = "CANCELLED"

RowInv == ReadsCurrent /\ CancellationsAwaited /\ SoleCanceller

\* A recorded event has one tracker that reduces it.
ReducedByOne ==
  \A t, u \in Trackers, i \in Scans :
    Reducing(t, i) /\ Reducing(u, i) => t = u /\ i \in stored

\* Nothing is called before the row is written, and what is called and what is
\* left to call never repeats a seam.
NoRepeat(seams) == \A a, b \in DOMAIN seams : seams[a] = seams[b] => a = b
SeamsAhead ==
  \A t \in Trackers :
    /\ tracker[t].pc \in {"read", "write"} => fired[tracker[t].scan] = <<>>
    /\ tracker[t].pc = "seams" => NoRepeat(fired[tracker[t].scan] \o tracker[t].todo)
NoneUnrecorded == \A i \in Scans \ stored : fired[i] = <<>>
OncePerReport == \A i \in Scans : NoRepeat(fired[i])

SeamInv == ReducedByOne /\ SeamsAhead /\ NoneUnrecorded /\ OncePerReport

SafetyInv == TypeInv /\ RowInv /\ SeamInv

(***************************************************************************)
(* Type correctness: first the steps the actions are built from.           *)
(***************************************************************************)

\* A fault taken from the budget leaves a budget.
LEMMA SpendType ==
  ASSUME BudgetTypeOK, NEW kind \in FaultKinds, Spend(kind)
  PROVE  BudgetTypeOK'
BY DEF BudgetTypeOK, Spend

\* A job rewritten by the queue is a job.
LEMMA JobType ==
  ASSUME job \in [Scans -> Jobs],
         NEW i \in Scans,
         NEW state \in {"absent", "waiting", "active", "completed", "failed"},
         NEW holder \in Workers \cup {Nobody},
         NEW failures \in Nat, NEW stalls \in 0..MaxStalls,
         job' = [job EXCEPT ![i] = Job(state, holder, failures, stalls)]
  PROVE  job' \in [Scans -> Jobs]
BY DEF Jobs, Job

\* A tracker that is not idle works on a scan, with a record of that shape.
LEMMA TrackingType ==
  /\ Idle.pc = "idle"
  /\ \A r \in Trackings \cup {Idle} : r.pc # "idle" => r \in Trackings
  /\ \A r \in Trackings : r.pc # "idle" /\ r.scan \in Scans
  /\ \A pc \in {"record", "read", "write", "seams", "accept"}, i \in Scans, seen \in Rows,
        todo \in Seq(SeamNames), tries \in Nat :
       Tracking(pc, i, seen, todo, tries) \in Trackings
BY DEF Trackings, Tracking, Idle

\* A tracker's record, moved on.
LEMMA TrackingMoves ==
  ASSUME NEW r \in Trackings, NEW pc
  PROVE  [r EXCEPT !.pc = pc] = Tracking(pc, r.scan, r.seen, r.todo, r.tries)
BY DEF Trackings, Tracking

\* A processRawEvent that returns or throws leaves jobs and trackers well typed.
LEMMA ReleaseType ==
  ASSUME ParcelAssumption, QueueTypeOK, TrackerTypeOK,
         NEW t \in Trackers, tracker[t].pc # "idle",
         Finish(t) \/ Throw(t), UNCHANGED toEnqueue
  PROVE  QueueTypeOK' /\ TrackerTypeOK'
<1> DEFINE i == tracker[t].scan
           f == job[i].failures + 1
           state == IF f < JobAttempts THEN "waiting" ELSE "failed"
<1>1. TrackerTypeOK'
  BY TrackingType DEF TrackerTypeOK, Finish, Throw, Rest
<1>2. i \in Scans
  BY TrackingType DEF TrackerTypeOK
<1>3. job[i] \in Jobs /\ job[i].failures \in Nat /\ job[i].stalls \in 0..MaxStalls
  BY <1>2 DEF QueueTypeOK, Jobs
<1>4. f \in Nat /\ state \in {"waiting", "failed"}
  BY <1>3
<1>5. \/ job' = job
      \/ job' = [job EXCEPT ![i] = Job("completed", Nobody, job[i].failures, job[i].stalls)]
      \/ job' = [job EXCEPT ![i] = Job(state, Nobody, f, job[i].stalls)]
  BY DEF Finish, Throw
<1> HIDE DEF f, state
<1>6. job' \in [Scans -> Jobs]
  BY <1>2, <1>3, <1>4, <1>5, JobType DEF QueueTypeOK
<1>7. QED BY <1>1, <1>6 DEF QueueTypeOK

\* A version that a write takes away leaves the trackers well typed.
LEMMA FreshType ==
  ASSUME TrackerTypeOK, UNCHANGED tracker, fresh' \subseteq fresh
  PROVE  TrackerTypeOK'
BY DEF TrackerTypeOK

\* What an action leaves alone keeps its type.
LEMMA FrameType ==
  /\ RowTypeOK /\ UNCHANGED rowVars => RowTypeOK'
  /\ AccountTypeOK /\ UNCHANGED <<accountVars, manifests>> => AccountTypeOK'
  /\ RequestTypeOK /\ UNCHANGED <<canceller, scheduler>> => RequestTypeOK'
  /\ CourierTypeOK /\ UNCHANGED courierVars => CourierTypeOK'
  /\ EventTypeOK /\ UNCHANGED eventVars => EventTypeOK'
  /\ QueueTypeOK /\ UNCHANGED queueVars => QueueTypeOK'
  /\ TrackerTypeOK /\ UNCHANGED trackerVars => TrackerTypeOK'
  /\ BudgetTypeOK /\ UNCHANGED budget => BudgetTypeOK'
<1>1. RowTypeOK /\ UNCHANGED rowVars => RowTypeOK'  BY DEF RowTypeOK, rowVars
<1>2. AccountTypeOK /\ UNCHANGED <<accountVars, manifests>> => AccountTypeOK'
  BY DEF AccountTypeOK, accountVars
<1>3. RequestTypeOK /\ UNCHANGED <<canceller, scheduler>> => RequestTypeOK'  BY DEF RequestTypeOK
<1>4. CourierTypeOK /\ UNCHANGED courierVars => CourierTypeOK'  BY DEF CourierTypeOK, courierVars
<1>5. EventTypeOK /\ UNCHANGED eventVars => EventTypeOK'  BY DEF EventTypeOK, eventVars
<1>6. QueueTypeOK /\ UNCHANGED queueVars => QueueTypeOK'  BY DEF QueueTypeOK, queueVars
<1>7. TrackerTypeOK /\ UNCHANGED trackerVars => TrackerTypeOK'  BY DEF TrackerTypeOK, trackerVars
<1>8. BudgetTypeOK /\ UNCHANGED budget => BudgetTypeOK'  BY DEF BudgetTypeOK
<1>9. QED BY <1>1, <1>2, <1>3, <1>4, <1>5, <1>6, <1>7, <1>8

(***************************************************************************)
(* Type correctness: the actions.                                          *)
(***************************************************************************)

\* Cancellations write rows, their request and the ledger.
LEMMA CancellationTypes ==
  ASSUME TypeOK, NEW c \in Cancellers,
         \/ \E s \in Shipments : RequestCancellation(c, s)
         \/ CancellerStep(c)
  PROVE  TypeOK'
<1> DEFINE s == canceller[c].shipment
<1> USE FrameType DEF TypeOK
<1>1. canceller[c].pc # "idle" => s \in Shipments /\ canceller[c].previous \in PrePickup
  BY DEF RequestTypeOK, Cancellings, Idle
<1>2. ASSUME NEW r \in Shipments, RequestCancellation(c, r) PROVE TypeOK'
  <2>1. RowTypeOK' BY <1>2 DEF RowTypeOK, RequestCancellation, CustodyStates
  <2>2. RequestTypeOK'
    BY <1>2 DEF RequestTypeOK, RequestCancellation, Cancellings, Cancelling, Cancellable
  <2>3. TrackerTypeOK' BY <1>2, FreshType DEF RequestCancellation, StillFresh
  <2>4. QED BY <1>2, <2>1, <2>2, <2>3 DEF RequestCancellation, trackerVars
<1>3. CASE CourierAnswersCancel(c)
  <2>1. RequestTypeOK'
    BY <1>3 DEF RequestTypeOK, CourierAnswersCancel, Answered, Cancellings, Idle
  <2>2. CourierTypeOK' BY <1>3, <1>1 DEF CourierTypeOK, CourierAnswersCancel
  <2>3. QED BY <1>3, <2>1, <2>2 DEF CourierAnswersCancel
<1>4. CASE SettleCancelled(c)
  <2>1. RowTypeOK' BY <1>4, <1>1 DEF RowTypeOK, SettleCancelled, CustodyStates
  <2>2. RequestTypeOK' BY <1>4 DEF RequestTypeOK, SettleCancelled, Cancellings, Idle
  <2>3. TrackerTypeOK' BY <1>4, FreshType DEF SettleCancelled, StillFresh
  <2>4. QED BY <1>4, <2>1, <2>2, <2>3 DEF SettleCancelled
<1>5. CASE SettleRejected(c)
  <2>1. RowTypeOK' BY <1>5, <1>1 DEF RowTypeOK, SettleRejected, CustodyStates
  <2>2. RequestTypeOK' BY <1>5 DEF RequestTypeOK, SettleRejected, Idle
  <2>3. TrackerTypeOK' BY <1>5, FreshType DEF SettleRejected, StillFresh
  <2>4. QED BY <1>5, <2>1, <2>2, <2>3 DEF SettleRejected
<1>6. CASE ReverseEntitlement(c)
  <2>1. AccountTypeOK' BY <1>6, <1>1 DEF AccountTypeOK, ReverseEntitlement
  <2>2. RequestTypeOK' BY <1>6 DEF RequestTypeOK, ReverseEntitlement, Idle
  <2>3. QED BY <1>6, <2>1, <2>2 DEF ReverseEntitlement
<1>7. CASE CrashCanceller(c)
  <2>1. RequestTypeOK' BY <1>7 DEF RequestTypeOK, CrashCanceller, Idle
  <2>2. BudgetTypeOK' BY <1>7, SpendType DEF CrashCanceller, FaultKinds
  <2>3. QED BY <1>7, <2>1, <2>2 DEF CrashCanceller
<1>8. QED BY <1>2, <1>3, <1>4, <1>5, <1>6, <1>7 DEF CancellerStep

\* Pickup requests write rows, their request and the manifests.
LEMMA PickupTypes ==
  ASSUME TypeOK, NEW p \in Schedulers,
         \/ \E group \in SUBSET Shipments : SelectEligible(p, group)
         \/ SchedulerStep(p)
  PROVE  TypeOK'
<1> USE FrameType DEF TypeOK
<1>1. ASSUME NEW group \in SUBSET Shipments, SelectEligible(p, group) PROVE TypeOK'
  <2>1. RequestTypeOK'
    BY <1>1 DEF RequestTypeOK, SelectEligible, Schedulings, Scheduling
  <2>2. QED BY <1>1, <2>1 DEF SelectEligible
<1>2. CASE CourierAnswersPickup(p)
  <2>1. RequestTypeOK'
    BY <1>2 DEF RequestTypeOK, CourierAnswersPickup, Schedulings, Idle
  <2>2. QED BY <1>2, <2>1 DEF CourierAnswersPickup
<1>3. CASE MarkScheduled(p)
  <2>1. RowTypeOK' BY <1>3 DEF RowTypeOK, MarkScheduled, CustodyStates, PrePickup
  <2>2. RequestTypeOK' BY <1>3 DEF RequestTypeOK, MarkScheduled, Schedulings, Idle
  <2>3. TrackerTypeOK' BY <1>3, FreshType DEF MarkScheduled, StillFresh
  <2>4. QED BY <1>3, <2>1, <2>2, <2>3 DEF MarkScheduled
<1>4. CASE AllocateManifestNumber(p)
  <2>1. Len(manifests) + 1 \in Nat BY DEF AccountTypeOK
  <2>2. scheduler[p].group \in SUBSET Shipments
    BY <1>4 DEF RequestTypeOK, Schedulings, Idle, AllocateManifestNumber
  <2>3. Scheduling("store", scheduler[p].group, Len(manifests) + 1) \in Schedulings
    BY <2>1, <2>2 DEF Schedulings, Scheduling
  <2>4. RequestTypeOK' BY <1>4, <2>3 DEF RequestTypeOK, AllocateManifestNumber
  <2>5. QED BY <1>4, <2>4 DEF AllocateManifestNumber
<1>5. CASE StoreManifest(p)
  <2>1. scheduler[p].number \in Nat
    BY <1>5 DEF RequestTypeOK, Schedulings, Idle, StoreManifest
  <2>2. AccountTypeOK' BY <1>5, <2>1 DEF AccountTypeOK, StoreManifest, accountVars
  <2>3. RequestTypeOK' BY <1>5 DEF RequestTypeOK, StoreManifest, Idle
  <2>4. QED BY <1>5, <2>2, <2>3 DEF StoreManifest
<1>6. CASE CrashScheduler(p)
  <2>1. RequestTypeOK' BY <1>6 DEF RequestTypeOK, CrashScheduler, Idle
  <2>2. BudgetTypeOK' BY <1>6, SpendType DEF CrashScheduler, FaultKinds
  <2>3. QED BY <1>6, <2>1, <2>2 DEF CrashScheduler
<1>7. QED BY <1>1, <1>2, <1>3, <1>4, <1>5, <1>6 DEF SchedulerStep

\* The courier writes parcels and scans; faults and the account their own.
LEMMA CourierTypes ==
  ASSUME TypeOK,
         \/ \E s \in Shipments, status \in Statuses : CourierScan(s, status)
         \/ \E i \in Scans : Rekey(i)
         \/ ChangeSubscription \/ ToggleAccount
  PROVE  TypeOK'
<1> USE FrameType DEF TypeOK
<1>1. ASSUME NEW s \in Shipments, NEW status \in Statuses, CourierScan(s, status) PROVE TypeOK'
  <2>1. CourierTypeOK' BY <1>1 DEF CourierTypeOK, CourierScan
  <2>2. BudgetTypeOK'
    BY <1>1, SpendType DEF CourierScan, FaultKinds
  <2>3. QED BY <1>1, <2>1, <2>2 DEF CourierScan
<1>2. CASE ChangeSubscription
  <2>1. AccountTypeOK' BY <1>2 DEF AccountTypeOK, ChangeSubscription
  <2>2. BudgetTypeOK' BY <1>2, SpendType DEF ChangeSubscription, FaultKinds
  <2>3. QED BY <1>2, <2>1, <2>2 DEF ChangeSubscription, accountVars
<1>3. CASE ToggleAccount
  <2>1. AccountTypeOK' BY <1>3 DEF AccountTypeOK, ToggleAccount
  <2>2. BudgetTypeOK' BY <1>3, SpendType DEF ToggleAccount, FaultKinds
  <2>3. QED BY <1>3, <2>1, <2>2 DEF ToggleAccount, accountVars
<1>4. ASSUME NEW i \in Scans, Rekey(i) PROVE TypeOK'
  <2>1. scan[i] \in Statuses /\ tells[i] \in 1..MaxScans BY <1>4 DEF CourierTypeOK, Rekey
  <2>2. CourierTypeOK' BY <1>4, <2>1 DEF CourierTypeOK, Rekey
  <2>3. BudgetTypeOK' BY <1>4, SpendType DEF Rekey, FaultKinds
  <2>4. QED BY <1>4, <2>2, <2>3 DEF Rekey
<1>5. QED BY <1>1, <1>2, <1>3, <1>4

\* The ingest writes raw rows and jobs.
LEMMA IngestTypes ==
  ASSUME TypeOK, NEW i \in Scans, IngestStep(i)
  PROVE  TypeOK'
<1> USE FrameType DEF TypeOK
<1>1. CASE Persist(i)
  <2>1. EventTypeOK' BY <1>1 DEF EventTypeOK, Persist
  <2>2. QueueTypeOK' BY <1>1 DEF QueueTypeOK, Persist
  <2>3. QED BY <1>1, <2>1, <2>2 DEF Persist
<1>2. CASE EnqueueRawEvent(i)
  <2>1. 0 \in Nat /\ 0 \in 0..MaxStalls BY ParcelAssumption
  <2>2. QueueTypeOK' BY <1>2, <2>1, JobType DEF QueueTypeOK, EnqueueRawEvent
  <2>3. QED BY <1>2, <2>2 DEF EnqueueRawEvent
<1>3. CASE LoseRawEvent(i)
  <2>1. QueueTypeOK' BY <1>3 DEF QueueTypeOK, LoseRawEvent
  <2>2. BudgetTypeOK' BY <1>3, SpendType DEF LoseRawEvent, FaultKinds
  <2>3. QED BY <1>3, <2>1, <2>2 DEF LoseRawEvent
<1>4. CASE RecoverStalled(i)
  <2>1. job[i].failures \in Nat /\ job[i].stalls \in 0..MaxStalls
    BY DEF QueueTypeOK, Jobs
  <2>2. job[i].stalls < MaxStalls => job[i].stalls + 1 \in 0..MaxStalls
    BY <2>1, ParcelAssumption
  <2>3. \/ /\ job[i].stalls < MaxStalls
           /\ job' = [job EXCEPT ![i] = Job("waiting", Nobody, job[i].failures, job[i].stalls + 1)]
        \/ job' = [job EXCEPT ![i] = Job("failed", Nobody, job[i].failures, job[i].stalls)]
    BY <1>4 DEF RecoverStalled, QueueTypeOK
  <2>4. job' \in [Scans -> Jobs]
    BY <2>1, <2>2, <2>3, JobType DEF QueueTypeOK
  <2>5. QueueTypeOK' BY <1>4, <2>4 DEF QueueTypeOK, RecoverStalled
  <2>6. BudgetTypeOK' BY <1>4, SpendType DEF RecoverStalled, FaultKinds
  <2>7. QED BY <1>4, <2>5, <2>6 DEF RecoverStalled
<1>5. QED BY <1>1, <1>2, <1>3, <1>4 DEF IngestStep, Webhook, Poll

\* A job or a member's replay starts processRawEvent.
LEMMA StartTypes ==
  ASSUME TypeOK, NEW t \in Trackers, NEW i \in Scans,
         \/ t \in Workers /\ Deliver(t, i)
         \/ t \in Viewers /\ Replay(t, i)
  PROVE  TypeOK'
<1> USE FrameType DEF TypeOK
<1>1. NoRow \in Rows
  BY DEF NoRow, Rows, MovementStates, CustodyStates, PrePickup
<1>2. Tracking("record", i, NoRow, <<>>, 1) \in Trackings
  <2>1. <<>> \in Seq(SeamNames) /\ 1 \in Nat  OBVIOUS
  <2>2. QED BY <1>1, <2>1, TrackingType
<1>3. ASSUME Begin(t, i), UNCHANGED fresh PROVE TrackerTypeOK'
  BY <1>2, <1>3, TrackingType DEF Begin, TrackerTypeOK
<1>4. CASE t \in Workers /\ Deliver(t, i)
  <2>1. job[i].failures \in Nat /\ job[i].stalls \in 0..MaxStalls
    BY DEF QueueTypeOK, Jobs
  <2>2. job' = [job EXCEPT ![i] = Job("active", t, job[i].failures, job[i].stalls)]
    BY <1>4 DEF Deliver, QueueTypeOK
  <2>3. t \in Workers \cup {Nobody} BY <1>4
  <2>4. job' \in [Scans -> Jobs] BY <2>1, <2>2, <2>3, JobType DEF QueueTypeOK
  <2>5. QueueTypeOK' BY <1>4, <2>4 DEF QueueTypeOK, Deliver
  <2>6. QED BY <1>3, <1>4, <2>5 DEF Deliver
<1>5. CASE t \in Viewers /\ Replay(t, i)
  BY <1>3, <1>5 DEF Replay
<1>6. QED BY <1>4, <1>5

\* The seams of a movement state are seams, and there is always one.
LEMMA SeamsType == \A m \in MovementStates : SeamsOf(m) \in Seq(SeamNames) /\ SeamsOf(m) # <<>>
<1> DEFINE first == <<"syncBack">>
           Seams == Seq(SeamNames)
<1>1. first \in Seams /\ <<>> \in Seams BY DEF SeamNames
<1>2. /\ <<"ndrClose", "codExpectation">> \in Seams /\ <<"ndrAttempt">> \in Seams
      /\ <<"codRto">> \in Seams /\ <<"ndrClose", "codRto">> \in Seams
      /\ <<"ndrClose">> \in Seams
  BY DEF SeamNames
<1>3. ASSUME NEW rest \in Seams PROVE first \o rest \in Seams /\ first \o rest # <<>>
  <2>1. first \o rest \in Seams /\ Len(first \o rest) = 1 + Len(rest) /\ Len(rest) \in Nat
    BY <1>1
  <2>2. QED BY <2>1
<1> HIDE DEF first, Seams
<1>4. ASSUME NEW m \in MovementStates PROVE \E rest \in Seams : SeamsOf(m) = first \o rest
  BY <1>1, <1>2 DEF SeamsOf, first
<1>5. QED BY <1>3, <1>4 DEF Seams

\* What a mapped status makes of a row is a movement state, never the first.
LEMMA MovementType ==
  \A status \in CarrierEventStatuses :
    EventToMovement[status] \in MovementStates \ {"NOT_SHIPPED"}
BY DEF CarrierEventStatuses, EventToMovement, MovementStates, TerminalMovement

\* processRawEvent writes rows, the event, its job and its own memory.
LEMMA TrackerTypes ==
  ASSUME TypeOK, ReducedEvents, NEW t \in Trackers, TrackerStep(t) \/ SeamThrows(t) \/ CrashTracker(t)
  PROVE  TypeOK'
<1> DEFINE i == tracker[t].scan
           r == tracker[t]
<1> USE FrameType DEF TypeOK
<1>1. r.pc # "idle" => r \in Trackings /\ i \in Scans /\ i[1] \in Shipments
  BY TrackingType DEF TrackerTypeOK, Scans
<1>2. r \in Trackings =>
        r.seen \in Rows /\ r.todo \in Seq(SeamNames) /\ r.tries \in Nat
  BY DEF Trackings
<1>3. ASSUME NEW x \in Trackings \cup {Idle}, x.pc # "idle" \/ t \notin fresh',
             tracker' = [tracker EXCEPT ![t] = x], fresh' \subseteq fresh \cup {t}
      PROVE TrackerTypeOK'
  BY <1>3, TrackingType DEF TrackerTypeOK
<1>4. CASE RecordEvent(t)
  <2>1. EventTypeOK' BY <1>4, <1>1 DEF EventTypeOK, RecordEvent
  <2>2. QueueTypeOK' /\ TrackerTypeOK'
    <3>1. CASE Finish(t) BY <1>4, <3>1, ReleaseType, ParcelAssumption DEF RecordEvent
    <3>2. CASE At(t, "read") /\ UNCHANGED <<job, fresh>>
      <4>1. tracker' = [tracker EXCEPT ![t] = Tracking("read", i, r.seen, r.todo, r.tries)]
        <5>1. tracker' = [tracker EXCEPT ![t] = [r EXCEPT !.pc = "read"]]
          BY <3>2 DEF At
        <5>2. QED BY <5>1, <1>1, <1>4, TrackingMoves DEF RecordEvent
      <4>2. Tracking("read", i, r.seen, r.todo, r.tries) \in Trackings
        BY <1>1, <1>2, <1>4, TrackingType DEF RecordEvent
      <4>3. TrackerTypeOK' BY <3>2, <4>1, <4>2, <1>3, TrackingType
      <4>4. QED BY <4>3, <3>2, <1>4 DEF RecordEvent, queueVars
    <3>3. QED BY <1>4, <3>1, <3>2 DEF RecordEvent
  <2>3. QED BY <1>4, <2>1, <2>2 DEF RecordEvent
<1>5. CASE ReadShipment(t)
  <2>1. EventTypeOK' BY <1>5, <1>1 DEF EventTypeOK, ReadShipment
  <2>2. Row(i[1]) \in Rows BY <1>1, <1>5 DEF Row, Rows, RowTypeOK, ReadShipment
  <2>3. PICK pc \in {"write", "seams", "accept"}, todo \in {<<>>, <<"ndrAttempt">>} :
          tracker' = [tracker EXCEPT ![t] = Tracking(pc, i, Row(i[1]), todo, r.tries)]
    BY <1>5 DEF ReadShipment, TrackerTypeOK
  <2>4. todo \in Seq(SeamNames)
    <3>1. <<>> \in Seq(SeamNames) /\ <<"ndrAttempt">> \in Seq(SeamNames) BY DEF SeamNames
    <3>2. QED BY <3>1
  <2>5. Tracking(pc, i, Row(i[1]), todo, r.tries) \in Trackings
    BY <1>1, <1>2, <1>5, <2>2, <2>4, TrackingType DEF ReadShipment
  <2>6. fresh' \subseteq fresh \cup {t} BY <1>5 DEF ReadShipment
  <2>7. TrackerTypeOK' BY <1>3, <2>3, <2>5, <2>6, TrackingType
  <2>8. QED BY <1>5, <2>1, <2>7 DEF ReadShipment
<1>6. CASE WriteShipment(t)
  <2>1. scan[i] \in CarrierEventStatuses
    BY <1>6 DEF WriteShipment, ReducedEvents
  <2>2. RowTypeOK'
    <3>1. r.seen.movement \in MovementStates BY <1>1, <1>2, <1>6 DEF WriteShipment, Rows
    <3>2. movement' \in [Shipments -> MovementStates]
      BY <1>6, <2>1, <3>1, MovementType DEF WriteShipment, RowTypeOK
    <3>3. custody' \in [Shipments -> CustodyStates]
      BY <1>6 DEF WriteShipment, RowTypeOK, CustodyStates
    <3>4. QED BY <1>6, <3>2, <3>3 DEF WriteShipment, RowTypeOK
  <2>3. PICK pc \in {"seams", "accept"}, todo \in {<<>>, SeamsOf(EventToMovement[scan[i]])} :
          tracker' = [tracker EXCEPT ![t] = Tracking(pc, i, r.seen, todo, r.tries)]
    BY <1>6 DEF WriteShipment, TrackerTypeOK
  <2>4. todo \in Seq(SeamNames)
    <3>1. <<>> \in Seq(SeamNames) OBVIOUS
    <3>2. QED BY <2>1, <3>1, MovementType, SeamsType
  <2>5. Tracking(pc, i, r.seen, todo, r.tries) \in Trackings
    BY <1>1, <1>2, <1>6, <2>4, TrackingType DEF WriteShipment
  <2>6. fresh' \subseteq fresh BY <1>6 DEF WriteShipment, StillFresh
  <2>7. TrackerTypeOK' BY <1>3, <2>3, <2>5, <2>6, TrackingType
  <2>8. QED BY <1>6, <2>2, <2>7 DEF WriteShipment
<1>7. CASE VersionMismatch(t)
  <2>1. QueueTypeOK' /\ TrackerTypeOK'
    <3>1. CASE Throw(t) BY <1>7, <3>1, ReleaseType, ParcelAssumption DEF VersionMismatch
    <3>2. CASE /\ tracker' = [tracker EXCEPT ![t] = Tracking("read", @.scan, @.seen, @.todo, @.tries + 1)]
               /\ UNCHANGED <<job, fresh>>
      <4>1. tracker' = [tracker EXCEPT ![t] = Tracking("read", i, r.seen, r.todo, r.tries + 1)]
        BY <3>2
      <4>2. Tracking("read", i, r.seen, r.todo, r.tries + 1) \in Trackings
        BY <1>1, <1>2, <1>7, TrackingType DEF VersionMismatch
      <4>3. TrackerTypeOK' BY <3>2, <4>1, <4>2, <1>3, TrackingType
      <4>4. QED BY <4>3, <3>2, <1>7 DEF VersionMismatch, queueVars
    <3>3. QED BY <1>7, <3>1, <3>2 DEF VersionMismatch
  <2>2. EventTypeOK' BY <1>7, <1>1 DEF EventTypeOK, VersionMismatch
  <2>3. QED BY <1>7, <2>1, <2>2 DEF VersionMismatch
<1>8. CASE CallSeam(t)
  <2>1. r.todo \in Seq(SeamNames) /\ r.todo # <<>>
    BY <1>8, <1>1, <1>2 DEF CallSeam, ReducedEvents
  <2>2. Head(r.todo) \in SeamNames /\ Tail(r.todo) \in Seq(SeamNames)
    BY <2>1
  <2>3. EventTypeOK'
    <3>1. \A x \in Seq(SeamNames) : Append(x, Head(r.todo)) \in Seq(SeamNames)
      BY <2>2
    <3>2. fired' \in [Scans -> Seq(SeamNames)]
      BY <1>8, <3>1 DEF EventTypeOK, CallSeam
    <3>3. QED BY <1>8, <3>2 DEF EventTypeOK, CallSeam
  <2> DEFINE next == IF Len(r.todo) = 1 THEN "accept" ELSE "seams"
             rest == Tail(r.todo)
  <2>4. tracker' = [tracker EXCEPT ![t] = Tracking(next, i, r.seen, rest, r.tries)]
    BY <1>8 DEF CallSeam, TrackerTypeOK
  <2>5. next \in {"seams", "accept"} /\ rest \in Seq(SeamNames) BY <2>2
  <2> HIDE DEF next, rest
  <2>6. Tracking(next, i, r.seen, rest, r.tries) \in Trackings
    BY <1>1, <1>2, <1>8, <2>5, TrackingType DEF CallSeam
  <2>7. TrackerTypeOK' BY <1>3, <1>8, <2>4, <2>6, TrackingType DEF CallSeam
  <2>8. QED BY <1>8, <2>3, <2>7 DEF CallSeam
<1>9. CASE Accept(t)
  <2>1. EventTypeOK' BY <1>9, <1>1 DEF EventTypeOK, Accept
  <2>2. QueueTypeOK' /\ TrackerTypeOK' BY <1>9, ReleaseType, ParcelAssumption DEF Accept
  <2>3. QED BY <1>9, <2>1, <2>2 DEF Accept
<1>10. CASE SeamThrows(t)
  <2>1. QueueTypeOK' /\ TrackerTypeOK' BY <1>10, ReleaseType, ParcelAssumption DEF SeamThrows
  <2>2. BudgetTypeOK' BY <1>10, SpendType DEF SeamThrows, FaultKinds
  <2>3. QED BY <1>10, <2>1, <2>2 DEF SeamThrows
<1>11. CASE CrashTracker(t)
  <2>1. TrackerTypeOK' BY <1>11, <1>3, TrackingType DEF CrashTracker, Rest
  <2>2. BudgetTypeOK' BY <1>11, SpendType DEF CrashTracker, FaultKinds
  <2>3. QED BY <1>11, <2>1, <2>2 DEF CrashTracker
<1>12. QED BY <1>4, <1>5, <1>6, <1>7, <1>8, <1>9, <1>10, <1>11 DEF TrackerStep

(***************************************************************************)
(* Scans: the parts of the invariant the tracker relies on.                *)
(***************************************************************************)

\* A scan the courier has made stays as it is.
ScansKept == \A i \in Scans : scan[i] # "NONE" => scan'[i] = scan[i]

\* The courier's next report has a number no report has, and keeps the order.
LEMMA NextScan ==
  ASSUME CourierTypeOK, ScansInOrder, NEW s \in Shipments, NEW status \in Statuses,
         Cardinality(Scanned(s)) + 1 <= MaxScans,
         scan' = [scan EXCEPT ![<<s, Cardinality(Scanned(s)) + 1>>] = status]
  PROVE  ScansKept /\ ScansInOrder'
<1>1. PICK k \in 0..MaxScans : Scanned(s) = 1..k
  BY DEF ScansInOrder
<1>2. k \in Nat /\ Cardinality(Scanned(s)) = k
  <2>1. k \in Nat BY ParcelAssumption
  <2>2. Cardinality(1..k) = IF 1 > k THEN 0 ELSE k - 1 + 1 BY <2>1, FS_Interval
  <2>3. QED BY <1>1, <2>1, <2>2
<1>3. k + 1 \in 1..MaxScans /\ scan' = [scan EXCEPT ![<<s, k + 1>>] = status]
  BY <1>2, ParcelAssumption
<1>4. scan[<<s, k + 1>>] = "NONE"
  <2>1. k + 1 \notin Scanned(s) BY <1>1, <1>2
  <2>2. QED BY <1>3, <2>1 DEF Scanned
<1>5. status # "NONE" BY ParcelAssumption DEF CarrierEventStatuses
<1>6. ScansKept
  BY <1>3, <1>4 DEF ScansKept, CourierTypeOK
<1>7. Scanned(s)' = 1..(k + 1)
  <2>1. \A n \in 1..MaxScans :
          scan'[<<s, n>>] = IF n = k + 1 THEN status ELSE scan[<<s, n>>]
    BY <1>3 DEF CourierTypeOK, Scans
  <2>2. Scanned(s)' = {n \in 1..MaxScans : n \in 1..k \/ n = k + 1}
    <3>1. \A n \in 1..MaxScans : scan'[<<s, n>>] # "NONE" <=> n \in 1..k \/ n = k + 1
      BY <2>1, <1>1, <1>5 DEF Scanned
    <3>2. QED BY <3>1 DEF Scanned
  <2>3. QED BY <2>2, <1>2, <1>3, ParcelAssumption
<1>8. ASSUME NEW r \in Shipments, r # s PROVE Scanned(r)' = Scanned(r)
  <2>1. \A n \in 1..MaxScans : scan'[<<r, n>>] = scan[<<r, n>>]
    BY <1>3, <1>8 DEF CourierTypeOK, Scans
  <2>2. QED BY <2>1 DEF Scanned
<1>9. \A r \in Shipments : \E m \in 0..MaxScans : Scanned(r)' = 1..m
  <2>1. k + 1 \in 0..MaxScans BY <1>2, <1>3, ParcelAssumption
  <2>2. QED BY <1>7, <1>8, <2>1 DEF ScansInOrder
<1>10. QED BY <1>6, <1>9 DEF ScansInOrder

\* So has each report the courier makes, of a new scan or of one told before.
LEMMA CourierReports ==
  ASSUME CourierTypeOK, ScansInOrder,
         \/ \E s \in Shipments, status \in Statuses : CourierScan(s, status)
         \/ \E i \in Scans : Rekey(i)
  PROVE  ScansKept /\ ScansInOrder'
<1>1. ASSUME NEW s \in Shipments, NEW status \in Statuses, CourierScan(s, status)
      PROVE  ScansKept /\ ScansInOrder'
  BY <1>1, NextScan DEF CourierScan
<1>2. ASSUME NEW i \in Scans, Rekey(i) PROVE ScansKept /\ ScansInOrder'
  <2>1. i[1] \in Shipments /\ scan[i] \in Statuses BY <1>2 DEF Rekey, CourierTypeOK, Scans
  <2>2. QED BY <1>2, <2>1, NextScan DEF Rekey
<1>3. QED BY <1>1, <1>2

\* The order of the scans is theirs alone.
LEMMA SameScans ==
  ASSUME UNCHANGED scan
  PROVE  ScansKept /\ (ScansInOrder => ScansInOrder')
BY DEF ScansKept, ScansInOrder, Scanned

\* A step that touches no event, job or tracker keeps what they rely on.
LEMMA QuietStep ==
  ASSUME TypeOK, ArrivedScans, ReducedEvents, ScansKept, UNCHANGED <<raw, queueVars, tracker>>
  PROVE  ArrivedScans' /\ ReducedEvents'
<1>1. ArrivedScans'
  BY DEF ArrivedScans, Arrived, ScansKept, queueVars
<1>2. ASSUME NEW t \in Trackers PROVE
        /\ tracker'[t].pc \notin {"idle", "record"} =>
             scan'[tracker'[t].scan] \in CarrierEventStatuses
        /\ tracker'[t].pc = "seams" => tracker'[t].todo # <<>>
  <2>1. tracker[t].pc # "idle" => tracker[t].scan \in Scans
    BY TrackingType DEF TypeOK, TrackerTypeOK
  <2>2. "NONE" \notin CarrierEventStatuses BY DEF CarrierEventStatuses
  <2>3. QED BY <2>1, <2>2 DEF ReducedEvents, ScansKept
<1>3. QED BY <1>1, <1>2 DEF ReducedEvents

\* The ingest enqueues only what has arrived.
LEMMA IngestScans ==
  ASSUME TypeOK, ArrivedScans, ReducedEvents, NEW i \in Scans, IngestStep(i)
  PROVE  ArrivedScans' /\ ReducedEvents'
<1>1. UNCHANGED <<scan, tracker>>
  BY DEF IngestStep, Webhook, Poll, Persist, EnqueueRawEvent, LoseRawEvent, RecoverStalled,
         courierVars, trackerVars
<1>2. ReducedEvents' BY <1>1 DEF ReducedEvents
<1>3. /\ raw \in [Scans -> {"NONE", "PENDING", "ACCEPTED", "DUPLICATE", "UNMAPPED_STATUS"}]
      /\ toEnqueue \subseteq Scans /\ job \in [Scans -> Jobs]
      /\ \A t \in Trackers : tracker[t].pc # "idle" => tracker[t].scan \in Scans
  BY TrackingType DEF TypeOK, EventTypeOK, QueueTypeOK, TrackerTypeOK
<1>4. CASE Persist(i)
  <2>1. scan[i] # "NONE" /\ UNCHANGED job BY <1>4 DEF Persist
  <2>2. raw' = [raw EXCEPT ![i] = "PENDING"] /\ toEnqueue' = toEnqueue \cup {i} BY <1>4 DEF Persist
  <2>3. QED BY <1>1, <1>2, <1>3, <2>1, <2>2 DEF ArrivedScans, Arrived
<1>5. CASE EnqueueRawEvent(i)
  <2>1. i \in toEnqueue /\ toEnqueue' = toEnqueue \ {i} /\ UNCHANGED raw
    BY <1>5 DEF EnqueueRawEvent, eventVars
  <2>2. \A j \in Scans : j # i => job'[j] = job[j] BY <1>3, <1>5 DEF EnqueueRawEvent
  <2>3. QED BY <1>1, <1>2, <1>3, <2>1, <2>2 DEF ArrivedScans, Arrived
<1>6. CASE LoseRawEvent(i)
  BY <1>1, <1>2, <1>3, <1>6 DEF LoseRawEvent, ArrivedScans, Arrived, eventVars
<1>7. CASE RecoverStalled(i)
  <2>1. job[i].state = "active" /\ UNCHANGED <<raw, toEnqueue>>
    BY <1>7 DEF RecoverStalled, eventVars
  <2>2. \A j \in Scans : j # i => job'[j] = job[j] BY <1>3, <1>7 DEF RecoverStalled
  <2>3. QED BY <1>1, <1>2, <1>3, <2>1, <2>2 DEF ArrivedScans, Arrived
<1>8. QED BY <1>2, <1>4, <1>5, <1>6, <1>7 DEF IngestStep, Webhook, Poll

\* processRawEvent starts on a scan that has arrived.
LEMMA StartScans ==
  ASSUME TypeOK, ArrivedScans, ReducedEvents, NEW t \in Trackers, NEW i \in Scans,
         \/ t \in Workers /\ Deliver(t, i)
         \/ t \in Viewers /\ Replay(t, i)
  PROVE  ArrivedScans' /\ ReducedEvents'
<1>1. Arrived(i)
  BY DEF Deliver, Replay, ArrivedScans, Arrived
<1>2. /\ tracker' = [tracker EXCEPT ![t] = Tracking("record", i, NoRow, <<>>, 1)]
      /\ UNCHANGED <<scan, raw, toEnqueue>>
  BY DEF Deliver, Replay, Begin, courierVars, eventVars, queueVars
<1>3. ASSUME NEW j \in Scans, job'[j].state # "absent" PROVE Arrived(j)
  BY <1>1, <1>3 DEF Deliver, Replay, ArrivedScans, TypeOK, QueueTypeOK, queueVars
<1>4. tracker'[t].pc = "record" /\ tracker'[t].scan = i
  BY <1>2 DEF TypeOK, TrackerTypeOK, Tracking
<1>5. \A u \in Trackers : u # t => tracker'[u] = tracker[u]
  BY <1>2 DEF TypeOK, TrackerTypeOK
<1>6. ArrivedScans' BY <1>1, <1>2, <1>3, <1>4, <1>5 DEF ArrivedScans, Arrived
<1>7. ReducedEvents' BY <1>2, <1>4, <1>5 DEF ReducedEvents
<1>8. QED BY <1>6, <1>7

\* A running processRawEvent stays with its scan; it goes on only with a mapped
\* status, and to its seams only when there is one.
TrackerMoves(t) ==
  \E x \in Trackings \cup {Idle} :
    /\ tracker' = [tracker EXCEPT ![t] = x]
    /\ x.pc # "idle" => x.scan = tracker[t].scan
    /\ x.pc \notin {"idle", "record"} => scan[tracker[t].scan] \in CarrierEventStatuses
    /\ x.pc = "seams" => x.todo # <<>>

\* Every step of processRawEvent moves its tracker so.
LEMMA TrackerMove ==
  ASSUME TypeOK, ArrivedScans, ReducedEvents, NEW t \in Trackers,
         TrackerStep(t) \/ SeamThrows(t) \/ CrashTracker(t)
  PROVE  TrackerMoves(t)
<1> DEFINE i == tracker[t].scan
           r == tracker[t]
<1>1. r.pc # "idle" => r \in Trackings /\ i \in Scans
  BY TrackingType DEF TypeOK, TrackerTypeOK
<1>2. tracker \in [Trackers -> Trackings \cup {Idle}] BY DEF TypeOK, TrackerTypeOK
<1>3. r.pc \notin {"idle", "record"} => scan[i] \in CarrierEventStatuses
  BY DEF ReducedEvents
<1>4. ASSUME Rest(t) PROVE TrackerMoves(t)
  BY <1>4, TrackingType DEF Rest, TrackerMoves
<1>5. CASE RecordEvent(t)
  <2>1. CASE Finish(t) BY <1>4, <2>1 DEF Finish
  <2>2. CASE At(t, "read") /\ scan[i] # "UNMAPPED"
    <3>1. scan[i] \in CarrierEventStatuses
      BY <2>2, <1>5, <1>1, ParcelAssumption
      DEF RecordEvent, ArrivedScans, TypeOK, CourierTypeOK
    <3>2. tracker' = [tracker EXCEPT ![t] = [r EXCEPT !.pc = "read"]]
      BY <2>2 DEF At
    <3>3. [r EXCEPT !.pc = "read"] = Tracking("read", i, r.seen, r.todo, r.tries)
      BY <1>1, <1>5, TrackingMoves DEF RecordEvent
    <3>4. Tracking("read", i, r.seen, r.todo, r.tries) \in Trackings
      BY <1>1, <1>5, TrackingType DEF RecordEvent, Trackings
    <3>5. QED BY <3>1, <3>2, <3>3, <3>4 DEF TrackerMoves, Tracking
  <2>3. QED BY <1>5, <2>1, <2>2 DEF RecordEvent
<1>6. CASE ReadShipment(t) \/ WriteShipment(t) \/ CallSeam(t)
        \/ (VersionMismatch(t) /\ ~Throw(t))
  <2>1. scan[i] \in CarrierEventStatuses /\ tracker' \in [Trackers -> Trackings \cup {Idle}]
    BY <1>3, <1>6, TrackerTypes
    DEF ReadShipment, WriteShipment, CallSeam, VersionMismatch, TypeOK, TrackerTypeOK, TrackerStep
  <2>2. tracker' = [tracker EXCEPT ![t] = tracker'[t]]
    <3>1. \A u \in Trackers : u # t => tracker'[u] = tracker[u]
      BY <1>6, <1>2 DEF ReadShipment, WriteShipment, CallSeam, VersionMismatch
    <3>2. QED BY <3>1, <2>1, <1>2
  <2>3. tracker'[t].scan = i
    <3>1. CASE ReadShipment(t)
      <4>1. \E pc, row, todo, tries : tracker' = [tracker EXCEPT ![t] = Tracking(pc, i, row, todo, tries)]
        BY <3>1 DEF ReadShipment
      <4>2. QED BY <4>1, <1>2 DEF Tracking
    <3>2. CASE WriteShipment(t)
      <4>1. \E pc, row, todo, tries : tracker' = [tracker EXCEPT ![t] = Tracking(pc, i, row, todo, tries)]
        BY <3>2 DEF WriteShipment
      <4>2. QED BY <4>1, <1>2 DEF Tracking
    <3>3. CASE CallSeam(t) BY <3>3, <1>2 DEF CallSeam, Tracking
    <3>4. CASE VersionMismatch(t) /\ ~Throw(t) BY <3>4, <1>2 DEF VersionMismatch, Tracking
    <3>5. QED BY <1>6, <3>1, <3>2, <3>3, <3>4
  <2>4. tracker'[t].pc = "seams" => tracker'[t].todo # <<>>
    <3>1. CASE ReadShipment(t)
      <4>1. \E row, tries : \E pc \in {"write", "seams", "accept"} :
              \/ tracker' = [tracker EXCEPT ![t] = Tracking("seams", i, row, <<"ndrAttempt">>, tries)]
              \/ /\ pc # "seams"
                 /\ tracker' = [tracker EXCEPT ![t] = Tracking(pc, i, row, <<>>, tries)]
        BY <3>1 DEF ReadShipment
      <4>2. <<"ndrAttempt">> # <<>> OBVIOUS
      <4>3. QED BY <4>1, <4>2, <1>2 DEF Tracking
    <3>2. CASE WriteShipment(t)
      BY <3>2, <1>2, <2>1, SeamsType, MovementType DEF WriteShipment, Tracking
    <3>3. CASE CallSeam(t)
      <4>1. r.todo \in Seq(SeamNames) /\ r.todo # <<>>
        BY <3>3, <1>1 DEF CallSeam, ReducedEvents, Trackings
      <4>2. ASSUME Tail(r.todo) = <<>> PROVE Len(r.todo) = 1
        <5>1. Len(r.todo) \in Nat /\ Len(Tail(r.todo)) = Len(r.todo) - 1 BY <4>1
        <5>2. Len(Tail(r.todo)) = 0 BY <4>1, <4>2, EmptySeq
        <5>3. QED BY <5>1, <5>2
      <4>3. QED BY <3>3, <4>2, <1>2 DEF CallSeam, Tracking
    <3>4. CASE VersionMismatch(t) /\ ~Throw(t)
      BY <3>4, <1>2 DEF VersionMismatch, Tracking
    <3>5. QED BY <1>6, <3>1, <3>2, <3>3, <3>4
  <2>5. QED BY <2>1, <2>2, <2>3, <2>4 DEF TrackerMoves
<1>7. CASE Accept(t) \/ SeamThrows(t) \/ CrashTracker(t) \/ (VersionMismatch(t) /\ Throw(t))
  BY <1>4, <1>7 DEF Accept, SeamThrows, CrashTracker, Finish, Throw
<1>8. QED BY <1>5, <1>6, <1>7 DEF TrackerStep

\* A step of processRawEvent keeps its scan arrived, and reduces mapped ones.
LEMMA TrackerScans ==
  ASSUME TypeOK, ArrivedScans, ReducedEvents, NEW t \in Trackers,
         TrackerStep(t) \/ SeamThrows(t) \/ CrashTracker(t)
  PROVE  ArrivedScans' /\ ReducedEvents'
<1> DEFINE i == tracker[t].scan
<1>1. UNCHANGED <<scan, toEnqueue>>
  BY DEF TrackerStep, RecordEvent, ReadShipment, WriteShipment, VersionMismatch, CallSeam, Accept,
         SeamThrows, CrashTracker, courierVars, queueVars
<1>2. tracker[t].pc # "idle" /\ Arrived(i) /\ i \in Scans
  BY TrackingType
  DEF TrackerStep, RecordEvent, ReadShipment, WriteShipment, VersionMismatch, CallSeam, Accept,
      SeamThrows, CrashTracker, ArrivedScans, TypeOK, TrackerTypeOK
<1>3. \A j \in Scans : Arrived(j) => Arrived(j)'
  BY DEF TrackerStep, RecordEvent, ReadShipment, WriteShipment, VersionMismatch, CallSeam, Accept,
         SeamThrows, CrashTracker, Arrived, eventVars, TypeOK, EventTypeOK
<1>4. \A j \in Scans : Arrived(j)' => Arrived(j)
  BY <1>2
  DEF TrackerStep, RecordEvent, ReadShipment, WriteShipment, VersionMismatch, CallSeam, Accept,
      SeamThrows, CrashTracker, Arrived, eventVars, TypeOK, EventTypeOK
<1>5. \A j \in Scans : job'[j].state # "absent" => job[j].state # "absent" \/ j = i
  <2>1. job' = job \/ \E x : job' = [job EXCEPT ![i] = x]
    BY DEF TrackerStep, RecordEvent, ReadShipment, WriteShipment, VersionMismatch, CallSeam, Accept,
           SeamThrows, CrashTracker, queueVars, Finish, Throw
  <2>2. QED BY <2>1 DEF TypeOK, QueueTypeOK
<1>6. PICK x \in Trackings \cup {Idle} :
        /\ tracker' = [tracker EXCEPT ![t] = x]
        /\ x.pc # "idle" => x.scan = i
        /\ x.pc \notin {"idle", "record"} => scan[i] \in CarrierEventStatuses
        /\ x.pc = "seams" => x.todo # <<>>
  BY TrackerMove DEF TrackerMoves
<1>7. tracker'[t] = x /\ \A u \in Trackers : u # t => tracker'[u] = tracker[u]
  BY <1>6 DEF TypeOK, TrackerTypeOK
<1>8. ArrivedScans'
  <2>1. \A u \in Trackers : (tracker[u].pc # "idle" => Arrived(tracker[u].scan))'
    <3>1. \A u \in Trackers : tracker[u].pc # "idle" => tracker[u].scan \in Scans
      BY TrackingType DEF TypeOK, TrackerTypeOK
    <3>2. QED BY <1>2, <1>3, <1>6, <1>7, <3>1 DEF ArrivedScans, Arrived
  <2>2. \A j \in toEnqueue' : Arrived(j)'
    BY <1>1, <1>3 DEF ArrivedScans, TypeOK, QueueTypeOK
  <2>3. \A j \in Scans : Arrived(j)' => scan'[j] # "NONE"
    BY <1>1, <1>4 DEF ArrivedScans
  <2>4. \A j \in Scans : job'[j].state # "absent" => Arrived(j)'
    BY <1>2, <1>3, <1>5 DEF ArrivedScans
  <2>5. QED BY <2>1, <2>2, <2>3, <2>4 DEF ArrivedScans, Arrived
<1>9. ReducedEvents'
  BY <1>1, <1>6, <1>7 DEF ReducedEvents
<1>10. QED BY <1>8, <1>9

(***************************************************************************)
(* The first theorem: types, and what the trackers rely on.                *)
(***************************************************************************)

\* At first nothing has arrived, and every row is as booking left it.
LEMMA TypeInvInit == Init => TypeInv
<1> SUFFICES ASSUME Init PROVE TypeInv
  OBVIOUS
<1> USE DEF Init
<1>1. RowTypeOK BY DEF RowTypeOK, CustodyStates, PrePickup, MovementStates
<1>2. AccountTypeOK /\ RequestTypeOK
  <2>1. <<>> \in Seq(Nat) OBVIOUS
  <2>2. QED BY <2>1 DEF AccountTypeOK, RequestTypeOK
<1>3. CourierTypeOK BY DEF CourierTypeOK, Scans
<1>4. EventTypeOK
  <2>1. <<>> \in Seq(SeamNames) OBVIOUS
  <2>2. QED BY <2>1 DEF EventTypeOK
<1>5. QueueTypeOK
  <2>1. Job("absent", Nobody, 0, 0) \in Jobs BY ParcelAssumption DEF Job, Jobs
  <2>2. QED BY <2>1 DEF QueueTypeOK
<1>6. TrackerTypeOK BY DEF TrackerTypeOK
<1>7. BudgetTypeOK BY ParcelAssumption DEF BudgetTypeOK
<1>8. ScansInOrder
  <2>1. ASSUME NEW s \in Shipments PROVE Scanned(s) = 1..0
    BY DEF Scanned, Scans
  <2>2. 0 \in 0..MaxScans BY ParcelAssumption
  <2>3. QED BY <2>1, <2>2 DEF ScansInOrder
<1>9. ArrivedScans /\ ReducedEvents
  BY DEF ArrivedScans, Arrived, ReducedEvents, Job, Idle
<1>10. QED BY <1>1, <1>2, <1>3, <1>4, <1>5, <1>6, <1>7, <1>8, <1>9 DEF TypeInv, TypeOK

\* Requests of members leave events, jobs and trackers alone.
LEMMA RequestsQuiet ==
  ASSUME \/ \E c \in Cancellers, s \in Shipments : RequestCancellation(c, s)
         \/ \E c \in Cancellers : CancellerStep(c)
         \/ \E p \in Schedulers, group \in SUBSET Shipments : SelectEligible(p, group)
         \/ \E p \in Schedulers : SchedulerStep(p)
         \/ ChangeSubscription \/ ToggleAccount
  PROVE  UNCHANGED <<scan, raw, queueVars, tracker>>
<1>1. ASSUME NEW c \in Cancellers, \/ \E s \in Shipments : RequestCancellation(c, s)
                                   \/ CancellerStep(c)
      PROVE  UNCHANGED <<scan, raw, queueVars, tracker>>
  BY <1>1 DEF RequestCancellation, CancellerStep, CourierAnswersCancel, SettleCancelled,
              SettleRejected, ReverseEntitlement, CrashCanceller,
              courierVars, eventVars, trackerVars
<1>2. ASSUME NEW p \in Schedulers, \/ \E group \in SUBSET Shipments : SelectEligible(p, group)
                                   \/ SchedulerStep(p)
      PROVE  UNCHANGED <<scan, raw, queueVars, tracker>>
  BY <1>2 DEF SelectEligible, SchedulerStep, CourierAnswersPickup, MarkScheduled,
              AllocateManifestNumber, StoreManifest, CrashScheduler,
              courierVars, eventVars, trackerVars
<1>3. CASE ChangeSubscription \/ ToggleAccount
  BY <1>3 DEF ChangeSubscription, ToggleAccount, courierVars, eventVars, trackerVars
<1>4. QED BY <1>1, <1>2, <1>3

\* Every step keeps the types and what the trackers rely on.
LEMMA TypeInvNext == TypeInv /\ [Next]_vars => TypeInv'
<1> SUFFICES ASSUME TypeInv, [Next]_vars PROVE TypeInv'
  OBVIOUS
<1> USE DEF TypeInv
<1>1. ASSUME \/ \E c \in Cancellers, s \in Shipments : RequestCancellation(c, s)
             \/ \E c \in Cancellers : CancellerStep(c)
             \/ \E p \in Schedulers, group \in SUBSET Shipments : SelectEligible(p, group)
             \/ \E p \in Schedulers : SchedulerStep(p)
             \/ ChangeSubscription \/ ToggleAccount
      PROVE  TypeInv'
  <2>1. TypeOK' BY <1>1, CancellationTypes, PickupTypes, CourierTypes
  <2>2. UNCHANGED <<scan, raw, queueVars, tracker>> BY <1>1, RequestsQuiet
  <2>3. QED BY <2>1, <2>2, SameScans, QuietStep
<1>2. ASSUME \/ \E s \in Shipments, status \in Statuses : CourierScan(s, status)
             \/ \E i \in Scans : Rekey(i)
      PROVE  TypeInv'
  <2>1. TypeOK' BY <1>2, CourierTypes
  <2>2. ScansKept /\ ScansInOrder' BY <1>2, CourierReports DEF TypeOK
  <2>3. UNCHANGED <<raw, queueVars, tracker>>
    BY <1>2 DEF CourierScan, Rekey, eventVars, trackerVars
  <2>4. QED BY <2>1, <2>2, <2>3, QuietStep
<1>3. ASSUME NEW i \in Scans, IngestStep(i) PROVE TypeInv'
  <2>1. UNCHANGED scan
    BY <1>3 DEF IngestStep, Webhook, Poll, Persist, EnqueueRawEvent, LoseRawEvent,
                RecoverStalled, courierVars
  <2>2. QED BY <1>3, <2>1, IngestTypes, IngestScans, SameScans
<1>4. ASSUME NEW w \in Workers, NEW i \in Scans, Deliver(w, i) PROVE TypeInv'
  <2>1. w \in Trackers BY DEF Trackers
  <2>2. UNCHANGED scan BY <1>4 DEF Deliver, courierVars
  <2>3. TypeOK' BY <1>4, <2>1, StartTypes
  <2>4. ArrivedScans' /\ ReducedEvents' BY <1>4, <2>1, StartScans
  <2>5. QED BY <2>2, <2>3, <2>4, SameScans
<1>5. ASSUME NEW v \in Viewers, NEW i \in Scans, Replay(v, i) PROVE TypeInv'
  <2>1. v \in Trackers BY DEF Trackers
  <2>2. UNCHANGED scan BY <1>5 DEF Replay, courierVars
  <2>3. TypeOK' BY <1>5, <2>1, StartTypes
  <2>4. ArrivedScans' /\ ReducedEvents' BY <1>5, <2>1, StartScans
  <2>5. QED BY <2>2, <2>3, <2>4, SameScans
<1>6. ASSUME NEW t \in Trackers, TrackerStep(t) \/ SeamThrows(t) \/ CrashTracker(t) PROVE TypeInv'
  <2>1. UNCHANGED scan
    BY <1>6 DEF TrackerStep, RecordEvent, ReadShipment, WriteShipment, VersionMismatch,
                CallSeam, Accept, SeamThrows, CrashTracker, courierVars
  <2>2. QED BY <1>6, <2>1, TrackerTypes, TrackerScans, SameScans
<1>7. CASE UNCHANGED vars
  <2>1. TypeOK'
    BY <1>7, FrameType DEF TypeOK, vars, rowVars, accountVars, courierVars, eventVars,
                           queueVars, trackerVars
  <2>2. UNCHANGED <<scan, raw, queueVars, tracker>>
    BY <1>7 DEF vars, courierVars, eventVars, trackerVars
  <2>3. QED BY <2>1, <2>2, SameScans, QuietStep
<1>8. QED BY <1>1, <1>2, <1>3, <1>4, <1>5, <1>6, <1>7 DEF Next

\* Rows, requests, jobs, events and trackers keep their types: a queued scan is
\* one the courier made, and processRawEvent reduces only mapped statuses.
THEOREM TypeCorrect == Spec => []TypeOK
<1>1. Spec => []TypeInv BY TypeInvInit, TypeInvNext, PTL DEF Spec
<1>2. TypeInv => TypeOK BY DEF TypeInv
<1>3. QED BY <1>1, <1>2, PTL

(***************************************************************************)
(* The row: whose read is current, whose cancellation is pending, and each *)
(* step as a step of the machines of ShipmentMachines.                     *)
(***************************************************************************)

\* A step of the machines, or none of them moves.
MachineStep == Machines!Next \/ UNCHANGED Machines!vars

\* The scan of a tracker belongs to a shipment.
LEMMA TrackedShipment ==
  ASSUME TypeOK, NEW t \in Trackers, tracker[t].pc # "idle"
  PROVE  tracker[t].scan \in Scans /\ tracker[t].scan[1] \in Shipments
BY TrackingType DEF TypeOK, TrackerTypeOK, Scans

\* What a write leaves fresh has read another row.
LEMMA StaleReads ==
  ASSUME TypeOK, ReadsCurrent, UNCHANGED tracker, NEW written, fresh' \subseteq StillFresh(written),
         \A s \in Shipments \ written : UNCHANGED Row(s)
  PROVE  ReadsCurrent'
<1>1. ASSUME NEW t \in fresh'
      PROVE  tracker[t].pc = "write" /\ tracker[t].seen = Row(tracker[t].scan[1])'
  <2>1. t \in fresh /\ tracker[t].scan[1] \notin written BY DEF StillFresh
  <2>2. t \in Trackers /\ tracker[t].pc = "write" /\ tracker[t].seen = Row(tracker[t].scan[1])
    BY <2>1 DEF ReadsCurrent, TypeOK, TrackerTypeOK
  <2>3. tracker[t].scan[1] \in Shipments BY <2>2, TrackedShipment
  <2>4. QED BY <2>1, <2>2, <2>3
<1>2. QED BY <1>1 DEF ReadsCurrent

\* A step that touches neither rows, nor reads, nor cancellations keeps all three.
LEMMA RowsUntouched ==
  ASSUME RowInv, UNCHANGED <<booking, custody, movement, canceller>>
  PROVE  /\ UNCHANGED <<tracker, fresh>> => ReadsCurrent'
         /\ CancellationsAwaited' /\ SoleCanceller'
         /\ UNCHANGED reversed => MachineStep
BY DEF RowInv, ReadsCurrent, Row, CancellationsAwaited, SoleCanceller, Attends, MachineStep, Machines!vars

\* The steps of a cancellation.
LEMMA CancellationRows ==
  ASSUME TypeOK, RowInv, NEW c \in Cancellers,
         \/ \E s \in Shipments : RequestCancellation(c, s)
         \/ CancellerStep(c)
  PROVE  RowInv' /\ MachineStep
<1> DEFINE r == canceller[c].shipment
<1>1. canceller[c].pc # "idle" => r \in Shipments /\ canceller[c].previous \in PrePickup
  BY DEF TypeOK, RequestTypeOK, Cancellings, Idle
<1>2. /\ canceller \in [Cancellers -> Cancellings \cup {Idle}]
      /\ custody \in [Shipments -> CustodyStates] /\ booking \in [Shipments -> {"CONFIRMED", "VOID"}]
  BY DEF TypeOK, RequestTypeOK, RowTypeOK
<1>3. Idle.pc = "idle" /\ PrePickup = Machines!PrePickup
  BY DEF Idle, PrePickup, Machines!PrePickup
<1>4. ASSUME NEW s \in Shipments, RequestCancellation(c, s) PROVE RowInv' /\ MachineStep
  <2>1. /\ custody' = [custody EXCEPT ![s] = "CANCEL_REQUESTED"]
        /\ canceller' = [canceller EXCEPT ![c] = Cancelling("ask", s, custody[s])]
        /\ booking[s] = "CONFIRMED" /\ custody[s] \in PrePickup
        /\ UNCHANGED <<booking, movement, reversed, tracker>> /\ fresh' = StillFresh({s})
    BY <1>4 DEF RequestCancellation, Cancellable, accountVars
  <2>2. ReadsCurrent'
    <3>1. \A u \in Shipments \ {s} : UNCHANGED Row(u) BY <2>1, <1>2 DEF Row
    <3>2. QED BY <2>1, <3>1, StaleReads DEF RowInv
  <2>3. \A d \in Cancellers : ~Attends(d, s)
    BY <2>1 DEF RowInv, CancellationsAwaited, PrePickup
  <2>4. CancellationsAwaited'
    BY <2>1, <1>2 DEF RowInv, CancellationsAwaited, Attends, Cancelling, PrePickup
  <2>5. SoleCanceller'
    BY <2>1, <2>3, <1>2 DEF RowInv, SoleCanceller, Attends, Cancelling
  <2>6. Machines!RequestCancel(s)
    BY <2>1, <1>3 DEF Machines!RequestCancel
  <2>7. MachineStep BY <2>6 DEF MachineStep, Machines!Next
  <2>8. QED BY <2>2, <2>4, <2>5, <2>7 DEF RowInv
<1>5. CASE CourierAnswersCancel(c)
  <2>1. /\ canceller[c].pc = "ask"
        /\ \/ canceller' = [canceller EXCEPT ![c].pc = "cancelled"]
           \/ canceller' = [canceller EXCEPT ![c].pc = "rejected"]
           \/ canceller' = [canceller EXCEPT ![c] = Idle]
        /\ UNCHANGED <<booking, custody, movement, reversed, tracker, fresh>>
    BY <1>5 DEF CourierAnswersCancel, Answered, rowVars, accountVars, trackerVars
  <2>2. \A d \in Cancellers : d # c => canceller'[d] = canceller[d]
    BY <2>1, <1>2
  <2>3. /\ canceller'[c].pc \in {"idle", "cancelled", "rejected"}
        /\ canceller'[c].pc # "idle" => canceller'[c].shipment = r
    <3>1. canceller[c] \in Cancellings BY <2>1, <1>2, <1>3
    <3>2. CASE canceller' = [canceller EXCEPT ![c] = Idle] BY <3>2, <1>2, <1>3
    <3>3. CASE canceller' = [canceller EXCEPT ![c].pc = "cancelled"]
      BY <3>1, <3>3, <1>2 DEF Cancellings
    <3>4. CASE canceller' = [canceller EXCEPT ![c].pc = "rejected"]
      BY <3>1, <3>4, <1>2 DEF Cancellings
    <3>5. QED BY <2>1, <3>2, <3>3, <3>4
  <2>4. \A d \in Cancellers, s \in Shipments : Attends(d, s)' => Attends(d, s)
    BY <2>1, <2>2, <2>3 DEF Attends
  <2>5. CancellationsAwaited' /\ SoleCanceller'
    BY <2>1, <2>2, <2>3, <2>4 DEF RowInv, CancellationsAwaited, SoleCanceller
  <2>6. QED BY <2>1, <2>5 DEF RowInv, ReadsCurrent, Row, MachineStep, Machines!vars
<1>6. CASE SettleCancelled(c)
  <2>1. /\ canceller[c].pc = "cancelled" /\ r \in Shipments /\ Attends(c, r)
        /\ UNCHANGED <<movement, reversed, tracker>>
    BY <1>1, <1>6 DEF SettleCancelled, accountVars, Attends
  <2>2. CASE /\ custody[r] = "CANCEL_REQUESTED"
             /\ custody' = [custody EXCEPT ![r] = "CANCELLED"]
             /\ booking' = [booking EXCEPT ![r] = "VOID"]
             /\ canceller' = [canceller EXCEPT ![c].pc = "reverse"]
             /\ fresh' = StillFresh({r})
    <3>1. ReadsCurrent'
      <4>1. \A u \in Shipments \ {r} : UNCHANGED Row(u) BY <2>1, <2>2, <1>2 DEF Row
      <4>2. QED BY <2>1, <2>2, <4>1, StaleReads DEF RowInv
    <3>2. \A d \in Cancellers : d # c => canceller'[d] = canceller[d] /\ ~Attends(d, r)
      BY <2>1, <2>2, <1>2 DEF RowInv, SoleCanceller
    <3>3. canceller'[c].pc = "reverse" /\ canceller'[c].shipment = r
      BY <2>1, <2>2, <1>2 DEF Cancellings
    <3>4. CancellationsAwaited'
      BY <2>1, <2>2, <3>2, <3>3, <1>2 DEF RowInv, CancellationsAwaited, Attends
    <3>5. SoleCanceller'
      BY <3>2, <3>3 DEF RowInv, SoleCanceller, Attends
    <3>6. Machines!ConfirmCancel(r)
      BY <2>1, <2>2 DEF Machines!ConfirmCancel
    <3>7. QED BY <2>1, <3>1, <3>4, <3>5, <3>6 DEF RowInv, MachineStep, Machines!Next
  <2>3. CASE canceller' = [canceller EXCEPT ![c] = Idle] /\ UNCHANGED <<custody, booking, fresh>>
    <3>1. CancellationsAwaited' /\ SoleCanceller'
      BY <2>3, <1>2, <1>3 DEF RowInv, CancellationsAwaited, SoleCanceller, Attends
    <3>2. QED BY <2>1, <2>3, <3>1 DEF RowInv, ReadsCurrent, Row, MachineStep, Machines!vars
  <2>4. QED BY <1>6, <2>2, <2>3 DEF SettleCancelled
<1>7. CASE SettleRejected(c)
  <2>1. /\ canceller[c].pc = "rejected" /\ r \in Shipments /\ Attends(c, r)
        /\ canceller[c].previous \in PrePickup
        /\ canceller' = [canceller EXCEPT ![c] = Idle]
        /\ UNCHANGED <<booking, movement, reversed, tracker>>
    BY <1>1, <1>7 DEF SettleRejected, accountVars, Attends
  <2>2. \A d \in Cancellers : d # c => canceller'[d] = canceller[d] /\ ~Attends(d, r)
    BY <2>1, <1>2 DEF RowInv, SoleCanceller
  <2>3. SoleCanceller'
    BY <2>1, <2>2, <1>2, <1>3 DEF RowInv, SoleCanceller, Attends
  <2>4. CASE /\ custody[r] = "CANCEL_REQUESTED"
             /\ custody' = [custody EXCEPT ![r] = canceller[c].previous]
             /\ fresh' = StillFresh({r})
    <3>1. ReadsCurrent'
      <4>1. \A u \in Shipments \ {r} : UNCHANGED Row(u) BY <2>1, <2>4, <1>2 DEF Row
      <4>2. QED BY <2>1, <2>4, <4>1, StaleReads DEF RowInv
    <3>2. CancellationsAwaited'
      BY <2>1, <2>2, <2>4, <1>2, <1>3 DEF RowInv, CancellationsAwaited, Attends
    <3>3. Machines!RejectCancel(r)
      BY <2>1, <2>4, <1>3 DEF Machines!RejectCancel
    <3>4. QED BY <2>1, <2>3, <3>1, <3>2, <3>3 DEF RowInv, MachineStep, Machines!Next
  <2>5. CASE UNCHANGED <<custody, fresh>>
    <3>1. CancellationsAwaited'
      BY <2>1, <2>2, <2>5, <1>2, <1>3 DEF RowInv, CancellationsAwaited, Attends
    <3>2. QED BY <2>1, <2>3, <2>5, <3>1 DEF RowInv, ReadsCurrent, Row, MachineStep, Machines!vars
  <2>6. QED BY <1>7, <2>4, <2>5 DEF SettleRejected
<1>8. CASE ReverseEntitlement(c)
  <2>1. /\ booking[r] = "VOID" /\ custody[r] = "CANCELLED" /\ r \in Shipments
        /\ reversed' = reversed \cup {r} \/ UNCHANGED reversed
        /\ canceller' = [canceller EXCEPT ![c] = Idle]
        /\ UNCHANGED <<booking, custody, movement, tracker, fresh>>
    BY <1>1, <1>8 DEF ReverseEntitlement, RowInv, CancellationsAwaited, rowVars, trackerVars
  <2>2. CancellationsAwaited' /\ SoleCanceller'
    BY <2>1, <1>2, <1>3 DEF RowInv, CancellationsAwaited, SoleCanceller, Attends
  <2>3. MachineStep
    BY <2>1 DEF MachineStep, Machines!Next, Machines!Reverse, Machines!vars
  <2>4. QED BY <2>1, <2>2, <2>3 DEF RowInv, ReadsCurrent, Row
<1>9. CASE CrashCanceller(c)
  <2>1. /\ canceller' = [canceller EXCEPT ![c] = Idle]
        /\ UNCHANGED <<booking, custody, movement, reversed, tracker, fresh>>
    BY <1>9 DEF CrashCanceller, rowVars, accountVars, trackerVars
  <2>2. CancellationsAwaited' /\ SoleCanceller'
    BY <2>1, <1>2, <1>3 DEF RowInv, CancellationsAwaited, SoleCanceller, Attends
  <2>3. QED BY <2>1, <2>2 DEF RowInv, ReadsCurrent, Row, MachineStep, Machines!vars
<1>10. QED BY <1>4, <1>5, <1>6, <1>7, <1>8, <1>9 DEF CancellerStep

\* The steps of a pickup request.
LEMMA PickupRows ==
  ASSUME TypeOK, RowInv, NEW p \in Schedulers,
         \/ \E group \in SUBSET Shipments : SelectEligible(p, group)
         \/ SchedulerStep(p)
  PROVE  RowInv' /\ MachineStep
<1>1. CASE MarkScheduled(p)
  <2> DEFINE marked == StillPending(scheduler[p].group)
  <2>1. scheduler[p].group \subseteq Shipments
    BY <1>1 DEF TypeOK, RequestTypeOK, Schedulings, Idle, MarkScheduled
  <2>2. /\ marked \subseteq Shipments /\ \A s \in marked : custody[s] = "PICKUP_PENDING"
        /\ custody' = [s \in Shipments |-> IF s \in marked THEN "PICKUP_SCHEDULED" ELSE custody[s]]
        /\ fresh' = StillFresh(marked)
        /\ UNCHANGED <<booking, movement, reversed, canceller, tracker>>
    BY <1>1, <2>1 DEF MarkScheduled, StillPending, accountVars
  <2> HIDE DEF marked
  <2>3. ReadsCurrent'
    <3>1. \A s \in Shipments \ marked : UNCHANGED Row(s) BY <2>2 DEF Row
    <3>2. QED BY <2>2, <3>1, StaleReads DEF RowInv
  <2>4. CancellationsAwaited'
    BY <2>2 DEF RowInv, CancellationsAwaited, Attends
  <2>5. SoleCanceller' BY <2>2 DEF RowInv, SoleCanceller, Attends
  <2>6. Machines!Schedule(marked) BY <2>2 DEF Machines!Schedule
  <2>7. QED BY <2>2, <2>3, <2>4, <2>5, <2>6 DEF RowInv, MachineStep, Machines!Next
<1>2. ASSUME ~MarkScheduled(p) PROVE RowInv' /\ MachineStep
  <2>1. UNCHANGED <<booking, custody, movement, canceller, tracker, fresh, reversed>>
    BY <1>2 DEF SelectEligible, SchedulerStep, CourierAnswersPickup, AllocateManifestNumber,
                StoreManifest, CrashScheduler, rowVars, accountVars, trackerVars
  <2>2. QED BY <2>1, RowsUntouched DEF RowInv
<1>3. QED BY <1>1, <1>2

\* The steps of the courier, the ingest and the account leave the rows alone.
LEMMA OutsideRows ==
  ASSUME RowInv,
         \/ \E s \in Shipments, status \in Statuses : CourierScan(s, status)
         \/ \E i \in Scans : Rekey(i) \/ IngestStep(i)
         \/ ChangeSubscription \/ ToggleAccount
         \/ UNCHANGED vars
  PROVE  RowInv' /\ MachineStep
<1>1. UNCHANGED <<booking, custody, movement, canceller, tracker, fresh, reversed>>
  BY DEF CourierScan, Rekey, IngestStep, Webhook, Poll, Persist, EnqueueRawEvent, LoseRawEvent,
         RecoverStalled, ChangeSubscription, ToggleAccount, vars, rowVars, accountVars, trackerVars
<1>2. QED BY <1>1, RowsUntouched DEF RowInv

\* A tracker that does not write only gains or gives up a read of its own.
LEMMA TrackerReads ==
  ASSUME TypeOK, RowInv, NEW t \in Trackers,
         UNCHANGED <<booking, custody, movement, canceller, reversed>>,
         NEW x, tracker' = [tracker EXCEPT ![t] = x],
         \/ fresh' = fresh \ {t}
         \/ fresh' = fresh \cup {t} /\ x.pc = "write" /\ x.seen = Row(x.scan[1])
  PROVE  RowInv' /\ MachineStep
<1>1. CancellationsAwaited' /\ SoleCanceller' /\ MachineStep
  BY RowsUntouched
<1>2. /\ tracker'[t] = x /\ \A u \in Trackers : u # t => tracker'[u] = tracker[u]
      /\ fresh \subseteq Trackers
  BY DEF TypeOK, TrackerTypeOK
<1>3. ReadsCurrent'
  BY <1>2 DEF RowInv, ReadsCurrent, Row
<1>4. QED BY <1>1, <1>3 DEF RowInv

\* processRawEvent starts, and ends, with no read of the row.
LEMMA StartRows ==
  ASSUME TypeOK, RowInv, NEW t \in Trackers, NEW i \in Scans,
         Deliver(t, i) \/ Replay(t, i)
  PROVE  RowInv' /\ MachineStep
<1>1. t \notin fresh BY DEF Deliver, Replay, RowInv, ReadsCurrent
<1>2. /\ UNCHANGED <<booking, custody, movement, canceller, reversed, fresh>>
      /\ tracker' = [tracker EXCEPT ![t] = Tracking("record", i, NoRow, <<>>, 1)]
  BY DEF Deliver, Replay, Begin, rowVars, accountVars
<1>3. fresh' = fresh \ {t} BY <1>1, <1>2
<1>4. QED BY <1>2, <1>3, TrackerReads

\* The UPDATE of a tracker whose read is current is a carrier event.
LEMMA WriteRows ==
  ASSUME TypeOK, RowInv, ReducedEvents, NEW t \in Trackers, WriteShipment(t)
  PROVE  RowInv' /\ MachineStep
<1> DEFINE i == tracker[t].scan
           s == i[1]
           row == tracker[t].seen
           m == EventToMovement[scan[i]]
<1>1. s \in Shipments /\ row = Row(s) /\ scan[i] \in CarrierEventStatuses
  BY TrackedShipment DEF WriteShipment, VersionMatches, RowInv, ReadsCurrent, ReducedEvents
<1>2. /\ movement \in [Shipments -> MovementStates] /\ custody \in [Shipments -> CustodyStates]
      /\ tracker \in [Trackers -> Trackings \cup {Idle}] /\ fresh \subseteq Trackers
  BY DEF TypeOK, RowTypeOK, TrackerTypeOK
<1>3. row.movement = movement[s] /\ row.custody = custody[s]
  BY <1>1 DEF Row
<1>4. m \in MovementStates \ {"NOT_SHIPPED"} BY <1>1, MovementType
<1>5. /\ UNCHANGED <<booking, reversed, canceller>>
      /\ movement' = [movement EXCEPT ![s] =
           IF MovementChanges(row, scan[i]) THEN m ELSE row.movement]
      /\ custody' = IF TakesCustody(row, scan[i])
                      THEN [custody EXCEPT ![s] = "IN_CUSTODY"] ELSE custody
      /\ fresh' = StillFresh({s})
  BY DEF WriteShipment, accountVars
<1>6. ReadsCurrent'
  <2>1. t \notin fresh' BY <1>5 DEF StillFresh
  <2>2. \A u \in Trackers : u # t => tracker'[u] = tracker[u]
    BY <1>2 DEF WriteShipment
  <2>3. ASSUME NEW u \in fresh'
        PROVE  tracker[u].scan[1] \in Shipments \ {s} /\ u \in fresh /\ u \in Trackers /\ u # t
    <3>1. u \in fresh /\ tracker[u].scan[1] # s /\ u \in Trackers /\ u # t
      BY <1>2, <1>5, <2>1 DEF StillFresh
    <3>2. tracker[u].scan[1] \in Shipments
      BY <3>1, TrackedShipment DEF RowInv, ReadsCurrent
    <3>3. QED BY <3>1, <3>2
  <2>4. \A r \in Shipments \ {s} : UNCHANGED Row(r) BY <1>2, <1>5 DEF Row
  <2>5. QED BY <2>2, <2>3, <2>4 DEF RowInv, ReadsCurrent
<1>7. CancellationsAwaited' /\ SoleCanceller'
  <2>1. \A r \in Shipments : custody'[r] = custody[r]
          \/ (custody[r] \notin {"CANCELLED"} /\ custody'[r] = "IN_CUSTODY")
    BY <1>1, <1>2, <1>3, <1>5 DEF TakesCustody, PrePickup
  <2>2. QED BY <1>5, <2>1 DEF RowInv, CancellationsAwaited, SoleCanceller, Attends
<1>8. MachineStep
  <2>1. /\ MovementStates = Machines!MovementStates /\ PrePickup = Machines!PrePickup
        /\ TerminalMovement = Machines!TerminalMovement
    BY DEF MovementStates, Machines!MovementStates, PrePickup, Machines!PrePickup,
           TerminalMovement, Machines!TerminalMovement
  <2>2. CASE MovementChanges(row, scan[i])
    <3>1. movement[s] \notin TerminalMovement
      BY <2>2, <1>3 DEF MovementChanges, Regresses
    <3>2. movement' = [movement EXCEPT ![s] = m] BY <1>5, <2>2
    <3>3. \/ UNCHANGED custody
          \/ /\ custody[s] \in PrePickup \cup {"CANCEL_REQUESTED"}
             /\ custody' = [custody EXCEPT ![s] = "IN_CUSTODY"]
      BY <1>3, <1>5 DEF TakesCustody
    <3>4. Machines!CarrierEvent(s)
      BY <1>4, <1>5, <2>1, <3>1, <3>2, <3>3 DEF Machines!CarrierEvent
    <3>5. QED BY <1>1, <3>4 DEF MachineStep, Machines!Next
  <2>3. CASE ~MovementChanges(row, scan[i]) /\ TakesCustody(row, scan[i])
    <3>1. movement[s] = "IN_TRANSIT"
      BY <1>1, <1>3, <2>3 DEF MovementChanges, TakesCustody, EventToMovement
    <3>2. movement' = [movement EXCEPT ![s] = "IN_TRANSIT"] BY <1>3, <1>5, <2>3, <3>1
    <3>3. /\ custody[s] \in PrePickup \cup {"CANCEL_REQUESTED"}
          /\ custody' = [custody EXCEPT ![s] = "IN_CUSTODY"]
      BY <1>3, <1>5, <2>3 DEF TakesCustody
    <3>4. /\ "IN_TRANSIT" \in MovementStates \ {"NOT_SHIPPED"}
          /\ "IN_TRANSIT" \notin TerminalMovement
      BY DEF MovementStates, TerminalMovement
    <3>5. Machines!CarrierEvent(s)
      BY <1>5, <2>1, <3>1, <3>2, <3>3, <3>4 DEF Machines!CarrierEvent
    <3>6. QED BY <1>1, <3>5 DEF MachineStep, Machines!Next
  <2>4. CASE ~MovementChanges(row, scan[i]) /\ ~TakesCustody(row, scan[i])
    <3>1. UNCHANGED <<movement, custody>>
      BY <1>1, <1>2, <1>3, <1>5, <2>4
    <3>2. QED BY <1>5, <3>1 DEF MachineStep, Machines!vars
  <2>5. QED BY <2>2, <2>3, <2>4
<1>9. QED BY <1>6, <1>7, <1>8 DEF RowInv

\* The steps of processRawEvent.
LEMMA TrackerRows ==
  ASSUME TypeOK, RowInv, ArrivedScans, ReducedEvents, NEW t \in Trackers,
         TrackerStep(t) \/ SeamThrows(t) \/ CrashTracker(t)
  PROVE  RowInv' /\ MachineStep
<1>1. CASE WriteShipment(t) BY <1>1, WriteRows
<1>2. ASSUME ~WriteShipment(t) PROVE RowInv' /\ MachineStep
  <2>1. UNCHANGED <<booking, custody, movement, canceller, reversed>>
    BY <1>2 DEF TrackerStep, RecordEvent, ReadShipment, VersionMismatch, CallSeam, Accept,
                SeamThrows, CrashTracker, rowVars, accountVars
  <2>2. PICK x : tracker' = [tracker EXCEPT ![t] = x]
    BY TrackerMove DEF TrackerMoves
  <2>3. tracker'[t] = x BY <2>2 DEF TypeOK, TrackerTypeOK
  <2>4. CASE fresh' = fresh \ {t} BY <2>1, <2>2, <2>4, TrackerReads
  <2>5. CASE tracker[t].pc # "write" /\ UNCHANGED fresh
    <3>1. fresh' = fresh \ {t} BY <2>5 DEF RowInv, ReadsCurrent
    <3>2. QED BY <3>1, <2>4
  <2>6. CASE ReadShipment(t)
    <3>1. CASE UNCHANGED fresh BY <3>1, <2>5, <2>6 DEF ReadShipment
    <3>2. CASE /\ tracker' = [tracker EXCEPT ![t] =
                    Tracking("write", @.scan, Row(@.scan[1]), <<>>, @.tries)]
               /\ fresh' = fresh \cup {t}
      <4>1. x.pc = "write" /\ x.seen = Row(tracker[t].scan[1]) /\ x.scan = tracker[t].scan
        BY <2>3, <3>2 DEF Tracking, TypeOK, TrackerTypeOK
      <4>2. QED BY <2>1, <2>2, <3>2, <4>1, TrackerReads
    <3>3. QED BY <2>6, <3>1, <3>2 DEF ReadShipment
  <2>7. CASE VersionMismatch(t)
    <3>1. fresh' = fresh \ {t}
      BY <2>7 DEF VersionMismatch, VersionMatches, Throw, Rest
    <3>2. QED BY <3>1, <2>4
  <2>8. QED BY <1>2, <2>4, <2>5, <2>6, <2>7
            DEF TrackerStep, RecordEvent, CallSeam, Accept, SeamThrows, CrashTracker,
                Finish, Throw, Rest
<1>3. QED BY <1>1, <1>2

\* At first nobody has read a row or asked for a cancellation.
LEMMA RowInvInit == Init => RowInv /\ Machines!Init
<1> SUFFICES ASSUME Init PROVE RowInv /\ Machines!Init
  OBVIOUS
<1>1. RowInv
  BY DEF Init, RowInv, ReadsCurrent, CancellationsAwaited, SoleCanceller, Attends, Idle
<1>2. Machines!Init BY DEF Init, Machines!Init
<1>3. QED BY <1>1, <1>2

\* Every step keeps reads and cancellations in line with the rows, and is a step
\* of the machines.
LEMMA RowInvNext == TypeInv /\ RowInv /\ [Next]_vars => RowInv' /\ MachineStep
<1> SUFFICES ASSUME TypeInv, RowInv, [Next]_vars PROVE RowInv' /\ MachineStep
  OBVIOUS
<1> TypeOK /\ ArrivedScans /\ ReducedEvents BY DEF TypeInv
<1> Workers \subseteq Trackers /\ Viewers \subseteq Trackers BY DEF Trackers
<1>1. ASSUME NEW c \in Cancellers, \/ \E s \in Shipments : RequestCancellation(c, s)
                                   \/ CancellerStep(c)
      PROVE  RowInv' /\ MachineStep
  BY <1>1, CancellationRows
<1>2. ASSUME NEW p \in Schedulers, \/ \E group \in SUBSET Shipments : SelectEligible(p, group)
                                   \/ SchedulerStep(p)
      PROVE  RowInv' /\ MachineStep
  BY <1>2, PickupRows
<1>3. ASSUME \/ \E s \in Shipments, status \in Statuses : CourierScan(s, status)
             \/ \E i \in Scans : Rekey(i) \/ IngestStep(i)
             \/ ChangeSubscription \/ ToggleAccount
             \/ UNCHANGED vars
      PROVE  RowInv' /\ MachineStep
  BY <1>3, OutsideRows
<1>4. ASSUME NEW w \in Workers, NEW i \in Scans, Deliver(w, i) PROVE RowInv' /\ MachineStep
  BY <1>4, StartRows
<1>5. ASSUME NEW v \in Viewers, NEW i \in Scans, Replay(v, i) PROVE RowInv' /\ MachineStep
  BY <1>5, StartRows
<1>6. ASSUME NEW t \in Trackers, TrackerStep(t) \/ SeamThrows(t) \/ CrashTracker(t)
      PROVE  RowInv' /\ MachineStep
  BY <1>6, TrackerRows
<1>7. QED BY <1>1, <1>2, <1>3, <1>4, <1>5, <1>6 DEF Next

(***************************************************************************)
(* The seams of a scan.                                                    *)
(***************************************************************************)

\* No movement state calls a seam twice.
LEMMA SeamsDistinct ==
  /\ \A m \in MovementStates : NoRepeat(SeamsOf(m))
  /\ NoRepeat(<<"ndrAttempt">>) /\ NoRepeat(<<>>)
<1>1. NoRepeat(<<"ndrAttempt">>) /\ NoRepeat(<<>>) BY DEF NoRepeat
<1> DEFINE Rests == {<<"ndrClose", "codExpectation">>, <<"ndrAttempt">>, <<"codRto">>,
                     <<"ndrClose", "codRto">>, <<"ndrClose">>, <<>>}
<1>2. ASSUME NEW rest \in Rests
      PROVE  rest \in Seq(SeamNames) /\ NoRepeat(rest) /\ \A n \in 1..Len(rest) : rest[n] # "syncBack"
  <2>1. rest \in Seq(SeamNames)
    <3>1. /\ <<"ndrClose", "codExpectation">> \in Seq(SeamNames) /\ <<"ndrAttempt">> \in Seq(SeamNames)
          /\ <<"codRto">> \in Seq(SeamNames) /\ <<"ndrClose", "codRto">> \in Seq(SeamNames)
          /\ <<"ndrClose">> \in Seq(SeamNames) /\ <<>> \in Seq(SeamNames)
      BY DEF SeamNames
    <3>2. QED BY <1>2, <3>1
  <2>2. \A n \in 1..Len(rest) : rest[n] # "syncBack" BY <1>2
  <2>3. NoRepeat(rest) BY <1>2 DEF NoRepeat
  <2>4. QED BY <2>1, <2>2, <2>3
<1>3. ASSUME NEW rest \in Rests PROVE NoRepeat(<<"syncBack">> \o rest)
  <2>1. <<"syncBack">> \in Seq(SeamNames) /\ Len(<<"syncBack">>) = 1 BY DEF SeamNames
  <2>2. Len(rest) \in Nat /\ DOMAIN rest = 1..Len(rest) BY <1>2
  <2> DEFINE all == <<"syncBack">> \o rest
  <2>3. /\ all \in Seq(SeamNames) /\ Len(all) = 1 + Len(rest)
        /\ \A n \in 1..(1 + Len(rest)) : all[n] = IF n <= 1 THEN "syncBack" ELSE rest[n - 1]
    <3>1. /\ all \in Seq(SeamNames) /\ Len(all) = Len(<<"syncBack">>) + Len(rest)
          /\ \A n \in 1..(Len(<<"syncBack">>) + Len(rest)) :
               all[n] = IF n <= Len(<<"syncBack">>) THEN <<"syncBack">>[n]
                                                  ELSE rest[n - Len(<<"syncBack">>)]
      <4> DEFINE first == <<"syncBack">>
      <4>1. first \in Seq(SeamNames) /\ rest \in Seq(SeamNames) BY <1>2, <2>1
      <4> HIDE DEF first
      <4>2. /\ first \o rest \in Seq(SeamNames) /\ Len(first \o rest) = Len(first) + Len(rest)
            /\ \A n \in 1..(Len(first) + Len(rest)) :
                 (first \o rest)[n] = IF n <= Len(first) THEN first[n] ELSE rest[n - Len(first)]
        BY <4>1, ConcatProperties
      <4>3. QED BY <4>2 DEF first
    <3>2. <<"syncBack">>[1] = "syncBack" OBVIOUS
    <3>3. QED BY <3>1, <3>2, <2>1, <2>2
  <2>4. DOMAIN all = 1..(1 + Len(rest)) BY <2>3
  <2> HIDE DEF all
  <2>5. ASSUME NEW a \in DOMAIN all, NEW b \in DOMAIN all, all[a] = all[b] PROVE a = b
    <3>1. \A n \in DOMAIN all : n > 1 => n - 1 \in 1..Len(rest) /\ all[n] = rest[n - 1] /\ all[n] # "syncBack"
      BY <1>2, <2>2, <2>3, <2>4
    <3>2. CASE a = 1 \/ b = 1 BY <2>2, <2>3, <2>4, <2>5, <3>1, <3>2
    <3>3. CASE a > 1 /\ b > 1
      <4>1. a - 1 = b - 1 BY <1>2, <2>2, <2>5, <3>1, <3>3 DEF NoRepeat
      <4>2. QED BY <4>1, <2>2, <2>4
    <3>4. QED BY <2>2, <2>4, <3>2, <3>3
  <2>6. NoRepeat(all) BY <2>5 DEF NoRepeat
  <2>7. QED BY <2>6 DEF all
<1>4. ASSUME NEW m \in MovementStates PROVE \E rest \in Rests : SeamsOf(m) = <<"syncBack">> \o rest
  <2> DEFINE first == <<"syncBack">>
  <2>1. \E rest \in Rests : SeamsOf(m) = first \o rest
    <3> HIDE DEF first
    <3>1. QED BY DEF SeamsOf, first
  <2>2. QED BY <2>1
<1>5. QED BY <1>1, <1>3, <1>4

\* Calling the first of the seams left moves it from one list to the other.
LEMMA HeadMoves ==
  ASSUME NEW called \in Seq(SeamNames), NEW todo \in Seq(SeamNames), todo # <<>>,
         NoRepeat(called \o todo)
  PROVE  /\ NoRepeat(Append(called, Head(todo)))
         /\ NoRepeat(Append(called, Head(todo)) \o Tail(todo))
<1> DEFINE all == called \o todo
           next == Append(called, Head(todo))
<1>1. Len(todo) \in Nat /\ Len(todo) >= 1 /\ Len(called) \in Nat BY EmptySeq
<1>2. /\ Head(todo) = todo[1] /\ Tail(todo) \in Seq(SeamNames) /\ Len(Tail(todo)) = Len(todo) - 1
      /\ \A n \in 1..Len(Tail(todo)) : Tail(todo)[n] = todo[n + 1]
  BY <1>1
<1>3. /\ DOMAIN all = 1..(Len(called) + Len(todo))
      /\ \A n \in 1..Len(called) : all[n] = called[n]
      /\ \A n \in 1..Len(todo) : all[Len(called) + n] = todo[n]
  BY <1>1
<1>4. /\ next \in Seq(SeamNames) /\ Len(next) = Len(called) + 1
      /\ \A n \in 1..Len(called) : next[n] = called[n]
      /\ next[Len(called) + 1] = todo[1]
  BY <1>1, <1>2
<1>5. DOMAIN next = 1..(Len(called) + 1) /\ \A n \in DOMAIN next : n \in DOMAIN all /\ next[n] = all[n]
  BY <1>1, <1>3, <1>4
<1>6. NoRepeat(next) BY <1>5 DEF NoRepeat
<1>7. next \o Tail(todo) = all
  <2>1. /\ next \o Tail(todo) \in Seq(SeamNames) /\ all \in Seq(SeamNames)
        /\ Len(next \o Tail(todo)) = Len(all) /\ Len(all) = Len(called) + Len(todo)
    BY <1>1, <1>2, <1>4
  <2>2. ASSUME NEW n \in 1..Len(all) PROVE (next \o Tail(todo))[n] = all[n]
    <3>1. CASE n <= Len(called) + 1 BY <1>1, <1>2, <1>4, <1>5, <3>1
    <3>2. CASE n > Len(called) + 1
      <4>1. (next \o Tail(todo))[n] = Tail(todo)[n - (Len(called) + 1)]
        BY <1>1, <1>2, <1>4, <2>1, <3>2
      <4>2. n - (Len(called) + 1) \in 1..Len(Tail(todo)) BY <1>1, <1>2, <2>1, <3>2
      <4>3. Tail(todo)[n - (Len(called) + 1)] = todo[n - Len(called)] BY <1>1, <1>2, <4>2
      <4>4. all[n] = todo[n - Len(called)] BY <1>1, <1>3, <2>1, <3>2
      <4>5. QED BY <4>1, <4>3, <4>4
    <3>3. QED BY <1>1, <2>1, <3>1, <3>2
  <2>3. QED BY <2>1, <2>2
<1>8. QED BY <1>6, <1>7

\* A step that records, calls and reduces nothing.
LEMMA SeamsUntouched ==
  ASSUME SeamInv, UNCHANGED <<stored, fired>>,
         \A t \in Trackers : UNCHANGED tracker[t] \/ (tracker[t].pc \in {"idle", "record", "accept"})',
         \A t \in Trackers, i \in Scans : Reducing(t, i)' => Reducing(t, i)
  PROVE  SeamInv'
<1>1. ReducedByOne' BY DEF SeamInv, ReducedByOne
<1>2. SeamsAhead' BY DEF SeamInv, SeamsAhead
<1>3. NoneUnrecorded' /\ OncePerReport' BY DEF SeamInv, NoneUnrecorded, OncePerReport
<1>4. QED BY <1>1, <1>2, <1>3 DEF SeamInv

\* A step of processRawEvent: recording the event makes this tracker the one
\* that reduces it, its seams are called in order, and then it is done.
LEMMA TrackerSeams ==
  ASSUME TypeInv, SeamInv, NEW t \in Trackers, TrackerStep(t) \/ SeamThrows(t) \/ CrashTracker(t)
  PROVE  SeamInv'
<1> DEFINE i == tracker[t].scan
           r == tracker[t]
<1>1. r.pc # "idle" /\ r \in Trackings /\ i \in Scans
  BY TrackingType
  DEF TypeInv, TypeOK, TrackerTypeOK, TrackerStep, RecordEvent, ReadShipment, WriteShipment,
      VersionMismatch, CallSeam, Accept, SeamThrows, CrashTracker
<1>2. r.seen \in Rows /\ r.todo \in Seq(SeamNames) BY <1>1 DEF Trackings
<1>3. /\ tracker \in [Trackers -> Trackings \cup {Idle}] /\ fired \in [Scans -> Seq(SeamNames)]
      /\ \A u \in Trackers : tracker[u].pc # "idle" => tracker[u].scan \in Scans
  BY TrackingType DEF TypeInv, TypeOK, TrackerTypeOK, EventTypeOK
<1>4. PICK x \in Trackings \cup {Idle} :
        tracker' = [tracker EXCEPT ![t] = x] /\ (x.pc # "idle" => x.scan = i)
  BY TrackerMove DEF TypeInv, TrackerMoves
<1>5. tracker'[t] = x /\ \A u \in Trackers : u # t => tracker'[u] = tracker[u]
  BY <1>3, <1>4
<1>6. ASSUME x.pc \in {"idle", "accept"}, UNCHANGED <<stored, fired>>, r.pc # "record" \/ x.pc = "idle"
      PROVE  SeamInv'
  <2>1. \A j \in Scans : Reducing(t, j)' => Reducing(t, j)
    BY <1>1, <1>4, <1>5, <1>6 DEF Reducing, Trackings
  <2>2. \A u \in Trackers, j \in Scans : Reducing(u, j)' => Reducing(u, j)
    BY <1>5, <2>1 DEF Reducing
  <2>3. \A u \in Trackers : UNCHANGED tracker[u] \/ (tracker[u].pc \in {"idle", "record", "accept"})'
    BY <1>5, <1>6
  <2>4. QED BY <1>6, <2>2, <2>3, SeamsUntouched
<1>7. CASE RecordEvent(t) /\ i \in stored
  <2>1. x.pc = "idle" /\ UNCHANGED <<stored, fired>>
    BY <1>3, <1>5, <1>7 DEF RecordEvent, AlreadyStored, Finish, Rest, Idle
  <2>2. QED BY <2>1, <1>6
<1>8. CASE RecordEvent(t) /\ i \notin stored
  <2>1. x.pc \in {"idle", "read"} /\ stored' = stored \cup {i} /\ UNCHANGED fired
    BY <1>1, <1>3, <1>5, <1>8 DEF RecordEvent, AlreadyStored, Finish, Rest, Idle, At, Trackings
  <2>2. \A u \in Trackers : ~Reducing(u, i)
    BY <1>1, <1>8 DEF SeamInv, ReducedByOne
  <2>3. ReducedByOne'
    BY <1>1, <1>4, <1>5, <2>1, <2>2 DEF SeamInv, ReducedByOne, Reducing
  <2>4. fired[i] = <<>> BY <1>1, <1>8 DEF SeamInv, NoneUnrecorded
  <2>5. SeamsAhead' BY <1>4, <1>5, <2>1, <2>4 DEF SeamInv, SeamsAhead
  <2>6. NoneUnrecorded' /\ OncePerReport' BY <2>1 DEF SeamInv, NoneUnrecorded, OncePerReport
  <2>7. QED BY <2>3, <2>5, <2>6 DEF SeamInv
<1>9. ASSUME r.pc \in {"read", "write"}, x.pc \in {"read", "write", "seams"},
             UNCHANGED <<stored, fired>>, x.pc = "seams" => x.todo \in Seq(SeamNames) /\ NoRepeat(x.todo)
      PROVE  SeamInv'
  <2>1. fired[i] = <<>> /\ Reducing(t, i) BY <1>9 DEF SeamInv, SeamsAhead, Reducing
  <2>2. \A u \in Trackers, j \in Scans : Reducing(u, j)' => Reducing(u, j)
    BY <1>4, <1>5, <1>9, <2>1 DEF Reducing
  <2>3. ReducedByOne' BY <1>9, <2>2 DEF SeamInv, ReducedByOne
  <2>4. x.pc = "seams" => NoRepeat(fired[i] \o x.todo)
    BY <1>9, <2>1, ConcatEmptySeq
  <2>5. SeamsAhead' BY <1>4, <1>5, <1>9, <2>1, <2>4 DEF SeamInv, SeamsAhead
  <2>6. NoneUnrecorded' /\ OncePerReport' BY <1>9 DEF SeamInv, NoneUnrecorded, OncePerReport
  <2>7. QED BY <2>3, <2>5, <2>6 DEF SeamInv
<1>10. CASE ReadShipment(t)
  <2>1. UNCHANGED <<stored, fired>> /\ r.pc = "read" BY <1>10 DEF ReadShipment
  <2>2. \/ x.pc \in {"write", "accept"}
        \/ x.pc = "seams" /\ x.todo = <<"ndrAttempt">>
    <3>1. \E row, tries : \E pc \in {"write", "accept"} :
            \/ tracker' = [tracker EXCEPT ![t] = Tracking("seams", i, row, <<"ndrAttempt">>, tries)]
            \/ tracker' = [tracker EXCEPT ![t] = Tracking(pc, i, row, <<>>, tries)]
      BY <1>10 DEF ReadShipment
    <3>2. QED BY <3>1, <1>3, <1>5 DEF Tracking
  <2>3. <<"ndrAttempt">> \in Seq(SeamNames) BY DEF SeamNames
  <2>4. QED BY <1>6, <1>9, <2>1, <2>2, <2>3, SeamsDistinct
<1>11. CASE WriteShipment(t)
  <2>1. UNCHANGED <<stored, fired>> /\ r.pc = "write" BY <1>11 DEF WriteShipment, eventVars
  <2>2. x.pc = "accept" \/ (x.pc = "seams" /\ x.todo = SeamsOf(EventToMovement[scan[i]]))
    <3>1. \E tries, row :
            \/ tracker' = [tracker EXCEPT ![t] =
                 Tracking("seams", i, row, SeamsOf(EventToMovement[scan[i]]), tries)]
            \/ tracker' = [tracker EXCEPT ![t] = Tracking("accept", i, row, <<>>, tries)]
      BY <1>11 DEF WriteShipment
    <3>2. QED BY <3>1, <1>3, <1>5 DEF Tracking
  <2>3. scan[i] \in CarrierEventStatuses BY <2>1 DEF TypeInv, ReducedEvents
  <2>4. QED BY <1>6, <1>9, <2>1, <2>2, <2>3, MovementType, SeamsType, SeamsDistinct
<1>12. CASE VersionMismatch(t)
  <2>1. UNCHANGED <<stored, fired>> /\ r.pc = "write" BY <1>12 DEF VersionMismatch, eventVars
  <2>2. x.pc \in {"idle", "read"}
    BY <1>3, <1>5, <1>12 DEF VersionMismatch, Throw, Rest, Tracking, Idle
  <2>3. QED BY <1>6, <1>9, <2>1, <2>2
<1>13. CASE CallSeam(t)
  <2>1. /\ r.pc = "seams" /\ UNCHANGED stored
        /\ fired' = [fired EXCEPT ![i] = Append(@, Head(r.todo))]
        /\ x.pc \in {"seams", "accept"} /\ x.todo = Tail(r.todo)
    BY <1>3, <1>5, <1>13 DEF CallSeam, Tracking
  <2>2. fired[i] \in Seq(SeamNames) /\ r.todo # <<>> /\ NoRepeat(fired[i] \o r.todo)
    BY <1>1, <1>3, <2>1 DEF TypeInv, ReducedEvents, SeamInv, SeamsAhead
  <2>3. NoRepeat(fired'[i]) /\ NoRepeat(fired'[i] \o Tail(r.todo))
    BY <1>1, <1>2, <1>3, <2>1, <2>2, HeadMoves
  <2>4. \A j \in Scans : j # i => fired'[j] = fired[j] BY <1>3, <2>1
  <2>5. Reducing(t, i) BY <2>1 DEF Reducing
  <2>6. \A u \in Trackers, j \in Scans : Reducing(u, j)' => Reducing(u, j)
    BY <1>4, <1>5, <2>1, <2>5 DEF Reducing
  <2>7. ReducedByOne' BY <2>1, <2>6 DEF SeamInv, ReducedByOne
  <2>8. ASSUME NEW u \in Trackers, u # t, tracker[u].pc \in {"read", "write", "seams"}
        PROVE  tracker[u].scan \in Scans /\ tracker[u].scan # i
    BY <1>1, <1>3, <2>5, <2>8 DEF SeamInv, ReducedByOne, Reducing
  <2>9. SeamsAhead'
    BY <1>4, <1>5, <2>1, <2>3, <2>4, <2>8 DEF SeamInv, SeamsAhead
  <2>10. NoneUnrecorded'
    BY <1>1, <2>1, <2>4, <2>5 DEF SeamInv, NoneUnrecorded, ReducedByOne
  <2>11. OncePerReport' BY <2>3, <2>4 DEF SeamInv, OncePerReport
  <2>12. QED BY <2>7, <2>9, <2>10, <2>11 DEF SeamInv
<1>14. CASE Accept(t) \/ SeamThrows(t) \/ CrashTracker(t)
  <2>1. x.pc = "idle" /\ UNCHANGED <<stored, fired>>
    BY <1>3, <1>5, <1>14 DEF Accept, SeamThrows, CrashTracker, Finish, Throw, Rest, Idle, eventVars
  <2>2. QED BY <1>6, <2>1
<1>15. QED BY <1>7, <1>8, <1>10, <1>11, <1>12, <1>13, <1>14 DEF TrackerStep

\* Only processRawEvent touches the seams of a scan.
LEMMA SeamInvNext == TypeInv /\ SeamInv /\ [Next]_vars => SeamInv'
<1> SUFFICES ASSUME TypeInv, SeamInv, [Next]_vars PROVE SeamInv'
  OBVIOUS
<1>1. ASSUME \/ \E c \in Cancellers, s \in Shipments : RequestCancellation(c, s)
             \/ \E c \in Cancellers : CancellerStep(c)
             \/ \E p \in Schedulers, group \in SUBSET Shipments : SelectEligible(p, group)
             \/ \E p \in Schedulers : SchedulerStep(p)
             \/ ChangeSubscription \/ ToggleAccount
      PROVE  SeamInv'
  <2>1. UNCHANGED tracker BY <1>1, RequestsQuiet
  <2>2. UNCHANGED <<stored, fired>>
    <3>1. ASSUME NEW c \in Cancellers, \/ \E s \in Shipments : RequestCancellation(c, s)
                                       \/ CancellerStep(c)
          PROVE  UNCHANGED <<stored, fired>>
      BY <3>1 DEF RequestCancellation, CancellerStep, CourierAnswersCancel, SettleCancelled,
                  SettleRejected, ReverseEntitlement, CrashCanceller, eventVars
    <3>2. ASSUME NEW p \in Schedulers, \/ \E group \in SUBSET Shipments : SelectEligible(p, group)
                                       \/ SchedulerStep(p)
          PROVE  UNCHANGED <<stored, fired>>
      BY <3>2 DEF SelectEligible, SchedulerStep, CourierAnswersPickup, MarkScheduled,
                  AllocateManifestNumber, StoreManifest, CrashScheduler, eventVars
    <3>3. CASE ChangeSubscription \/ ToggleAccount
      BY <3>3 DEF ChangeSubscription, ToggleAccount, eventVars
    <3>4. QED BY <1>1, <3>1, <3>2, <3>3
  <2>3. QED BY <2>1, <2>2, SeamsUntouched DEF Reducing
<1>2. ASSUME \/ \E s \in Shipments, status \in Statuses : CourierScan(s, status)
             \/ \E i \in Scans : Rekey(i) \/ IngestStep(i)
             \/ UNCHANGED vars
      PROVE  SeamInv'
  <2>1. UNCHANGED <<stored, fired, tracker>>
    BY <1>2 DEF CourierScan, Rekey, IngestStep, Webhook, Poll, Persist, EnqueueRawEvent, LoseRawEvent,
                RecoverStalled, vars, eventVars, trackerVars
  <2>2. QED BY <2>1, SeamsUntouched DEF Reducing
<1>3. ASSUME NEW t \in Trackers, NEW i \in Scans, Deliver(t, i) \/ Replay(t, i)
      PROVE  SeamInv'
  <2>1. /\ tracker' = [tracker EXCEPT ![t] = Tracking("record", i, NoRow, <<>>, 1)]
        /\ UNCHANGED <<stored, fired>>
    BY <1>3 DEF Deliver, Replay, Begin, eventVars
  <2>2. tracker'[t].pc = "record" /\ \A u \in Trackers : u # t => tracker'[u] = tracker[u]
    BY <2>1 DEF TypeInv, TypeOK, TrackerTypeOK, Tracking
  <2>3. \A u \in Trackers, j \in Scans : Reducing(u, j)' => Reducing(u, j)
    BY <2>2 DEF Reducing
  <2>4. \A u \in Trackers : UNCHANGED tracker[u] \/ (tracker[u].pc \in {"idle", "record", "accept"})'
    BY <2>2
  <2>5. QED BY <2>1, <2>3, <2>4, SeamsUntouched
<1>4. Workers \subseteq Trackers /\ Viewers \subseteq Trackers BY DEF Trackers
<1>5. ASSUME NEW w \in Workers, NEW i \in Scans, Deliver(w, i) PROVE SeamInv'
  BY <1>3, <1>4, <1>5
<1>6. ASSUME NEW v \in Viewers, NEW i \in Scans, Replay(v, i) PROVE SeamInv'
  BY <1>3, <1>4, <1>6
<1>7. ASSUME NEW t \in Trackers, TrackerStep(t) \/ SeamThrows(t) \/ CrashTracker(t) PROVE SeamInv'
  BY <1>7, TrackerSeams
<1>8. QED BY <1>1, <1>2, <1>5, <1>6, <1>7 DEF Next

\* At first no event is recorded and no seam called.
LEMMA SeamInvInit == Init => SeamInv
BY DEF Init, SeamInv, ReducedByOne, Reducing, SeamsAhead, NoneUnrecorded, OncePerReport, NoRepeat, Idle

(***************************************************************************)
(* The theorems.                                                           *)
(***************************************************************************)

\* The inductive invariant holds: types, rows and seams together.
THEOREM SafetyInvariant == Spec => []SafetyInv
<1>1. Init => SafetyInv
  BY TypeInvInit, RowInvInit, SeamInvInit DEF SafetyInv
<1>2. SafetyInv /\ [Next]_vars => SafetyInv'
  BY TypeInvNext, RowInvNext, SeamInvNext DEF SafetyInv
<1>3. QED BY <1>1, <1>2, PTL DEF Spec

\* A pending cancellation belongs to one request, so a rejection restores the
\* state that request replaced.
THEOREM CancellerAlone == Spec => []SoleCanceller
<1>1. SafetyInv => SoleCanceller BY DEF SafetyInv, RowInv
<1>2. QED BY <1>1, SafetyInvariant, PTL

\* Cancellations, pickups and trackers together implement the machines of the
\* shipment row: ended movements and custody stay, an entitlement is reversed
\* only after a settled cancellation.
THEOREM RowsFollowMachines == Spec => ImplementsMachines
<1>1. Init => Machines!Init BY RowInvInit
<1>2. SafetyInv /\ [Next]_vars => [Machines!Next]_Machines!vars
  BY RowInvNext DEF SafetyInv, MachineStep
<1>3. QED BY <1>1, <1>2, SafetyInvariant, PTL DEF Spec, ImplementsMachines, Machines!Spec

(***************************************************************************)
(* The ending of a parcel: one scan closes its case.                       *)
(***************************************************************************)

\* An ending calls its seams, or is about to.
ClosingBy(t, i) == Ends(i) /\ tracker[t].pc = "seams" /\ tracker[t].scan = i
Closing(i) == EndedBy(i) \/ \E t \in Trackers : ClosingBy(t, i)

\* A report that calls a seam is one the courier made; one that closes has ended
\* the movement of its row, and does it alone.
CalledOnMade == \A i \in Scans : fired[i] # <<>> => scan[i] # "NONE"
ClosedOnce == \A i, j \in Scans : i[1] = j[1] /\ Closing(i) /\ Closing(j) => i = j
EndingInv ==
  /\ CalledOnMade
  /\ \A i \in Scans : Closing(i) => movement[i[1]] \in TerminalMovement
  /\ ClosedOnce

\* What the machines of a row never leave: custody once taken, an ended movement.
LEMMA RowsSettle ==
  ASSUME TypeOK, MachineStep
  PROVE  \A s \in Shipments :
           /\ custody[s] = "IN_CUSTODY" => custody'[s] = "IN_CUSTODY"
           /\ movement[s] \in TerminalMovement => movement'[s] = movement[s]
<1> TerminalMovement = Machines!TerminalMovement /\ PrePickup = Machines!PrePickup
  BY DEF TerminalMovement, Machines!TerminalMovement, PrePickup, Machines!PrePickup
<1> custody \in [Shipments -> CustodyStates] /\ movement \in [Shipments -> MovementStates]
  BY DEF TypeOK, RowTypeOK
<1>1. CASE UNCHANGED Machines!vars BY <1>1 DEF Machines!vars
<1>2. ASSUME NEW group \in SUBSET Shipments, Machines!Schedule(group)
      PROVE  \A s \in Shipments :
               /\ custody[s] = "IN_CUSTODY" => custody'[s] = "IN_CUSTODY"
               /\ movement[s] \in TerminalMovement => movement'[s] = movement[s]
  BY <1>2 DEF Machines!Schedule
<1>3. ASSUME NEW r \in Shipments,
             \/ Machines!RequestCancel(r) \/ Machines!RejectCancel(r) \/ Machines!ConfirmCancel(r)
             \/ Machines!CarrierEvent(r) \/ Machines!Reverse(r)
      PROVE  \A s \in Shipments :
               /\ custody[s] = "IN_CUSTODY" => custody'[s] = "IN_CUSTODY"
               /\ movement[s] \in TerminalMovement => movement'[s] = movement[s]
  BY <1>3 DEF Machines!RequestCancel, Machines!RejectCancel, Machines!ConfirmCancel,
              Machines!CarrierEvent, Machines!Reverse, PrePickup
<1>4. QED BY <1>1, <1>2, <1>3 DEF MachineStep, Machines!Next

\* A step after which no other scan closes.
LEMMA EndingsKept ==
  ASSUME EndingInv, CalledOnMade', \A i \in Scans : Closing(i)' => Closing(i),
         \A s \in Shipments : movement[s] \in TerminalMovement => movement'[s] = movement[s]
  PROVE  EndingInv'
<1>1. \A i \in Scans : i[1] \in Shipments BY DEF Scans
<1>2. QED BY <1>1 DEF EndingInv, ClosedOnce

\* processRawEvent: a scan starts closing when it ends the movement of its row.
LEMMA TrackerEndings ==
  ASSUME TypeInv, RowInv, EndingInv, MachineStep, NEW t \in Trackers,
         TrackerStep(t) \/ SeamThrows(t) \/ CrashTracker(t)
  PROVE  EndingInv'
<1> DEFINE i == tracker[t].scan
           r == tracker[t]
<1>1. r.pc # "idle" /\ r \in Trackings /\ i \in Scans /\ scan[i] # "NONE" /\ UNCHANGED scan
  BY TrackingType
  DEF TypeInv, TypeOK, TrackerTypeOK, TrackerStep, RecordEvent, ReadShipment, WriteShipment,
      VersionMismatch, CallSeam, Accept, SeamThrows, CrashTracker, ArrivedScans, courierVars
<1>2. tracker \in [Trackers -> Trackings \cup {Idle}] /\ fired \in [Scans -> Seq(SeamNames)]
  BY DEF TypeInv, TypeOK, TrackerTypeOK, EventTypeOK
<1>3. \A s \in Shipments : movement[s] \in TerminalMovement => movement'[s] = movement[s]
  BY RowsSettle DEF TypeInv
<1>4. PICK x \in Trackings \cup {Idle} :
        tracker' = [tracker EXCEPT ![t] = x] /\ (x.pc # "idle" => x.scan = i)
  BY TrackerMove DEF TypeInv, TrackerMoves
<1>5. tracker'[t] = x /\ \A u \in Trackers : u # t => tracker'[u] = tracker[u]
  BY <1>2, <1>4
<1>6. \A j \in Scans : Ends(j)' <=> Ends(j) BY <1>1 DEF Ends
<1>7. ASSUME UNCHANGED fired PROVE CalledOnMade' /\ \A j \in Scans : EndedBy(j)' => EndedBy(j)
  BY <1>1, <1>6, <1>7 DEF EndingInv, CalledOnMade, EndedBy
<1>8. ASSUME UNCHANGED fired, x.pc = "seams" => ~Ends(i) PROVE EndingInv'
  <2>1. \A u \in Trackers, j \in Scans : ClosingBy(u, j)' => ClosingBy(u, j)
    BY <1>4, <1>5, <1>6, <1>8 DEF ClosingBy
  <2>2. \A j \in Scans : Closing(j)' => Closing(j) BY <1>7, <1>8, <2>1 DEF Closing
  <2>3. QED BY <1>3, <1>7, <1>8, <2>2, EndingsKept
<1>9. CASE WriteShipment(t)
  <2> DEFINE m == EventToMovement[scan[i]]
             s == i[1]
  <2>1. /\ s \in Shipments /\ r.seen = Row(s) /\ scan[i] \in CarrierEventStatuses
        /\ UNCHANGED fired
    BY <1>9, TrackedShipment
    DEF WriteShipment, VersionMatches, RowInv, ReadsCurrent, TypeInv, ReducedEvents, eventVars
  <2>2. CASE MovementChanges(r.seen, scan[i]) /\ m \in TerminalMovement
    <3>1. movement[s] \notin TerminalMovement
      BY <2>1, <2>2 DEF MovementChanges, Regresses, Row
    <3>2. movement'[s] = m
      BY <1>9, <2>1, <2>2 DEF WriteShipment, TypeInv, TypeOK, RowTypeOK
    <3>3. \A j \in Scans : j # i => (Closing(j)' => Closing(j))
      <4>1. \A u \in Trackers, j \in Scans : j # i => (ClosingBy(u, j)' => ClosingBy(u, j))
        BY <1>4, <1>5, <1>6 DEF ClosingBy
      <4>2. QED BY <1>7, <2>1, <4>1 DEF Closing
    <3>4. \A j \in Scans : j[1] = s => ~Closing(j) BY <3>1 DEF EndingInv
    <3>5. \A j \in Scans : Closing(j)' => movement'[j[1]] \in TerminalMovement
      <4>1. \A j \in Scans : j[1] \in Shipments BY DEF Scans
      <4>2. QED BY <1>3, <2>2, <3>2, <3>3, <4>1 DEF EndingInv
    <3>6. ClosedOnce'
      <4>1. \A j \in Scans : j[1] = s /\ Closing(j)' => j = i BY <3>3, <3>4
      <4>2. SUFFICES ASSUME NEW j \in Scans, NEW k \in Scans, j[1] = k[1], Closing(j)', Closing(k)'
                     PROVE  j = k
        BY DEF ClosedOnce
      <4>3. CASE j[1] = s BY <4>1, <4>2, <4>3
      <4>4. CASE j[1] # s BY <3>3, <4>2, <4>4 DEF EndingInv, ClosedOnce
      <4>5. QED BY <4>3, <4>4
    <3>7. QED BY <1>7, <2>1, <3>5, <3>6 DEF EndingInv
  <2>3. CASE ~(MovementChanges(r.seen, scan[i]) /\ m \in TerminalMovement)
    <3>1. x.pc = "accept" \/ (x.pc = "seams" /\ MovementChanges(r.seen, scan[i]))
      <4>1. \E tries, row, todo :
              \/ /\ MovementChanges(r.seen, scan[i])
                 /\ tracker' = [tracker EXCEPT ![t] = Tracking("seams", i, row, todo, tries)]
              \/ tracker' = [tracker EXCEPT ![t] = Tracking("accept", i, row, <<>>, tries)]
        BY <1>9 DEF WriteShipment
      <4>2. QED BY <4>1, <1>2, <1>5 DEF Tracking
    <3>2. x.pc = "seams" => ~Ends(i) BY <2>3, <3>1 DEF Ends
    <3>3. QED BY <1>8, <2>1, <3>2
  <2>4. QED BY <2>2, <2>3
<1>10. CASE CallSeam(t)
  <2>1. /\ r.pc = "seams" /\ x.pc \in {"seams", "accept"}
        /\ fired' = [fired EXCEPT ![i] = Append(@, Head(r.todo))]
    BY <1>2, <1>5, <1>10 DEF CallSeam, Tracking
  <2>2. \A j \in Scans : j # i => fired'[j] = fired[j] BY <1>2, <2>1
  <2>3. CalledOnMade' BY <1>1, <2>2 DEF EndingInv, CalledOnMade
  <2>4. \A j \in Scans : EndedBy(j)' => EndedBy(j) \/ ClosingBy(t, j)
    BY <1>6, <2>1, <2>2 DEF EndedBy, ClosingBy
  <2>5. \A u \in Trackers, j \in Scans : ClosingBy(u, j)' => ClosingBy(u, j)
    BY <1>4, <1>5, <1>6, <2>1 DEF ClosingBy
  <2>6. \A j \in Scans : Closing(j)' => Closing(j) BY <2>4, <2>5 DEF Closing
  <2>7. QED BY <1>3, <2>3, <2>6, EndingsKept
<1>11. CASE ReadShipment(t)
  <2>1. UNCHANGED fired BY <1>11 DEF ReadShipment
  <2>2. x.pc \in {"write", "accept"} \/ (x.pc = "seams" /\ scan[i] = "UNDELIVERED_ATTEMPT")
    <3>1. \E row, tries, todo : \E pc \in {"write", "accept"} :
            \/ /\ scan[i] = "UNDELIVERED_ATTEMPT"
               /\ tracker' = [tracker EXCEPT ![t] = Tracking("seams", i, row, todo, tries)]
            \/ tracker' = [tracker EXCEPT ![t] = Tracking(pc, i, row, <<>>, tries)]
      BY <1>11 DEF ReadShipment
    <3>2. QED BY <3>1, <1>2, <1>5 DEF Tracking
  <2>3. scan[i] = "UNDELIVERED_ATTEMPT" => ~Ends(i)
    BY DEF Ends, EventToMovement, TerminalMovement, CarrierEventStatuses
  <2>4. QED BY <1>8, <2>1, <2>2, <2>3
<1>12. CASE RecordEvent(t) \/ VersionMismatch(t)
  <2>1. UNCHANGED fired BY <1>12 DEF RecordEvent, VersionMismatch
  <2>2. x.pc \in {"idle", "read"}
    BY <1>1, <1>2, <1>5, <1>12
    DEF RecordEvent, VersionMismatch, Finish, Throw, Rest, At, Tracking, Idle, Trackings
  <2>3. QED BY <1>8, <2>1, <2>2
<1>13. CASE Accept(t) \/ SeamThrows(t) \/ CrashTracker(t)
  <2>1. x.pc = "idle" /\ UNCHANGED fired
    BY <1>2, <1>5, <1>13 DEF Accept, SeamThrows, CrashTracker, Finish, Throw, Rest, Idle, eventVars
  <2>2. QED BY <1>8, <2>1
<1>14. QED BY <1>9, <1>10, <1>11, <1>12, <1>13 DEF TrackerStep

\* A step outside processRawEvent records, calls, flags and accepts nothing; a
\* tracker it touches starts from the record.
LEMMA OtherSteps ==
  ASSUME TypeInv, [Next]_vars,
         \A t \in Trackers : ~(TrackerStep(t) \/ SeamThrows(t) \/ CrashTracker(t))
  PROVE  /\ UNCHANGED <<stored, flagged, accepted, exhausted, fired>>
         /\ \A t \in Trackers : UNCHANGED tracker[t] \/ tracker'[t].pc = "record"
<1>1. ASSUME NEW c \in Cancellers, \/ \E s \in Shipments : RequestCancellation(c, s)
                                   \/ CancellerStep(c)
      PROVE  UNCHANGED <<stored, flagged, accepted, exhausted, fired, tracker>>
  BY <1>1 DEF RequestCancellation, CancellerStep, CourierAnswersCancel, SettleCancelled,
              SettleRejected, ReverseEntitlement, CrashCanceller, eventVars, trackerVars
<1>2. ASSUME NEW p \in Schedulers, \/ \E group \in SUBSET Shipments : SelectEligible(p, group)
                                   \/ SchedulerStep(p)
      PROVE  UNCHANGED <<stored, flagged, accepted, exhausted, fired, tracker>>
  BY <1>2 DEF SelectEligible, SchedulerStep, CourierAnswersPickup, MarkScheduled,
              AllocateManifestNumber, StoreManifest, CrashScheduler, eventVars, trackerVars
<1>3. ASSUME \/ \E s \in Shipments, status \in Statuses : CourierScan(s, status)
             \/ \E i \in Scans : Rekey(i) \/ IngestStep(i)
             \/ ChangeSubscription \/ ToggleAccount \/ UNCHANGED vars
      PROVE  UNCHANGED <<stored, flagged, accepted, exhausted, fired, tracker>>
  BY <1>3 DEF CourierScan, Rekey, IngestStep, Webhook, Poll, Persist, EnqueueRawEvent, LoseRawEvent,
              RecoverStalled, ChangeSubscription, ToggleAccount, vars, eventVars, trackerVars
<1>4. ASSUME NEW t \in Trackers, NEW i \in Scans, Deliver(t, i) \/ Replay(t, i)
      PROVE  /\ UNCHANGED <<stored, flagged, accepted, exhausted, fired>>
             /\ \A u \in Trackers : UNCHANGED tracker[u] \/ tracker'[u].pc = "record"
  <2>1. /\ tracker' = [tracker EXCEPT ![t] = Tracking("record", i, NoRow, <<>>, 1)]
        /\ UNCHANGED <<stored, flagged, accepted, exhausted, fired>>
    BY <1>4 DEF Deliver, Replay, Begin, eventVars
  <2>2. tracker'[t].pc = "record" /\ \A u \in Trackers : u # t => tracker'[u] = tracker[u]
    BY <2>1 DEF TypeInv, TypeOK, TrackerTypeOK, Tracking
  <2>3. QED BY <2>1, <2>2
<1>5. Workers \subseteq Trackers /\ Viewers \subseteq Trackers BY DEF Trackers
<1>6. QED BY <1>1, <1>2, <1>3, <1>4, <1>5 DEF Next

\* No step changes a scan the courier has made, and only the courier scans.
LEMMA ScansStay ==
  ASSUME TypeInv, [Next]_vars
  PROVE  /\ ScansKept
         /\ \/ UNCHANGED <<scan, parcel>>
            \/ \E s \in Shipments, status \in Statuses : CourierScan(s, status)
            \/ \E i \in Scans : Rekey(i)
            \/ \E c \in Cancellers : CourierAnswersCancel(c)
<1>1. ASSUME \/ \E s \in Shipments, status \in Statuses : CourierScan(s, status)
             \/ \E i \in Scans : Rekey(i)
      PROVE  ScansKept
  BY <1>1, CourierReports DEF TypeInv, TypeOK
<1>2. ASSUME NEW c \in Cancellers, CourierAnswersCancel(c) PROVE ScansKept
  BY <1>2, SameScans DEF CourierAnswersCancel
<1>3. ASSUME NEW c \in Cancellers, ~CourierAnswersCancel(c),
             \/ \E s \in Shipments : RequestCancellation(c, s)
             \/ CancellerStep(c)
      PROVE  UNCHANGED <<scan, parcel>>
  BY <1>3 DEF RequestCancellation, CancellerStep, SettleCancelled, SettleRejected,
              ReverseEntitlement, CrashCanceller, courierVars
<1>4. ASSUME NEW p \in Schedulers, \/ \E group \in SUBSET Shipments : SelectEligible(p, group)
                                   \/ SchedulerStep(p)
      PROVE  UNCHANGED <<scan, parcel>>
  BY <1>4 DEF SelectEligible, SchedulerStep, CourierAnswersPickup, MarkScheduled,
              AllocateManifestNumber, StoreManifest, CrashScheduler, courierVars
<1>5. ASSUME \/ \E i \in Scans : IngestStep(i)
             \/ \E w \in Workers, i \in Scans : Deliver(w, i)
             \/ \E v \in Viewers, i \in Scans : Replay(v, i)
             \/ ChangeSubscription \/ ToggleAccount \/ UNCHANGED vars
      PROVE  UNCHANGED <<scan, parcel>>
  BY <1>5 DEF IngestStep, Webhook, Poll, Persist, EnqueueRawEvent, LoseRawEvent, RecoverStalled,
              Deliver, Replay, ChangeSubscription, ToggleAccount, vars, courierVars
<1>6. ASSUME NEW t \in Trackers, TrackerStep(t) \/ SeamThrows(t) \/ CrashTracker(t)
      PROVE  UNCHANGED <<scan, parcel>>
  BY <1>6 DEF TrackerStep, RecordEvent, ReadShipment, WriteShipment, VersionMismatch,
              CallSeam, Accept, SeamThrows, CrashTracker, courierVars
<1>7. UNCHANGED <<scan, parcel>> => ScansKept BY SameScans
<1>8. \/ UNCHANGED <<scan, parcel>>
      \/ \E s \in Shipments, status \in Statuses : CourierScan(s, status)
      \/ \E i \in Scans : Rekey(i)
      \/ \E c \in Cancellers : CourierAnswersCancel(c)
  BY <1>3, <1>4, <1>5, <1>6 DEF Next
<1>9. ScansKept BY <1>1, <1>2, <1>7, <1>8
<1>10. QED BY <1>8, <1>9

\* Every step keeps one closing scan per parcel.
LEMMA EndingInvNext == TypeInv /\ RowInv /\ EndingInv /\ [Next]_vars => EndingInv'
<1> SUFFICES ASSUME TypeInv, RowInv, EndingInv, [Next]_vars PROVE EndingInv'
  OBVIOUS
<1>1. MachineStep BY RowInvNext
<1>2. ASSUME NEW t \in Trackers, TrackerStep(t) \/ SeamThrows(t) \/ CrashTracker(t)
      PROVE  EndingInv'
  BY <1>1, <1>2, TrackerEndings
<1>3. ASSUME \A t \in Trackers : ~(TrackerStep(t) \/ SeamThrows(t) \/ CrashTracker(t))
      PROVE  EndingInv'
  <2>1. /\ UNCHANGED fired
        /\ \A t \in Trackers : UNCHANGED tracker[t] \/ tracker'[t].pc = "record"
    BY <1>3, OtherSteps
  <2>2. /\ \A i \in Scans : scan[i] # "NONE" => (Ends(i)' <=> Ends(i))
        /\ CalledOnMade'
    BY <2>1, ScansStay DEF ScansKept, Ends, EndingInv, CalledOnMade
  <2>3. \A i \in Scans : EndedBy(i)' => EndedBy(i)
    BY <2>1, <2>2 DEF EndedBy, EndingInv, CalledOnMade
  <2>4. \A i \in Scans : Closing(i)' => Closing(i)
    <3>1. \A t \in Trackers, i \in Scans : ClosingBy(t, i)' => ClosingBy(t, i)
      BY <2>1, <2>2 DEF ClosingBy, TypeInv, ArrivedScans
    <3>2. QED BY <2>3, <3>1 DEF Closing
  <2>5. \A s \in Shipments : movement[s] \in TerminalMovement => movement'[s] = movement[s]
    BY <1>1, RowsSettle DEF TypeInv
  <2>6. QED BY <2>2, <2>4, <2>5, EndingsKept
<1>4. QED BY <1>2, <1>3

\* The endings' invariant holds with the rest.
THEOREM EndingInvariant == Spec => []EndingInv
<1>1. Init => EndingInv
  BY DEF Init, EndingInv, CalledOnMade, ClosedOnce, Closing, ClosingBy, EndedBy, Idle
<1>2. SafetyInv /\ EndingInv /\ [Next]_vars => EndingInv'
  BY EndingInvNext DEF SafetyInv
<1>3. QED BY <1>1, <1>2, SafetyInvariant, PTL DEF Spec

\* A parcel ends once: of last scans that conflict or are told twice, in whatever
\* order they are delivered, retried or replayed, one calls the seams.
THEOREM ParcelEndsOnce == Spec => []OneEnding
<1>1. EndingInv => OneEnding
  BY DEF EndingInv, ClosedOnce, OneEnding, Closing
<1>2. QED BY <1>1, EndingInvariant, PTL

\* A carrier event calls each of its seams at most once, whatever is delivered
\* again, replayed, retried or crashes in between; an ending also when the
\* courier tells it under several dedupe keys.
THEOREM SeamsOnce == Spec => []SeamsFireOnce
<1>1. SafetyInv /\ EndingInv => SeamsFireOnce
  <2> SUFFICES ASSUME SafetyInv, EndingInv, NEW i \in Scans, NEW j \in Scans, SameEvent(i, j),
                      NEW a \in DOMAIN fired[i], NEW b \in DOMAIN fired[j], fired[i][a] = fired[j][b]
               PROVE  i = j /\ a = b
    BY DEF SeamsFireOnce
  <2>1. i = j
    <3>1. fired[i] # <<>> /\ fired[j] # <<>> OBVIOUS
    <3>2. SUFFICES ASSUME i # j PROVE FALSE
      OBVIOUS
    <3>3. i[1] = j[1] /\ EndedBy(i) /\ EndedBy(j) BY <3>1, <3>2 DEF SameEvent, EndedBy
    <3>4. QED BY <3>2, <3>3 DEF EndingInv, ClosedOnce, Closing
  <2>2. QED BY <2>1 DEF SafetyInv, SeamInv, OncePerReport, NoRepeat
<1>2. QED BY <1>1, SafetyInvariant, EndingInvariant, PTL

(***************************************************************************)
(* What a recorded scan that takes no effect has cost.                     *)
(***************************************************************************)

\* processRawEvent goes on with its scan until it is accepted or out of retries.
LEMMA EffectPursued ==
  ASSUME TypeInv, NEW t \in Trackers, TrackerStep(t), NEW i, i = tracker[t].scan
  PROVE  /\ \A u \in Trackers : u # t => UNCHANGED tracker[u]
         /\ accepted \cup exhausted \subseteq accepted' \cup exhausted'
         /\ stored' \subseteq stored \cup {i}
         /\ tracker[t].pc # "idle" /\ i \in Scans
         /\ tracker[t].pc = "record" /\ i \notin stored =>
              scan[i] = "UNMAPPED" \/ Reducing(t, i)'
         /\ tracker[t].pc = "record" /\ i \in stored => UNCHANGED stored
         /\ tracker[t].pc # "record" =>
              i \in accepted' \cup exhausted' \/ Reducing(t, i)'
<1> DEFINE r == tracker[t]
<1>1. r.pc # "idle" /\ r \in Trackings /\ i \in Scans
  BY TrackingType
  DEF TypeInv, TypeOK, TrackerTypeOK, TrackerStep, RecordEvent, ReadShipment, WriteShipment,
      VersionMismatch, CallSeam, Accept
<1>2. tracker \in [Trackers -> Trackings \cup {Idle}] BY DEF TypeInv, TypeOK, TrackerTypeOK
<1>3. PICK x \in Trackings \cup {Idle} :
        tracker' = [tracker EXCEPT ![t] = x] /\ (x.pc # "idle" => x.scan = i)
  BY TrackerMove DEF TypeInv, TrackerMoves
<1>4. tracker'[t] = x /\ \A u \in Trackers : u # t => tracker'[u] = tracker[u]
  BY <1>2, <1>3
<1>5. x.pc \in {"idle", "record", "read", "write", "seams", "accept"}
  BY <1>3 DEF Trackings, Idle
<1>6. accepted \cup exhausted \subseteq accepted' \cup exhausted'
  BY DEF TrackerStep, RecordEvent, ReadShipment, WriteShipment, VersionMismatch, CallSeam, Accept,
         eventVars
<1>7. CASE RecordEvent(t)
  <2>1. r.pc = "record" /\ stored' \subseteq stored \cup {i} BY <1>7 DEF RecordEvent
  <2>2. i \in stored => UNCHANGED stored BY <1>7 DEF RecordEvent, AlreadyStored
  <2>3. ASSUME i \notin stored, scan[i] # "UNMAPPED" PROVE x.pc = "read"
    BY <2>3, <1>1, <1>2, <1>4, <1>7 DEF RecordEvent, AlreadyStored, At, Trackings
  <2>4. x.pc = "read" => Reducing(t, i)' BY <1>3, <1>4 DEF Reducing
  <2>5. QED BY <1>1, <1>4, <1>6, <2>1, <2>2, <2>3, <2>4
<1>8. CASE Accept(t)
  <2>1. i \in accepted' /\ UNCHANGED stored /\ r.pc = "accept" BY <1>8 DEF Accept
  <2>2. QED BY <1>1, <1>4, <1>6, <2>1
<1>9. CASE ReadShipment(t) \/ WriteShipment(t) \/ CallSeam(t) \/ VersionMismatch(t)
  <2>1. UNCHANGED stored /\ r.pc # "record"
    BY <1>9 DEF ReadShipment, WriteShipment, CallSeam, VersionMismatch, eventVars
  <2>2. x.pc \in {"read", "write", "seams", "accept"} \/ i \in exhausted'
    <3>1. CASE ReadShipment(t)
      <4>1. \E row, todo, tries : \E pc \in {"write", "seams", "accept"} :
              tracker' = [tracker EXCEPT ![t] = Tracking(pc, i, row, todo, tries)]
        BY <3>1 DEF ReadShipment
      <4>2. QED BY <4>1, <1>2, <1>4 DEF Tracking
    <3>2. CASE WriteShipment(t)
      <4>1. \E row, todo, tries : \E pc \in {"seams", "accept"} :
              tracker' = [tracker EXCEPT ![t] = Tracking(pc, i, row, todo, tries)]
        BY <3>2 DEF WriteShipment
      <4>2. QED BY <4>1, <1>2, <1>4 DEF Tracking
    <3>3. CASE CallSeam(t) BY <3>3, <1>2, <1>4 DEF CallSeam, Tracking
    <3>4. CASE VersionMismatch(t)
      BY <3>4, <1>2, <1>4 DEF VersionMismatch, Tracking
    <3>5. QED BY <1>9, <3>1, <3>2, <3>3, <3>4
  <2>3. i \in exhausted' \/ Reducing(t, i)' BY <1>3, <1>4, <2>2 DEF Reducing
  <2>4. QED BY <1>1, <1>4, <1>6, <2>1, <2>3
<1>10. QED BY <1>7, <1>8, <1>9 DEF TrackerStep

\* Faults are only ever spent.
LEMMA BudgetFalls ==
  ASSUME TypeInv, [Next]_vars
  PROVE  \A k \in FaultKinds : budget'[k] <= budget[k]
<1>1. ASSUME NEW j \in FaultKinds, Spend(j) PROVE \A k \in FaultKinds : budget'[k] <= budget[k]
  BY <1>1 DEF Spend, TypeInv, TypeOK, BudgetTypeOK
<1>2. UNCHANGED budget \/ \E k \in FaultKinds : Spend(k)
  <2>1. ASSUME NEW c \in Cancellers, \/ \E s \in Shipments : RequestCancellation(c, s)
                                     \/ CancellerStep(c)
        PROVE  UNCHANGED budget \/ \E k \in FaultKinds : Spend(k)
    BY <2>1 DEF RequestCancellation, CancellerStep, CourierAnswersCancel, SettleCancelled,
                SettleRejected, ReverseEntitlement, CrashCanceller, FaultKinds
  <2>2. ASSUME NEW p \in Schedulers, \/ \E group \in SUBSET Shipments : SelectEligible(p, group)
                                     \/ SchedulerStep(p)
        PROVE  UNCHANGED budget \/ \E k \in FaultKinds : Spend(k)
    BY <2>2 DEF SelectEligible, SchedulerStep, CourierAnswersPickup, MarkScheduled,
                AllocateManifestNumber, StoreManifest, CrashScheduler, FaultKinds
  <2>3. ASSUME \/ \E s \in Shipments, status \in Statuses : CourierScan(s, status)
               \/ \E i \in Scans : Rekey(i) \/ IngestStep(i)
               \/ \E w \in Workers, i \in Scans : Deliver(w, i)
               \/ \E v \in Viewers, i \in Scans : Replay(v, i)
               \/ ChangeSubscription \/ ToggleAccount \/ UNCHANGED vars
        PROVE  UNCHANGED budget \/ \E k \in FaultKinds : Spend(k)
    BY <2>3 DEF CourierScan, Rekey, IngestStep, Webhook, Poll, Persist, EnqueueRawEvent, LoseRawEvent,
                RecoverStalled, Deliver, Replay, ChangeSubscription, ToggleAccount, vars, FaultKinds
  <2>4. ASSUME NEW t \in Trackers, TrackerStep(t) \/ SeamThrows(t) \/ CrashTracker(t)
        PROVE  UNCHANGED budget \/ \E k \in FaultKinds : Spend(k)
    BY <2>4 DEF TrackerStep, RecordEvent, ReadShipment, WriteShipment, VersionMismatch,
                CallSeam, Accept, SeamThrows, CrashTracker, FaultKinds
  <2>5. QED BY <2>1, <2>2, <2>3, <2>4 DEF Next
<1>3. UNCHANGED budget => \A k \in FaultKinds : budget'[k] <= budget[k]
  BY DEF TypeInv, TypeOK, BudgetTypeOK
<1>4. QED BY <1>1, <1>2, <1>3

\* A step of a tracker that does not die or throw leaves no recorded scan behind;
\* one that does leaves its own at most.
LEMMA StepLeaves ==
  ASSUME TypeInv, [Next]_vars
  PROVE  \/ LeftUndone' \subseteq LeftUndone
         \/ \E t \in Trackers :
              /\ SeamThrows(t) \/ CrashTracker(t)
              /\ LeftUndone' \subseteq LeftUndone \cup {tracker[t].scan}
<1>1. stored \subseteq Scans /\ stored' \subseteq Scans
  BY TypeInvNext DEF TypeInv, TypeOK, EventTypeOK
<1>2. \A i \in Scans : scan'[i] # "UNMAPPED" => scan[i] # "UNMAPPED" BY ScansStay DEF ScansKept
<1>3. ASSUME \A t \in Trackers : ~(TrackerStep(t) \/ SeamThrows(t) \/ CrashTracker(t))
      PROVE  LeftUndone' \subseteq LeftUndone
  <2>1. UNCHANGED <<stored, accepted, exhausted>> BY <1>3, OtherSteps
  <2>2. ASSUME NEW t \in Trackers, NEW k \in Scans, Deliver(t, k) \/ Replay(t, k)
        PROVE  \A u \in Trackers, i \in Scans : Reducing(u, i) => Reducing(u, i)'
    BY <2>2 DEF Deliver, Replay, Begin, Reducing, TypeInv, TypeOK, TrackerTypeOK
  <2>3. ASSUME UNCHANGED tracker
        PROVE  \A u \in Trackers, i \in Scans : Reducing(u, i) => Reducing(u, i)'
    BY <2>3 DEF Reducing
  <2>4. UNCHANGED tracker \/ \E t \in Trackers, k \in Scans : Deliver(t, k) \/ Replay(t, k)
    <3>1. UNCHANGED tracker \/ (\E s \in Shipments, status \in Statuses : CourierScan(s, status))
          \/ (\E k \in Scans : Rekey(k) \/ IngestStep(k)) \/ UNCHANGED vars
          \/ \E t \in Trackers, k \in Scans : Deliver(t, k) \/ Replay(t, k)
      BY <1>3, RequestsQuiet DEF Next, Trackers
    <3>2. QED BY <3>1 DEF CourierScan, Rekey, IngestStep, Webhook, Poll, Persist, EnqueueRawEvent,
                          LoseRawEvent, RecoverStalled, vars, trackerVars
  <2>5. QED BY <1>1, <1>2, <2>1, <2>2, <2>3, <2>4 DEF LeftUndone
<1>4. ASSUME NEW t \in Trackers, TrackerStep(t)
      PROVE  LeftUndone' \subseteq LeftUndone
  <2> SUFFICES ASSUME NEW i \in LeftUndone' PROVE i \in LeftUndone
    OBVIOUS
  <2>1. /\ i \in stored' /\ i \in Scans /\ scan[i] # "UNMAPPED"
        /\ i \notin accepted' \cup exhausted' /\ \A u \in Trackers : ~Reducing(u, i)'
    BY <1>1, <1>2 DEF LeftUndone, Reducing
  <2>2. i \notin accepted \cup exhausted BY <1>4, <2>1, EffectPursued
  <2>3. \A u \in Trackers : u # t => UNCHANGED tracker[u] BY <1>4, EffectPursued
  <2>4. \A u \in Trackers : u # t => ~Reducing(u, i) BY <2>1, <2>3 DEF Reducing
  <2>5. CASE tracker[t].scan = i
    <3>1. tracker[t].pc = "record" /\ i \in stored BY <1>4, <2>1, <2>5, EffectPursued
    <3>2. ~Reducing(t, i) BY <3>1 DEF Reducing
    <3>3. QED BY <2>1, <2>2, <2>4, <3>1, <3>2 DEF LeftUndone
  <2>6. CASE tracker[t].scan # i
    <3>1. i \in stored BY <1>4, <2>1, <2>6, EffectPursued
    <3>2. ~Reducing(t, i) BY <2>6 DEF Reducing
    <3>3. QED BY <2>1, <2>2, <2>4, <3>1, <3>2 DEF LeftUndone
  <2>7. QED BY <2>5, <2>6
<1>5. ASSUME NEW t \in Trackers, SeamThrows(t) \/ CrashTracker(t)
      PROVE  LeftUndone' \subseteq LeftUndone \cup {tracker[t].scan}
  <2>1. /\ UNCHANGED <<stored, accepted, exhausted, scan>>
        /\ \A u \in Trackers : u # t => UNCHANGED tracker[u]
    BY <1>5 DEF SeamThrows, CrashTracker, Throw, Rest, eventVars, courierVars, TypeInv, TypeOK,
                TrackerTypeOK
  <2>2. \A u \in Trackers, i \in Scans : i # tracker[t].scan /\ Reducing(u, i) => Reducing(u, i)'
    BY <2>1 DEF Reducing
  <2>3. QED BY <1>1, <2>1, <2>2 DEF LeftUndone
<1>6. QED BY <1>3, <1>4, <1>5

\* INV-20: a recorded scan with a status takes effect, or is one of those that a
\* death, a failing seam or the last lost version race has cost.
THEOREM NothingDropped == Spec => []ScansTakeEffect
<1> DEFINE Inv == IsFiniteSet(LeftUndone) /\ ScansTakeEffect
<1>1. Init => Inv
  <2>1. Init => LeftUndone = {} /\ Spent("crash") = 0 /\ Spent("seamFails") = 0
    BY ParcelAssumption DEF Init, LeftUndone, Spent, FaultKinds
  <2>2. QED BY <2>1, FS_EmptySet DEF ScansTakeEffect
<1>2. TypeInv /\ Inv /\ [Next]_vars => Inv'
  <2> SUFFICES ASSUME TypeInv, Inv, [Next]_vars PROVE Inv'
    OBVIOUS
  <2>1. /\ \A k \in FaultKinds : budget'[k] <= budget[k] /\ budget'[k] \in Nat
        /\ \A k \in FaultKinds : budget[k] \in Nat /\ Budget[k] \in Nat
        /\ {"crash", "seamFails"} \subseteq FaultKinds
    BY BudgetFalls, TypeInvNext, ParcelAssumption DEF TypeInv, TypeOK, BudgetTypeOK, FaultKinds
  <2> DEFINE lost == Spent("crash") + Spent("seamFails")
  <2>2. lost \in Int /\ lost' \in Int /\ lost <= lost' BY <2>1 DEF Spent
  <2>3. Cardinality(LeftUndone) \in Nat /\ Cardinality(LeftUndone) <= lost
    BY FS_CardinalityType DEF ScansTakeEffect
  <2>4. CASE LeftUndone' \subseteq LeftUndone
    <3>1. IsFiniteSet(LeftUndone') /\ Cardinality(LeftUndone') <= Cardinality(LeftUndone)
          /\ Cardinality(LeftUndone') \in Nat
      BY <2>4, FS_Subset, FS_CardinalityType
    <3> HIDE DEF lost
    <3>2. Cardinality(LeftUndone') <= lost' BY <2>2, <2>3, <3>1
    <3>3. QED BY <3>1, <3>2 DEF ScansTakeEffect, lost
  <2>5. ASSUME NEW t \in Trackers, SeamThrows(t) \/ CrashTracker(t),
               LeftUndone' \subseteq LeftUndone \cup {tracker[t].scan}
        PROVE  Inv'
    <3> DEFINE more == LeftUndone \cup {tracker[t].scan}
    <3>1. lost + 1 <= lost'
      <4>1. CASE CrashTracker(t) BY <2>1, <4>1 DEF CrashTracker, Spend, Spent, TypeInv, TypeOK, BudgetTypeOK
      <4>2. CASE SeamThrows(t) BY <2>1, <4>2 DEF SeamThrows, Spend, Spent, TypeInv, TypeOK, BudgetTypeOK
      <4>3. QED BY <2>5, <4>1, <4>2
    <3>2. IsFiniteSet(more) /\ Cardinality(more) <= Cardinality(LeftUndone) + 1
          /\ Cardinality(more) \in Nat
      <4>1. IsFiniteSet(more)
            /\ Cardinality(more) \in {Cardinality(LeftUndone), Cardinality(LeftUndone) + 1}
        BY FS_AddElement
      <4> HIDE DEF more
      <4>2. QED BY <2>3, <4>1
    <3> HIDE DEF lost, more
    <3>3. IsFiniteSet(LeftUndone') /\ Cardinality(LeftUndone') <= Cardinality(more)
          /\ Cardinality(LeftUndone') \in Nat
      BY <2>5, <3>2, FS_Subset, FS_CardinalityType DEF more
    <3>4. Cardinality(LeftUndone') <= lost' BY <2>2, <2>3, <3>1, <3>2, <3>3
    <3>5. QED BY <3>3, <3>4 DEF ScansTakeEffect, lost
  <2>6. QED BY <2>4, <2>5, StepLeaves
<1>3. SafetyInv => TypeInv BY DEF SafetyInv
<1>4. Inv => ScansTakeEffect OBVIOUS
<1>5. QED BY <1>1, <1>2, <1>3, <1>4, SafetyInvariant, PTL DEF Spec

(***************************************************************************)
(* A pickup takes custody or is flagged.                                   *)
(***************************************************************************)

\* No driver has picked up a parcel whose cancellation the courier confirmed.
NoStrayYet == budget["strayPickup"] = Budget["strayPickup"]
StraysSpent == budget["strayPickup"] <= Budget["strayPickup"]

\* A settled cancellation, and one the courier has confirmed, is of a parcel that
\* was never picked up and no longer can be.
NotPickedUp(s) == \A n \in 1..MaxScans : scan[<<s, n>>] # "PICKED_UP"
OutOfReach(s) == parcel[s] \in {"cancelled", "ended"} /\ NotPickedUp(s)
Confirmed(c, s) == canceller[c].pc = "cancelled" /\ canceller[c].shipment = s
CancelledNeverPicked ==
  \A s \in Shipments :
    /\ parcel[s] \in {"awaiting", "cancelled"} => NotPickedUp(s)
    /\ custody[s] = "CANCELLED" => OutOfReach(s)
    /\ \A c \in Cancellers : Confirmed(c, s) => OutOfReach(s)

\* Past the UPDATE a pickup is surfaced; before it the row was read as one that
\* the event does not regress.
PickupsTaken ==
  /\ \A i \in accepted : scan[i] # "NONE"
  /\ \A t \in Trackers :
       /\ tracker[t].pc = "write" => ~Regresses(tracker[t].seen, scan[tracker[t].scan])
       /\ tracker[t].pc \in {"seams", "accept"} /\ scan[tracker[t].scan] = "PICKED_UP" =>
            Surfaced(tracker[t].scan)
  /\ AllPickupsSurfaced

PickupInv == CancelledNeverPicked /\ PickupsTaken

\* A driver who did not know takes one of the stray pickups.
LEMMA StrayBudget ==
  ASSUME TypeInv, [Next]_vars
  PROVE  /\ budget'["strayPickup"] <= budget["strayPickup"]
         /\ \A s \in Shipments, status \in Statuses :
              CourierScan(s, status) /\ status = "PICKED_UP" /\ parcel[s] # "awaiting" =>
                budget'["strayPickup"] < budget["strayPickup"]
<1>1. "strayPickup" \in FaultKinds BY DEF FaultKinds
<1>2. ASSUME NEW s \in Shipments, NEW status \in Statuses, CourierScan(s, status),
             status = "PICKED_UP", parcel[s] # "awaiting"
      PROVE  budget'["strayPickup"] < budget["strayPickup"]
  <2>1. Spend("strayPickup") BY <1>2 DEF CourierScan, Underway, Endings
  <2>2. QED BY <1>1, <2>1 DEF Spend, TypeInv, TypeOK, BudgetTypeOK
<1>3. QED BY <1>1, <1>2, BudgetFalls

\* The courier's own steps: what it has cancelled or ended stays out of reach.
LEMMA CourierKeepsCancelled ==
  ASSUME TypeInv, CancelledNeverPicked, NEW s \in Shipments, NEW status \in Statuses,
         CourierScan(s, status), status = "PICKED_UP" => parcel[s] = "awaiting"
  PROVE  CancelledNeverPicked'
<1>1. /\ parcel \in [Shipments -> {"awaiting", "cancelled", "picked", "ended"}]
      /\ scan \in [Scans -> Statuses \cup {"NONE"}]
      /\ \A r \in Shipments, n \in 1..MaxScans : <<r, n>> \in Scans
  BY DEF TypeInv, TypeOK, CourierTypeOK, Scans
<1>2. PICK k : scan' = [scan EXCEPT ![<<s, k>>] = status] BY DEF CourierScan
<1>3. UNCHANGED <<custody, canceller>> BY DEF CourierScan, rowVars
<1>4. \A r \in Shipments : r # s => parcel'[r] = parcel[r] /\ (NotPickedUp(r) => NotPickedUp(r)')
  <2>1. \A r \in Shipments : r # s => parcel'[r] = parcel[r] BY <1>1 DEF CourierScan
  <2>2. \A r \in Shipments, n \in 1..MaxScans : r # s => scan'[<<r, n>>] = scan[<<r, n>>]
    BY <1>1, <1>2
  <2>3. QED BY <2>1, <2>2 DEF NotPickedUp
<1>5. status # "PICKED_UP" => (NotPickedUp(s) => NotPickedUp(s)')
  <2>1. \A n \in 1..MaxScans : scan'[<<s, n>>] = status \/ scan'[<<s, n>>] = scan[<<s, n>>]
    BY <1>1, <1>2
  <2>2. QED BY <2>1 DEF NotPickedUp
<1>6. CASE status = "PICKED_UP"
  <2>1. parcel[s] = "awaiting" /\ parcel'[s] = "picked"
    BY <1>1, <1>6 DEF CourierScan, Underway, Endings
  <2>2. QED BY <1>3, <1>4, <2>1 DEF CancelledNeverPicked, OutOfReach, Confirmed
<1>7. CASE status # "PICKED_UP"
  <2>1. /\ parcel[s] \in {"cancelled", "ended"} => parcel'[s] \in {"cancelled", "ended"}
        /\ parcel'[s] \in {"awaiting", "cancelled"} => parcel'[s] = parcel[s]
    BY <1>1, <1>7 DEF CourierScan
  <2>2. QED BY <1>3, <1>4, <1>5, <1>7, <2>1 DEF CancelledNeverPicked, OutOfReach, Confirmed
<1>8. QED BY <1>6, <1>7

\* A scan told again brings no status the parcel has not had.
LEMMA RekeyKeepsCancelled ==
  ASSUME TypeInv, CancelledNeverPicked, NEW i \in Scans, Rekey(i)
  PROVE  CancelledNeverPicked'
<1>1. i = <<i[1], i[2]>> /\ i[1] \in Shipments /\ i[2] \in 1..MaxScans BY DEF Scans
<1>2. PICK k : scan' = [scan EXCEPT ![<<i[1], k>>] = scan[i]] BY DEF Rekey
<1>3. UNCHANGED <<custody, canceller, parcel>> BY DEF Rekey, rowVars
<1>4. ASSUME NEW s \in Shipments, NotPickedUp(s) PROVE NotPickedUp(s)'
  <2>1. \A n \in 1..MaxScans : <<s, n>> \in Scans BY DEF Scans
  <2>2. \A n \in 1..MaxScans :
          scan'[<<s, n>>] = scan[<<s, n>>] \/ (s = i[1] /\ scan'[<<s, n>>] = scan[<<i[1], i[2]>>])
    BY <1>1, <1>2, <2>1 DEF TypeInv, TypeOK, CourierTypeOK
  <2>3. QED BY <1>1, <1>4, <2>2 DEF NotPickedUp
<1>5. QED BY <1>3, <1>4 DEF CancelledNeverPicked, OutOfReach, Confirmed

\* A step that neither scans nor cancels parcels nor settles cancellations.
LEMMA CancelledKept ==
  ASSUME CancelledNeverPicked, UNCHANGED <<scan, parcel>>,
         \A s \in Shipments : custody'[s] = "CANCELLED" =>
           custody[s] = "CANCELLED" \/ \E c \in Cancellers : Confirmed(c, s),
         \A s \in Shipments, c \in Cancellers : Confirmed(c, s)' => Confirmed(c, s)
  PROVE  CancelledNeverPicked'
BY DEF CancelledNeverPicked, OutOfReach, NotPickedUp

\* Every step without a stray pickup keeps cancelled parcels out of reach.
LEMMA CancelledNext ==
  ASSUME TypeInv, CancelledNeverPicked, [Next]_vars,
         budget'["strayPickup"] = budget["strayPickup"]
  PROVE  CancelledNeverPicked'
<1> /\ canceller \in [Cancellers -> Cancellings \cup {Idle}]
    /\ custody \in [Shipments -> CustodyStates]
    /\ parcel \in [Shipments -> {"awaiting", "cancelled", "picked", "ended"}]
    /\ budget["strayPickup"] \in Nat
  BY DEF TypeInv, TypeOK, RequestTypeOK, RowTypeOK, CourierTypeOK, BudgetTypeOK, FaultKinds
<1>1. ASSUME NEW s \in Shipments, NEW status \in Statuses, CourierScan(s, status)
      PROVE  CancelledNeverPicked'
  <2>1. ~(budget'["strayPickup"] < budget["strayPickup"]) OBVIOUS
  <2>2. QED BY <1>1, <2>1, StrayBudget, CourierKeepsCancelled
<1>2. ASSUME NEW c \in Cancellers, NEW s \in Shipments, RequestCancellation(c, s)
      PROVE  CancelledNeverPicked'
  <2>1. UNCHANGED <<scan, parcel>> BY <1>2 DEF RequestCancellation, courierVars
  <2>2. \A r \in Shipments : custody'[r] = "CANCELLED" => custody[r] = "CANCELLED"
    BY <1>2 DEF RequestCancellation
  <2>3. \A r \in Shipments, d \in Cancellers : Confirmed(d, r)' => Confirmed(d, r)
    BY <1>2 DEF RequestCancellation, Confirmed, Cancelling
  <2>4. QED BY <2>1, <2>2, <2>3, CancelledKept
<1>3. ASSUME NEW c \in Cancellers, CourierAnswersCancel(c) PROVE CancelledNeverPicked'
  <2> DEFINE s == canceller[c].shipment
  <2>1. canceller[c] \in Cancellings /\ UNCHANGED <<scan, custody>> /\ canceller[c].pc = "ask"
    BY <1>3 DEF CourierAnswersCancel, Idle, rowVars
  <2>2. \A d \in Cancellers : d # c => canceller'[d] = canceller[d]
    BY <1>3 DEF CourierAnswersCancel, Answered
  <2>3. canceller'[c] = Idle \/ (canceller'[c].pc \in {"cancelled", "rejected"} /\ canceller'[c].shipment = s)
    <3>1. \/ canceller' = [canceller EXCEPT ![c] = Idle]
          \/ \E pc \in {"cancelled", "rejected"} : canceller' = [canceller EXCEPT ![c].pc = pc]
      BY <1>3 DEF CourierAnswersCancel, Answered
    <3>2. QED BY <2>1, <3>1 DEF Cancellings
  <2>4. CASE parcel[s] = "awaiting" /\ parcel' = [parcel EXCEPT ![s] = "cancelled"]
    <3>1. s \in Shipments BY <2>1 DEF Cancellings
    <3>2. NotPickedUp(s) BY <2>4, <3>1 DEF CancelledNeverPicked
    <3>3. \A r \in Shipments : NotPickedUp(r) <=> NotPickedUp(r)' BY <2>1 DEF NotPickedUp
    <3>4. \A r \in Shipments : parcel'[r] = IF r = s THEN "cancelled" ELSE parcel[r] BY <2>4, <3>1
    <3>5. \A r \in Shipments, d \in Cancellers : Confirmed(d, r)' => Confirmed(d, r) \/ r = s
      BY <2>2, <2>3 DEF Confirmed, Idle
    <3>6. \A r \in Shipments : OutOfReach(r) \/ r = s => OutOfReach(r)'
      BY <3>2, <3>3, <3>4 DEF OutOfReach
    <3>7. QED BY <2>1, <3>2, <3>3, <3>4, <3>5, <3>6 DEF CancelledNeverPicked
  <2>5. CASE UNCHANGED parcel
    <3>1. \A r \in Shipments, d \in Cancellers : Confirmed(d, r)' => Confirmed(d, r)
      <4>1. CASE canceller'[c].pc = "cancelled"
        <5>1. \/ canceller' = [canceller EXCEPT ![c] = Idle]
              \/ canceller' = [canceller EXCEPT ![c].pc = "rejected"]
          <6>1. parcel[s] = "awaiting" => [parcel EXCEPT ![s] = "cancelled"][s] = "cancelled"
            BY <2>1 DEF Cancellings
          <6>2. QED BY <1>3, <2>1, <2>5, <6>1 DEF CourierAnswersCancel, Answered
        <5>2. QED BY <2>1, <4>1, <5>1 DEF Idle, Cancellings
      <4>2. CASE canceller'[c].pc # "cancelled" BY <2>2, <4>2 DEF Confirmed
      <4>3. QED BY <4>1, <4>2
    <3>2. QED BY <2>1, <2>5, <3>1, CancelledKept
  <2>6. QED BY <1>3, <2>4, <2>5 DEF CourierAnswersCancel
<1>4. ASSUME NEW c \in Cancellers,
             \/ SettleCancelled(c) \/ SettleRejected(c) \/ ReverseEntitlement(c) \/ CrashCanceller(c)
      PROVE  CancelledNeverPicked'
  <2> DEFINE s == canceller[c].shipment
  <2>1. UNCHANGED <<scan, parcel>> /\ canceller[c] \in Cancellings
    BY <1>4 DEF SettleCancelled, SettleRejected, ReverseEntitlement, CrashCanceller, courierVars, Idle
  <2>2. \A r \in Shipments : custody'[r] = "CANCELLED" =>
          custody[r] = "CANCELLED" \/ \E d \in Cancellers : Confirmed(d, r)
    <3>1. CASE SettleCancelled(c)
      BY <2>1, <3>1 DEF SettleCancelled, Confirmed, Cancellings
    <3>2. CASE ~SettleCancelled(c)
      <4>1. canceller[c].previous # "CANCELLED" BY <2>1 DEF Cancellings, PrePickup
      <4>2. QED BY <1>4, <3>2, <4>1 DEF SettleRejected, ReverseEntitlement, CrashCanceller, rowVars
    <3>3. QED BY <3>1, <3>2
  <2>3. \A r \in Shipments, d \in Cancellers : Confirmed(d, r)' => Confirmed(d, r)
    <3>1. \/ canceller' = [canceller EXCEPT ![c] = Idle]
          \/ canceller' = [canceller EXCEPT ![c].pc = "reverse"]
      BY <1>4 DEF SettleCancelled, SettleRejected, ReverseEntitlement, CrashCanceller
    <3>2. QED BY <2>1, <3>1 DEF Confirmed, Idle, Cancellings
  <2>4. QED BY <2>1, <2>2, <2>3, CancelledKept
<1>5. ASSUME NEW p \in Schedulers, \/ \E group \in SUBSET Shipments : SelectEligible(p, group)
                                   \/ SchedulerStep(p)
      PROVE  CancelledNeverPicked'
  <2>1. UNCHANGED <<scan, parcel, canceller>>
    BY <1>5 DEF SelectEligible, SchedulerStep, CourierAnswersPickup, MarkScheduled,
                AllocateManifestNumber, StoreManifest, CrashScheduler, courierVars
  <2>2. \A r \in Shipments : custody'[r] = "CANCELLED" => custody[r] = "CANCELLED"
    BY <1>5 DEF SelectEligible, SchedulerStep, CourierAnswersPickup, MarkScheduled,
                AllocateManifestNumber, StoreManifest, CrashScheduler, rowVars
  <2>3. QED BY <2>1, <2>2, CancelledKept DEF Confirmed
<1>6. ASSUME \/ \E i \in Scans : IngestStep(i)
             \/ \E w \in Workers, i \in Scans : Deliver(w, i)
             \/ \E v \in Viewers, i \in Scans : Replay(v, i)
             \/ ChangeSubscription \/ ToggleAccount \/ UNCHANGED vars
      PROVE  CancelledNeverPicked'
  <2>1. UNCHANGED <<scan, parcel, canceller, custody>>
    BY <1>6 DEF IngestStep, Webhook, Poll, Persist, EnqueueRawEvent, LoseRawEvent, RecoverStalled,
                Deliver, Replay, ChangeSubscription, ToggleAccount, vars, courierVars, rowVars
  <2>2. QED BY <2>1, CancelledKept DEF Confirmed
<1>7. ASSUME NEW t \in Trackers, TrackerStep(t) \/ SeamThrows(t) \/ CrashTracker(t)
      PROVE  CancelledNeverPicked'
  <2>1. UNCHANGED <<scan, parcel, canceller>>
    BY <1>7 DEF TrackerStep, RecordEvent, ReadShipment, WriteShipment, VersionMismatch,
                CallSeam, Accept, SeamThrows, CrashTracker, courierVars
  <2>2. \A r \in Shipments : custody'[r] = "CANCELLED" => custody[r] = "CANCELLED"
    BY <1>7 DEF TrackerStep, RecordEvent, ReadShipment, WriteShipment, VersionMismatch,
                CallSeam, Accept, SeamThrows, CrashTracker, rowVars
  <2>3. QED BY <2>1, <2>2, CancelledKept DEF Confirmed
<1>8. QED BY <1>1, <1>2, <1>3, <1>4, <1>5, <1>6, <1>7, RekeyKeepsCancelled DEF Next, CancellerStep

\* What a tracker makes of its scan: past the UPDATE a pickup is surfaced.
LEMMA TrackerTakes ==
  ASSUME TypeInv, RowInv, CancelledNeverPicked, PickupsTaken, MachineStep, NEW t \in Trackers,
         TrackerStep(t) \/ SeamThrows(t) \/ CrashTracker(t)
  PROVE  PickupsTaken'
<1> DEFINE r == tracker[t]
<1>1. PICK i \in Scans : i = tracker[t].scan /\ r.pc # "idle" /\ r \in Trackings
  BY TrackingType
  DEF TypeInv, TypeOK, TrackerTypeOK, TrackerStep, RecordEvent, ReadShipment, WriteShipment,
      VersionMismatch, CallSeam, Accept, SeamThrows, CrashTracker
<1>2. PICK s \in Shipments, n \in 1..MaxScans : i = <<s, n>> /\ i[1] = s
  BY <1>1 DEF Scans
<1>3. /\ tracker \in [Trackers -> Trackings \cup {Idle}] /\ custody \in [Shipments -> CustodyStates]
      /\ \A u \in Trackers : tracker[u].pc # "idle" => tracker[u].scan \in Scans
      /\ accepted \subseteq Scans /\ \A j \in Scans : j[1] \in Shipments
  BY TrackingType DEF TypeInv, TypeOK, TrackerTypeOK, RowTypeOK, EventTypeOK, Scans
<1>4. PICK x \in Trackings \cup {Idle} :
        tracker' = [tracker EXCEPT ![t] = x] /\ (x.pc # "idle" => x.scan = i)
  BY <1>1, TrackerMove DEF TypeInv, TrackerMoves
<1>5. tracker'[t] = x /\ \A u \in Trackers : u # t => tracker'[u] = tracker[u]
  BY <1>3, <1>4
<1>6. UNCHANGED scan /\ flagged \subseteq flagged'
  BY DEF TrackerStep, RecordEvent, ReadShipment, WriteShipment, VersionMismatch, CallSeam, Accept,
         SeamThrows, CrashTracker, courierVars, eventVars
<1>7. \A j \in Scans : Surfaced(j) => Surfaced(j)'
  BY <1>3, <1>6, RowsSettle DEF Surfaced, TypeInv
<1>8. ASSUME x.pc = "write" => ~Regresses(x.seen, scan[i]),
             x.pc \in {"seams", "accept"} /\ scan[i] = "PICKED_UP" => Surfaced(i)',
             accepted' \subseteq accepted \cup {i}, i \in accepted' => i \in accepted \/ r.pc = "accept"
      PROVE  PickupsTaken'
  <2>1. \A j \in accepted' : scan'[j] # "NONE"
    BY <1>1, <1>6, <1>8 DEF PickupsTaken, TypeInv, ArrivedScans
  <2>2. AllPickupsSurfaced'
    <3>1. r.pc = "accept" /\ scan[i] = "PICKED_UP" => Surfaced(i)' BY <1>1, <1>7 DEF PickupsTaken
    <3>2. QED BY <1>3, <1>6, <1>7, <1>8, <3>1 DEF PickupsTaken, AllPickupsSurfaced
  <2>3. ASSUME NEW u \in Trackers
        PROVE  /\ tracker'[u].pc = "write" => ~Regresses(tracker'[u].seen, scan'[tracker'[u].scan])
               /\ tracker'[u].pc \in {"seams", "accept"} /\ scan'[tracker'[u].scan] = "PICKED_UP" =>
                    Surfaced(tracker[u].scan)'
    <3>1. CASE u = t BY <1>4, <1>5, <1>6, <1>8, <3>1 DEF Surfaced
    <3>2. CASE u # t
      <4>1. tracker'[u] = tracker[u] BY <1>5, <3>2
      <4>2. tracker[u].pc \in {"seams", "accept"} => tracker[u].scan \in Scans BY <1>3
      <4>3. QED BY <1>6, <1>7, <4>1, <4>2 DEF PickupsTaken, Regresses, Surfaced
    <3>3. QED BY <3>1, <3>2
  <2>4. QED BY <2>1, <2>2, <2>3 DEF PickupsTaken, Regresses
<1>9. CASE ReadShipment(t)
  <2>1. UNCHANGED accepted BY <1>9 DEF ReadShipment
  <2> DEFINE row == Row(s)
             status == scan[i]
  <2>2. \/ x.pc = "write" /\ x.seen = row /\ (MovementChanges(row, status) \/ TakesCustody(row, status))
        \/ x.pc # "write" /\ ~MovementChanges(row, status) /\ ~TakesCustody(row, status)
    <3>1. \/ /\ MovementChanges(row, status) \/ TakesCustody(row, status)
             /\ \E tries : tracker' = [tracker EXCEPT ![t] = Tracking("write", i, row, <<>>, tries)]
          \/ /\ ~MovementChanges(row, status) /\ ~TakesCustody(row, status)
             /\ \E tries, todo : \E pc \in {"seams", "accept"} :
                  tracker' = [tracker EXCEPT ![t] = Tracking(pc, i, row, todo, tries)]
      BY <1>1, <1>2, <1>9 DEF ReadShipment
    <3>2. QED BY <1>3, <1>5, <3>1 DEF Tracking
  <2>3. x.pc = "write" => ~Regresses(x.seen, status)
    BY <2>2 DEF MovementChanges, TakesCustody
  <2>4. ASSUME status = "PICKED_UP", x.pc # "write" PROVE Surfaced(i)
               \/ i \in flagged'
    <3>1. CASE Regresses(row, status)
      <4>1. flagged' = flagged \cup {i} BY <1>1, <1>2, <1>9, <3>1 DEF ReadShipment
      <4>2. QED BY <4>1
    <3>2. CASE ~Regresses(row, status)
      <4>1. custody[s] \notin PrePickup \cup {"CANCEL_REQUESTED"}
        BY <2>2, <2>4, <3>2 DEF TakesCustody, Row
      <4>2. custody[s] # "CANCELLED"
        BY <1>2, <2>4 DEF CancelledNeverPicked, OutOfReach, NotPickedUp
      <4>3. custody[s] = "IN_CUSTODY" BY <1>3, <4>1, <4>2 DEF CustodyStates
      <4>4. QED BY <1>2, <4>3 DEF Surfaced
    <3>3. QED BY <3>1, <3>2
  <2>5. i \in flagged' => Surfaced(i)' BY DEF Surfaced
  <2>6. QED BY <1>7, <1>8, <2>1, <2>3, <2>4, <2>5
<1>10. CASE WriteShipment(t)
  <2>1. UNCHANGED accepted /\ r.pc = "write" /\ r.seen = Row(s)
    <3>1. UNCHANGED accepted /\ r.pc = "write" /\ t \in fresh
      BY <1>10 DEF WriteShipment, VersionMatches, eventVars
    <3>2. r.seen = Row(i[1]) BY <1>1, <3>1 DEF RowInv, ReadsCurrent
    <3>3. QED BY <1>2, <3>1, <3>2
  <2>2. x.pc # "write"
    <3>1. \E pc \in {"seams", "accept"} : \E row, todo, tries :
            tracker' = [tracker EXCEPT ![t] = Tracking(pc, i, row, todo, tries)]
      BY <1>1, <1>10 DEF WriteShipment
    <3>2. QED BY <1>3, <1>5, <3>1 DEF Tracking
  <2>3. ASSUME scan[i] = "PICKED_UP" PROVE Surfaced(i)'
    <3>1. ~Regresses(Row(s), scan[i]) BY <1>1, <2>1 DEF PickupsTaken
    <3>2. custody[s] # "CANCELLED"
      BY <1>2, <2>3 DEF CancelledNeverPicked, OutOfReach, NotPickedUp
    <3>3. CASE custody[s] = "IN_CUSTODY" BY <1>2, <1>7, <3>3 DEF Surfaced
    <3>4. CASE custody[s] \in PrePickup \cup {"CANCEL_REQUESTED"}
      <4>1. TakesCustody(Row(s), scan[i]) BY <2>3, <3>1, <3>4 DEF TakesCustody, Row
      <4>2. custody' = [custody EXCEPT ![s] = "IN_CUSTODY"]
        <5>1. TakesCustody(tracker[t].seen, scan[tracker[t].scan]) BY <1>1, <2>1, <4>1
        <5>2. tracker[t].scan[1] = s BY <1>1, <1>2
        <5>3. QED BY <1>10, <5>1, <5>2 DEF WriteShipment
      <4>3. QED BY <1>2, <1>3, <4>2 DEF Surfaced
    <3>5. QED BY <1>3, <3>2, <3>3, <3>4 DEF CustodyStates
  <2>4. QED BY <1>8, <2>1, <2>2, <2>3
<1>11. CASE CallSeam(t)
  <2>1. UNCHANGED accepted /\ r.pc = "seams" BY <1>11 DEF CallSeam
  <2>2. x.pc # "write" BY <1>3, <1>5, <1>11 DEF CallSeam, Tracking
  <2>3. scan[i] = "PICKED_UP" => Surfaced(i)' BY <1>1, <1>7, <2>1 DEF PickupsTaken
  <2>4. QED BY <1>8, <2>1, <2>2, <2>3
<1>12. CASE RecordEvent(t) \/ VersionMismatch(t)
  <2>1. UNCHANGED accepted BY <1>12 DEF RecordEvent, VersionMismatch, eventVars
  <2>2. x.pc \in {"idle", "read"}
    BY <1>1, <1>3, <1>5, <1>12
    DEF RecordEvent, VersionMismatch, Finish, Throw, Rest, At, Tracking, Idle, Trackings
  <2>3. QED BY <1>8, <2>1, <2>2
<1>13. CASE Accept(t) \/ SeamThrows(t) \/ CrashTracker(t)
  <2>1. x.pc = "idle"
    BY <1>3, <1>5, <1>13 DEF Accept, SeamThrows, CrashTracker, Finish, Throw, Rest, Idle
  <2>2. accepted' \subseteq accepted \cup {i} /\ (i \in accepted' => i \in accepted \/ r.pc = "accept")
    BY <1>1, <1>13 DEF Accept, SeamThrows, CrashTracker, eventVars
  <2>3. QED BY <1>8, <2>1, <2>2
<1>14. QED BY <1>9, <1>10, <1>11, <1>12, <1>13 DEF TrackerStep

\* Every step keeps what has been picked up surfaced.
LEMMA PickupsTakenNext ==
  ASSUME TypeInv, RowInv, CancelledNeverPicked, PickupsTaken, [Next]_vars
  PROVE  PickupsTaken'
<1>1. MachineStep BY RowInvNext
<1>2. ASSUME NEW t \in Trackers, TrackerStep(t) \/ SeamThrows(t) \/ CrashTracker(t)
      PROVE  PickupsTaken'
  BY <1>1, <1>2, TrackerTakes
<1>3. ASSUME \A t \in Trackers : ~(TrackerStep(t) \/ SeamThrows(t) \/ CrashTracker(t))
      PROVE  PickupsTaken'
  <2>1. /\ UNCHANGED <<flagged, accepted>>
        /\ \A t \in Trackers : UNCHANGED tracker[t] \/ tracker'[t].pc = "record"
    BY <1>3, OtherSteps
  <2>2. /\ \A t \in Trackers : tracker[t].pc # "idle" => tracker[t].scan \in Scans
        /\ accepted \subseteq Scans /\ \A j \in Scans : j[1] \in Shipments
    BY TrackingType DEF TypeInv, TypeOK, TrackerTypeOK, EventTypeOK, Scans
  <2>3. ScansKept BY ScansStay
  <2>4. \A t \in Trackers : tracker[t].pc # "idle" => scan'[tracker[t].scan] = scan[tracker[t].scan]
    BY <2>2, <2>3 DEF ScansKept, TypeInv, ArrivedScans
  <2>5. \A i \in accepted : scan'[i] = scan[i] BY <2>2, <2>3 DEF ScansKept, PickupsTaken
  <2>6. \A i \in Scans : Surfaced(i) => Surfaced(i)'
    BY <1>1, <2>1, <2>2, RowsSettle DEF Surfaced, TypeInv
  <2>7. ASSUME NEW t \in Trackers
        PROVE  /\ tracker'[t].pc = "write" => ~Regresses(tracker'[t].seen, scan'[tracker'[t].scan])
               /\ tracker'[t].pc \in {"seams", "accept"} /\ scan'[tracker'[t].scan] = "PICKED_UP" =>
                    Surfaced(tracker[t].scan)'
    <3>1. CASE tracker'[t].pc = "record" BY <3>1
    <3>2. CASE tracker'[t] = tracker[t] BY <2>2, <2>4, <2>6, <3>2 DEF PickupsTaken, Regresses, Surfaced
    <3>3. QED BY <2>1, <3>1, <3>2
  <2>8. AllPickupsSurfaced' BY <2>1, <2>2, <2>5, <2>6 DEF PickupsTaken, AllPickupsSurfaced
  <2>9. QED BY <2>1, <2>5, <2>7, <2>8 DEF PickupsTaken, Regresses
<1>4. QED BY <1>2, <1>3

\* An accepted pickup has taken the parcel into custody or is flagged for review,
\* unless a driver picked up a parcel whose cancellation the courier confirmed.
THEOREM PickupsSurface == Spec => []PickupSurfaced
<1> DEFINE Inv == StraysSpent /\ (NoStrayYet => PickupInv)
<1>1. Init => Inv
  <2> SUFFICES ASSUME Init PROVE Inv
    OBVIOUS
  <2>1. StraysSpent BY ParcelAssumption DEF Init, StraysSpent, FaultKinds
  <2>2. CancelledNeverPicked
    BY DEF Init, CancelledNeverPicked, NotPickedUp, OutOfReach, Confirmed, Idle, Scans
  <2>3. PickupsTaken BY DEF Init, PickupsTaken, AllPickupsSurfaced, Idle
  <2>4. QED BY <2>1, <2>2, <2>3 DEF PickupInv
<1>2. SafetyInv /\ Inv /\ [Next]_vars => Inv'
  <2> SUFFICES ASSUME SafetyInv, Inv, [Next]_vars PROVE Inv'
    OBVIOUS
  <2>1. TypeInv /\ RowInv BY DEF SafetyInv
  <2>2. budget'["strayPickup"] <= budget["strayPickup"] BY <2>1, StrayBudget
  <2>3. budget["strayPickup"] \in Nat /\ budget'["strayPickup"] \in Nat /\ Budget["strayPickup"] \in Nat
    BY <2>1, TypeInvNext, ParcelAssumption DEF TypeInv, TypeOK, BudgetTypeOK, FaultKinds
  <2>4. StraysSpent' BY <2>2, <2>3 DEF StraysSpent
  <2>5. ASSUME NoStrayYet' PROVE PickupInv'
    <3>1. NoStrayYet /\ budget'["strayPickup"] = budget["strayPickup"]
      BY <2>2, <2>3, <2>5 DEF StraysSpent, NoStrayYet
    <3>2. QED BY <2>1, <3>1, CancelledNext, PickupsTakenNext DEF PickupInv
  <2>6. QED BY <2>4, <2>5
<1>3. Inv => PickupSurfaced BY DEF PickupInv, PickupsTaken, PickupSurfaced, NoStrayYet
<1>4. QED BY <1>1, <1>2, <1>3, SafetyInvariant, PTL DEF Spec

=============================================================================
