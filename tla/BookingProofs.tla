---------------------------- MODULE BookingProofs ----------------------------
(***************************************************************************)
(* Theorems about Booking for every value of its constants.                *)
(***************************************************************************)
EXTENDS Booking, TLAPS

(***************************************************************************)
(* Type correctness: first the steps the actions are built from.           *)
(***************************************************************************)

\* A fault taken from the budget leaves a budget.
LEMMA SpendType ==
  ASSUME BudgetTypeOK, NEW kind \in FaultKinds, Spend(kind)
  PROVE  BudgetTypeOK'
BY DEF BudgetTypeOK, Spend

\* The answers an adapter call can return, and what a confirmed one carries.
LEMMA AnswerType ==
  /\ NoAnswer \in Answers /\ Failed \in Answers /\ Unknown \in Answers
  /\ \A a \in Awbs : Confirmed(a) \in Answers
  /\ \A r \in Answers : r.kind = "CONFIRMED" => r.awb \in Awbs
<1>1. \A a \in Awbs : Confirmed(a) \in Answers
  BY Zenon DEF Answers
<1>2. NoAnswer \in Answers /\ Failed \in Answers /\ Unknown \in Answers
  BY Zenon DEF Answers
<1>3. ASSUME NEW r \in Answers, r.kind = "CONFIRMED" PROVE r.awb \in Awbs
  <2>1. NoAnswer.kind = "NONE" /\ Failed.kind = "FAILED" /\ Unknown.kind = "UNKNOWN"
    BY DEF NoAnswer, Failed, Unknown
  <2>2. PICK a \in Awbs : r = Confirmed(a)
    BY <1>3, <2>1 DEF Answers
  <2>3. QED BY <2>2 DEF Confirmed
<1>4. QED BY <1>1, <1>2, <1>3

\* A process is idle, or works on an intent with an answer in its memory.
LEMMA ProcessType ==
  /\ Idle \in Processes
  /\ \A p \in Processes : p.pc # "idle" => p \in Running
  /\ \A p \in Running : p.intent \in Intents /\ p.answer \in Answers /\ p # Idle
  /\ \A pc \in {"claim", "create", "loaded", "settle", "debit", "return"},
        i \in Intents, r \in Answers : Process(pc, i, r) \in Running
BY DEF Processes, Running, Process, Idle

\* An intent is the attempt of a shipment.
LEMMA IntentType ==
  \A i \in Intents : i[1] \in Shipments /\ i[2] \in 1..MaxAttempts /\ i = <<i[1], i[2]>>
BY DEF Intents

\* A job rewritten by the queue is a job.
LEMMA JobType ==
  ASSUME job \in [Intents -> Jobs],
         NEW i \in Intents,
         NEW state \in {"absent", "waiting", "active", "completed", "failed"},
         NEW holder \in Workers \cup {Nobody},
         NEW failures \in Nat, NEW stalls \in 0..MaxStalls,
         job' = [job EXCEPT ![i] = Job(state, holder, failures, stalls)]
  PROVE  job' \in [Intents -> Jobs]
BY DEF Jobs, Job

\* processBooking returning or throwing keeps workers and jobs well typed.
LEMMA ReturnType ==
  ASSUME QueueTypeOK, ProcessTypeOK, NEW w \in Workers, worker[w].pc # "idle",
         Finish(w) \/ Throw(w) \/ Committed(w), UNCHANGED <<toEnqueue, cache, member>>
  PROVE  QueueTypeOK' /\ ProcessTypeOK'
<1> DEFINE i == worker[w].intent
           f == job[i].failures + 1
           state == IF f < JobAttempts THEN "waiting" ELSE "failed"
<1>1. ProcessTypeOK'
  <2>1. At(worker[w], "return") \in Processes BY ProcessType DEF At, ProcessTypeOK, Processes
  <2>2. QED BY <2>1, ProcessType DEF ProcessTypeOK, Finish, Throw, Committed
<1>2. i \in Intents
  BY ProcessType DEF ProcessTypeOK
<1>3. job[i] \in Jobs /\ job[i].failures \in Nat /\ job[i].stalls \in 0..MaxStalls
  BY <1>2 DEF QueueTypeOK, Jobs
<1>4. f \in Nat /\ state \in {"waiting", "failed"}
  BY <1>3
<1>5. \/ job' = job
      \/ job' = [job EXCEPT ![i] = Job("completed", Nobody, job[i].failures, job[i].stalls)]
      \/ job' = [job EXCEPT ![i] = Job(state, Nobody, f, job[i].stalls)]
  BY DEF Finish, Throw, Committed
<1> HIDE DEF f, state
<1>6. job' \in [Intents -> Jobs]
  BY <1>2, <1>3, <1>4, <1>5, JobType DEF QueueTypeOK
<1>7. QED BY <1>1, <1>6 DEF QueueTypeOK

(***************************************************************************)
(* Type correctness, one action at a time.                                 *)
(***************************************************************************)

\* The groups of variables an action leaves alone keep their types.
LEMMA UnchangedTypes ==
  ASSUME TypeOK
  PROVE  /\ UNCHANGED shipmentVars => ShipmentTypeOK'
         /\ UNCHANGED accountVars => AccountTypeOK'
         /\ UNCHANGED queueVars => QueueTypeOK'
         /\ UNCHANGED <<worker, cache, member>> => ProcessTypeOK'
         /\ UNCHANGED courierVars => CourierTypeOK'
         /\ UNCHANGED budget => BudgetTypeOK'
<1> USE DEF TypeOK
<1>1. UNCHANGED shipmentVars => ShipmentTypeOK' BY DEF shipmentVars, ShipmentTypeOK
<1>2. UNCHANGED accountVars => AccountTypeOK' BY DEF accountVars, AccountTypeOK
<1>3. UNCHANGED queueVars => QueueTypeOK' BY DEF queueVars, QueueTypeOK
<1>4. UNCHANGED <<worker, cache, member>> => ProcessTypeOK' BY DEF ProcessTypeOK
<1>5. UNCHANGED courierVars => CourierTypeOK' BY DEF courierVars, CourierTypeOK
<1>6. UNCHANGED budget => BudgetTypeOK' BY DEF BudgetTypeOK
<1>7. QED BY <1>1, <1>2, <1>3, <1>4, <1>5, <1>6

\* Booking a shipment.
LEMMA BookingStepTypeOK ==
  ASSUME TypeOK, NEW s \in Shipments, RouteToManual(s) \/ QueueBooking(s)
  PROVE  TypeOK'
<1> USE BoundsAssumption, NullAssumption DEF TypeOK
<1>1. CASE RouteToManual(s)
  <2>1. ShipmentTypeOK' BY <1>1 DEF RouteToManual, ShipmentTypeOK, BookingStates
  <2>2. QED BY <1>1, <2>1, UnchangedTypes DEF RouteToManual
<1>2. CASE QueueBooking(s)
  <2> DEFINE n == attempts[s] + 1
  <2>1. n \in 1..MaxAttempts /\ <<s, n>> \in Intents
    BY <1>2 DEF QueueBooking, ShipmentTypeOK, Intents
  <2>2. ShipmentTypeOK'
    BY <1>2, <2>1 DEF QueueBooking, ShipmentTypeOK, BookingStates, Outcomes
  <2>3. QueueTypeOK' BY <1>2, <2>1 DEF QueueBooking, QueueTypeOK
  <2>4. QED BY <1>2, <2>2, <2>3, UnchangedTypes DEF QueueBooking
<1>3. QED BY <1>1, <1>2

\* Handing the committed intent to the queue, and recovering a stalled job.
LEMMA QueueStepTypeOK ==
  ASSUME TypeOK, NEW i \in Intents, Enqueue(i) \/ LoseEnqueue(i) \/ RecoverStalled(i)
  PROVE  TypeOK'
<1> USE BoundsAssumption, NullAssumption DEF TypeOK
<1>1. job[i] \in Jobs /\ job[i].failures \in Nat /\ job[i].stalls \in 0..MaxStalls
  BY DEF QueueTypeOK, Jobs
<1>2. CASE RecoverStalled(i)
  <2>1. \/ /\ job[i].stalls + 1 \in 0..MaxStalls
           /\ job' = [job EXCEPT ![i] =
                        Job("waiting", Nobody, job[i].failures, job[i].stalls + 1)]
        \/ job' = [job EXCEPT ![i] = Job("failed", Nobody, job[i].failures, job[i].stalls)]
    BY <1>1, <1>2 DEF RecoverStalled
  <2>2. job' \in [Intents -> Jobs] BY <1>1, <2>1, JobType DEF QueueTypeOK
  <2>3. QueueTypeOK' BY <1>2, <2>2 DEF RecoverStalled, QueueTypeOK
  <2>4. BudgetTypeOK'
    BY <1>2, SpendType, UnchangedTypes DEF RecoverStalled, FaultKinds
  <2>5. QED BY <1>2, <2>3, <2>4, UnchangedTypes DEF RecoverStalled
<1>3. CASE Enqueue(i)
  <2>1. 0 \in Nat /\ 0 \in 0..MaxStalls OBVIOUS
  <2>2. \/ job' = job
        \/ job' = [job EXCEPT ![i] = Job("waiting", Nobody, 0, 0)]
    BY <1>3 DEF Enqueue
  <2>3. job' \in [Intents -> Jobs] BY <2>1, <2>2, JobType DEF QueueTypeOK
  <2>4. QueueTypeOK' BY <1>3, <2>3 DEF Enqueue, QueueTypeOK
  <2>5. QED BY <1>3, <2>4, UnchangedTypes DEF Enqueue
<1>4. CASE LoseEnqueue(i)
  <2>1. QueueTypeOK' BY <1>4 DEF LoseEnqueue, QueueTypeOK
  <2>2. BudgetTypeOK' BY <1>4, SpendType DEF LoseEnqueue, FaultKinds
  <2>3. QED BY <1>4, <2>1, <2>2, UnchangedTypes DEF LoseEnqueue
<1>5. QED BY <1>2, <1>3, <1>4

\* Delivering a job.
LEMMA DeliverTypeOK ==
  ASSUME TypeOK, NEW w \in Workers, NEW i \in Intents, Deliver(w, i)
  PROVE  TypeOK'
<1> USE DEF TypeOK
<1>1. job[i] \in Jobs /\ job[i].failures \in Nat /\ job[i].stalls \in 0..MaxStalls
  BY DEF QueueTypeOK, Jobs
<1>2. job' = [job EXCEPT ![i] = Job("active", w, job[i].failures, job[i].stalls)]
  BY DEF Deliver
<1>3. job' \in [Intents -> Jobs] BY <1>1, <1>2, JobType DEF QueueTypeOK
<1>4. QueueTypeOK' BY <1>3 DEF Deliver, QueueTypeOK
<1>5. Process("claim", i, NoAnswer) \in Processes
  BY ProcessType, AnswerType DEF Processes
<1>6. ProcessTypeOK' BY <1>5 DEF Deliver, ProcessTypeOK
<1>7. QED BY <1>4, <1>6, UnchangedTypes DEF Deliver

\* The death of a worker.
LEMMA CrashWorkerTypeOK ==
  ASSUME TypeOK, NEW w \in Workers, CrashWorker(w)
  PROVE  TypeOK'
<1> USE DEF TypeOK
<1>1. ProcessTypeOK' BY ProcessType, AnswerType DEF CrashWorker, ProcessTypeOK
<1>2. BudgetTypeOK' BY SpendType DEF CrashWorker, FaultKinds
<1>3. QED BY <1>1, <1>2, UnchangedTypes DEF CrashWorker

\* A worker's claim of its intent.
LEMMA ClaimTypeOK ==
  ASSUME TypeOK, NEW w \in Workers, Claim(w)
  PROVE  TypeOK'
<1> USE DEF TypeOK
<1> DEFINE p == worker[w]
<1>1. p \in Running /\ p.pc # "idle" BY ProcessType DEF Claim, ProcessTypeOK
<1>2. ShipmentTypeOK' BY DEF Claim, ShipmentTypeOK, BookingStates
<1>3. QueueTypeOK' /\ ProcessTypeOK'
  <2>1. CASE Finish(w) \/ Throw(w)
    BY <1>1, <2>1, ReturnType DEF Claim
  <2>2. CASE UNCHANGED job /\ worker' = [worker EXCEPT ![w] = At(@, "create")]
    <3>1. At(p, "create") \in Processes BY <1>1, ProcessType DEF At, Processes
    <3>2. ProcessTypeOK' BY <2>2, <3>1 DEF Claim, ProcessTypeOK
    <3>3. QueueTypeOK' BY <2>2 DEF Claim, QueueTypeOK
    <3>4. QED BY <3>2, <3>3
  <2>3. QED BY <2>1, <2>2 DEF Claim
<1>4. QED BY <1>2, <1>3, UnchangedTypes DEF Claim

\* What a returning create call leaves in its worker.
LEMMA AnsweredType ==
  ASSUME ProcessTypeOK, NEW w \in Workers, worker[w].pc # "idle",
         NEW answer \in Answers, UNCHANGED member,
         \/ Return(w, answer) /\ UNCHANGED cache
         \/ Remember(w, answer)
  PROVE  ProcessTypeOK'
<1>1. worker[w] \in Running BY ProcessType DEF ProcessTypeOK
<1>2. Process("settle", worker[w].intent, answer) \in Processes
  BY <1>1, ProcessType DEF Processes
<1>3. worker' \in [Workers -> Processes]
  BY <1>2 DEF Return, Remember, ProcessTypeOK
<1>4. cache' \in [Workers -> [Intents -> Answers]]
  BY DEF Remember, ProcessTypeOK
<1>5. QED BY <1>3, <1>4 DEF ProcessTypeOK

\* The courier only makes parcels for the intent it was asked about.
LEMMA ParcelType ==
  ASSUME TypeOK, NEW i \in Intents, NEW a \in Awbs
  PROVE  NewParcel(i, a) \in Parcels
BY DEF TypeOK, AccountTypeOK, NewParcel, ParcelIn, Parcels

\* Everything a create call may come to.
LEMMA CreateTypeOK ==
  ASSUME TypeOK, NEW w \in Workers,
         \/ CreateAnsweredFromMemory(w) \/ CreateAccepted(w) \/ CreateRejected(w)
         \/ CreateTimedOut(w) \/ CreateNotSent(w) \/ CreateBackPressure(w)
  PROVE  TypeOK'
<1> USE DEF TypeOK
<1> DEFINE i == worker[w].intent
<1>1. AtCreate(w) => worker[w] \in Running /\ worker[w].pc # "idle" /\ i \in Intents
  BY ProcessType DEF AtCreate, ProcessTypeOK
<1>2. Send(w) => AtCreate(w) /\ calls' \in [Intents -> Nat]
  BY <1>1 DEF Send, CourierTypeOK
<1>3. CASE CreateAnsweredFromMemory(w)
  <2>1. cache[w][i] \in Answers BY <1>1, <1>3 DEF CreateAnsweredFromMemory, ProcessTypeOK
  <2>2. ProcessTypeOK'
    BY <1>1, <1>3, <2>1, AnsweredType DEF CreateAnsweredFromMemory
  <2>3. QED BY <1>3, <2>2, UnchangedTypes DEF CreateAnsweredFromMemory
<1>4. CASE CreateAccepted(w)
  <2>1. PICK a \in Awbs : Remember(w, Confirmed(a)) /\ parcels' \subseteq parcels \cup {NewParcel(i, a)}
    BY <1>4 DEF CreateAccepted, IssuedAwbs, CourierTypeOK, Parcels
  <2>2. ProcessTypeOK'
    BY <1>1, <1>2, <1>4, <2>1, AnsweredType, AnswerType DEF CreateAccepted
  <2>3. CourierTypeOK'
    BY <1>1, <1>2, <1>4, <2>1, ParcelType DEF CreateAccepted, CourierTypeOK
  <2>4. BudgetTypeOK'
    BY <1>4, SpendType, UnchangedTypes DEF CreateAccepted, FaultKinds
  <2>5. QED BY <1>4, <2>2, <2>3, <2>4, UnchangedTypes DEF CreateAccepted
<1>5. CASE CreateRejected(w)
  <2>1. ProcessTypeOK' BY <1>1, <1>2, <1>5, AnsweredType, AnswerType DEF CreateRejected
  <2>2. CourierTypeOK'
    BY <1>1, <1>2, <1>5, ParcelType DEF CreateRejected, CourierTypeOK
  <2>3. BudgetTypeOK'
    BY <1>5, SpendType, UnchangedTypes DEF CreateRejected, FaultKinds
  <2>4. QED BY <1>5, <2>1, <2>2, <2>3, UnchangedTypes DEF CreateRejected
<1>6. CASE CreateTimedOut(w)
  <2>1. ProcessTypeOK' BY <1>1, <1>2, <1>6, AnsweredType, AnswerType DEF CreateTimedOut
  <2>2. CourierTypeOK'
    BY <1>1, <1>2, <1>6, ParcelType DEF CreateTimedOut, CourierTypeOK, AccountTypeOK
  <2>3. BudgetTypeOK'
    BY <1>6, SpendType, UnchangedTypes DEF CreateTimedOut, FaultKinds
  <2>4. QED BY <1>6, <2>1, <2>2, <2>3, UnchangedTypes DEF CreateTimedOut
<1>7. CASE CreateNotSent(w)
  <2>1. ProcessTypeOK' BY <1>1, <1>7, AnsweredType, AnswerType DEF CreateNotSent
  <2>2. QED BY <1>7, <2>1, UnchangedTypes DEF CreateNotSent
<1>8. CASE CreateBackPressure(w)
  <2>1. QueueTypeOK' /\ ProcessTypeOK' BY <1>1, <1>8, ReturnType DEF CreateBackPressure
  <2>2. BudgetTypeOK' BY <1>8, SpendType DEF CreateBackPressure, FaultKinds
  <2>3. QED BY <1>8, <2>1, <2>2, UnchangedTypes DEF CreateBackPressure
<1>9. QED BY <1>3, <1>4, <1>5, <1>6, <1>7, <1>8

\* A request that was still under way reaches the courier.
LEMMA LateArrivalTypeOK ==
  ASSUME TypeOK, NEW i \in Intents, LateArrival(i)
  PROVE  TypeOK'
<1> USE DEF TypeOK
<1>1. \A m \in Modes, a \in Awbs : ParcelIn(m, i, a) \in Parcels BY DEF ParcelIn, Parcels
<1>2. CourierTypeOK' BY <1>1 DEF LateArrival, CourierTypeOK
<1>3. QED BY <1>2, UnchangedTypes DEF LateArrival

\* The settling transactions write states and outcomes of their enums.
LEMMA SettlingType ==
  ASSUME ShipmentTypeOK, NEW s \in Shipments, NEW i \in Intents, NEW a \in Awbs,
         NEW from, NEW state \in BookingStates, NEW result \in Outcomes,
         ConfirmBooking(s, i, a, result) \/ SettleAs(s, i, from, state, result)
  PROVE  ShipmentTypeOK'
<1> DEFINE test == mode = "TEST"
<1>1. test \in BOOLEAN OBVIOUS
<1>2. isTest' = isTest \/ isTest' = [isTest EXCEPT ![s] = test]
  BY Zenon DEF ConfirmBooking, SettleAs
<1> HIDE DEF test
<1>3. isTest' \in [Shipments -> BOOLEAN]
  BY <1>1, <1>2 DEF ShipmentTypeOK
<1>4. CASE ConfirmBooking(s, i, a, result)
  <2>1. \/ /\ booking' = [booking EXCEPT ![s] = "FAILED"]
           /\ outcome' = [outcome EXCEPT ![i] = "FAILED"]
           /\ UNCHANGED <<custody, awb>>
        \/ /\ booking' = [booking EXCEPT ![s] = "CONFIRMED"]
           /\ outcome' = [outcome EXCEPT ![i] = result]
           /\ custody' = [custody EXCEPT ![s] = "PICKUP_PENDING"]
           /\ awb' = [awb EXCEPT ![s] = a]
    BY <1>4 DEF ConfirmBooking
  <2>2. UNCHANGED <<collectible, attempts>> BY <1>4 DEF ConfirmBooking
  <2>3. QED BY <1>3, <2>1, <2>2 DEF ShipmentTypeOK, BookingStates, CustodyStates, Outcomes
<1>5. CASE SettleAs(s, i, from, state, result)
  BY <1>5 DEF ShipmentTypeOK, SettleAs
<1>6. QED BY <1>4, <1>5

\* A debit adds at most one well-formed ledger row.
LEMMA DebitType ==
  ASSUME AccountTypeOK, NEW s \in Shipments, Debit(s), UNCHANGED <<subscribed, cycle, mode>>
  PROVE  AccountTypeOK'
BY DEF AccountTypeOK, Debit, Entries

\* A worker settles its answer and debits.
LEMMA SettleTypeOK ==
  ASSUME TypeOK, NEW w \in Workers,
         SettleConfirmed(w) \/ SettleOther(w) \/ WorkerDebits(w) \/ Complete(w)
  PROVE  TypeOK'
<1> USE DEF TypeOK
<1> DEFINE i == worker[w].intent
           a == worker[w].answer.awb
<1>1. /\ worker[w] \in Running /\ worker[w].pc # "idle"
      /\ i \in Intents /\ i[1] \in Shipments /\ worker[w].answer \in Answers
  BY ProcessType, IntentType
     DEF ProcessTypeOK, SettleConfirmed, SettleOther, WorkerDebits, Complete, Settling
<1>2. UNCHANGED <<toEnqueue, cache, member>> /\ (Finish(w) \/ Throw(w) \/ Committed(w))
        => QueueTypeOK' /\ ProcessTypeOK'
  BY <1>1, ReturnType
<1>3. CASE SettleConfirmed(w)
  <2>1. a \in Awbs BY <1>1, <1>3, AnswerType DEF SettleConfirmed, Settling
  <2>2. ConfirmBooking(i[1], i, a, "CONFIRMED") \/ UNCHANGED shipmentVars
    BY <1>3 DEF SettleConfirmed
  <2>3. ShipmentTypeOK'
    <3>1. "CONFIRMED" \in Outcomes /\ "FAILED" \in BookingStates
      BY DEF Outcomes, BookingStates
    <3>2. QED BY <1>1, <2>1, <2>2, <3>1, SettlingType, UnchangedTypes
  <2>4. QueueTypeOK' /\ ProcessTypeOK'
    <3>1. CASE worker' = [worker EXCEPT ![w] = At(@, "debit")] /\ UNCHANGED job
      <4>1. At(worker[w], "debit") \in Processes BY <1>1, ProcessType DEF At, Processes
      <4>2. ProcessTypeOK' BY <1>3, <3>1, <4>1 DEF SettleConfirmed, ProcessTypeOK
      <4>3. QueueTypeOK' BY <1>3, <3>1 DEF SettleConfirmed, QueueTypeOK
      <4>4. QED BY <4>2, <4>3
    <3>2. QED BY <1>2, <1>3, <3>1 DEF SettleConfirmed
  <2>5. QED BY <1>3, <2>3, <2>4, UnchangedTypes DEF SettleConfirmed
<1>4. CASE SettleOther(w)
  <2>1. PICK aa \in Answers : TRUE BY <1>1
  <2>2. \/ SettleAs(i[1], i, {"SUBMITTED"}, "FAILED", "FAILED")
        \/ SettleAs(i[1], i, {"SUBMITTED"}, "OUTCOME_UNKNOWN", "UNKNOWN")
        \/ UNCHANGED shipmentVars
    BY <1>4 DEF SettleOther, SettleFailed, MarkOutcomeUnknown
  <2>3. ShipmentTypeOK'
    BY <1>1, <2>2, UnchangedTypes DEF SettleAs, ShipmentTypeOK, BookingStates, Outcomes
  <2>4. QueueTypeOK' /\ ProcessTypeOK' BY <1>2, <1>4 DEF SettleOther
  <2>5. QED BY <1>4, <2>3, <2>4, UnchangedTypes DEF SettleOther
<1>5. CASE WorkerDebits(w)
  <2>1. AccountTypeOK' BY <1>1, <1>5, DebitType DEF WorkerDebits
  <2>2. QueueTypeOK' /\ ProcessTypeOK' BY <1>2, <1>5 DEF WorkerDebits
  <2>3. QED BY <1>5, <2>1, <2>2, UnchangedTypes DEF WorkerDebits
<1>6. CASE Complete(w)
  BY <1>2, <1>6, UnchangedTypes DEF Complete
<1>7. QED BY <1>3, <1>4, <1>5, <1>6

\* A member's next process value, as every resolution step writes it.
LEMMA MemberType ==
  ASSUME ProcessTypeOK, NEW m \in Members, NEW p \in Processes,
         member' = [member EXCEPT ![m] = p], UNCHANGED <<worker, cache>>
  PROVE  ProcessTypeOK'
BY DEF ProcessTypeOK

\* Taking up an unknown outcome.
LEMMA LoadTypeOK ==
  ASSUME TypeOK, NEW m \in Members, NEW s \in Shipments, LoadOutcomeUnknown(m, s)
  PROVE  TypeOK'
<1> USE DEF TypeOK
<1>1. PICK n \in UnknownAttempts(s) :
        member' = [member EXCEPT ![m] = Process("loaded", <<s, n>>, NoAnswer)]
  BY DEF LoadOutcomeUnknown
<1>2. <<s, n>> \in Intents BY DEF UnknownAttempts, Intents
<1>3. Process("loaded", <<s, n>>, NoAnswer) \in Processes
  BY <1>2, ProcessType, AnswerType DEF Processes
<1>4. ProcessTypeOK' BY <1>1, <1>3, MemberType DEF LoadOutcomeUnknown
<1>5. QED BY <1>4, UnchangedTypes DEF LoadOutcomeUnknown

\* Resolving an unknown outcome.
LEMMA ResolveTypeOK ==
  ASSUME TypeOK, NEW m \in Members,
         \/ LookupByReference(m) \/ OperatorDecides(m) \/ AbandonResolution(m)
         \/ ResolveConfirmed(m) \/ ResolveFailed(m) \/ MemberDebits(m) \/ CrashMember(m)
  PROVE  TypeOK'
<1> USE DEF TypeOK
<1> DEFINE i == member[m].intent
           a == member[m].answer.awb
<1>1. Idle \in Processes /\ NoAnswer \in Answers /\ Failed \in Answers
  BY ProcessType, AnswerType
<1>2. member[m].pc # "idle" => /\ i \in Intents /\ i[1] \in Shipments
                              /\ member[m].answer \in Answers
  BY ProcessType, IntentType DEF ProcessTypeOK
<1>3. \A p \in parcels : Confirmed(p.awb) \in Answers
  BY AnswerType DEF CourierTypeOK, Parcels
<1>4. ASSUME member[m].pc # "idle", UNCHANGED <<worker, cache>>,
             NEW r \in Answers, Decide(m, r)
      PROVE  ProcessTypeOK'
  <2>1. Process("settle", i, r) \in Processes BY <1>2, <1>4, ProcessType DEF Processes
  <2>2. QED BY <1>4, <2>1, MemberType DEF Decide
<1>5. CASE LookupByReference(m)
  <2>1. ProcessTypeOK' BY <1>1, <1>3, <1>4, <1>5 DEF LookupByReference
  <2>2. QED BY <1>5, <2>1, UnchangedTypes DEF LookupByReference
<1>6. CASE OperatorDecides(m)
  <2>1. PICK r \in Answers : Decide(m, r)
    BY <1>1, <1>3, <1>6, AnswerType DEF OperatorDecides
  <2>2. ProcessTypeOK' BY <1>4, <1>6, <2>1 DEF OperatorDecides
  <2>3. BudgetTypeOK' BY <1>6, SpendType, UnchangedTypes DEF OperatorDecides, FaultKinds
  <2>4. QED BY <1>6, <2>2, <2>3, UnchangedTypes DEF OperatorDecides
<1>7. CASE AbandonResolution(m)
  <2>1. ProcessTypeOK' BY <1>1, <1>7, MemberType DEF AbandonResolution
  <2>2. QED BY <1>7, <2>1, UnchangedTypes DEF AbandonResolution
<1>8. CASE ResolveConfirmed(m)
  <2>1. a \in Awbs BY <1>2, <1>8, AnswerType DEF ResolveConfirmed
  <2>2. "RESOLVED_CONFIRMED" \in Outcomes /\ "FAILED" \in BookingStates
    BY DEF Outcomes, BookingStates
  <2>3. ShipmentTypeOK'
    <3>1. ConfirmBooking(i[1], i, a, "RESOLVED_CONFIRMED") \/ UNCHANGED shipmentVars
      BY <1>8 DEF ResolveConfirmed
    <3>2. QED BY <1>2, <1>8, <2>1, <2>2, <3>1, SettlingType, UnchangedTypes DEF ResolveConfirmed
  <2>4. ProcessTypeOK'
    <3>1. At(member[m], "debit") \in Processes
      BY <1>2, <1>8, ProcessType DEF At, Processes, ResolveConfirmed
    <3>2. QED BY <1>1, <1>8, <3>1, MemberType DEF ResolveConfirmed
  <2>5. QED BY <1>8, <2>3, <2>4, UnchangedTypes DEF ResolveConfirmed
<1>9. CASE ResolveFailed(m)
  <2>1. ShipmentTypeOK'
    BY <1>2, <1>9
       DEF ResolveFailed, SettleFailed, SettleAs, ShipmentTypeOK, BookingStates, Outcomes
  <2>2. ProcessTypeOK' BY <1>1, <1>9, MemberType DEF ResolveFailed
  <2>3. QED BY <1>9, <2>1, <2>2, UnchangedTypes DEF ResolveFailed
<1>10. CASE MemberDebits(m)
  <2>1. AccountTypeOK' BY <1>2, <1>10, DebitType DEF MemberDebits
  <2>2. ProcessTypeOK' BY <1>1, <1>10, MemberType DEF MemberDebits
  <2>3. QED BY <1>10, <2>1, <2>2, UnchangedTypes DEF MemberDebits
<1>11. CASE CrashMember(m)
  <2>1. ProcessTypeOK' BY <1>1, <1>11, MemberType DEF CrashMember
  <2>2. BudgetTypeOK' BY <1>11, SpendType DEF CrashMember, FaultKinds
  <2>3. QED BY <1>11, <2>1, <2>2, UnchangedTypes DEF CrashMember
<1>12. QED BY <1>5, <1>6, <1>7, <1>8, <1>9, <1>10, <1>11

\* The account's mode and the subscription change.
LEMMA AccountStepTypeOK ==
  ASSUME TypeOK, SwitchMode \/ ChangeSubscription
  PROVE  TypeOK'
<1> USE DEF TypeOK
<1>1. AccountTypeOK'
  <2>1. mode' \in Modes /\ ledger' = ledger
    BY DEF SwitchMode, ChangeSubscription, AccountTypeOK, Modes
  <2>2. subscribed' \in BOOLEAN
    BY Zenon DEF SwitchMode, ChangeSubscription, AccountTypeOK
  <2>3. cycle' \in Nat BY DEF SwitchMode, ChangeSubscription, AccountTypeOK
  <2>4. QED BY <2>1, <2>2, <2>3 DEF AccountTypeOK
<1>2. BudgetTypeOK' BY SpendType DEF SwitchMode, ChangeSubscription, FaultKinds
<1>3. QED BY <1>1, <1>2, UnchangedTypes DEF SwitchMode, ChangeSubscription

\* Booking keeps its types: every variable, whatever the constants.
THEOREM TypeCorrect == Spec => []TypeOK
<1>1. Init => TypeOK
  <2> SUFFICES ASSUME Init PROVE TypeOK
    OBVIOUS
  <2> USE BoundsAssumption DEF Init
  <2>1. ShipmentTypeOK BY DEF ShipmentTypeOK, BookingStates, CustodyStates, Outcomes
  <2>2. AccountTypeOK BY ModeAssumption DEF AccountTypeOK
  <2>3. NoJob \in Jobs BY DEF Jobs, NoJob, Job
  <2>4. QueueTypeOK BY <2>3 DEF QueueTypeOK
  <2>5. ProcessTypeOK BY ProcessType, AnswerType DEF ProcessTypeOK
  <2>6. CourierTypeOK BY DEF CourierTypeOK
  <2>7. BudgetTypeOK BY DEF BudgetTypeOK
  <2>8. QED BY <2>1, <2>2, <2>4, <2>5, <2>6, <2>7 DEF TypeOK
<1>2. TypeOK /\ [Next]_vars => TypeOK'
  <2> SUFFICES ASSUME TypeOK, [Next]_vars PROVE TypeOK'
    OBVIOUS
  <2>1. CASE \E s \in Shipments : RouteToManual(s) \/ QueueBooking(s)
    BY <2>1, BookingStepTypeOK
  <2>2. CASE \E i \in Intents : Enqueue(i) \/ LoseEnqueue(i) \/ RecoverStalled(i) \/ LateArrival(i)
    BY <2>2, QueueStepTypeOK, LateArrivalTypeOK
  <2>3. CASE \E w \in Workers, i \in Intents : Deliver(w, i)
    BY <2>3, DeliverTypeOK
  <2>4. CASE \E w \in Workers : WorkerStep(w) \/ CrashWorker(w)
    BY <2>4, CrashWorkerTypeOK, ClaimTypeOK, CreateTypeOK, SettleTypeOK DEF WorkerStep
  <2>5. CASE \E m \in Members, s \in Shipments : LoadOutcomeUnknown(m, s)
    BY <2>5, LoadTypeOK
  <2>6. CASE \E m \in Members : MemberStep(m) \/ AbandonResolution(m) \/ CrashMember(m)
    BY <2>6, ResolveTypeOK DEF MemberStep
  <2>7. CASE SwitchMode \/ ChangeSubscription
    BY <2>7, AccountStepTypeOK
  <2>8. CASE UNCHANGED vars
    BY <2>8, UnchangedTypes DEF TypeOK, vars
  <2>9. QED BY <2>1, <2>2, <2>3, <2>4, <2>5, <2>6, <2>7, <2>8 DEF Next
<1>3. QED BY <1>1, <1>2, PTL DEF Spec

(***************************************************************************)
(* Safety. Every step has one of three effects on the shipment rows: none, *)
(* a move of one unbooked row, or the booking of one row under the AWB     *)
(* uniqueness check and the collectible guard. The invariant needs two     *)
(* strengthenings: only a booked shipment has an AWB, and a process about  *)
(* to debit is at a booked shipment.                                       *)
(***************************************************************************)

Booked(s) == booking[s] \in {"CONFIRMED", "VOID"}

AwbOnlyBooked == \A s \in Shipments : awb[s] # NoAwb => Booked(s)

DebitsBooked(p) == p.pc = "debit" => Booked(p.intent[1]) /\ awb[p.intent[1]] # NoAwb
DebitorsBooked == /\ \A w \in Workers : DebitsBooked(worker[w])
                  /\ \A m \in Members : DebitsBooked(member[m])

SafetyInv == /\ TypeOK /\ AwbOnlyBooked /\ DebitorsBooked
             /\ AwbUnique /\ OneCarrier /\ DebitOnlyBooked

Untouched(s) == /\ booking'[s] = booking[s] /\ collectible'[s] = collectible[s]
                /\ awb'[s] = awb[s] /\ isTest'[s] = isTest[s]
Moved(s) == /\ ~Booked(s) /\ ~Booked(s)'
            /\ awb'[s] = awb[s] /\ isTest'[s] = isTest[s]
Books(s) == /\ ~Booked(s) /\ booking'[s] = "CONFIRMED"
            /\ awb'[s] \in Awbs /\ ~AwbTaken(s, awb'[s])
            /\ CollectibleGuard(s) /\ collectible'[s] = collectible[s]
RowEffect ==
  \/ \A t \in Shipments : Untouched(t)
  \/ \E s \in Shipments : /\ Moved(s) \/ Books(s)
                          /\ \A t \in Shipments \ {s} : Untouched(t)

StaysOrBooks(p, q) ==
  q.pc = "debit" => q = p \/ (booking'[q.intent[1]] = "CONFIRMED" /\ awb'[q.intent[1]] \in Awbs)
ProcessEffect ==
  /\ \A w \in Workers : StaysOrBooks(worker[w], worker'[w])
  /\ \A m \in Members : StaysOrBooks(member[m], member'[m])

LedgerEffect ==
  \/ ledger' = ledger
  \/ \E s \in Shipments :
       /\ Debit(s) /\ UNCHANGED shipmentVars
       /\ \/ \E w \in Workers : worker[w].pc = "debit" /\ worker[w].intent[1] = s
          \/ \E m \in Members : member[m].pc = "debit" /\ member[m].intent[1] = s

Effect == RowEffect /\ ProcessEffect /\ LedgerEffect

\* confirmBooking books the row, or moves it to FAILED.
LEMMA SettlingEffect ==
  ASSUME ShipmentTypeOK, NEW s \in Shipments, NEW i \in Intents, NEW a \in Awbs,
         NEW result, ConfirmBooking(s, i, a, result)
  PROVE  RowEffect /\ (~AwbTaken(s, a) => Books(s))
<1> USE DEF ShipmentTypeOK
<1>1. ~AwbTaken(s, a) => Books(s)
  BY DEF ConfirmBooking, Confirmable, Books, Booked
<1>2. CASE AwbTaken(s, a)
  <2>1. Moved(s) /\ \A t \in Shipments \ {s} : Untouched(t)
    BY <1>2 DEF ConfirmBooking, Confirmable, Moved, Untouched, Booked
  <2>2. QED BY <1>1, <2>1 DEF RowEffect
<1>3. CASE ~AwbTaken(s, a)
  <2>1. \A t \in Shipments \ {s} : isTest'[t] = isTest[t]
    BY Zenon, <1>3 DEF ConfirmBooking
  <2>2. \A t \in Shipments \ {s} : Untouched(t)
    BY <1>3, <2>1 DEF ConfirmBooking, Untouched
  <2>3. QED BY <1>1, <1>3, <2>2 DEF RowEffect
<1>4. QED BY <1>2, <1>3

\* An UPDATE that takes an unbooked row to an unbooked state.
LEMMA MovedRowEffect ==
  ASSUME ShipmentTypeOK, NEW s \in Shipments, ~Booked(s),
         NEW state \in BookingStates \ {"CONFIRMED", "VOID"},
         booking' = [booking EXCEPT ![s] = state], UNCHANGED <<collectible, awb, isTest>>
  PROVE  RowEffect
<1>1. Moved(s) /\ \A t \in Shipments \ {s} : Untouched(t)
  BY DEF Moved, Untouched, Booked, ShipmentTypeOK
<1>2. QED BY <1>1 DEF RowEffect

\* The other settling transactions move an unbooked row, or change none.
LEMMA SettledRowEffect ==
  ASSUME ShipmentTypeOK, NEW s \in Shipments, NEW i,
         NEW from \in SUBSET {"SUBMITTED", "OUTCOME_UNKNOWN"},
         NEW state \in BookingStates \ {"CONFIRMED", "VOID"}, NEW result,
         SettleAs(s, i, from, state, result)
  PROVE  RowEffect
<1> USE DEF ShipmentTypeOK
<1>1. CASE booking[s] \in from
  BY <1>1, MovedRowEffect DEF SettleAs, Booked
<1>2. CASE booking[s] \notin from
  <2>1. \A t \in Shipments : Untouched(t) BY <1>2 DEF SettleAs, Untouched
  <2>2. QED BY <2>1 DEF RowEffect
<1>3. QED BY <1>1, <1>2

\* A step that leaves the shipment rows alone has no row effect.
LEMMA NoRowEffect ==
  ASSUME UNCHANGED shipmentVars PROVE RowEffect
BY DEF shipmentVars, RowEffect, Untouched

\* A worker or member that does not reach "debit" in this step cannot break
\* ProcessEffect.
LEMMA ProcessStep ==
  ASSUME ProcessTypeOK, NEW w \in Workers, NEW q, q.pc # "debit",
         worker' = [worker EXCEPT ![w] = q], UNCHANGED member
  PROVE  ProcessEffect
BY DEF ProcessTypeOK, ProcessEffect, StaysOrBooks
\* The same for a step of a resolving member.
LEMMA MemberStepEffect ==
  ASSUME ProcessTypeOK, NEW m \in Members, NEW q, q.pc # "debit",
         member' = [member EXCEPT ![m] = q], UNCHANGED worker
  PROVE  ProcessEffect
BY DEF ProcessTypeOK, ProcessEffect, StaysOrBooks
\* A step that moves no worker and no member has no process effect.
LEMMA NoProcessEffect ==
  ASSUME UNCHANGED <<worker, member>> PROVE ProcessEffect
BY DEF ProcessEffect, StaysOrBooks

\* The pc of the process values the steps write.
LEMMA ProcessPc ==
  /\ Idle.pc = "idle" 
  /\ \A pc, i, r : Process(pc, i, r).pc = pc /\ Process(pc, i, r).intent = i
  /\ \A p, pc : At(p, pc).pc = pc /\ At(p, pc).intent = p.intent
BY DEF Idle, Process, At

\* Booking and queueing steps.
LEMMA BookingEffect ==
  ASSUME TypeOK, NEW s \in Shipments, RouteToManual(s) \/ QueueBooking(s)
  PROVE  Effect
<1>1. Moved(s) /\ \A t \in Shipments \ {s} : Untouched(t)
  BY DEF RouteToManual, QueueBooking, Moved, Untouched, Booked, TypeOK, ShipmentTypeOK
<1>2. ProcessEffect BY NoProcessEffect DEF RouteToManual, QueueBooking
<1>3. LedgerEffect BY DEF RouteToManual, QueueBooking, accountVars, LedgerEffect
<1>4. QED BY <1>1, <1>2, <1>3 DEF Effect, RowEffect

\* Steps of the queue and of the courier on its own.
LEMMA QueueEffect ==
  ASSUME NEW i \in Intents, Enqueue(i) \/ LoseEnqueue(i) \/ RecoverStalled(i) \/ LateArrival(i)
  PROVE  Effect
BY NoRowEffect, NoProcessEffect
   DEF Enqueue, LoseEnqueue, RecoverStalled, LateArrival, accountVars, Effect, LedgerEffect

\* Delivering a job puts its worker at the claim, never at a debit.
LEMMA DeliverEffect ==
  ASSUME TypeOK, NEW w \in Workers, NEW i \in Intents, Deliver(w, i)
  PROVE  Effect
<1> DEFINE q == Process("claim", i, NoAnswer)
<1>1. q.pc # "debit" /\ worker' = [worker EXCEPT ![w] = q] /\ UNCHANGED member
  BY ProcessPc DEF Deliver
<1> HIDE DEF q
<1>2. ProcessEffect BY <1>1, ProcessStep DEF TypeOK
<1>3. QED BY <1>2, NoRowEffect DEF Deliver, accountVars, Effect, LedgerEffect

\* Worker steps up to the answer: the claim moves one row, the rest no row.
LEMMA WorkerEffect ==
  ASSUME TypeOK, NEW w \in Workers,
         \/ CrashWorker(w) \/ Claim(w)
         \/ CreateAnsweredFromMemory(w) \/ CreateAccepted(w) \/ CreateRejected(w)
         \/ CreateTimedOut(w) \/ CreateNotSent(w) \/ CreateBackPressure(w)
  PROVE  Effect
<1> USE DEF TypeOK
<1>1. ProcessEffect
  <2>1. PICK q : q.pc # "debit" /\ worker' = [worker EXCEPT ![w] = q]
    BY ProcessPc
       DEF CrashWorker, Claim, CreateAnsweredFromMemory, CreateAccepted, CreateRejected,
           CreateTimedOut, CreateNotSent, CreateBackPressure, Finish, Throw, Remember, Return
  <2>2. UNCHANGED member
    BY DEF CrashWorker, Claim, CreateAnsweredFromMemory, CreateAccepted, CreateRejected,
           CreateTimedOut, CreateNotSent, CreateBackPressure
  <2>3. QED BY <2>1, <2>2, ProcessStep
<1>2. RowEffect
  <2>1. CASE Claim(w)
    <3> DEFINE s == worker[w].intent[1]
    <3>1. s \in Shipments
      BY <2>1, ProcessType, IntentType DEF Claim, ProcessTypeOK
    <3>2. CASE UNCHANGED booking
      BY <2>1, <3>2 DEF Claim, RowEffect, Untouched
    <3>3. CASE Claimable(worker[w].intent) /\ booking' = [booking EXCEPT ![s] = "SUBMITTED"]
      <4>1. booking[s] \in {"QUEUED", "SUBMITTED"} BY <3>3 DEF Claimable
      <4>2. UNCHANGED <<collectible, awb, isTest>> BY <2>1 DEF Claim
      <4>3. booking' = [booking EXCEPT ![s] = "SUBMITTED"] BY <3>3
      <4> HIDE DEF s
      <4>4. ~Booked(s) /\ "SUBMITTED" \in BookingStates \ {"CONFIRMED", "VOID"}
        BY <4>1 DEF Booked, BookingStates
      <4>5. QED BY <3>1, <4>2, <4>3, <4>4, MovedRowEffect
    <3>4. QED BY <2>1, <3>2, <3>3 DEF Claim
  <2>2. CASE ~Claim(w)
    BY <2>2, NoRowEffect
       DEF CrashWorker, CreateAnsweredFromMemory, CreateAccepted, CreateRejected,
           CreateTimedOut, CreateNotSent, CreateBackPressure
  <2>3. QED BY <2>1, <2>2
<1>3. LedgerEffect
  BY DEF CrashWorker, Claim, CreateAnsweredFromMemory, CreateAccepted, CreateRejected,
         CreateTimedOut, CreateNotSent, CreateBackPressure, accountVars, LedgerEffect
<1>4. QED BY <1>1, <1>2, <1>3 DEF Effect

\* The worker's settling transaction and its debit.
LEMMA SettleEffect ==
  ASSUME TypeOK, NEW w \in Workers,
         SettleConfirmed(w) \/ SettleOther(w) \/ WorkerDebits(w) \/ Complete(w)
  PROVE  Effect
<1> USE DEF TypeOK
<1> DEFINE i == worker[w].intent
           s == i[1]
           a == worker[w].answer.awb
<1>1. i \in Intents /\ s \in Shipments /\ worker[w].answer \in Answers
  BY ProcessType, IntentType
     DEF ProcessTypeOK, SettleConfirmed, SettleOther, WorkerDebits, Complete, Settling
<1>2. Finish(w) \/ Throw(w) \/ Committed(w) => \E q : q.pc # "debit" /\ worker' = [worker EXCEPT ![w] = q]
  BY ProcessPc DEF Finish, Throw, Committed
<1>3. UNCHANGED member /\ (Finish(w) \/ Throw(w) \/ Committed(w)) => ProcessEffect
  BY <1>2, ProcessStep
<1>4. CASE SettleConfirmed(w)
  <2>1. a \in Awbs BY <1>1, <1>4, AnswerType DEF SettleConfirmed, Settling
  <2>3. /\ ConfirmBooking(s, i, a, "CONFIRMED") => RowEffect
        /\ ConfirmBooking(s, i, a, "CONFIRMED") /\ ~AwbTaken(s, a) => Books(s)
    BY <1>1, <2>1, SettlingEffect
  <2>4. RowEffect BY <1>4, <2>3, NoRowEffect DEF SettleConfirmed
  <2>5. ProcessEffect
    <3>1. CASE /\ ConfirmBooking(s, i, a, "CONFIRMED") /\ ~AwbTaken(s, a)
               /\ worker' = [worker EXCEPT ![w] = At(@, "debit")]
      <4>1. booking'[s] = "CONFIRMED" /\ awb'[s] \in Awbs BY <2>3, <3>1 DEF Books
      <4>2. worker'[w].intent = i /\ \A v \in Workers \ {w} : worker'[v] = worker[v]
        BY <3>1, ProcessPc DEF ProcessTypeOK
      <4>3. UNCHANGED member BY <1>4 DEF SettleConfirmed
      <4>4. QED BY <4>1, <4>2, <4>3 DEF ProcessEffect, StaysOrBooks
    <3>2. QED BY <1>3, <1>4, <3>1 DEF SettleConfirmed
  <2>6. LedgerEffect BY <1>4 DEF SettleConfirmed, accountVars, LedgerEffect
  <2>7. QED BY <2>4, <2>5, <2>6 DEF Effect
<1>5. CASE SettleOther(w)
  <2>1. /\ {"SUBMITTED"} \in SUBSET {"SUBMITTED", "OUTCOME_UNKNOWN"}
        /\ {"FAILED", "OUTCOME_UNKNOWN"} \subseteq BookingStates \ {"CONFIRMED", "VOID"}
    BY DEF BookingStates
  <2>2. RowEffect
    <3>1. CASE UNCHANGED shipmentVars BY <3>1, NoRowEffect
    <3>2. CASE SettleAs(s, i, {"SUBMITTED"}, "FAILED", "FAILED")
      BY <1>1, <2>1, <3>2, SettledRowEffect
    <3>3. CASE SettleAs(s, i, {"SUBMITTED"}, "OUTCOME_UNKNOWN", "UNKNOWN")
      BY <1>1, <2>1, <3>3, SettledRowEffect
    <3>4. QED BY <1>5, <3>1, <3>2, <3>3 DEF SettleOther, SettleFailed, MarkOutcomeUnknown
  <2>3. ProcessEffect BY <1>3, <1>5 DEF SettleOther
  <2>4. LedgerEffect BY <1>5 DEF SettleOther, accountVars, LedgerEffect
  <2>5. QED BY <2>2, <2>3, <2>4 DEF Effect
<1>6. CASE WorkerDebits(w)
  <2>1. ProcessEffect BY <1>3, <1>6 DEF WorkerDebits
  <2>2. LedgerEffect BY <1>1, <1>6 DEF WorkerDebits, LedgerEffect
  <2>3. QED BY <1>6, <2>1, <2>2, NoRowEffect DEF WorkerDebits, Effect
<1>7. CASE Complete(w)
  BY <1>3, <1>7, NoRowEffect DEF Complete, accountVars, Effect, LedgerEffect
<1>8. QED BY <1>4, <1>5, <1>6, <1>7

\* Resolution: taking up a shipment, and everything up to the debit.
LEMMA LoadEffect ==
  ASSUME TypeOK, NEW m \in Members, NEW s \in Shipments, LoadOutcomeUnknown(m, s)
  PROVE  Effect
<1>1. PICK q : q.pc # "debit" /\ member' = [member EXCEPT ![m] = q]
  <2>1. PICK n : member' = [member EXCEPT ![m] = Process("loaded", <<s, n>>, NoAnswer)]
    BY DEF LoadOutcomeUnknown
  <2>2. Process("loaded", <<s, n>>, NoAnswer).pc # "debit" BY ProcessPc
  <2>3. QED BY <2>1, <2>2
<1>2. ProcessEffect BY <1>1, MemberStepEffect DEF LoadOutcomeUnknown, TypeOK
<1>3. QED BY <1>2, NoRowEffect DEF LoadOutcomeUnknown, accountVars, Effect, LedgerEffect

\* A resolver's answer, its settling transaction and its debit.
LEMMA ResolveEffect ==
  ASSUME TypeOK, NEW m \in Members,
         \/ LookupByReference(m) \/ OperatorDecides(m) \/ AbandonResolution(m)
         \/ ResolveConfirmed(m) \/ ResolveFailed(m) \/ MemberDebits(m) \/ CrashMember(m)
  PROVE  Effect
<1> USE DEF TypeOK
<1> DEFINE i == member[m].intent
           s == i[1]
           a == member[m].answer.awb
<1>1. member[m].pc # "idle" => /\ i \in Intents /\ s \in Shipments
                              /\ member[m].answer \in Answers
  BY ProcessType, IntentType DEF ProcessTypeOK
<1>2. CASE LookupByReference(m) \/ OperatorDecides(m) \/ AbandonResolution(m) \/ CrashMember(m)
  <2>1. PICK q : q.pc # "debit" /\ member' = [member EXCEPT ![m] = q]
    BY <1>2, ProcessPc
       DEF LookupByReference, OperatorDecides, AbandonResolution, CrashMember, Decide
  <2>2. ProcessEffect
    BY <1>2, <2>1, MemberStepEffect
       DEF LookupByReference, OperatorDecides, AbandonResolution, CrashMember
  <2>3. RowEffect
    BY <1>2, NoRowEffect
       DEF LookupByReference, OperatorDecides, AbandonResolution, CrashMember
  <2>4. LedgerEffect
    BY <1>2 DEF LookupByReference, OperatorDecides, AbandonResolution, CrashMember,
                accountVars, LedgerEffect
  <2>5. QED BY <2>2, <2>3, <2>4 DEF Effect
<1>3. CASE ResolveConfirmed(m)
  <2>1. a \in Awbs /\ i \in Intents /\ s \in Shipments
    BY <1>1, <1>3, AnswerType DEF ResolveConfirmed
  <2>3. /\ ConfirmBooking(s, i, a, "RESOLVED_CONFIRMED") => RowEffect
        /\ ConfirmBooking(s, i, a, "RESOLVED_CONFIRMED") /\ ~AwbTaken(s, a) => Books(s)
    BY <2>1, SettlingEffect
  <2>4. RowEffect BY <1>3, <2>3, NoRowEffect DEF ResolveConfirmed
  <2>5. ProcessEffect
    <3>1. CASE /\ ConfirmBooking(s, i, a, "RESOLVED_CONFIRMED") /\ ~AwbTaken(s, a)
               /\ member' = [member EXCEPT ![m] = At(@, "debit")]
      <4>1. booking'[s] = "CONFIRMED" /\ awb'[s] \in Awbs BY <2>3, <3>1 DEF Books
      <4>2. member'[m].intent = i /\ \A v \in Members \ {m} : member'[v] = member[v]
        BY <3>1, ProcessPc DEF ProcessTypeOK
      <4>3. UNCHANGED worker BY <1>3 DEF ResolveConfirmed
      <4>4. QED BY <4>1, <4>2, <4>3 DEF ProcessEffect, StaysOrBooks
    <3>2. CASE member' = [member EXCEPT ![m] = Idle]
      BY <1>3, <3>2, MemberStepEffect, ProcessPc DEF ResolveConfirmed
    <3>3. QED BY <1>3, <3>1, <3>2 DEF ResolveConfirmed
  <2>6. LedgerEffect BY <1>3 DEF ResolveConfirmed, accountVars, LedgerEffect
  <2>7. QED BY <2>4, <2>5, <2>6 DEF Effect
<1>4. CASE ResolveFailed(m)
  <2>1. /\ {"OUTCOME_UNKNOWN"} \in SUBSET {"SUBMITTED", "OUTCOME_UNKNOWN"}
        /\ "FAILED" \in BookingStates \ {"CONFIRMED", "VOID"}
    BY DEF BookingStates
  <2>2. RowEffect
    BY <1>1, <1>4, <2>1, SettledRowEffect DEF ResolveFailed, SettleFailed
  <2>3. ProcessEffect BY <1>4, MemberStepEffect, ProcessPc DEF ResolveFailed
  <2>4. QED BY <1>4, <2>2, <2>3 DEF ResolveFailed, accountVars, Effect, LedgerEffect
<1>5. CASE MemberDebits(m)
  <2>1. ProcessEffect BY <1>5, MemberStepEffect, ProcessPc DEF MemberDebits
  <2>2. LedgerEffect BY <1>1, <1>5 DEF MemberDebits, LedgerEffect
  <2>3. QED BY <1>5, <2>1, <2>2, NoRowEffect DEF MemberDebits, Effect
<1>6. QED BY <1>2, <1>3, <1>4, <1>5

\* The account's mode and subscription change around the bookings.
LEMMA AccountEffect ==
  ASSUME SwitchMode \/ ChangeSubscription
  PROVE  Effect
BY NoRowEffect, NoProcessEffect DEF SwitchMode, ChangeSubscription, Effect, LedgerEffect

\* Every step of the specification has one of these effects.
LEMMA StepEffect ==
  ASSUME TypeOK, [Next]_vars
  PROVE  Effect
<1>1. CASE \E s \in Shipments : RouteToManual(s) \/ QueueBooking(s)
  BY <1>1, BookingEffect
<1>2. CASE \E i \in Intents : Enqueue(i) \/ LoseEnqueue(i) \/ RecoverStalled(i) \/ LateArrival(i)
  BY <1>2, QueueEffect
<1>3. CASE \E w \in Workers, i \in Intents : Deliver(w, i)
  BY <1>3, DeliverEffect
<1>4. CASE \E w \in Workers : WorkerStep(w) \/ CrashWorker(w)
  BY <1>4, WorkerEffect, SettleEffect DEF WorkerStep
<1>5. CASE \E m \in Members, s \in Shipments : LoadOutcomeUnknown(m, s)
  BY <1>5, LoadEffect
<1>6. CASE \E m \in Members : MemberStep(m) \/ AbandonResolution(m) \/ CrashMember(m)
  BY <1>6, ResolveEffect DEF MemberStep
<1>7. CASE SwitchMode \/ ChangeSubscription
  BY <1>7, AccountEffect
<1>8. CASE UNCHANGED vars
  BY <1>8, NoRowEffect, NoProcessEffect DEF vars, accountVars, Effect, LedgerEffect
<1>9. QED BY <1>1, <1>2, <1>3, <1>4, <1>5, <1>6, <1>7, <1>8 DEF Next

\* No two live shipments hold one AWB: a row effect books only an AWB no other
\* live shipment holds, and never takes one away.
LEMMA AwbUniqueStep ==
  ASSUME TypeOK, AwbOnlyBooked, AwbUnique, RowEffect
  PROVE  AwbOnlyBooked' /\ AwbUnique'
<1> USE DEF TypeOK, ShipmentTypeOK
<1>1. AwbOnlyBooked'
  BY DEF RowEffect, Untouched, Moved, Books, AwbOnlyBooked, Booked
<1>2. AwbUnique'
  <2>1. CASE \A t \in Shipments : Untouched(t)
    BY <2>1 DEF Untouched, AwbUnique
  <2>2. CASE \E s \in Shipments : Moved(s) /\ \A t \in Shipments \ {s} : Untouched(t)
    BY <2>2 DEF Untouched, Moved, AwbUnique, AwbOnlyBooked, Booked
  <2>3. CASE \E s \in Shipments : Books(s) /\ \A t \in Shipments \ {s} : Untouched(t)
    BY <2>3 DEF Untouched, Books, AwbUnique, AwbTaken, Booked
  <2>4. QED BY <2>1, <2>2, <2>3 DEF RowEffect
<1>3. QED BY <1>1, <1>2

\* At most one active carrier: a row is booked only under the collectible guard,
\* and a row whose collectible changes has no AWB.
LEMMA OneCarrierStep ==
  ASSUME TypeOK, AwbOnlyBooked, OneCarrier, RowEffect
  PROVE  OneCarrier'
<1>1. CASE \A t \in Shipments : Untouched(t)
  BY <1>1 DEF Untouched, OneCarrier, Carrier
<1>2. ASSUME NEW s \in Shipments, Moved(s), \A t \in Shipments \ {s} : Untouched(t)
      PROVE  OneCarrier'
  BY <1>2 DEF Untouched, Moved, OneCarrier, Carrier, AwbOnlyBooked
<1>3. ASSUME NEW s \in Shipments, Books(s), \A t \in Shipments \ {s} : Untouched(t)
      PROVE  OneCarrier'
  <2>1. Carrier(s)' => \A t \in Shipments \ {s} : ~Carrier(t)'
    BY <1>3 DEF Books, Untouched, CollectibleGuard, SiblingCarries, Carrier
  <2>2. \A t, u \in Shipments \ {s} : Carrier(t)' /\ Carrier(u)' => t = u
    BY <1>3 DEF Untouched, OneCarrier, Carrier
  <2>3. QED BY <2>1, <2>2 DEF OneCarrier
<1>4. QED BY <1>1, <1>2, <1>3 DEF RowEffect

\* A process reaches its debit only by booking, and a booked row stays booked.
LEMMA DebitorsStep ==
  ASSUME TypeOK, DebitorsBooked, RowEffect, ProcessEffect
  PROVE  DebitorsBooked'
<1> USE DEF TypeOK, ShipmentTypeOK
<1>1. ASSUME NEW s \in Shipments, Booked(s), awb[s] # NoAwb
      PROVE  Booked(s)' /\ awb'[s] # NoAwb
  BY <1>1 DEF RowEffect, Untouched, Moved, Books, Booked
<1>2. ASSUME NEW p \in Processes, NEW q, StaysOrBooks(p, q), DebitsBooked(p)
      PROVE  q.pc = "debit" => /\ booking'[q.intent[1]] \in {"CONFIRMED", "VOID"}
                               /\ awb'[q.intent[1]] # NoAwb
  <2> SUFFICES ASSUME q.pc = "debit"
               PROVE  /\ booking'[q.intent[1]] \in {"CONFIRMED", "VOID"}
                      /\ awb'[q.intent[1]] # NoAwb
    OBVIOUS
  <2>1. CASE q = p
    <3>1. p.intent[1] \in Shipments BY <2>1, ProcessType, IntentType
    <3>2. QED BY <1>1, <1>2, <2>1, <3>1 DEF DebitsBooked, Booked
  <2>2. CASE booking'[q.intent[1]] = "CONFIRMED" /\ awb'[q.intent[1]] \in Awbs
    BY <2>2, NullAssumption
  <2>3. QED BY <1>2, <2>1, <2>2 DEF StaysOrBooks
<1>3. ASSUME NEW w \in Workers PROVE DebitsBooked(worker[w])'
  BY <1>2 DEF ProcessEffect, DebitorsBooked, ProcessTypeOK, DebitsBooked, Booked
<1>4. ASSUME NEW m \in Members PROVE DebitsBooked(member[m])'
  BY <1>2 DEF ProcessEffect, DebitorsBooked, ProcessTypeOK, DebitsBooked, Booked
<1>5. QED BY <1>3, <1>4 DEF DebitorsBooked

\* A debit is written for a booked, non-test shipment without one, and the row
\* it was written for stays booked.
LEMMA DebitStep ==
  ASSUME TypeOK, DebitorsBooked, DebitOnlyBooked, RowEffect, LedgerEffect
  PROVE  DebitOnlyBooked'
<1> USE DEF TypeOK, ShipmentTypeOK
<1>1. ASSUME NEW s \in Shipments, Booked(s), awb[s] # NoAwb, ~isTest[s]
      PROVE  /\ booking'[s] \in {"CONFIRMED", "VOID"}
             /\ awb'[s] # NoAwb /\ ~isTest'[s]
  BY <1>1 DEF RowEffect, Untouched, Moved, Books, Booked
<1>2. \A e \in ledger : e.shipment \in Shipments
  BY DEF AccountTypeOK, Entries
<1>3. CASE ledger' = ledger
  BY <1>1, <1>2, <1>3 DEF DebitOnlyBooked, Booked
<1>4. ASSUME NEW s \in Shipments, Debit(s), UNCHANGED shipmentVars, Booked(s), awb[s] # NoAwb
      PROVE  DebitOnlyBooked'
  <2>1. CASE ledger' = ledger BY <1>3, <2>1
  <2>2. CASE ledger' # ledger
    <3> DEFINE new == [shipment |-> s, direction |-> "DEBIT", cycle |-> cycle]
    <3>1. ledger' = ledger \cup {new} /\ ~isTest[s] /\ ~Debited(s)
      BY <1>4, <2>2 DEF Debit
    <3>2. new.shipment = s /\ new.direction = "DEBIT" OBVIOUS
    <3> HIDE DEF new
    <3>3. UNCHANGED <<booking, awb, isTest>> BY <1>4 DEF shipmentVars
    <3>4. \A e \in ledger' : e.direction = "DEBIT" /\ e.shipment = s => e = new
      BY <3>1 DEF Debited
    <3>5. ASSUME NEW e \in ledger', e.direction = "DEBIT", e.shipment # s
          PROVE  /\ booking[e.shipment] \in {"CONFIRMED", "VOID"}
                 /\ awb[e.shipment] # NoAwb /\ ~isTest[e.shipment]
                 /\ \A f \in ledger' : f.direction = "DEBIT" /\ f.shipment = e.shipment => f = e
      BY <3>1, <3>2, <3>5 DEF DebitOnlyBooked
    <3>6. QED BY <1>4, <3>1, <3>3, <3>4, <3>5 DEF DebitOnlyBooked, Booked
  <2>3. QED BY <2>1, <2>2
<1>5. CASE \E s \in Shipments :
             /\ Debit(s) /\ UNCHANGED shipmentVars
             /\ \/ \E w \in Workers : worker[w].pc = "debit" /\ worker[w].intent[1] = s
                \/ \E m \in Members : member[m].pc = "debit" /\ member[m].intent[1] = s
  BY <1>4, <1>5 DEF DebitorsBooked, DebitsBooked
<1>6. QED BY <1>3, <1>5 DEF LedgerEffect

\* The invariant the theorems below are read off: it holds initially, and every
\* effect of a step preserves each of its parts.
LEMMA SafetyInvariant == Spec => []SafetyInv
<1>1. Init /\ TypeOK => SafetyInv
  BY ProcessPc
     DEF Init, SafetyInv, AwbOnlyBooked, DebitorsBooked, DebitsBooked,
         AwbUnique, OneCarrier, Carrier, DebitOnlyBooked
<1>2. SafetyInv /\ TypeOK' /\ [Next]_vars => SafetyInv'
  BY StepEffect, AwbUniqueStep, OneCarrierStep, DebitorsStep, DebitStep DEF SafetyInv, Effect
<1>3. QED BY <1>1, <1>2, TypeCorrect, PTL DEF Spec

\* INV-6: two live shipments of the courier account never share an AWB.
THEOREM AwbsUnique == Spec => []AwbUnique
BY SafetyInvariant, PTL DEF SafetyInv

\* INV-9: at most one shipment of an order collects its cash.
THEOREM CarrierUnique == Spec => []OneCarrier
BY SafetyInvariant, PTL DEF SafetyInv

\* INV-5, INV-12: a debit exists only for a booked, non-test shipment, and once.
THEOREM DebitsOnlyBooked == Spec => []DebitOnlyBooked
BY SafetyInvariant, PTL DEF SafetyInv

\* INV-17, INV-20: no step takes a confirmed shipment back, or its AWB away.
THEOREM ConfirmedStays == Spec => ConfirmedIsStable
<1>1. TypeOK /\ [Next]_vars =>
        [\A s \in Shipments : booking[s] = "CONFIRMED" =>
           booking'[s] \in {"CONFIRMED", "VOID"} /\ awb'[s] = awb[s] /\ isTest'[s] = isTest[s]]_vars
  BY StepEffect DEF Effect, RowEffect, Untouched, Moved, Books, Booked
<1>2. QED BY <1>1, TypeCorrect, PTL DEF Spec, ConfirmedIsStable

(***************************************************************************)
(* Attempts and their outcomes.  A row enters OUTCOME_UNKNOWN only in the  *)
(* UPDATE that also marks an intent UNKNOWN, and no step marks an intent   *)
(* otherwise while its row stays there.                                    *)
(***************************************************************************)

\* What a step may do to the rows and intents of a shipment that is, or
\* becomes, OUTCOME_UNKNOWN.
UnknownEffect ==
  \A s \in Shipments : booking'[s] = "OUTCOME_UNKNOWN" =>
    \/ /\ booking[s] = "OUTCOME_UNKNOWN"
       /\ \A n \in 1..MaxAttempts : outcome'[<<s, n>>] = outcome[<<s, n>>]
    \/ \E n \in 1..MaxAttempts : outcome'[<<s, n>>] = "UNKNOWN"

\* confirmBooking never leaves its row in OUTCOME_UNKNOWN.
LEMMA ConfirmUnknownEffect ==
  ASSUME ShipmentTypeOK, NEW s \in Shipments, NEW n \in 1..MaxAttempts, NEW a \in Awbs,
         NEW result, ConfirmBooking(s, <<s, n>>, a, result)
  PROVE  UnknownEffect
<1>1. PICK state \in {"FAILED", "CONFIRMED"}, r \in {"FAILED", result} :
        /\ booking' = [booking EXCEPT ![s] = state]
        /\ outcome' = [outcome EXCEPT ![<<s, n>>] = r]
  BY DEF ConfirmBooking
<1>2. QED BY <1>1 DEF UnknownEffect, ShipmentTypeOK, Intents

\* The other settling transactions: OUTCOME_UNKNOWN comes with UNKNOWN.
LEMMA SettleUnknownEffect ==
  ASSUME ShipmentTypeOK, NEW s \in Shipments, NEW n \in 1..MaxAttempts, NEW from,
         NEW state, NEW result, state = "OUTCOME_UNKNOWN" => result = "UNKNOWN",
         SettleAs(s, <<s, n>>, from, state, result)
  PROVE  UnknownEffect
<1>1. CASE UNCHANGED <<booking, outcome>> BY <1>1 DEF UnknownEffect
<1>2. CASE /\ booking' = [booking EXCEPT ![s] = state]
           /\ outcome' = [outcome EXCEPT ![<<s, n>>] = result]
  BY <1>2 DEF UnknownEffect, ShipmentTypeOK, Intents
<1>3. QED BY <1>1, <1>2 DEF SettleAs

\* A step that leaves the shipment rows and intents alone.
LEMMA NoUnknownEffect ==
  ASSUME UNCHANGED shipmentVars PROVE UnknownEffect
BY DEF shipmentVars, UnknownEffect

\* A worker settles.
LEMMA SettleOtherUnknown ==
  ASSUME TypeOK, NEW w \in Workers, SettleConfirmed(w) \/ SettleOther(w)
  PROVE  UnknownEffect
<1> DEFINE i == worker[w].intent
           s == i[1]
           n == i[2]
           a == worker[w].answer.awb
<1>1. /\ i = <<s, n>> /\ s \in Shipments /\ n \in 1..MaxAttempts
      /\ worker[w].answer \in Answers
  BY ProcessType, IntentType DEF TypeOK, ProcessTypeOK, SettleConfirmed, SettleOther, Settling
<1>2. CASE UNCHANGED shipmentVars BY <1>2, NoUnknownEffect
<1>3. CASE SettleConfirmed(w) /\ ConfirmBooking(s, i, a, "CONFIRMED")
  <2>1. a \in Awbs BY <1>1, <1>3, AnswerType DEF SettleConfirmed, Settling
  <2>2. ConfirmBooking(s, <<s, n>>, a, "CONFIRMED") BY <1>1, <1>3
  <2> HIDE DEF s, n, a
  <2>3. QED BY <1>1, <2>1, <2>2, ConfirmUnknownEffect DEF TypeOK
<1>4. CASE \/ SettleAs(s, i, {"SUBMITTED"}, "FAILED", "FAILED")
           \/ SettleAs(s, i, {"SUBMITTED"}, "OUTCOME_UNKNOWN", "UNKNOWN")
  <2>1. \/ SettleAs(s, <<s, n>>, {"SUBMITTED"}, "FAILED", "FAILED")
        \/ SettleAs(s, <<s, n>>, {"SUBMITTED"}, "OUTCOME_UNKNOWN", "UNKNOWN")
    BY <1>1, <1>4
  <2> HIDE DEF s, n
  <2>2. QED BY <1>1, <2>1, SettleUnknownEffect DEF TypeOK
<1>5. QED
  BY <1>2, <1>3, <1>4 DEF SettleConfirmed, SettleOther, SettleFailed, MarkOutcomeUnknown

\* A resolver settles.
LEMMA ResolveUnknown ==
  ASSUME TypeOK, NEW m \in Members, ResolveConfirmed(m) \/ ResolveFailed(m)
  PROVE  UnknownEffect
<1> DEFINE i == member[m].intent
           s == i[1]
           n == i[2]
           a == member[m].answer.awb
<1>1. /\ i = <<s, n>> /\ s \in Shipments /\ n \in 1..MaxAttempts
      /\ member[m].answer \in Answers
  BY ProcessType, IntentType DEF TypeOK, ProcessTypeOK, ResolveConfirmed, ResolveFailed
<1>2. CASE UNCHANGED shipmentVars BY <1>2, NoUnknownEffect
<1>3. CASE ResolveConfirmed(m) /\ ConfirmBooking(s, i, a, "RESOLVED_CONFIRMED")
  <2>1. a \in Awbs BY <1>1, <1>3, AnswerType DEF ResolveConfirmed
  <2>2. ConfirmBooking(s, <<s, n>>, a, "RESOLVED_CONFIRMED") BY <1>1, <1>3
  <2> HIDE DEF s, n, a
  <2>3. QED BY <1>1, <2>1, <2>2, ConfirmUnknownEffect DEF TypeOK
<1>4. CASE SettleAs(s, i, {"OUTCOME_UNKNOWN"}, "FAILED", "RESOLVED_FAILED")
  <2>1. SettleAs(s, <<s, n>>, {"OUTCOME_UNKNOWN"}, "FAILED", "RESOLVED_FAILED")
    BY <1>1, <1>4
  <2> HIDE DEF s, n
  <2>2. QED BY <1>1, <2>1, SettleUnknownEffect DEF TypeOK
<1>5. QED BY <1>2, <1>3, <1>4 DEF ResolveConfirmed, ResolveFailed, SettleFailed

\* queueBooking, the routing to a human and the claim do not lead to
\* OUTCOME_UNKNOWN, and touch no row that is there.
LEMMA BookingUnknown ==
  ASSUME TypeOK, NEW s \in Shipments, RouteToManual(s) \/ QueueBooking(s)
  PROVE  UnknownEffect
<1>1. CASE RouteToManual(s)
  BY <1>1 DEF RouteToManual, UnknownEffect, TypeOK, ShipmentTypeOK
<1>2. CASE QueueBooking(s)
  BY <1>2 DEF QueueBooking, UnknownEffect, TypeOK, ShipmentTypeOK, Intents
<1>3. QED BY <1>1, <1>2
LEMMA ClaimUnknown ==
  ASSUME TypeOK, NEW w \in Workers, Claim(w)
  PROVE  UnknownEffect
<1>1. outcome' = outcome BY DEF Claim
<1>2. booking' = booking \/ booking' = [booking EXCEPT ![worker[w].intent[1]] = "SUBMITTED"]
  BY DEF Claim
<1>3. QED BY <1>1, <1>2 DEF UnknownEffect, TypeOK, ShipmentTypeOK

\* Every step of the specification.
LEMMA UnknownStep ==
  ASSUME TypeOK, [Next]_vars
  PROVE  UnknownEffect
<1>1. CASE \E s \in Shipments : RouteToManual(s) \/ QueueBooking(s)
  BY <1>1, BookingUnknown
<1>2. CASE \E i \in Intents : Enqueue(i) \/ LoseEnqueue(i) \/ RecoverStalled(i) \/ LateArrival(i)
  BY <1>2, NoUnknownEffect DEF Enqueue, LoseEnqueue, RecoverStalled, LateArrival
<1>3. CASE \E w \in Workers, i \in Intents : Deliver(w, i)
  BY <1>3, NoUnknownEffect DEF Deliver
<1>4. CASE \E w \in Workers : WorkerStep(w) \/ CrashWorker(w)
  BY <1>4, NoUnknownEffect, ClaimUnknown, SettleOtherUnknown
     DEF WorkerStep, CrashWorker, CreateAnsweredFromMemory, CreateAccepted, CreateRejected,
         CreateTimedOut, CreateNotSent, CreateBackPressure, WorkerDebits, Complete
<1>5. CASE \E m \in Members, s \in Shipments : LoadOutcomeUnknown(m, s)
  BY <1>5, NoUnknownEffect DEF LoadOutcomeUnknown
<1>6. CASE \E m \in Members : MemberStep(m) \/ AbandonResolution(m) \/ CrashMember(m)
  BY <1>6, NoUnknownEffect, ResolveUnknown
     DEF MemberStep, LookupByReference, OperatorDecides, MemberDebits, AbandonResolution,
         CrashMember
<1>7. CASE SwitchMode \/ ChangeSubscription
  BY <1>7, NoUnknownEffect DEF SwitchMode, ChangeSubscription
<1>8. CASE UNCHANGED vars
  BY <1>8, NoUnknownEffect DEF vars
<1>9. QED BY <1>1, <1>2, <1>3, <1>4, <1>5, <1>6, <1>7, <1>8 DEF Next

\* Whoever settles, and however often a job is delivered or a resolver is late:
\* a shipment in OUTCOME_UNKNOWN has the intent that loadOutcomeUnknown looks for.
THEOREM UnknownsResolvable == Spec => []UnknownIsResolvable
<1>1. Init => UnknownIsResolvable
  BY DEF Init, UnknownIsResolvable
<1>2. TypeOK /\ UnknownIsResolvable /\ [Next]_vars => UnknownIsResolvable'
  <2> SUFFICES ASSUME TypeOK, UnknownIsResolvable, [Next]_vars,
                      NEW s \in Shipments, booking'[s] = "OUTCOME_UNKNOWN"
               PROVE  \E n \in 1..MaxAttempts : outcome'[<<s, n>>] = "UNKNOWN"
    BY DEF UnknownIsResolvable, UnknownAttempts
  <2>1. UnknownEffect BY UnknownStep
  <2>2. QED BY <2>1 DEF UnknownEffect, UnknownIsResolvable, UnknownAttempts
<1>3. QED BY <1>1, <1>2, TypeCorrect, PTL DEF Spec

(***************************************************************************)
(* One delivery at a time.  Until a job's lock is lost under a running     *)
(* worker ("stall"), a worker that is not idle holds the job of its        *)
(* intent; so at most one works on an intent, and while it creates or      *)
(* settles, that intent is in flight and is the only active one of its     *)
(* shipment.  Of two requests that resolve one shipment at the same time   *)
(* the later one may settle an attempt that is over; OneResolver excludes  *)
(* that.                                                                   *)
(***************************************************************************)

NoStallYet == budget["stall"] = Budget["stall"]
OneResolver == \A m, n \in Members : m = n

StallsSpent == budget["stall"] <= Budget["stall"]

HoldersOK == \A w \in Workers : worker[w].pc # "idle" =>
  /\ job[worker[w].intent].state = "active"
  /\ job[worker[w].intent].holder = w

Attempting(p) == p.pc \in {"create", "settle"}
Resolving(p) == p.pc \in {"loaded", "settle"}
InFlight(i) == outcome[i] = "IN_FLIGHT" /\ booking[i[1]] = "SUBMITTED"
InDoubt(i) == outcome[i] = "UNKNOWN" /\ booking[i[1]] = "OUTCOME_UNKNOWN"
ActorsOK ==
  /\ \A w \in Workers : Attempting(worker[w]) => InFlight(worker[w].intent)
  /\ \A m \in Members : Resolving(member[m]) => InDoubt(member[m].intent)

AttemptInv == HoldersOK /\ ActorsOK /\ IntentsSettled

\* A step takes at most one fault from the budget.
LEMMA FaultSpent ==
  ASSUME [Next]_vars
  PROVE  UNCHANGED budget \/ \E k \in FaultKinds : Spend(k)
<1>1. CASE \E s \in Shipments : RouteToManual(s) \/ QueueBooking(s)
  BY <1>1 DEF RouteToManual, QueueBooking
<1>2. CASE \E i \in Intents : Enqueue(i) \/ LoseEnqueue(i) \/ RecoverStalled(i) \/ LateArrival(i)
  BY <1>2 DEF Enqueue, LoseEnqueue, RecoverStalled, LateArrival, FaultKinds
<1>3. CASE \E w \in Workers, i \in Intents : Deliver(w, i)
  BY <1>3 DEF Deliver
<1>4. CASE \E w \in Workers : WorkerStep(w) \/ CrashWorker(w)
  BY <1>4
     DEF WorkerStep, Claim, CrashWorker, CreateAnsweredFromMemory, CreateAccepted,
         CreateRejected, CreateTimedOut, CreateNotSent, CreateBackPressure,
         SettleConfirmed, SettleOther, WorkerDebits, Complete, FaultKinds
<1>5. CASE \E m \in Members, s \in Shipments : LoadOutcomeUnknown(m, s)
  BY <1>5 DEF LoadOutcomeUnknown
<1>6. CASE \E m \in Members : MemberStep(m) \/ AbandonResolution(m) \/ CrashMember(m)
  BY <1>6
     DEF MemberStep, LookupByReference, OperatorDecides, ResolveConfirmed, ResolveFailed,
         MemberDebits, AbandonResolution, CrashMember, FaultKinds
<1>7. CASE SwitchMode \/ ChangeSubscription
  BY <1>7 DEF SwitchMode, ChangeSubscription, FaultKinds
<1>8. CASE UNCHANGED vars BY <1>8 DEF vars
<1>9. QED BY <1>1, <1>2, <1>3, <1>4, <1>5, <1>6, <1>7, <1>8 DEF Next

\* No step adds to a budget of faults, and a stall takes from its own.
LEMMA StallBudget ==
  ASSUME TypeOK, [Next]_vars
  PROVE  /\ \A k \in FaultKinds : budget'[k] <= budget[k]
         /\ "stall" \in FaultKinds
         /\ \A i \in Intents : RecoverStalled(i) /\ budget'["stall"] = budget["stall"]
              => worker[job[i].holder].intent # i
<1> USE DEF TypeOK, BudgetTypeOK
<1>1. "stall" \in FaultKinds BY DEF FaultKinds
<1>2. \A k, l \in FaultKinds : Spend(k) => budget'[l] <= budget[l]
  BY DEF Spend
<1>3. UNCHANGED budget => \A l \in FaultKinds : budget'[l] <= budget[l]
  OBVIOUS
<1>4. Spend("stall") => budget'["stall"] # budget["stall"]
  BY <1>1 DEF Spend
<1>5. QED BY <1>1, <1>2, <1>3, <1>4, FaultSpent DEF RecoverStalled

\* Workers that go on with their intent, or rest, while no job changes.
LEMMA HoldersKept ==
  ASSUME HoldersOK, UNCHANGED job,
         \A w \in Workers : worker'[w].pc # "idle" =>
           worker[w].pc # "idle" /\ worker'[w].intent = worker[w].intent
  PROVE  HoldersOK'
BY DEF HoldersOK

\* A job that no worker is at changes.
LEMMA HoldersElsewhere ==
  ASSUME TypeOK, HoldersOK, NEW i \in Intents, UNCHANGED worker,
         \A j \in Intents \ {i} : job'[j] = job[j],
         \A w \in Workers : worker[w].pc # "idle" => worker[w].intent # i
  PROVE  HoldersOK'
<1>1. \A w \in Workers : worker[w].pc # "idle" => worker[w].intent \in Intents
  BY ProcessType DEF TypeOK, ProcessTypeOK
<1>2. QED BY <1>1 DEF HoldersOK

\* A worker returns and lets go of its job: nobody else was at it.
LEMMA HoldersReturn ==
  ASSUME TypeOK, HoldersOK, NEW w \in Workers, worker[w].pc # "idle",
         Finish(w) \/ Throw(w) \/ Committed(w)
  PROVE  HoldersOK'
<1> DEFINE i == worker[w].intent
<1>1. \A v \in Workers : worker[v].pc # "idle" => worker[v].intent \in Intents
  BY ProcessType DEF TypeOK, ProcessTypeOK
<1>2. CASE Committed(w)
  <2>1. \A v \in Workers : worker'[v].pc # "idle" =>
          worker[v].pc # "idle" /\ worker'[v].intent = worker[v].intent
    BY <1>2, ProcessPc DEF Committed, TypeOK, ProcessTypeOK
  <2>2. QED BY <1>2, <2>1, HoldersKept DEF Committed
<1>3. CASE Finish(w) \/ Throw(w)
  <2>1. worker' = [worker EXCEPT ![w] = Idle] BY <1>3 DEF Finish, Throw
  <2>2. \A j \in Intents \ {i} : job'[j] = job[j]
    BY <1>3 DEF Finish, Throw, TypeOK, QueueTypeOK
  <2>3. worker'[w].pc = "idle" /\ \A v \in Workers \ {w} : worker'[v] = worker[v]
    BY <2>1, ProcessPc DEF TypeOK, ProcessTypeOK
  <2>4. \A v \in Workers \ {w} : worker[v].pc # "idle" => worker[v].intent # i
    BY DEF HoldersOK
  <2>5. QED BY <1>1, <2>2, <2>3, <2>4 DEF HoldersOK
<1>4. QED BY <1>2, <1>3

\* Every step keeps the jobs with their workers, but a stall.
LEMMA HoldersStep ==
  ASSUME TypeOK, HoldersOK, [Next]_vars, budget'["stall"] = budget["stall"]
  PROVE  HoldersOK'
<1>1. CASE UNCHANGED <<job, worker>>
  BY <1>1 DEF HoldersOK
<1>2. ASSUME NEW i \in Intents, Enqueue(i) \/ RecoverStalled(i)
      PROVE  HoldersOK'
  <2>1. UNCHANGED worker /\ \A j \in Intents \ {i} : job'[j] = job[j]
    BY <1>2 DEF Enqueue, RecoverStalled, TypeOK, QueueTypeOK
  <2>2. CASE UNCHANGED job BY <1>1, <2>1, <2>2
  <2>3. CASE Enqueue(i) /\ job[i].state = "absent"
    <3>1. \A w \in Workers : worker[w].pc # "idle" => worker[w].intent # i
      BY <2>3 DEF HoldersOK
    <3>2. QED BY <2>1, <3>1, HoldersElsewhere
  <2>4. CASE RecoverStalled(i)
    <3>1. worker[job[i].holder].intent # i BY <2>4, StallBudget
    <3>2. \A w \in Workers : worker[w].pc # "idle" => worker[w].intent # i
      BY <3>1 DEF HoldersOK
    <3>3. QED BY <2>1, <3>2, HoldersElsewhere
  <2>5. QED BY <1>2, <2>2, <2>3, <2>4 DEF Enqueue
<1>3. ASSUME NEW w \in Workers, NEW i \in Intents, Deliver(w, i)
      PROVE  HoldersOK'
  <2>1. /\ worker'[w].intent = i /\ job'[i].state = "active" /\ job'[i].holder = w
        /\ \A v \in Workers \ {w} : worker'[v] = worker[v]
        /\ \A j \in Intents \ {i} : job'[j] = job[j]
    BY <1>3, ProcessPc DEF Deliver, Job, TypeOK, QueueTypeOK, ProcessTypeOK
  <2>2. \A v \in Workers : worker[v].pc # "idle" => worker[v].intent \in Intents \ {i}
    BY <1>3, ProcessType DEF Deliver, HoldersOK, TypeOK, ProcessTypeOK
  <2>3. QED BY <2>1, <2>2 DEF HoldersOK
<1>4. ASSUME NEW w \in Workers, WorkerStep(w) \/ CrashWorker(w)
      PROVE  HoldersOK'
  <2>1. worker[w].pc # "idle"
    BY <1>4 DEF WorkerStep, Claim, CrashWorker, CreateAnsweredFromMemory, CreateAccepted,
           CreateRejected, CreateTimedOut, CreateNotSent, CreateBackPressure, Send, AtCreate,
           SettleConfirmed, SettleOther, Settling, WorkerDebits, Complete
  <2>2. CASE Finish(w) \/ Throw(w) \/ Committed(w)
    BY <2>1, <2>2, HoldersReturn
  <2>3. CASE /\ UNCHANGED job
             /\ \E q : /\ worker' = [worker EXCEPT ![w] = q]
                       /\ q.intent = worker[w].intent \/ q.pc = "idle"
    <3>1. \A v \in Workers : worker'[v].pc # "idle" =>
            worker[v].pc # "idle" /\ worker'[v].intent = worker[v].intent
      BY <2>1, <2>3 DEF TypeOK, ProcessTypeOK
    <3>2. QED BY <2>3, <3>1, HoldersKept
  <2>4. CASE Claim(w) \/ SettleConfirmed(w) \/ SettleOther(w) \/ WorkerDebits(w) \/ Complete(w)
    BY <2>2, <2>3, <2>4, ProcessPc
       DEF Claim, SettleConfirmed, SettleOther, WorkerDebits, Complete
  <2>5. CASE \/ CrashWorker(w) \/ CreateAnsweredFromMemory(w) \/ CreateAccepted(w)
             \/ CreateRejected(w) \/ CreateTimedOut(w) \/ CreateNotSent(w)
    BY <2>3, <2>5, ProcessPc
       DEF CrashWorker, CreateAnsweredFromMemory, CreateAccepted, CreateRejected,
           CreateTimedOut, CreateNotSent, Remember, Return, queueVars
  <2>6. CASE CreateBackPressure(w) BY <2>2, <2>6 DEF CreateBackPressure
  <2>7. QED BY <1>4, <2>4, <2>5, <2>6 DEF WorkerStep
<1>5. CASE \E i \in Intents : LoseEnqueue(i) \/ LateArrival(i)
  BY <1>1, <1>5 DEF LoseEnqueue, LateArrival, queueVars
<1>6. CASE \E s \in Shipments : RouteToManual(s) \/ QueueBooking(s)
  BY <1>1, <1>6 DEF RouteToManual, QueueBooking, queueVars
<1>7. CASE \E m \in Members, s \in Shipments : LoadOutcomeUnknown(m, s)
  BY <1>1, <1>7 DEF LoadOutcomeUnknown, queueVars
<1>8. CASE \E m \in Members : MemberStep(m) \/ AbandonResolution(m) \/ CrashMember(m)
  BY <1>1, <1>8
     DEF MemberStep, LookupByReference, OperatorDecides, ResolveConfirmed, ResolveFailed,
         MemberDebits, AbandonResolution, CrashMember, queueVars
<1>9. CASE SwitchMode \/ ChangeSubscription
  BY <1>1, <1>9 DEF SwitchMode, ChangeSubscription, queueVars
<1>10. CASE UNCHANGED vars BY <1>1, <1>10 DEF vars, queueVars
<1>11. QED
  BY <1>2, <1>3, <1>4, <1>5, <1>6, <1>7, <1>8, <1>9, <1>10 DEF Next

(***************************************************************************)
(* The attempts.  A step leaves the rows alone, claims an attempt, or      *)
(* rewrites one row that no other process is at.                           *)
(***************************************************************************)

RowSettled(s) ==
  IF booking[s] \in {"QUEUED", "SUBMITTED", "OUTCOME_UNKNOWN"}
    THEN ActiveIntents(s) = {attempts[s]} ELSE ActiveIntents(s) = {}
RowUnchanged(s) ==
  /\ booking'[s] = booking[s] /\ attempts'[s] = attempts[s]
  /\ \A n \in 1..MaxAttempts : outcome'[<<s, n>>] = outcome[<<s, n>>]

\* What the processes carry over a step: the same attempt, at another shipment.
CarriesOn(p, q) == Attempting(q) => Attempting(p) /\ q.intent = p.intent
ResolvesOn(p, q) == Resolving(q) => Resolving(p) /\ q.intent = p.intent

\* A row keeps its attempts settled while nothing of it changes.
LEMMA RowKept ==
  ASSUME NEW s \in Shipments, RowSettled(s), RowUnchanged(s)
  PROVE  RowSettled(s)'
<1>1. ActiveIntents(s)' = ActiveIntents(s) BY DEF RowUnchanged, ActiveIntents
<1>2. QED BY <1>1 DEF RowUnchanged, RowSettled

\* The intent a worker creates or settles is the only active one of its
\* shipment, and the worker is alone at the shipment.
LEMMA SoleAttempt ==
  ASSUME TypeOK, AttemptInv, NEW w \in Workers, Attempting(worker[w])
  PROVE  LET s == worker[w].intent[1] IN
         /\ s \in Shipments /\ worker[w].intent \in Intents
         /\ worker[w].intent = <<s, attempts[s]>> /\ ActiveIntents(s) = {attempts[s]}
         /\ \A v \in Workers \ {w} : Attempting(worker[v]) => worker[v].intent[1] # s
         /\ \A m \in Members : Resolving(member[m]) => member[m].intent[1] # s
<1> DEFINE s == worker[w].intent[1]
<1>1. \A v \in Workers : Attempting(worker[v]) =>
        /\ worker[v].intent \in Intents /\ worker[v].pc # "idle"
        /\ worker[v].intent[1] \in Shipments /\ worker[v].intent[2] \in 1..MaxAttempts
        /\ worker[v].intent = <<worker[v].intent[1], worker[v].intent[2]>>
  BY ProcessType, IntentType DEF TypeOK, ProcessTypeOK, Attempting
<1>2. \A v \in Workers : Attempting(worker[v]) =>
        worker[v].intent = <<worker[v].intent[1], attempts[worker[v].intent[1]]>>
  <2> TAKE v \in Workers
  <2> HAVE Attempting(worker[v])
  <2>1. InFlight(worker[v].intent) BY DEF AttemptInv, ActorsOK
  <2>2. ActiveIntents(worker[v].intent[1]) = {attempts[worker[v].intent[1]]}
    BY <1>1, <2>1 DEF AttemptInv, IntentsSettled, InFlight
  <2>3. worker[v].intent[2] \in ActiveIntents(worker[v].intent[1])
    BY <1>1, <2>1 DEF ActiveIntents, InFlight
  <2>4. QED BY <1>1, <2>2, <2>3
<1>3. \A v \in Workers \ {w} : Attempting(worker[v]) => worker[v].intent[1] # s
  BY <1>1, <1>2 DEF AttemptInv, HoldersOK
<1>4. InFlight(worker[w].intent) BY DEF AttemptInv, ActorsOK
<1>5. ActiveIntents(s) = {attempts[s]}
  BY <1>1, <1>4 DEF AttemptInv, IntentsSettled, InFlight
<1>6. \A m \in Members : Resolving(member[m]) => member[m].intent[1] # s
  BY <1>4 DEF AttemptInv, ActorsOK, InFlight, InDoubt
<1>7. QED BY <1>1, <1>2, <1>3, <1>5, <1>6

\* The shipment of a resolved attempt is in doubt, and so is no worker's.
LEMMA SoleResolution ==
  ASSUME TypeOK, AttemptInv, OneResolver, NEW m \in Members, Resolving(member[m])
  PROVE  LET s == member[m].intent[1] IN
         /\ s \in Shipments /\ member[m].intent \in Intents
         /\ member[m].intent = <<s, attempts[s]>> /\ ActiveIntents(s) = {attempts[s]}
         /\ \A v \in Workers : Attempting(worker[v]) => worker[v].intent[1] # s
         /\ \A k \in Members \ {m} : ~Resolving(member[k])
<1> DEFINE s == member[m].intent[1]
<1>1. /\ member[m].intent \in Intents /\ s \in Shipments
      /\ member[m].intent[2] \in 1..MaxAttempts /\ member[m].intent = <<s, member[m].intent[2]>>
  BY ProcessType, IntentType DEF TypeOK, ProcessTypeOK, Resolving
<1>2. InDoubt(member[m].intent) BY DEF AttemptInv, ActorsOK
<1>3. ActiveIntents(s) = {attempts[s]}
  BY <1>1, <1>2 DEF AttemptInv, IntentsSettled, InDoubt
<1>4. member[m].intent[2] \in ActiveIntents(s)
  BY <1>1, <1>2 DEF ActiveIntents, InDoubt
<1>5. \A v \in Workers : Attempting(worker[v]) => worker[v].intent[1] # s
  BY <1>2 DEF AttemptInv, ActorsOK, InFlight, InDoubt
<1>6. QED BY <1>1, <1>3, <1>4, <1>5 DEF OneResolver

\* A step that changes no row, and takes up no attempt.
LEMMA AttemptsKept ==
  ASSUME ActorsOK, IntentsSettled, UNCHANGED <<booking, attempts, outcome>>,
         \A w \in Workers : CarriesOn(worker[w], worker'[w]),
         \A m \in Members : ResolvesOn(member[m], member'[m])
  PROVE  ActorsOK' /\ IntentsSettled'
<1>1. ActorsOK' BY DEF ActorsOK, CarriesOn, ResolvesOn, InFlight, InDoubt
<1>2. IntentsSettled' BY DEF IntentsSettled, ActiveIntents
<1>3. QED BY <1>1, <1>2

\* A step that rewrites the row of one shipment, at which no process stays.
LEMMA OneRowStep ==
  ASSUME TypeOK, ActorsOK, IntentsSettled, NEW s \in Shipments, RowSettled(s)',
         \A t \in Shipments \ {s} : RowUnchanged(t),
         \A w \in Workers : /\ CarriesOn(worker[w], worker'[w])
                            /\ Attempting(worker'[w]) => worker[w].intent[1] # s,
         \A m \in Members : /\ ResolvesOn(member[m], member'[m])
                            /\ Resolving(member'[m]) => member[m].intent[1] # s
  PROVE  ActorsOK' /\ IntentsSettled'
<1>1. /\ \A w \in Workers : Attempting(worker[w]) => worker[w].intent \in Intents
      /\ \A m \in Members : Resolving(member[m]) => member[m].intent \in Intents
  BY ProcessType DEF TypeOK, ProcessTypeOK, Attempting, Resolving
<1>2. ASSUME NEW i \in Intents, i[1] # s
      PROVE  outcome'[i] = outcome[i] /\ booking'[i[1]] = booking[i[1]]
  BY <1>2, IntentType DEF RowUnchanged
<1>3. ActorsOK'
  <2>1. ASSUME NEW w \in Workers, Attempting(worker'[w])
        PROVE  InFlight(worker[w].intent)' /\ worker'[w].intent = worker[w].intent
    BY <1>1, <1>2, <2>1 DEF ActorsOK, CarriesOn, InFlight
  <2>2. ASSUME NEW m \in Members, Resolving(member'[m])
        PROVE  InDoubt(member[m].intent)' /\ member'[m].intent = member[m].intent
    BY <1>1, <1>2, <2>2 DEF ActorsOK, ResolvesOn, InDoubt
  <2>3. QED BY <2>1, <2>2 DEF ActorsOK, InFlight, InDoubt
<1>4. \A t \in Shipments : RowSettled(t)'
  BY RowKept DEF IntentsSettled, RowSettled
<1>5. QED BY <1>3, <1>4 DEF IntentsSettled, RowSettled

\* A settling transaction of the intent the shipment is at: no intent is
\* active afterwards, or the row is in doubt and so is the intent.
Settles(s, i, state, result) ==
  /\ \/ /\ state \in {"CONFIRMED", "FAILED"}
        /\ result \notin {"IN_FLIGHT", "UNKNOWN"}
     \/ state = "OUTCOME_UNKNOWN" /\ result = "UNKNOWN"
  /\ booking' = [booking EXCEPT ![s] = state]
  /\ outcome' = [outcome EXCEPT ![i] = result]
  /\ UNCHANGED attempts
LEMMA SettlingAttempt ==
  ASSUME TypeOK, NEW s \in Shipments, attempts[s] \in 1..MaxAttempts,
         ActiveIntents(s) = {attempts[s]},
         NEW state, NEW result, Settles(s, <<s, attempts[s]>>, state, result)
  PROVE  RowSettled(s)' /\ \A t \in Shipments \ {s} : RowUnchanged(t)
<1> USE DEF TypeOK, ShipmentTypeOK, Intents, Settles
<1>1. \A t \in Shipments \ {s} : RowUnchanged(t) BY DEF RowUnchanged
<1>2. /\ outcome'[<<s, attempts[s]>>] = result
      /\ \A n \in 1..MaxAttempts : n # attempts[s] => outcome'[<<s, n>>] = outcome[<<s, n>>]
  OBVIOUS
<1>3. \A n \in 1..MaxAttempts : n # attempts[s] => outcome[<<s, n>>] \notin {"IN_FLIGHT", "UNKNOWN"}
  BY DEF ActiveIntents
<1>4. booking'[s] = state OBVIOUS
<1>5. CASE state = "OUTCOME_UNKNOWN" /\ result = "UNKNOWN"
  <2>1. ActiveIntents(s)' = {attempts[s]} BY <1>2, <1>3, <1>5 DEF ActiveIntents
  <2>2. QED BY <1>1, <1>4, <1>5, <2>1 DEF RowSettled
<1>6. CASE state \in {"CONFIRMED", "FAILED"} /\ result \notin {"IN_FLIGHT", "UNKNOWN"}
  <2>1. ActiveIntents(s)' = {} BY <1>2, <1>3, <1>6 DEF ActiveIntents
  <2>2. QED BY <1>1, <1>4, <1>6, <2>1 DEF RowSettled
<1>7. QED BY <1>5, <1>6

\* Such a transaction of a process that is alone at the shipment.
LEMMA AloneSettles ==
  ASSUME TypeOK, ActorsOK, IntentsSettled, NEW s \in Shipments, attempts[s] \in 1..MaxAttempts,
         ActiveIntents(s) = {attempts[s]},
         NEW state, NEW result, Settles(s, <<s, attempts[s]>>, state, result),
         \A w \in Workers : /\ CarriesOn(worker[w], worker'[w])
                            /\ Attempting(worker'[w]) => worker[w].intent[1] # s,
         \A m \in Members : /\ ResolvesOn(member[m], member'[m])
                            /\ Resolving(member'[m]) => member[m].intent[1] # s
  PROVE  ActorsOK' /\ IntentsSettled'
BY SettlingAttempt, OneRowStep

\* Processes that do not move carry on.
LEMMA Carries ==
  /\ UNCHANGED worker => \A w \in Workers : CarriesOn(worker[w], worker'[w])
  /\ UNCHANGED member => \A m \in Members : ResolvesOn(member[m], member'[m])
BY DEF CarriesOn, ResolvesOn

\* A worker that moves to a pc at which no attempt is under way.
LEMMA WorkerCarries ==
  ASSUME ProcessTypeOK, NEW w \in Workers, NEW q, worker' = [worker EXCEPT ![w] = q],
         CarriesOn(worker[w], q)
  PROVE  \A v \in Workers : CarriesOn(worker[v], worker'[v])
BY DEF CarriesOn, ProcessTypeOK

\* queueBooking starts an attempt of a shipment that has none.
LEMMA BookingAttempts ==
  ASSUME TypeOK, AttemptInv, NEW s \in Shipments, RouteToManual(s) \/ QueueBooking(s)
  PROVE  ActorsOK' /\ IntentsSettled'
<1> USE DEF TypeOK, ShipmentTypeOK
<1>1. booking[s] \in {"DRAFT", "NEEDS_MANUAL_ASSIGNMENT", "FAILED"}
  BY DEF RouteToManual, QueueBooking
<1>2. ActiveIntents(s) = {} BY <1>1 DEF AttemptInv, IntentsSettled
<1>3. /\ \A w \in Workers : Attempting(worker[w]) => worker[w].intent[1] # s
      /\ \A m \in Members : Resolving(member[m]) => member[m].intent[1] # s
  BY <1>1 DEF AttemptInv, ActorsOK, InFlight, InDoubt
<1>4. UNCHANGED <<worker, member>> BY DEF RouteToManual, QueueBooking
<1>5. RowSettled(s)' /\ \A t \in Shipments \ {s} : RowUnchanged(t)
  <2>1. CASE RouteToManual(s)
    <3>1. UNCHANGED <<attempts, outcome>> /\ booking' = [booking EXCEPT ![s] = "NEEDS_MANUAL_ASSIGNMENT"]
      BY <2>1 DEF RouteToManual
    <3>2. ActiveIntents(s)' = {} BY <1>2, <3>1 DEF ActiveIntents
    <3>3. QED BY <3>1, <3>2 DEF RowSettled, RowUnchanged
  <2>2. CASE QueueBooking(s)
    <3> DEFINE n == attempts[s] + 1
    <3>1. n \in 1..MaxAttempts /\ <<s, n>> \in Intents
      BY <2>2, BoundsAssumption DEF QueueBooking, Intents
    <3>2. /\ booking' = [booking EXCEPT ![s] = "QUEUED"]
          /\ attempts' = [attempts EXCEPT ![s] = n]
          /\ outcome' = [outcome EXCEPT ![<<s, n>>] = "IN_FLIGHT"]
      BY <2>2 DEF QueueBooking
    <3> HIDE DEF n
    <3>3. /\ outcome'[<<s, n>>] = "IN_FLIGHT"
          /\ \A k \in 1..MaxAttempts : k # n => outcome'[<<s, k>>] = outcome[<<s, k>>]
      BY <3>1, <3>2 DEF Intents
    <3>4. ActiveIntents(s)' = {n} BY <1>2, <3>1, <3>3 DEF ActiveIntents
    <3>5. \A t \in Shipments \ {s} : RowUnchanged(t) BY <3>2 DEF RowUnchanged, Intents
    <3>6. QED BY <3>2, <3>4, <3>5 DEF RowSettled
  <2>3. QED BY <2>1, <2>2
<1>6. QED BY <1>3, <1>4, <1>5, Carries, OneRowStep DEF AttemptInv

\* The claim: its shipment stays with the one active intent it has.
LEMMA ClaimAttempts ==
  ASSUME TypeOK, AttemptInv, NEW w \in Workers, Claim(w)
  PROVE  ActorsOK' /\ IntentsSettled'
<1> DEFINE i == worker[w].intent
           s == i[1]
<1> USE DEF TypeOK, ShipmentTypeOK
<1>1. i \in Intents /\ s \in Shipments
  BY ProcessType, IntentType DEF Claim, ProcessTypeOK
<1>2. UNCHANGED <<attempts, outcome, member>> BY DEF Claim
<1>3. CASE UNCHANGED booking /\ (Finish(w) \/ Throw(w))
  <2>1. worker' = [worker EXCEPT ![w] = Idle] BY <1>3 DEF Finish, Throw
  <2>2. CarriesOn(worker[w], Idle) BY ProcessPc DEF CarriesOn, Attempting
  <2>3. QED BY <1>2, <1>3, <2>1, <2>2, Carries, WorkerCarries, AttemptsKept DEF AttemptInv
<1>4. CASE /\ Claimable(i) /\ booking' = [booking EXCEPT ![s] = "SUBMITTED"]
           /\ worker' = [worker EXCEPT ![w] = At(worker[w], "create")]
  <2>1. booking[s] \in {"QUEUED", "SUBMITTED"} /\ outcome[i] = "IN_FLIGHT"
    BY <1>4 DEF Claimable
  <2>2. booking'[s] = "SUBMITTED" /\ \A t \in Shipments \ {s} : booking'[t] = booking[t]
    BY <1>1, <1>4
  <2>3. worker'[w].intent = i /\ \A v \in Workers \ {w} : worker'[v] = worker[v]
    BY <1>4, ProcessPc DEF ProcessTypeOK
  <2>4. \A v \in Workers : Attempting(worker[v]) => worker[v].intent[1] \in Shipments
    BY ProcessType, IntentType DEF Attempting, ProcessTypeOK
  <2>5. \A m \in Members : Resolving(member[m]) =>
          member[m].intent[1] \in Shipments \ {s}
    BY <2>1, ProcessType, IntentType
       DEF Resolving, ProcessTypeOK, AttemptInv, ActorsOK, InDoubt
  <2>6. ActorsOK'
    BY <1>2, <2>1, <2>2, <2>3, <2>4, <2>5 DEF AttemptInv, ActorsOK, InFlight, InDoubt
  <2>7. IntentsSettled'
    BY <1>2, <2>1, <2>2 DEF AttemptInv, IntentsSettled, ActiveIntents
  <2>8. QED BY <2>6, <2>7
<1>5. QED BY <1>3, <1>4 DEF Claim

\* The settling of a worker's answer.
LEMMA SettleAttempts ==
  ASSUME TypeOK, AttemptInv, NEW w \in Workers, SettleConfirmed(w) \/ SettleOther(w)
  PROVE  ActorsOK' /\ IntentsSettled'
<1> DEFINE i == worker[w].intent
           s == i[1]
           a == worker[w].answer.awb
<1> USE DEF TypeOK
<1>1. Attempting(worker[w]) BY DEF SettleConfirmed, SettleOther, Settling, Attempting
<1>2. /\ s \in Shipments /\ i \in Intents /\ i = <<s, attempts[s]>>
      /\ ActiveIntents(s) = {attempts[s]} /\ attempts[s] \in 1..MaxAttempts
      /\ \A v \in Workers \ {w} : Attempting(worker[v]) => worker[v].intent[1] # s
      /\ \A m \in Members : Resolving(member[m]) => member[m].intent[1] # s
      /\ booking[s] = "SUBMITTED"
  BY <1>1, SoleAttempt, IntentType DEF AttemptInv, ActorsOK, InFlight
<1>3. UNCHANGED member BY DEF SettleConfirmed, SettleOther
<1>4. PICK q : worker' = [worker EXCEPT ![w] = q] /\ ~Attempting(q)
  BY ProcessPc
     DEF SettleConfirmed, SettleOther, Finish, Throw, Committed, Attempting
<1>5. /\ \A v \in Workers : /\ CarriesOn(worker[v], worker'[v])
                            /\ Attempting(worker'[v]) => worker[v].intent[1] # s
      /\ \A m \in Members : /\ ResolvesOn(member[m], member'[m])
                            /\ Resolving(member'[m]) => member[m].intent[1] # s
  <2>1. CarriesOn(worker[w], q) BY <1>4 DEF CarriesOn
  <2>2. \A v \in Workers : CarriesOn(worker[v], worker'[v]) BY <1>4, <2>1, WorkerCarries
  <2>3. \A v \in Workers : Attempting(worker'[v]) => worker[v].intent[1] # s
    BY <1>2, <1>4, <2>2 DEF CarriesOn, ProcessTypeOK
  <2>4. QED BY <1>2, <1>3, <2>2, <2>3, Carries
<1>6. CASE UNCHANGED shipmentVars
  BY <1>5, <1>6, AttemptsKept DEF shipmentVars, AttemptInv
<1>7. ASSUME NEW state, NEW result, Settles(s, i, state, result)
      PROVE  ActorsOK' /\ IntentsSettled'
  <2>1. Settles(s, <<s, attempts[s]>>, state, result) BY <1>2, <1>7
  <2> HIDE DEF s, i
  <2>2. QED BY <1>2, <1>5, <2>1, AloneSettles DEF AttemptInv
<1>8. CASE ConfirmBooking(s, i, a, "CONFIRMED")
  <2>1. Settles(s, i, "FAILED", "FAILED") \/ Settles(s, i, "CONFIRMED", "CONFIRMED")
    BY <1>8 DEF ConfirmBooking, Settles
  <2>2. QED BY <1>7, <2>1
<1>9. CASE SettleAs(s, i, {"SUBMITTED"}, "FAILED", "FAILED")
  <2>1. Settles(s, i, "FAILED", "FAILED") BY <1>2, <1>9 DEF SettleAs, Settles
  <2>2. QED BY <1>7, <2>1
<1>10. CASE SettleAs(s, i, {"SUBMITTED"}, "OUTCOME_UNKNOWN", "UNKNOWN")
  <2>1. Settles(s, i, "OUTCOME_UNKNOWN", "UNKNOWN") BY <1>2, <1>10 DEF SettleAs, Settles
  <2>2. QED BY <1>7, <2>1
<1>11. QED
  BY <1>6, <1>8, <1>9, <1>10 DEF SettleConfirmed, SettleOther, SettleFailed, MarkOutcomeUnknown

\* The settling of a resolution.
LEMMA ResolveAttempts ==
  ASSUME TypeOK, AttemptInv, OneResolver, NEW m \in Members,
         ResolveConfirmed(m) \/ ResolveFailed(m)
  PROVE  ActorsOK' /\ IntentsSettled'
<1> DEFINE i == member[m].intent
           s == i[1]
           a == member[m].answer.awb
<1> USE DEF TypeOK
<1>1. Resolving(member[m]) BY DEF ResolveConfirmed, ResolveFailed, Resolving
<1>2. /\ s \in Shipments /\ i \in Intents /\ i = <<s, attempts[s]>>
      /\ ActiveIntents(s) = {attempts[s]} /\ attempts[s] \in 1..MaxAttempts
      /\ \A w \in Workers : Attempting(worker[w]) => worker[w].intent[1] # s
      /\ \A k \in Members \ {m} : ~Resolving(member[k])
      /\ booking[s] = "OUTCOME_UNKNOWN"
  BY <1>1, SoleResolution, IntentType DEF AttemptInv, ActorsOK, InDoubt
<1>3. UNCHANGED worker BY DEF ResolveConfirmed, ResolveFailed
<1>4. PICK q : member' = [member EXCEPT ![m] = q] /\ ~Resolving(q)
  BY ProcessPc DEF ResolveConfirmed, ResolveFailed, Resolving
<1>5. /\ \A w \in Workers : /\ CarriesOn(worker[w], worker'[w])
                            /\ Attempting(worker'[w]) => worker[w].intent[1] # s
      /\ \A k \in Members : ~Resolving(member'[k])
  BY <1>2, <1>3, <1>4, Carries DEF ProcessTypeOK
<1>6. CASE UNCHANGED shipmentVars
  BY <1>5, <1>6, AttemptsKept DEF shipmentVars, AttemptInv, ResolvesOn
<1>7. ASSUME NEW state, NEW result, Settles(s, i, state, result)
      PROVE  ActorsOK' /\ IntentsSettled'
  <2>1. Settles(s, <<s, attempts[s]>>, state, result) BY <1>2, <1>7
  <2> HIDE DEF s, i
  <2>2. QED BY <1>2, <1>5, <2>1, AloneSettles DEF AttemptInv, ResolvesOn
<1>8. CASE ConfirmBooking(s, i, a, "RESOLVED_CONFIRMED")
  <2>1. Settles(s, i, "FAILED", "FAILED") \/ Settles(s, i, "CONFIRMED", "RESOLVED_CONFIRMED")
    BY <1>8 DEF ConfirmBooking, Settles
  <2>2. QED BY <1>7, <2>1
<1>9. CASE SettleAs(s, i, {"OUTCOME_UNKNOWN"}, "FAILED", "RESOLVED_FAILED")
  <2>1. Settles(s, i, "FAILED", "RESOLVED_FAILED") BY <1>2, <1>9 DEF SettleAs, Settles
  <2>2. QED BY <1>7, <2>1
<1>10. QED BY <1>6, <1>8, <1>9 DEF ResolveConfirmed, ResolveFailed, SettleFailed

\* Resolution up to its settling: a loaded attempt is in doubt, and stays so.
LEMMA LoadAttempts ==
  ASSUME TypeOK, AttemptInv, NEW m \in Members,
         \/ \E s \in Shipments : LoadOutcomeUnknown(m, s)
         \/ LookupByReference(m) \/ OperatorDecides(m) \/ MemberDebits(m)
         \/ AbandonResolution(m) \/ CrashMember(m)
  PROVE  ActorsOK' /\ IntentsSettled'
<1> USE DEF TypeOK
<1>1. UNCHANGED <<shipmentVars, worker>>
  BY DEF LoadOutcomeUnknown, LookupByReference, OperatorDecides, MemberDebits,
         AbandonResolution, CrashMember
<1>2. CASE \E s \in Shipments : LoadOutcomeUnknown(m, s)
  <2>1. PICK s \in Shipments, n \in 1..MaxAttempts :
          /\ n \in UnknownAttempts(s) /\ booking[s] = "OUTCOME_UNKNOWN"
          /\ member' = [member EXCEPT ![m] = Process("loaded", <<s, n>>, NoAnswer)]
    BY <1>2 DEF LoadOutcomeUnknown, UnknownAttempts
  <2>2. InDoubt(<<s, n>>) BY <2>1 DEF InDoubt, UnknownAttempts
  <2>3. \A k \in Members : Resolving(member'[k]) =>
          InDoubt(member'[k].intent)
    BY <2>1, <2>2, ProcessPc DEF ProcessTypeOK, AttemptInv, ActorsOK
  <2>4. ActorsOK' BY <1>1, <2>3 DEF shipmentVars, AttemptInv, ActorsOK, InFlight, InDoubt
  <2>5. IntentsSettled' BY <1>1 DEF shipmentVars, AttemptInv, IntentsSettled, ActiveIntents
  <2>6. QED BY <2>4, <2>5
<1>3. CASE \/ LookupByReference(m) \/ OperatorDecides(m) \/ MemberDebits(m)
           \/ AbandonResolution(m) \/ CrashMember(m)
  <2>1. PICK q : member' = [member EXCEPT ![m] = q] /\ ResolvesOn(member[m], q)
    BY <1>3, ProcessPc
       DEF LookupByReference, OperatorDecides, MemberDebits, AbandonResolution, CrashMember,
           Decide, ResolvesOn, Resolving
  <2>2. \A k \in Members : ResolvesOn(member[k], member'[k])
    BY <2>1 DEF ResolvesOn, ProcessTypeOK
  <2>3. QED BY <1>1, <2>2, Carries, AttemptsKept DEF shipmentVars, AttemptInv
<1>4. QED BY <1>2, <1>3

\* The worker's other steps: the create call answers, a debit, the end.
LEMMA WorkerAttempts ==
  ASSUME TypeOK, AttemptInv, NEW w \in Workers,
         \/ CreateAnsweredFromMemory(w) \/ CreateAccepted(w) \/ CreateRejected(w)
         \/ CreateTimedOut(w) \/ CreateNotSent(w) \/ CreateBackPressure(w)
         \/ WorkerDebits(w) \/ Complete(w) \/ CrashWorker(w)
         \/ \E i \in Intents : Deliver(w, i)
  PROVE  ActorsOK' /\ IntentsSettled'
<1> USE DEF TypeOK
<1>1. UNCHANGED <<shipmentVars, member>>
  BY DEF CreateAnsweredFromMemory, CreateAccepted, CreateRejected, CreateTimedOut,
         CreateNotSent, CreateBackPressure, WorkerDebits, Complete, CrashWorker, Deliver
<1>2. \E q : worker' = [worker EXCEPT ![w] = q] /\ CarriesOn(worker[w], q)
  <2>1. CASE \/ CreateAnsweredFromMemory(w) \/ CreateAccepted(w) \/ CreateRejected(w)
             \/ CreateTimedOut(w) \/ CreateNotSent(w)
    <3>1. PICK r : worker' = [worker EXCEPT ![w] = Process("settle", worker[w].intent, r)]
      BY <2>1 DEF CreateAnsweredFromMemory, CreateAccepted, CreateRejected, CreateTimedOut,
                  CreateNotSent, Remember, Return
    <3>2. worker[w].pc = "create"
      BY <2>1 DEF CreateAnsweredFromMemory, CreateAccepted, CreateRejected, CreateTimedOut,
                  CreateNotSent, Send, AtCreate
    <3>3. CarriesOn(worker[w], Process("settle", worker[w].intent, r))
      BY <3>2, ProcessPc DEF CarriesOn, Attempting
    <3>4. QED BY Zenon, <3>1, <3>3
  <2>2. CASE CreateBackPressure(w) \/ WorkerDebits(w) \/ Complete(w) \/ CrashWorker(w)
    BY <2>2, ProcessPc
       DEF CreateBackPressure, WorkerDebits, Complete, CrashWorker, Finish, Throw, Committed,
           CarriesOn, Attempting
  <2>3. CASE \E i \in Intents : Deliver(w, i)
    <3>1. PICK i : worker' = [worker EXCEPT ![w] = Process("claim", i, NoAnswer)]
      BY <2>3 DEF Deliver
    <3>2. CarriesOn(worker[w], Process("claim", i, NoAnswer))
      BY ProcessPc DEF CarriesOn, Attempting
    <3>3. QED BY Zenon, <3>1, <3>2
  <2>4. QED BY <2>1, <2>2, <2>3
<1>3. \A v \in Workers : CarriesOn(worker[v], worker'[v]) BY <1>2, WorkerCarries
<1>4. QED BY <1>1, <1>3, Carries, AttemptsKept DEF shipmentVars, AttemptInv

\* Every step.
LEMMA AttemptsStep ==
  ASSUME TypeOK, AttemptInv, OneResolver, [Next]_vars
  PROVE  ActorsOK' /\ IntentsSettled'
<1>1. CASE UNCHANGED <<shipmentVars, worker, member>>
  BY <1>1, Carries, AttemptsKept DEF shipmentVars, AttemptInv
<1>2. CASE \E s \in Shipments : RouteToManual(s) \/ QueueBooking(s)
  BY <1>2, BookingAttempts
<1>3. CASE \E i \in Intents : Enqueue(i) \/ LoseEnqueue(i) \/ RecoverStalled(i) \/ LateArrival(i)
  BY <1>1, <1>3 DEF Enqueue, LoseEnqueue, RecoverStalled, LateArrival
<1>4. CASE \E w \in Workers, i \in Intents : Deliver(w, i)
  BY <1>4, WorkerAttempts
<1>5. CASE \E w \in Workers : WorkerStep(w) \/ CrashWorker(w)
  BY <1>5, ClaimAttempts, SettleAttempts, WorkerAttempts DEF WorkerStep
<1>6. CASE \E m \in Members, s \in Shipments : LoadOutcomeUnknown(m, s)
  BY <1>6, LoadAttempts
<1>7. CASE \E m \in Members : MemberStep(m) \/ AbandonResolution(m) \/ CrashMember(m)
  BY <1>7, LoadAttempts, ResolveAttempts DEF MemberStep
<1>8. CASE SwitchMode \/ ChangeSubscription
  BY <1>1, <1>8 DEF SwitchMode, ChangeSubscription
<1>9. CASE UNCHANGED vars BY <1>1, <1>9 DEF vars
<1>10. QED BY <1>2, <1>3, <1>4, <1>5, <1>6, <1>7, <1>8, <1>9 DEF Next

\* The attempts are in order until a job is delivered to two workers at once.
LEMMA AttemptInvariant ==
  ASSUME OneResolver
  PROVE  Spec => [](StallsSpent /\ (NoStallYet => AttemptInv))
<1> DEFINE Inv == StallsSpent /\ (NoStallYet => AttemptInv)
<1>1. ASSUME Init, TypeOK PROVE Inv
  <2>1. AttemptInv
    <3>1. HoldersOK /\ ActorsOK
      BY <1>1, ProcessPc DEF Init, HoldersOK, ActorsOK, Attempting, Resolving
    <3>2. \A s \in Shipments, n \in 1..MaxAttempts : outcome[<<s, n>>] = "NONE"
      BY <1>1 DEF Init, Intents
    <3>3. IntentsSettled BY <1>1, <3>2 DEF Init, IntentsSettled, ActiveIntents
    <3>4. QED BY <3>1, <3>3 DEF AttemptInv
  <2>2. StallsSpent
    BY <1>1 DEF Init, StallsSpent, TypeOK, BudgetTypeOK, FaultKinds
  <2>3. QED BY <2>1, <2>2
<1>2. ASSUME Inv, TypeOK, TypeOK', [Next]_vars PROVE Inv'
  <2>1. budget["stall"] \in Nat /\ budget'["stall"] \in Nat /\ Budget["stall"] \in Nat
    BY <1>2, BoundsAssumption DEF TypeOK, BudgetTypeOK, FaultKinds
  <2>2. budget'["stall"] <= budget["stall"] BY <1>2, StallBudget
  <2>3. StallsSpent' BY <1>2, <2>1, <2>2 DEF StallsSpent
  <2>4. ASSUME NoStallYet' PROVE AttemptInv'
    <3>1. NoStallYet /\ budget'["stall"] = budget["stall"]
      BY <1>2, <2>1, <2>2, <2>4 DEF StallsSpent, NoStallYet
    <3>2. AttemptInv BY <1>2, <3>1
    <3>3. HoldersOK' BY <1>2, <3>1, <3>2, HoldersStep DEF AttemptInv
    <3>4. QED BY <1>2, <3>2, <3>3, AttemptsStep DEF AttemptInv
  <2>5. QED BY <2>3, <2>4
<1>3. QED BY <1>1, <1>2, TypeCorrect, PTL DEF Spec

\* Of the attempts of a shipment only the last one can be active, and none is
\* once the shipment is at rest: settling an attempt settles its own intent.
\* With one request resolving at a time, and until a job's lock is lost under a
\* running worker.
THEOREM AttemptsSettleTheirOwn == OneResolver => (Spec => [](NoStallYet => IntentsSettled))
<1> SUFFICES ASSUME OneResolver PROVE Spec => [](NoStallYet => IntentsSettled)
  OBVIOUS
<1>1. StallsSpent /\ (NoStallYet => AttemptInv) => (NoStallYet => IntentsSettled)
  BY DEF AttemptInv
<1>2. QED BY <1>1, AttemptInvariant, PTL

\* A request to the courier leaves only for an attempt that is in flight, never
\* for one whose outcome is in doubt or settled (INV-5), however often workers
\* crash and their jobs are delivered again.
THEOREM NoCreateAfterTheAnswer ==
  OneResolver /\ Budget["stall"] = 0 => (Spec => NoCreateWhileUnknown)
<1> SUFFICES ASSUME OneResolver, Budget["stall"] = 0
             PROVE  Spec => NoCreateWhileUnknown
  OBVIOUS
<1>1. ASSUME TypeOK, StallsSpent /\ (NoStallYet => AttemptInv), [Next]_vars
      PROVE  [\A i \in Intents : calls'[i] # calls[i] =>
                outcome[i] = "IN_FLIGHT" /\ booking[i[1]] = "SUBMITTED"]_vars
  <2>1. AttemptInv
    BY <1>1 DEF StallsSpent, NoStallYet, TypeOK, BudgetTypeOK, FaultKinds
  <2>2. \/ UNCHANGED calls
        \/ \E w \in Workers : Send(w)
    <3>1. CASE \E s \in Shipments : RouteToManual(s) \/ QueueBooking(s)
      BY <3>1 DEF RouteToManual, QueueBooking, courierVars
    <3>2. CASE \E i \in Intents : Enqueue(i) \/ LoseEnqueue(i) \/ RecoverStalled(i) \/ LateArrival(i)
      BY <3>2 DEF Enqueue, LoseEnqueue, RecoverStalled, LateArrival, courierVars
    <3>3. CASE \E w \in Workers, i \in Intents : Deliver(w, i)
      BY <3>3 DEF Deliver, courierVars
    <3>4. CASE \E w \in Workers : WorkerStep(w) \/ CrashWorker(w)
      BY <3>4
         DEF WorkerStep, Claim, CrashWorker, CreateAnsweredFromMemory, CreateAccepted,
             CreateRejected, CreateTimedOut, CreateNotSent, CreateBackPressure,
             SettleConfirmed, SettleOther, WorkerDebits, Complete, courierVars
    <3>5. CASE \E m \in Members, s \in Shipments : LoadOutcomeUnknown(m, s)
      BY <3>5 DEF LoadOutcomeUnknown, courierVars
    <3>6. CASE \E m \in Members : MemberStep(m) \/ AbandonResolution(m) \/ CrashMember(m)
      BY <3>6
         DEF MemberStep, LookupByReference, OperatorDecides, ResolveConfirmed, ResolveFailed,
             MemberDebits, AbandonResolution, CrashMember, courierVars
    <3>7. CASE SwitchMode \/ ChangeSubscription
      BY <3>7 DEF SwitchMode, ChangeSubscription, courierVars
    <3>8. CASE UNCHANGED vars BY <3>8 DEF vars, courierVars
    <3>9. QED BY <1>1, <3>1, <3>2, <3>3, <3>4, <3>5, <3>6, <3>7, <3>8 DEF Next
  <2>3. ASSUME NEW w \in Workers, Send(w), NEW i \in Intents, calls'[i] # calls[i]
        PROVE  InFlight(i)
    <3>1. Attempting(worker[w]) BY <2>3 DEF Send, AtCreate, Attempting
    <3>2. i = worker[w].intent BY <1>1, <2>3 DEF Send, TypeOK, CourierTypeOK
    <3>3. QED BY <2>1, <2>3, <3>1, <3>2 DEF AttemptInv, ActorsOK
  <2>4. QED BY <2>2, <2>3 DEF InFlight
<1>2. QED BY <1>1, AttemptInvariant, TypeCorrect, PTL DEF Spec, NoCreateWhileUnknown

(***************************************************************************)
(* The parcels.  While every call is answered in time, every AWB is new    *)
(* and nobody is mistaken, the courier makes one parcel for an attempt,    *)
(* and the attempt's worker or resolver stores it.  The exception is an    *)
(* attempt whose settling the collectible trigger refuses: its sibling     *)
(* collects the cash for good, so the shipment stays SUBMITTED for good,   *)
(* and each further delivery of its job may make a further parcel.         *)
(***************************************************************************)

DisturbingKinds == {"stall", "late", "reuseAwb", "misjudge"}
Undisturbed == \A k \in DisturbingKinds : budget[k] = Budget[k]
HarmfulKinds == DisturbingKinds \cup ForgettingKinds
Unspent == \A k \in HarmfulKinds : budget[k] = Budget[k]

Refused(s) == booking[s] = "SUBMITTED" /\ ~CollectibleGuard(s)
Answered(i) == \E w \in Workers : worker[w].pc = "settle" /\ worker[w].intent = i
Holds(w, p) == /\ worker[w].pc = "settle" /\ worker[w].intent = p.ref
               /\ worker[w].answer \in {Unknown, Confirmed(p.awb)}
Traced(p) == \/ awb[p.ref[1]] = p.awb
             \/ Refused(p.ref[1])
             \/ InDoubt(p.ref)
             \/ InFlight(p.ref) /\ \E w \in Workers : Holds(w, p)
Made(i, a) == \E p \in parcels : p.ref = i /\ p.awb = a

ParcelsDiffer == \A p, q \in parcels :
  /\ p.awb = q.awb => p = q
  /\ p.ref = q.ref => p = q \/ Refused(p.ref[1])
AwbsMade == \A s \in Shipments : awb[s] # NoAwb =>
  \E p \in parcels : p.ref[1] = s /\ p.awb = awb[s]
WorkersTruthful == \A w \in Workers :
  worker[w].pc = "settle" /\ worker[w].answer.kind = "CONFIRMED" =>
    Refused(worker[w].intent[1]) \/ Made(worker[w].intent, worker[w].answer.awb)
MembersTruthful == \A m \in Members : member[m].pc = "settle" =>
  /\ member[m].answer.kind = "CONFIRMED" => Made(member[m].intent, member[m].answer.awb)
  /\ member[m].answer.kind = "FAILED" => \A p \in parcels : p.ref # member[m].intent
CachesSettled == \A w \in Workers, i \in Intents : cache[w][i] # NoAnswer =>
  /\ i[2] <= attempts[i[1]]
  /\ outcome[i] # "IN_FLIGHT" \/ Answered(i) \/ Refused(i[1])

\* Nobody has switched the account: the lookup asks where the parcels are.
SameMode == \A p \in parcels : p.mode = mode

ParcelInv == /\ wire = {} /\ ParcelsDiffer /\ AwbsMade
             /\ WorkersTruthful /\ MembersTruthful /\ CachesSettled
             /\ \A p \in parcels : Traced(p)

\* A row the trigger refuses stays refused: the sibling that collects is booked,
\* and a booked row is not rewritten.
LEMMA RefusedStays ==
  ASSUME TypeOK, AwbOnlyBooked, RowEffect, NEW s \in Shipments, Refused(s),
         booking'[s] = booking[s], collectible'[s] = collectible[s]
  PROVE  Refused(s)'
<1>1. PICK t \in Shipments \ {s} : Carrier(t)
  BY DEF Refused, CollectibleGuard, SiblingCarries
<1>2. Booked(t) BY <1>1 DEF Carrier, AwbOnlyBooked
<1>3. Untouched(t) BY <1>2 DEF RowEffect, Moved, Books
<1>4. Carrier(t)' BY <1>1, <1>3 DEF Carrier, Untouched
<1>5. collectible[s] > 0 BY DEF Refused, CollectibleGuard
<1>6. QED BY <1>4, <1>5 DEF Refused, CollectibleGuard, SiblingCarries

\* What the invariants say of the parcels of a shipment that is not booked.
LEMMA ParcelsOf ==
  ASSUME TypeOK, AwbOnlyBooked, ParcelInv, NEW p \in parcels, ~Booked(p.ref[1])
  PROVE  /\ p.ref \in Intents /\ p.awb \in Awbs /\ p.ref[1] \in Shipments
         /\ \/ Refused(p.ref[1])
            \/ InDoubt(p.ref)
            \/ InFlight(p.ref) /\ \E w \in Workers : Holds(w, p)
<1>1. p.ref \in Intents /\ p.awb \in Awbs BY DEF TypeOK, CourierTypeOK, Parcels
<1>2. p.ref[1] \in Shipments BY <1>1, IntentType
<1>3. awb[p.ref[1]] # p.awb BY <1>1, <1>2, NullAssumption DEF AwbOnlyBooked
<1>4. Traced(p) BY DEF ParcelInv
<1>5. QED BY <1>1, <1>2, <1>3, <1>4 DEF Traced

\* The processes that stay with an answer; the others leave one at s only.
Leaves(s) ==
  /\ \A w \in Workers : worker'[w].pc = "settle" =>
       worker'[w] = worker[w] /\ worker[w].intent[1] # s
  /\ \A w \in Workers : worker[w].pc = "settle" =>
       worker'[w] = worker[w] \/ worker[w].intent[1] = s
  /\ \A m \in Members : member'[m].pc = "settle" => member'[m] = member[m]
\* What a step that rewrites the row of s has to see to.
RowSeen(s) ==
  /\ awb'[s] # NoAwb => \E p \in parcels : p.ref[1] = s /\ p.awb = awb'[s]
  /\ \A w \in Workers, i \in Intents : i[1] = s /\ cache[w][i] # NoAnswer =>
       i[2] <= attempts'[s] /\ outcome'[i] # "IN_FLIGHT"

\* A step that rewrites the row of one shipment, which the trigger permits.
LEMMA ParcelRowStep ==
  ASSUME TypeOK, AwbOnlyBooked, ParcelInv, RowEffect, UNCHANGED <<parcels, wire, cache>>,
         NEW s \in Shipments, ~Refused(s), Leaves(s), RowSeen(s),
         \A t \in Shipments \ {s} : Untouched(t) /\ RowUnchanged(t),
         \A p \in parcels : p.ref[1] = s => Traced(p)'
  PROVE  ParcelInv'
<1> USE DEF ParcelInv
<1>1. \A t \in Shipments : Refused(t) => Refused(t)'
  BY RefusedStays DEF Untouched
<1>2. \A i \in Intents : i[1] # s =>
        /\ outcome'[i] = outcome[i] /\ booking'[i[1]] = booking[i[1]]
        /\ awb'[i[1]] = awb[i[1]] /\ attempts'[i[1]] = attempts[i[1]]
  BY IntentType DEF RowUnchanged, Untouched
<1>3. \A p \in parcels : p.ref \in Intents /\ p.ref[1] \in Shipments
  BY IntentType DEF TypeOK, CourierTypeOK, Parcels
<1>4. ParcelsDiffer' BY <1>1, <1>3 DEF ParcelsDiffer
<1>5. AwbsMade'
  <2> SUFFICES ASSUME NEW t \in Shipments, awb'[t] # NoAwb
               PROVE  \E p \in parcels : p.ref[1] = t /\ p.awb = awb'[t]
    BY DEF AwbsMade
  <2>1. CASE t = s BY <2>1 DEF RowSeen
  <2>2. CASE t # s
    <3>1. awb'[t] = awb[t] BY <2>2 DEF Untouched
    <3>2. QED BY <3>1 DEF AwbsMade
  <2>3. QED BY <2>1, <2>2
<1>6. WorkersTruthful'
  <2>1. \A w \in Workers : worker'[w].pc = "settle" =>
          worker'[w] = worker[w] /\ worker'[w].intent[1] \in Shipments
    BY ProcessType, IntentType DEF Leaves, TypeOK, ProcessTypeOK
  <2>2. QED BY <1>1, <2>1 DEF WorkersTruthful, Made
<1>7. MembersTruthful' BY DEF MembersTruthful, Leaves, Made
<1>8. \A i \in Intents : i[1] # s /\ Answered(i) => Answered(i)'
  BY DEF Answered, Leaves
<1>9. CachesSettled'
  <2> SUFFICES ASSUME NEW w \in Workers, NEW i \in Intents, cache[w][i] # NoAnswer
               PROVE  /\ i[2] <= attempts'[i[1]]
                      /\ outcome'[i] # "IN_FLIGHT" \/ Answered(i)' \/ Refused(i[1])'
    BY DEF CachesSettled
  <2>1. CASE i[1] = s BY <2>1 DEF RowSeen
  <2>2. CASE i[1] # s
    <3>1. i[1] \in Shipments BY IntentType
    <3>2. QED BY <1>1, <1>2, <1>8, <2>2, <3>1 DEF CachesSettled
  <2>3. QED BY <2>1, <2>2
<1>10. ASSUME NEW p \in parcels, p.ref[1] # s PROVE Traced(p)'
  <2>1. Traced(p) OBVIOUS
  <2>2. \A w \in Workers : Holds(w, p) => Holds(w, p)' BY <1>10 DEF Holds, Leaves
  <2>3. QED BY <1>1, <1>2, <1>3, <1>10, <2>1, <2>2 DEF Traced, InDoubt, InFlight
<1>11. QED BY <1>4, <1>5, <1>6, <1>7, <1>9, <1>10

\* A step that rewrites no row: answers stay where they are, but for one the
\* trigger refused, and what a member takes up is true.
LEMMA ParcelsKept ==
  ASSUME TypeOK, ParcelInv, UNCHANGED <<shipmentVars, parcels, wire, cache>>,
         MembersTruthful',
         \A w \in Workers : worker'[w].pc = "settle" => worker'[w] = worker[w],
         \A w \in Workers : worker[w].pc = "settle" =>
           worker'[w] = worker[w] \/ Refused(worker[w].intent[1])
  PROVE  ParcelInv'
<1> USE DEF ParcelInv
<1>1. UNCHANGED <<booking, collectible, awb, attempts, outcome>> BY DEF shipmentVars
<1>2. \A t : Refused(t)' <=> Refused(t)
  BY <1>1 DEF Refused, CollectibleGuard, SiblingCarries, Carrier
<1>3. ParcelsDiffer' /\ AwbsMade' BY <1>1, <1>2 DEF ParcelsDiffer, AwbsMade
<1>4. WorkersTruthful' BY <1>2 DEF WorkersTruthful, Made
<1>5. \A i \in Intents : Answered(i) => Answered(i)' \/ Refused(i[1])
  BY DEF Answered
<1>6. CachesSettled' BY <1>1, <1>2, <1>5 DEF CachesSettled
<1>7. ASSUME NEW p \in parcels PROVE Traced(p)'
  <2>1. Traced(p) OBVIOUS
  <2>2. \A w \in Workers : Holds(w, p) => Holds(w, p)' \/ Refused(p.ref[1])
    BY DEF Holds
  <2>3. QED BY <1>1, <1>2, <2>1, <2>2 DEF Traced, InDoubt, InFlight
<1>8. QED BY <1>3, <1>4, <1>6, <1>7

\* The same for a step that moves no member to a settling.
LEMMA ParcelsAside ==
  ASSUME TypeOK, ParcelInv, UNCHANGED <<shipmentVars, parcels, wire, cache>>,
         \A m \in Members : member'[m].pc = "settle" => member'[m] = member[m],
         \A w \in Workers : worker'[w].pc = "settle" => worker'[w] = worker[w],
         \A w \in Workers : worker[w].pc = "settle" =>
           worker'[w] = worker[w] \/ Refused(worker[w].intent[1])
  PROVE  ParcelInv'
<1>1. MembersTruthful' BY DEF ParcelInv, MembersTruthful, Made
<1>2. QED BY <1>1, ParcelsKept

\* Before the create call of an attempt nothing was made for it: no parcel, and
\* no answer in any worker's memory.
LEMMA NothingYet ==
  ASSUME TypeOK, AwbOnlyBooked, AttemptInv, ParcelInv, NEW w \in Workers, AtCreate(w),
         ~Refused(worker[w].intent[1])
  PROVE  /\ \A p \in parcels : p.ref # worker[w].intent
         /\ \A v \in Workers : cache[v][worker[w].intent] = NoAnswer
<1> DEFINE i == worker[w].intent
           s == i[1]
<1>1. Attempting(worker[w]) BY DEF AtCreate, Attempting
<1>2. /\ s \in Shipments /\ i \in Intents
      /\ \A v \in Workers \ {w} : Attempting(worker[v]) => worker[v].intent[1] # s
      /\ InFlight(i)
  BY <1>1, SoleAttempt DEF AttemptInv, ActorsOK
<1>3. \A v \in Workers : worker[v].pc = "settle" => worker[v].intent[1] # s
  BY <1>2 DEF AtCreate, Attempting
<1>4. ASSUME NEW p \in parcels, p.ref = i PROVE FALSE
  <2>1. ~Booked(p.ref[1]) BY <1>2, <1>4 DEF InFlight, Booked
  <2>2. InDoubt(p.ref) \/ \E v \in Workers : Holds(v, p) BY <1>4, <2>1, ParcelsOf
  <2>3. QED BY <1>2, <1>3, <1>4, <2>2 DEF InFlight, InDoubt, Holds
<1>5. \A v \in Workers : cache[v][i] = NoAnswer
  BY <1>2, <1>3 DEF ParcelInv, CachesSettled, InFlight, Answered
<1>6. QED BY <1>4, <1>5

\* The create call comes back: with a parcel made or not, remembered or not.
LEMMA ParcelMade ==
  ASSUME TypeOK, AwbOnlyBooked, AttemptInv, ParcelInv, NEW w \in Workers, AtCreate(w),
         UNCHANGED <<shipmentVars, wire, member>>, NEW r \in Answers, Return(w, r),
         \/ UNCHANGED cache
         \/ cache' = [cache EXCEPT ![w] = [@ EXCEPT ![worker[w].intent] = r]],
         \/ UNCHANGED parcels
         \/ \E a \in Awbs \ IssuedAwbs :
              /\ parcels' = parcels \cup {NewParcel(worker[w].intent, a)}
              /\ r \in {Unknown, Confirmed(a)},
         r.kind = "CONFIRMED" =>
           Refused(worker[w].intent[1]) \/ \E p \in parcels' : p.ref = worker[w].intent /\ p.awb = r.awb
  PROVE  ParcelInv'
<1> DEFINE i == worker[w].intent
           s == i[1]
<1> USE DEF ParcelInv
<1>1. Attempting(worker[w]) BY DEF AtCreate, Attempting
<1>2. /\ s \in Shipments /\ i \in Intents /\ i[2] <= attempts[s]
      /\ \A m \in Members : Resolving(member[m]) => member[m].intent[1] # s
      /\ InFlight(i)
  <2>1. /\ s \in Shipments /\ i \in Intents /\ i = <<s, attempts[s]>>
        /\ \A m \in Members : Resolving(member[m]) => member[m].intent[1] # s
        /\ InFlight(i)
    BY <1>1, SoleAttempt DEF AttemptInv, ActorsOK
  <2>2. attempts[s] \in Nat BY <2>1, BoundsAssumption DEF TypeOK, ShipmentTypeOK
  <2>3. i[2] = attempts[s] BY <2>1
  <2>4. QED BY <2>1, <2>2, <2>3
<1>3. UNCHANGED <<booking, collectible, awb, attempts, outcome>> BY DEF shipmentVars
<1>4. \A t : Refused(t)' <=> Refused(t)
  BY <1>3 DEF Refused, CollectibleGuard, SiblingCarries, Carrier
<1>5. /\ worker'[w].pc = "settle" /\ worker'[w].intent = i /\ worker'[w].answer = r
      /\ \A v \in Workers \ {w} : worker'[v] = worker[v]
      /\ worker[w].pc = "create"
  BY DEF AtCreate, Return, Process, TypeOK, ProcessTypeOK
<1>6. parcels \subseteq parcels' /\ \A p \in parcels' : p \notin parcels => p.ref = i
  BY DEF NewParcel, ParcelIn
<1>7. ASSUME NEW p \in parcels', p \notin parcels
      PROVE  /\ p.ref = i /\ r \in {Unknown, Confirmed(p.awb)}
             /\ \A q \in parcels' : q.awb = p.awb => q = p
             /\ \A q \in parcels' : q.ref = p.ref => q = p \/ Refused(s)
  <2>1. PICK a \in Awbs \ IssuedAwbs : /\ parcels' = parcels \cup {NewParcel(i, a)}
                                       /\ r \in {Unknown, Confirmed(a)}
    BY <1>7
  <2>2. p = NewParcel(i, a) BY <1>7, <2>1
  <2>3. p.ref = i /\ p.awb = a BY <2>2 DEF NewParcel, ParcelIn
  <2>4. \A q \in parcels : q.awb # a BY <2>1 DEF IssuedAwbs
  <2>5. \A q \in parcels : q.ref = i => Refused(s) BY NothingYet
  <2>6. QED BY <2>1, <2>2, <2>3, <2>4, <2>5
<1>8. ParcelsDiffer'
  <2> SUFFICES ASSUME NEW p \in parcels', NEW q \in parcels'
               PROVE  /\ p.awb = q.awb => p = q
                      /\ p.ref = q.ref => p = q \/ Refused(p.ref[1])
    BY <1>4 DEF ParcelsDiffer
  <2>1. CASE p \in parcels /\ q \in parcels BY <2>1 DEF ParcelsDiffer
  <2>2. CASE p \notin parcels BY <1>7, <2>2
  <2>3. CASE q \notin parcels BY <1>7, <2>3
  <2>4. QED BY <2>1, <2>2, <2>3
<1>9. AwbsMade' BY <1>3, <1>6 DEF AwbsMade
<1>10. \A j, a : Made(j, a) => Made(j, a)' BY <1>6 DEF Made
<1>11. WorkersTruthful'
  <2> SUFFICES ASSUME NEW v \in Workers, worker'[v].pc = "settle",
                      worker'[v].answer.kind = "CONFIRMED"
               PROVE  \/ Refused(worker'[v].intent[1])
                      \/ \E p \in parcels' : p.ref = worker'[v].intent /\ p.awb = worker'[v].answer.awb
    BY <1>4 DEF WorkersTruthful, Made
  <2>1. CASE v = w BY <1>5, <2>1
  <2>2. CASE v # w
    <3>1. worker'[v] = worker[v] BY <1>5, <2>2
    <3>2. Refused(worker[v].intent[1]) \/ Made(worker[v].intent, worker[v].answer.awb)
      BY <3>1 DEF WorkersTruthful
    <3>3. QED BY <1>6, <3>1, <3>2 DEF Made
  <2>3. QED BY <2>1, <2>2
<1>12. MembersTruthful'
  <2>1. \A m \in Members : member[m].pc = "settle" => member[m].intent # i
    BY <1>2 DEF Resolving
  <2>2. QED BY <1>6, <2>1 DEF MembersTruthful, Made
<1>13. \A j \in Intents : Answered(j) => Answered(j)' BY <1>5 DEF Answered
<1>14. CachesSettled'
  <2> SUFFICES ASSUME NEW v \in Workers, NEW j \in Intents, cache'[v][j] # NoAnswer
               PROVE  /\ j[2] <= attempts[j[1]]
                      /\ outcome[j] # "IN_FLIGHT" \/ Answered(j)' \/ Refused(j[1])
    BY <1>3, <1>4 DEF CachesSettled
  <2>2. CASE j = i
    <3>1. Answered(j)' BY <1>5, <2>2 DEF Answered
    <3>2. QED BY <1>2, <2>2, <3>1
  <2>3. CASE j # i
    <3>1. cache[v][j] # NoAnswer BY <1>2, <2>3 DEF TypeOK, ProcessTypeOK
    <3>2. QED BY <1>13, <3>1 DEF CachesSettled
  <2>4. QED BY <2>2, <2>3
<1>15. ASSUME NEW p \in parcels' PROVE Traced(p)'
  <2>1. CASE p \in parcels
    <3>1. Traced(p) BY <2>1
    <3>2. \A v \in Workers : Holds(v, p) => Holds(v, p)' BY <1>5 DEF Holds
    <3>3. QED BY <1>3, <1>4, <3>1, <3>2 DEF Traced, InDoubt, InFlight
  <2>2. CASE p \notin parcels
    <3>1. Holds(w, p)' BY <1>5, <1>7, <2>2 DEF Holds
    <3>2. InFlight(p.ref)' BY <1>2, <1>3, <1>7, <2>2 DEF InFlight
    <3>3. QED BY <3>1, <3>2 DEF Traced
  <2>3. QED BY <2>1, <2>2
<1>16. QED BY <1>8, <1>9, <1>11, <1>12, <1>14, <1>15

\* Every answer the create call has, while the courier recycles no AWB, refuses
\* nothing that it has made and no request is late.
LEMMA CreateParcels ==
  ASSUME TypeOK, AwbOnlyBooked, AttemptInv, ParcelInv, NEW w \in Workers,
         \/ CreateAnsweredFromMemory(w) \/ CreateAccepted(w) \/ CreateRejected(w)
         \/ CreateTimedOut(w) \/ CreateNotSent(w),
         ~Spend("reuseAwb"), ~Spend("late"), ~Spend("falseRefusal")
  PROVE  ParcelInv'
<1> DEFINE i == worker[w].intent
           s == i[1]
<1>1. AtCreate(w) /\ UNCHANGED <<shipmentVars, wire, member>>
  BY DEF CreateAnsweredFromMemory, CreateAccepted, CreateRejected, CreateTimedOut,
         CreateNotSent, Send, courierVars
<1>2. i \in Intents BY <1>1, ProcessType DEF AtCreate, TypeOK, ProcessTypeOK
<1>3. NoAnswer.kind # "CONFIRMED" /\ Failed.kind # "CONFIRMED" /\ Unknown.kind # "CONFIRMED"
  BY DEF NoAnswer, Failed, Unknown
<1>4. \A a : Confirmed(a).kind = "CONFIRMED" /\ Confirmed(a).awb = a BY DEF Confirmed
<1>5. CASE CreateAnsweredFromMemory(w)
  <2>1. Refused(s) BY <1>1, <1>5, NothingYet DEF CreateAnsweredFromMemory
  <2>2. cache[w][i] \in Answers BY <1>2 DEF TypeOK, ProcessTypeOK
  <2>3. Return(w, cache[w][i]) /\ UNCHANGED <<cache, parcels>>
    BY <1>5 DEF CreateAnsweredFromMemory, courierVars
  <2>4. QED BY <1>1, <2>1, <2>2, <2>3, ParcelMade
<1>6. CASE CreateAccepted(w)
  <2>1. CASE \E a \in Awbs \ IssuedAwbs :
               parcels' = parcels \cup {NewParcel(i, a)} /\ Remember(w, Confirmed(a))
    <3>1. PICK a \in Awbs \ IssuedAwbs :
            parcels' = parcels \cup {NewParcel(i, a)} /\ Remember(w, Confirmed(a))
      BY <2>1
    <3>2. \E p \in parcels' : p.ref = i /\ p.awb = a
      <4>1. NewParcel(i, a) \in parcels' BY <3>1
      <4>2. NewParcel(i, a).ref = i /\ NewParcel(i, a).awb = a BY DEF NewParcel, ParcelIn
      <4>3. QED BY Zenon, <4>1, <4>2
    <3>3. /\ Confirmed(a) \in Answers /\ Return(w, Confirmed(a))
          /\ cache' = [cache EXCEPT ![w] = [@ EXCEPT ![i] = Confirmed(a)]]
      BY <3>1, AnswerType DEF Remember
    <3>4. QED BY <1>1, <1>4, <3>1, <3>2, <3>3, ParcelMade
  <2>2. CASE \E p \in parcels : p.ref = i /\ Remember(w, Confirmed(p.awb)) /\ UNCHANGED parcels
    <3>1. PICK p \in parcels : p.ref = i /\ Remember(w, Confirmed(p.awb)) /\ UNCHANGED parcels
      BY <2>2
    <3>2. p.awb \in Awbs BY DEF TypeOK, CourierTypeOK, Parcels
    <3>3. /\ Confirmed(p.awb) \in Answers /\ Return(w, Confirmed(p.awb))
          /\ cache' = [cache EXCEPT ![w] = [@ EXCEPT ![i] = Confirmed(p.awb)]]
      BY <3>1, <3>2, AnswerType DEF Remember
    <3>4. \E q \in parcels' : q.ref = i /\ q.awb = Confirmed(p.awb).awb BY <1>4, <3>1
    <3>5. QED BY <1>1, <3>1, <3>3, <3>4, ParcelMade
  <2>3. QED BY <1>6, <2>1, <2>2 DEF CreateAccepted
<1>7. CASE CreateRejected(w)
  <2>1. /\ Failed \in Answers /\ Return(w, Failed) /\ UNCHANGED parcels
        /\ cache' = [cache EXCEPT ![w] = [@ EXCEPT ![i] = Failed]]
    BY <1>7, AnswerType DEF CreateRejected, Remember
  <2>2. QED BY <1>1, <1>3, <2>1, ParcelMade
<1>8. CASE CreateTimedOut(w)
  <2>1. /\ Unknown \in Answers /\ Return(w, Unknown)
        /\ cache' = [cache EXCEPT ![w] = [@ EXCEPT ![i] = Unknown]]
        /\ UNCHANGED parcels \/ \E a \in Awbs \ IssuedAwbs : parcels' = parcels \cup {NewParcel(i, a)}
    BY <1>8, AnswerType DEF CreateTimedOut, Remember
  <2>2. QED BY <1>1, <1>3, <2>1, ParcelMade
<1>9. CASE CreateNotSent(w)
  <2>1. PICK r \in {Failed, Unknown} : Return(w, r)
    BY <1>9 DEF CreateNotSent
  <2>2. r \in Answers /\ r.kind # "CONFIRMED" /\ UNCHANGED <<cache, parcels>>
    BY <1>3, <1>9, AnswerType DEF CreateNotSent, courierVars
  <2>3. QED BY <1>1, <2>1, <2>2, ParcelMade
<1>10. QED BY <1>5, <1>6, <1>7, <1>8, <1>9

\* queueBooking, and the claim of a queued attempt: the shipment has no parcel
\* under way, and no answer that is not settled.
LEMMA BookingParcels ==
  ASSUME TypeOK, AwbOnlyBooked, AttemptInv, ParcelInv, RowEffect, NEW s \in Shipments,
         booking[s] \in {"DRAFT", "NEEDS_MANUAL_ASSIGNMENT", "QUEUED", "FAILED"},
         Leaves(s), UNCHANGED <<awb, parcels, wire, cache>>,
         \A t \in Shipments \ {s} : Untouched(t) /\ RowUnchanged(t),
         attempts'[s] \in Nat, attempts'[s] >= attempts[s],
         \A i \in Intents : i[1] = s /\ i[2] <= attempts[s] => outcome'[i] = outcome[i]
  PROVE  ParcelInv'
<1>1. \A w \in Workers : worker[w].pc = "settle" => worker[w].intent[1] # s
  BY DEF AttemptInv, ActorsOK, Attempting, InFlight
<1>2. \A p \in parcels : p.ref[1] # s
  BY ParcelsOf DEF Booked, Refused, InDoubt, InFlight
<1>3. awb[s] = NoAwb BY DEF AwbOnlyBooked, Booked
<1>4. \A w \in Workers, i \in Intents : i[1] = s /\ cache[w][i] # NoAnswer =>
        i[2] <= attempts[s] /\ outcome[i] # "IN_FLIGHT"
  BY <1>1 DEF ParcelInv, CachesSettled, Answered, Refused
<1>5. RowSeen(s)
  <2>1. \A i \in Intents : i[2] \in Nat BY IntentType
  <2>2. attempts[s] \in Nat /\ attempts'[s] >= attempts[s]
    BY BoundsAssumption DEF TypeOK, ShipmentTypeOK
  <2> SUFFICES ASSUME NEW w \in Workers, NEW i \in Intents, i[1] = s, cache[w][i] # NoAnswer
               PROVE  i[2] <= attempts'[s] /\ outcome'[i] # "IN_FLIGHT"
    BY <1>3 DEF RowSeen
  <2>3. i[2] <= attempts[s] /\ outcome'[i] # "IN_FLIGHT" BY <1>4
  <2>4. QED BY <2>1, <2>2, <2>3
<1>6. QED BY <1>2, <1>5, ParcelRowStep DEF Refused

\* A settling transaction of the attempt a shipment is at: what was made for the
\* attempt is stored by it, or in doubt with it.
LEMMA ParcelSettled ==
  ASSUME TypeOK, AwbOnlyBooked, ParcelInv, RowEffect, UNCHANGED <<parcels, wire, cache>>,
         NEW s \in Shipments, ~Refused(s), Leaves(s),
         attempts[s] \in 1..MaxAttempts, ActiveIntents(s) = {attempts[s]},
         NEW state, NEW result, Settles(s, <<s, attempts[s]>>, state, result),
         UNCHANGED collectible,
         \A t \in Shipments \ {s} : awb'[t] = awb[t] /\ isTest'[t] = isTest[t],
         awb'[s] # NoAwb => Made(<<s, attempts[s]>>, awb'[s]),
         \A p \in parcels : p.ref[1] = s =>
           awb'[s] = p.awb \/ (p.ref = <<s, attempts[s]>> /\ state = "OUTCOME_UNKNOWN")
  PROVE  ParcelInv'
<1> DEFINE i == <<s, attempts[s]>>
<1> USE DEF ParcelInv
<1>1. i \in Intents BY DEF Intents
<1>2. /\ \A t \in Shipments \ {s} : Untouched(t) /\ RowUnchanged(t)
      /\ outcome'[i] = result /\ booking'[s] = state /\ result # "IN_FLIGHT"
      /\ attempts'[s] = attempts[s]
      /\ \A j \in Intents : j # i => outcome'[j] = outcome[j]
      /\ state = "OUTCOME_UNKNOWN" => result = "UNKNOWN"
  <2>1. /\ booking' = [booking EXCEPT ![s] = state]
        /\ outcome' = [outcome EXCEPT ![i] = result]
        /\ UNCHANGED attempts
    BY DEF Settles
  <2>2. \A t \in Shipments \ {s} : Untouched(t) /\ RowUnchanged(t)
    BY <2>1, SettlingAttempt DEF Untouched, TypeOK, ShipmentTypeOK
  <2>3. \A j \in Intents : j # i => outcome'[j] = outcome[j]
    BY <2>1 DEF TypeOK, ShipmentTypeOK
  <2>4. outcome'[i] = result /\ booking'[s] = state
    BY <1>1, <2>1 DEF TypeOK, ShipmentTypeOK
  <2>5. QED BY <2>1, <2>2, <2>3, <2>4 DEF Settles
<1>3. RowSeen(s)
  <2>1. awb'[s] # NoAwb => \E p \in parcels : p.ref[1] = s /\ p.awb = awb'[s]
    BY DEF Made
  <2>2. ASSUME NEW v \in Workers, NEW j \in Intents, j[1] = s, cache[v][j] # NoAnswer
        PROVE  j[2] <= attempts'[s] /\ outcome'[j] # "IN_FLIGHT"
    <3>1. j[2] <= attempts[s] BY <2>2 DEF CachesSettled
    <3>2. CASE j = i BY <1>2, <3>1, <3>2
    <3>3. CASE j # i
      <4>1. j[2] \in 1..MaxAttempts /\ j[2] # attempts[s] /\ j = <<s, j[2]>>
        BY <2>2, <3>3, IntentType
      <4>2. outcome[j] # "IN_FLIGHT" BY <4>1 DEF ActiveIntents
      <4>3. QED BY <1>2, <3>1, <3>3, <4>2
    <3>4. QED BY <3>2, <3>3
  <2>3. QED BY <2>1, <2>2 DEF RowSeen
<1>4. ASSUME NEW p \in parcels, p.ref[1] = s PROVE Traced(p)'
  <2>1. CASE awb'[s] = p.awb BY <1>4, <2>1 DEF Traced
  <2>2. CASE p.ref = i /\ state = "OUTCOME_UNKNOWN"
    <3>1. outcome'[p.ref] = "UNKNOWN" /\ booking'[p.ref[1]] = "OUTCOME_UNKNOWN"
      BY <1>2, <2>2
    <3>2. QED BY <3>1 DEF Traced, InDoubt
  <2>3. QED BY <1>4, <2>1, <2>2
<1>5. QED BY <1>2, <1>3, <1>4, ParcelRowStep

\* The settling of a worker's answer: a made parcel is stored, or in doubt.
LEMMA SettleParcels ==
  ASSUME TypeOK, AwbOnlyBooked, AttemptInv, ParcelInv, RowEffect, NEW w \in Workers,
         SettleConfirmed(w) \/ SettleOther(w)
  PROVE  ParcelInv'
<1> DEFINE i == worker[w].intent
           s == i[1]
           a == worker[w].answer.awb
<1> USE DEF ParcelInv
<1>1. Attempting(worker[w]) /\ worker[w].pc = "settle"
  BY DEF SettleConfirmed, SettleOther, Settling, Attempting
<1>2. /\ s \in Shipments /\ i \in Intents /\ i = <<s, attempts[s]>>
      /\ ActiveIntents(s) = {attempts[s]}
      /\ \A v \in Workers \ {w} : Attempting(worker[v]) => worker[v].intent[1] # s
      /\ InFlight(i)
  BY <1>1, SoleAttempt DEF AttemptInv, ActorsOK
<1>3. UNCHANGED <<parcels, wire, cache, member>> BY DEF SettleConfirmed, SettleOther, courierVars
<1>4. PICK q : worker' = [worker EXCEPT ![w] = q] /\ q.pc # "settle"
  BY ProcessPc DEF SettleConfirmed, SettleOther, Finish, Throw, Committed
<1>5. worker'[w].pc # "settle" /\ \A v \in Workers \ {w} : worker'[v] = worker[v]
  BY <1>4 DEF TypeOK, ProcessTypeOK
<1>6. CASE UNCHANGED shipmentVars /\ Refused(s)
  BY <1>3, <1>5, <1>6, ParcelsAside
<1>7. ~Booked(s) /\ awb[s] = NoAwb BY <1>2 DEF InFlight, Booked, AwbOnlyBooked
<1>8. ASSUME ~Refused(s)
      PROVE  /\ \A p \in parcels : p.ref[1] = s =>
                  p.ref = i /\ worker[w].answer \in {Unknown, Confirmed(p.awb)}
             /\ worker[w].answer.kind = "CONFIRMED" => Made(i, a)
  <2>1. ASSUME NEW p \in parcels, p.ref[1] = s
        PROVE  p.ref = i /\ worker[w].answer \in {Unknown, Confirmed(p.awb)}
    <3>1. PICK v \in Workers : Holds(v, p)
      BY <1>2, <1>7, <1>8, <2>1, ParcelsOf DEF InFlight, InDoubt
    <3>2. v = w BY <1>2, <2>1, <3>1 DEF Holds, Attempting
    <3>3. QED BY <3>1, <3>2 DEF Holds
  <2>2. worker[w].answer.kind = "CONFIRMED" => Made(i, a)
    BY <1>1, <1>8 DEF WorkersTruthful
  <2>3. QED BY <2>1, <2>2
<1>9. ASSUME NEW state, NEW result, Settles(s, <<s, attempts[s]>>, state, result),
             ~Refused(s), UNCHANGED collectible,
             \A t \in Shipments \ {s} : awb'[t] = awb[t] /\ isTest'[t] = isTest[t],
             awb'[s] # NoAwb => Made(i, awb'[s]),
             \A p \in parcels : p.ref[1] = s =>
               awb'[s] = p.awb \/ (p.ref = i /\ state = "OUTCOME_UNKNOWN")
      PROVE  ParcelInv'
  <2>1. Leaves(s) BY <1>2, <1>3, <1>5 DEF Leaves, Attempting
  <2>2. attempts[s] \in 1..MaxAttempts BY <1>2, IntentType
  <2>3. /\ awb'[s] # NoAwb => Made(<<s, attempts[s]>>, awb'[s])
        /\ \A p \in parcels : p.ref[1] = s =>
             awb'[s] = p.awb \/ (p.ref = <<s, attempts[s]>> /\ state = "OUTCOME_UNKNOWN")
    BY <1>2, <1>9
  <2> HIDE DEF i, s
  <2>4. s \in Shipments /\ ActiveIntents(s) = {attempts[s]} BY <1>2
  <2>5. QED BY <1>3, <1>9, <2>1, <2>2, <2>3, <2>4, ParcelSettled
<1>10. CASE ConfirmBooking(s, i, a, "CONFIRMED") /\ worker[w].answer.kind = "CONFIRMED"
  <2>1. ~Refused(s) BY <1>10 DEF ConfirmBooking, Refused
  <2>2. Made(i, a) BY <1>8, <1>10, <2>1
  <2>3. ~AwbTaken(s, a)
    <3> SUFFICES ASSUME NEW t \in Shipments \ {s}, awb[t] = a PROVE FALSE
      BY DEF AwbTaken
    <3>1. PICK p \in parcels : p.ref = i /\ p.awb = a BY <2>2 DEF Made
    <3>2. a # NoAwb BY <3>1, NullAssumption DEF TypeOK, CourierTypeOK, Parcels
    <3>3. PICK r \in parcels : r.ref[1] = t /\ r.awb = a BY <3>2 DEF AwbsMade
    <3>4. QED BY <3>1, <3>3 DEF ParcelsDiffer
  <2>4. /\ Settles(s, <<s, attempts[s]>>, "CONFIRMED", "CONFIRMED") /\ UNCHANGED collectible
        /\ awb' = [awb EXCEPT ![s] = a] /\ isTest' = [isTest EXCEPT ![s] = (mode = "TEST")]
    BY <1>2, <1>10, <2>3 DEF ConfirmBooking, Settles
  <2>5. /\ awb'[s] = a
        /\ \A t \in Shipments \ {s} : awb'[t] = awb[t] /\ isTest'[t] = isTest[t]
    BY <1>2, <2>4 DEF TypeOK, ShipmentTypeOK
  <2>6. \A p \in parcels : p.ref[1] = s => p.awb = a
    BY <1>8, <1>10, <2>1 DEF Confirmed, Unknown
  <2>7. QED BY <1>9, <2>1, <2>2, <2>4, <2>5, <2>6
<1>11. CASE SettleAs(s, i, {"SUBMITTED"}, "FAILED", "FAILED") /\ worker[w].answer.kind = "FAILED"
  <2>1. /\ ~Refused(s) /\ Settles(s, <<s, attempts[s]>>, "FAILED", "FAILED")
        /\ UNCHANGED <<collectible, awb, isTest>>
    BY <1>2, <1>11 DEF SettleAs, Settles, Refused, InFlight
  <2>2. \A p \in parcels : p.ref[1] # s
    BY <1>8, <1>11, <2>1 DEF Confirmed, Unknown
  <2>3. QED BY <1>7, <1>9, <2>1, <2>2
<1>12. CASE SettleAs(s, i, {"SUBMITTED"}, "OUTCOME_UNKNOWN", "UNKNOWN")
  <2>1. /\ ~Refused(s) /\ Settles(s, <<s, attempts[s]>>, "OUTCOME_UNKNOWN", "UNKNOWN")
        /\ UNCHANGED <<collectible, awb, isTest>>
    BY <1>2, <1>12 DEF SettleAs, Settles, Refused, InFlight
  <2>2. \A p \in parcels : p.ref[1] = s => p.ref = i BY <1>8, <2>1
  <2>3. QED BY <1>7, <1>9, <2>1, <2>2
<1>13. CASE SettleConfirmed(w)
  <2>1. Confirmable(s) BY <1>2 DEF InFlight, Confirmable
  <2>2. worker[w].answer.kind = "CONFIRMED" BY <1>13 DEF SettleConfirmed, Settling
  <2>3. ~CollectibleGuard(s) => Refused(s) BY <1>2 DEF InFlight, Refused
  <2>4. QED BY <1>6, <1>10, <1>13, <2>1, <2>2, <2>3 DEF SettleConfirmed
<1>14. CASE SettleOther(w)
  BY <1>6, <1>11, <1>12, <1>14
     DEF SettleOther, SettleFailed, MarkOutcomeUnknown, Settling, Refused
<1>15. QED BY <1>13, <1>14

\* The settling of a resolution: the parcel in doubt is the one that was found.
LEMMA ResolveParcels ==
  ASSUME TypeOK, AwbOnlyBooked, AttemptInv, ParcelInv, RowEffect, OneResolver,
         NEW m \in Members, ResolveConfirmed(m) \/ ResolveFailed(m)
  PROVE  ParcelInv'
<1> DEFINE i == member[m].intent
           s == i[1]
           a == member[m].answer.awb
<1> USE DEF ParcelInv
<1>1. Resolving(member[m]) /\ member[m].pc = "settle"
  BY DEF ResolveConfirmed, ResolveFailed, Resolving
<1>2. /\ s \in Shipments /\ i \in Intents /\ i = <<s, attempts[s]>>
      /\ ActiveIntents(s) = {attempts[s]}
      /\ \A v \in Workers : Attempting(worker[v]) => worker[v].intent[1] # s
      /\ InDoubt(i)
  BY <1>1, SoleResolution DEF AttemptInv, ActorsOK
<1>3. UNCHANGED <<parcels, wire, cache, worker>>
  BY DEF ResolveConfirmed, ResolveFailed, courierVars
<1>4. PICK q : member' = [member EXCEPT ![m] = q] /\ q.pc # "settle"
  BY ProcessPc DEF ResolveConfirmed, ResolveFailed
<1>5. Leaves(s)
  BY <1>2, <1>3, <1>4 DEF Leaves, Attempting, TypeOK, ProcessTypeOK
<1>6. ~Booked(s) /\ awb[s] = NoAwb /\ ~Refused(s)
  BY <1>2 DEF InDoubt, Booked, AwbOnlyBooked, Refused
<1>7. ASSUME NEW p \in parcels, p.ref[1] = s PROVE p.ref = i
  <2>1. InDoubt(p.ref) /\ p.ref \in Intents
    BY <1>2, <1>6, <1>7, ParcelsOf DEF InDoubt, InFlight
  <2>2. p.ref[2] \in 1..MaxAttempts /\ p.ref = <<s, p.ref[2]>> BY <1>7, <2>1, IntentType
  <2>3. p.ref[2] \in ActiveIntents(s) BY <2>1, <2>2 DEF ActiveIntents, InDoubt
  <2>4. QED BY <1>2, <2>2, <2>3
<1>8. ASSUME NEW state, NEW result, Settles(s, <<s, attempts[s]>>, state, result),
             UNCHANGED collectible,
             \A t \in Shipments \ {s} : awb'[t] = awb[t] /\ isTest'[t] = isTest[t],
             awb'[s] # NoAwb => Made(i, awb'[s]),
             \A p \in parcels : p.ref[1] = s => awb'[s] = p.awb
      PROVE  ParcelInv'
  <2>1. attempts[s] \in 1..MaxAttempts BY <1>2, IntentType
  <2>2. awb'[s] # NoAwb => Made(<<s, attempts[s]>>, awb'[s]) BY <1>2, <1>8
  <2> HIDE DEF i, s
  <2>3. s \in Shipments /\ ActiveIntents(s) = {attempts[s]} /\ ~Refused(s) BY <1>2, <1>6
  <2>4. QED BY <1>3, <1>5, <1>8, <2>1, <2>2, <2>3, ParcelSettled
<1>9. CASE ConfirmBooking(s, i, a, "RESOLVED_CONFIRMED") /\ member[m].answer.kind = "CONFIRMED"
  <2>1. PICK p \in parcels : p.ref = i /\ p.awb = a
    BY <1>1, <1>9 DEF MembersTruthful, Made
  <2>2. ~AwbTaken(s, a)
    <3> SUFFICES ASSUME NEW t \in Shipments \ {s}, awb[t] = a PROVE FALSE
      BY DEF AwbTaken
    <3>1. a # NoAwb BY <2>1, NullAssumption DEF TypeOK, CourierTypeOK, Parcels
    <3>2. PICK r \in parcels : r.ref[1] = t /\ r.awb = a BY <3>1 DEF AwbsMade
    <3>3. QED BY <2>1, <3>2 DEF ParcelsDiffer
  <2>3. /\ Settles(s, <<s, attempts[s]>>, "CONFIRMED", "RESOLVED_CONFIRMED") /\ UNCHANGED collectible
        /\ awb' = [awb EXCEPT ![s] = a] /\ isTest' = [isTest EXCEPT ![s] = (mode = "TEST")]
    BY <1>2, <1>9, <2>2 DEF ConfirmBooking, Settles
  <2>4. /\ awb'[s] = a
        /\ \A t \in Shipments \ {s} : awb'[t] = awb[t] /\ isTest'[t] = isTest[t]
    BY <1>2, <2>3 DEF TypeOK, ShipmentTypeOK
  <2>5. \A r \in parcels : r.ref[1] = s => r.awb = a
    BY <1>6, <1>7, <2>1 DEF ParcelsDiffer
  <2>6. Made(i, a) BY <2>1 DEF Made
  <2>7. QED BY <1>8, <2>3, <2>4, <2>5, <2>6
<1>10. CASE /\ SettleAs(s, i, {"OUTCOME_UNKNOWN"}, "FAILED", "RESOLVED_FAILED")
            /\ member[m].answer.kind = "FAILED"
  <2>1. /\ Settles(s, <<s, attempts[s]>>, "FAILED", "RESOLVED_FAILED")
        /\ UNCHANGED <<collectible, awb, isTest>>
    BY <1>2, <1>10 DEF SettleAs, Settles, InDoubt
  <2>2. \A p \in parcels : p.ref[1] # s BY <1>1, <1>7, <1>10 DEF MembersTruthful
  <2>3. QED BY <1>6, <1>8, <2>1, <2>2
<1>11. Confirmable(s) BY <1>2 DEF InDoubt, Confirmable
<1>12. QED BY <1>9, <1>10, <1>11 DEF ResolveConfirmed, ResolveFailed, SettleFailed

\* What a member takes up to settle is what the courier has, unless an operator
\* is mistaken.
LEMMA DecideParcels ==
  ASSUME TypeOK, ParcelInv, SameMode, NEW m \in Members,
         LookupByReference(m) \/ OperatorDecides(m), ~Spend("misjudge")
  PROVE  ParcelInv'
<1> DEFINE i == member[m].intent
<1>1. UNCHANGED <<shipmentVars, parcels, wire, cache, worker>>
  BY DEF LookupByReference, OperatorDecides, courierVars
<1>2. \/ \E p \in parcels : p.ref = i /\ Decide(m, Confirmed(p.awb))
      \/ (\A p \in parcels : p.ref # i) /\ Decide(m, Failed)
  BY DEF LookupByReference, OperatorDecides, SameMode
<1>3. MembersTruthful'
  <2>1. PICK r : /\ Decide(m, r)
                 /\ r.kind = "CONFIRMED" => Made(i, r.awb)
                 /\ r.kind = "FAILED" => \A p \in parcels : p.ref # i
    <3>1. CASE \E p \in parcels : p.ref = i /\ Decide(m, Confirmed(p.awb))
      <4>1. PICK p \in parcels : p.ref = i /\ Decide(m, Confirmed(p.awb)) BY <3>1
      <4>2. /\ Confirmed(p.awb).kind = "CONFIRMED" /\ Confirmed(p.awb).awb = p.awb
        BY DEF Confirmed
      <4>3. Made(i, Confirmed(p.awb).awb) BY <4>1, <4>2 DEF Made
      <4> WITNESS Confirmed(p.awb)
      <4>4. QED BY <4>1, <4>2, <4>3
    <3>2. CASE (\A p \in parcels : p.ref # i) /\ Decide(m, Failed)
      <4>1. Failed.kind = "FAILED" BY DEF Failed
      <4> WITNESS Failed
      <4>2. QED BY <3>2, <4>1
    <3>3. QED BY <1>2, <3>1, <3>2
  <2>2. /\ member'[m].intent = i /\ member'[m].answer = r
        /\ \A k \in Members \ {m} : member'[k] = member[k]
    BY <2>1 DEF Decide, Process, TypeOK, ProcessTypeOK
  <2> SUFFICES ASSUME NEW k \in Members, member'[k].pc = "settle"
               PROVE  /\ member'[k].answer.kind = "CONFIRMED" =>
                           \E p \in parcels : p.ref = member'[k].intent /\ p.awb = member'[k].answer.awb
                      /\ member'[k].answer.kind = "FAILED" => \A p \in parcels : p.ref # member'[k].intent
    BY <1>1 DEF MembersTruthful, Made
  <2>3. CASE k = m BY <2>1, <2>2, <2>3 DEF Made
  <2>4. CASE k # m BY <2>2, <2>4 DEF ParcelInv, MembersTruthful, Made
  <2>5. QED BY <2>3, <2>4
<1>4. QED BY <1>1, <1>3, ParcelsKept

\* The steps of a worker that are no answer: it takes up a job, lets go of one,
\* debits or ends.
LEMMA WorkerParcels ==
  ASSUME TypeOK, ParcelInv, NEW w \in Workers,
         \/ CreateBackPressure(w) \/ WorkerDebits(w) \/ Complete(w)
         \/ \E i \in Intents : Deliver(w, i)
  PROVE  ParcelInv'
<1>1. UNCHANGED <<shipmentVars, parcels, wire, cache, member>>
  BY DEF CreateBackPressure, WorkerDebits, Complete, Deliver, courierVars
<1>2. worker[w].pc # "settle"
  BY DEF CreateBackPressure, AtCreate, WorkerDebits, Complete, Deliver
<1>3. PICK q : worker' = [worker EXCEPT ![w] = q] /\ q.pc # "settle"
  BY ProcessPc DEF CreateBackPressure, WorkerDebits, Complete, Deliver, Throw, Finish, Committed
<1>4. worker'[w].pc # "settle" /\ \A v \in Workers \ {w} : worker'[v] = worker[v]
  BY <1>3 DEF TypeOK, ProcessTypeOK
<1>5. QED BY <1>1, <1>2, <1>4, ParcelsAside

\* The claim.
LEMMA ClaimParcels ==
  ASSUME TypeOK, AwbOnlyBooked, AttemptInv, ParcelInv, RowEffect, NEW w \in Workers, Claim(w)
  PROVE  ParcelInv'
<1> DEFINE i == worker[w].intent
           s == i[1]
<1>1. /\ UNCHANGED <<custody, collectible, awb, isTest, attempts, outcome>>
      /\ UNCHANGED <<parcels, wire, cache, member>> /\ worker[w].pc = "claim"
  BY DEF Claim, courierVars
<1>2. PICK q : worker' = [worker EXCEPT ![w] = q] /\ q.pc # "settle"
  BY ProcessPc DEF Claim, Throw, Finish
<1>3. worker'[w].pc # "settle" /\ \A v \in Workers \ {w} : worker'[v] = worker[v]
  BY <1>2 DEF TypeOK, ProcessTypeOK
<1>4. CASE UNCHANGED booking
  <2>1. UNCHANGED shipmentVars BY <1>1, <1>4 DEF shipmentVars
  <2>2. QED BY <1>1, <1>3, <2>1, ParcelsAside
<1>5. CASE booking' # booking
  <2>1. s \in Shipments /\ i \in Intents
    BY <1>1, ProcessType, IntentType DEF TypeOK, ProcessTypeOK
  <2>2. booking' = [booking EXCEPT ![s] = "SUBMITTED"] /\ booking[s] \in {"QUEUED", "SUBMITTED"}
    BY <1>5 DEF Claim, Claimable
  <2>3. booking[s] = "QUEUED" BY <1>5, <2>2 DEF TypeOK, ShipmentTypeOK
  <2>4. \A t \in Shipments \ {s} : Untouched(t) /\ RowUnchanged(t)
    BY <1>1, <2>1, <2>2 DEF Untouched, RowUnchanged, TypeOK, ShipmentTypeOK
  <2>5. \A v \in Workers : worker[v].pc = "settle" => worker[v].intent[1] # s
    BY <2>3 DEF AttemptInv, ActorsOK, Attempting, InFlight
  <2>6. Leaves(s) BY <1>1, <1>3, <2>5 DEF Leaves
  <2> HIDE DEF i, s
  <2>7. attempts'[s] \in Nat /\ attempts'[s] >= attempts[s]
    BY <1>1, <2>1, BoundsAssumption DEF TypeOK, ShipmentTypeOK
  <2>8. QED BY <1>1, <2>1, <2>3, <2>4, <2>6, <2>7, BookingParcels
<1>6. QED BY <1>4, <1>5

\* queueBooking and the routing to manual assignment.
LEMMA QueueParcels ==
  ASSUME TypeOK, AwbOnlyBooked, AttemptInv, ParcelInv, RowEffect, NEW s \in Shipments,
         RouteToManual(s) \/ QueueBooking(s)
  PROVE  ParcelInv'
<1> USE DEF TypeOK, ShipmentTypeOK
<1>1. /\ booking[s] \in {"DRAFT", "NEEDS_MANUAL_ASSIGNMENT", "FAILED"}
      /\ UNCHANGED <<awb, isTest, parcels, wire, cache, worker, member>>
  BY DEF RouteToManual, QueueBooking, courierVars
<1>2. Leaves(s) BY <1>1 DEF Leaves, AttemptInv, ActorsOK, Attempting, InFlight
<1>3. /\ \A t \in Shipments \ {s} : Untouched(t) /\ RowUnchanged(t)
      /\ attempts'[s] \in Nat /\ attempts'[s] >= attempts[s]
      /\ \A i \in Intents : i[1] = s /\ i[2] <= attempts[s] => outcome'[i] = outcome[i]
  <2>1. CASE RouteToManual(s)
    <3>1. booking' = [booking EXCEPT ![s] = "NEEDS_MANUAL_ASSIGNMENT"]
          /\ UNCHANGED <<collectible, attempts, outcome>>
      BY <2>1 DEF RouteToManual
    <3>2. QED BY <1>1, <3>1, BoundsAssumption DEF Untouched, RowUnchanged
  <2>2. CASE QueueBooking(s)
    <3>1. /\ booking' = [booking EXCEPT ![s] = "QUEUED"]
          /\ attempts' = [attempts EXCEPT ![s] = attempts[s] + 1]
          /\ outcome' = [outcome EXCEPT ![<<s, attempts[s] + 1>>] = "IN_FLIGHT"]
          /\ \A t \in Shipments \ {s} : collectible'[t] = collectible[t]
      BY <2>2 DEF QueueBooking
    <3>2. \A t \in Shipments \ {s} : Untouched(t) BY <1>1, <3>1 DEF Untouched
    <3>3. \A t \in Shipments \ {s} : RowUnchanged(t) BY <3>1 DEF RowUnchanged, Intents
    <3>4. attempts[s] \in Nat BY BoundsAssumption
    <3>5. \A i \in Intents : i[1] = s /\ i[2] <= attempts[s] => outcome'[i] = outcome[i]
      <4>1. \A i \in Intents : i[2] <= attempts[s] => i # <<s, attempts[s] + 1>>
        BY <3>4, IntentType
      <4>2. QED BY <3>1, <4>1
    <3>6. QED BY <3>1, <3>2, <3>3, <3>4, <3>5
  <2>3. QED BY <2>1, <2>2
<1>4. QED BY <1>1, <1>2, <1>3, BookingParcels

\* Every step that spends none of the disturbing faults.
LEMMA ParcelStep ==
  ASSUME TypeOK, AwbOnlyBooked, AttemptInv, ParcelInv, SameMode, OneResolver, [Next]_vars,
         \A k \in HarmfulKinds : ~Spend(k)
  PROVE  ParcelInv'
<1>1. RowEffect BY StepEffect DEF Effect
<1>2. /\ ~Spend("late") /\ ~Spend("reuseAwb") /\ ~Spend("misjudge") /\ ~Spend("crash")
      /\ ~Spend("falseRefusal")
  BY DEF HarmfulKinds, DisturbingKinds, ForgettingKinds
<1>3. ASSUME UNCHANGED <<shipmentVars, parcels, wire, cache, worker>>,
             \A m \in Members : member'[m].pc = "settle" => member'[m] = member[m]
      PROVE  ParcelInv'
  BY <1>3, ParcelsAside
<1>4. CASE \E s \in Shipments : RouteToManual(s) \/ QueueBooking(s)
  BY <1>1, <1>4, QueueParcels
<1>5. CASE \E i \in Intents : Enqueue(i) \/ LoseEnqueue(i) \/ RecoverStalled(i)
  BY <1>3, <1>5 DEF Enqueue, LoseEnqueue, RecoverStalled, courierVars
<1>6. CASE \E i \in Intents : LateArrival(i)
  BY <1>6 DEF LateArrival, ParcelInv
<1>7. CASE \E w \in Workers, i \in Intents : Deliver(w, i)
  BY <1>7, WorkerParcels
<1>8. CASE \E w \in Workers : WorkerStep(w) \/ CrashWorker(w)
  BY <1>1, <1>2, <1>8, ClaimParcels, CreateParcels, SettleParcels, WorkerParcels
     DEF WorkerStep, CrashWorker
<1>9. CASE \E m \in Members, s \in Shipments : LoadOutcomeUnknown(m, s)
  <2>1. PICK m \in Members : \E s \in Shipments : LoadOutcomeUnknown(m, s) BY <1>9
  <2>2. PICK q : member' = [member EXCEPT ![m] = q] /\ q.pc # "settle"
    <3>1. PICK i : member' = [member EXCEPT ![m] = Process("loaded", i, NoAnswer)]
      BY <2>1 DEF LoadOutcomeUnknown
    <3>2. Process("loaded", i, NoAnswer).pc # "settle" BY ProcessPc
    <3>3. QED BY Zenon, <3>1, <3>2
  <2>3. \A k \in Members : member'[k].pc = "settle" => member'[k] = member[k]
    BY <2>2 DEF TypeOK, ProcessTypeOK
  <2>4. QED BY <1>3, <2>1, <2>3 DEF LoadOutcomeUnknown, courierVars
<1>10. CASE \E m \in Members : MemberStep(m) \/ AbandonResolution(m) \/ CrashMember(m)
  <2>1. PICK m \in Members : MemberStep(m) \/ AbandonResolution(m) \/ CrashMember(m) BY <1>10
  <2>2. CASE MemberDebits(m) \/ AbandonResolution(m) \/ CrashMember(m)
    <3>1. \A k \in Members : member'[k].pc = "settle" => member'[k] = member[k]
      BY <2>2, ProcessPc
         DEF MemberDebits, AbandonResolution, CrashMember, TypeOK, ProcessTypeOK
    <3>2. QED BY <1>3, <2>2, <3>1 DEF MemberDebits, AbandonResolution, CrashMember, courierVars
  <2>3. QED BY <1>1, <1>2, <2>1, <2>2, DecideParcels, ResolveParcels DEF MemberStep
<1>11. CASE SwitchMode \/ ChangeSubscription
  BY <1>3, <1>11 DEF SwitchMode, ChangeSubscription, courierVars
<1>12. CASE UNCHANGED vars BY <1>3, <1>12 DEF vars, courierVars
<1>13. QED
  BY <1>4, <1>5, <1>6, <1>7, <1>8, <1>9, <1>10, <1>11, <1>12 DEF Next

\* The parcels stay in the account's mode until it is switched.
LEMMA SameModeStep ==
  ASSUME TypeOK, SameMode, wire = {}, [Next]_vars, ~Spend("switchMode")
  PROVE  SameMode'
<1>1. \A i, a : NewParcel(i, a).mode = mode BY DEF NewParcel, ParcelIn
<1>2. ASSUME UNCHANGED <<parcels, mode>> PROVE SameMode' BY <1>2 DEF SameMode
<1>3. ASSUME UNCHANGED mode, NEW i, NEW a, parcels' \subseteq parcels \cup {NewParcel(i, a)}
      PROVE  SameMode'
  BY <1>1, <1>3 DEF SameMode
<1>4. CASE \E s \in Shipments : RouteToManual(s) \/ QueueBooking(s)
  BY <1>2, <1>4 DEF RouteToManual, QueueBooking, accountVars, courierVars
<1>5. CASE \E i \in Intents : Enqueue(i) \/ LoseEnqueue(i) \/ RecoverStalled(i) \/ LateArrival(i)
  BY <1>2, <1>5 DEF Enqueue, LoseEnqueue, RecoverStalled, LateArrival, accountVars, courierVars
<1>6. CASE \E w \in Workers, i \in Intents : Deliver(w, i)
  BY <1>2, <1>6 DEF Deliver, accountVars, courierVars
<1>7. CASE \E w \in Workers : WorkerStep(w) \/ CrashWorker(w)
  <2>1. PICK w \in Workers : WorkerStep(w) \/ CrashWorker(w) BY <1>7
  <2>2. CASE \/ CrashWorker(w) \/ Claim(w) \/ CreateAnsweredFromMemory(w) \/ CreateNotSent(w)
             \/ CreateBackPressure(w) \/ SettleConfirmed(w) \/ SettleOther(w)
             \/ WorkerDebits(w) \/ Complete(w)
    BY <1>2, <2>2
       DEF CrashWorker, Claim, CreateAnsweredFromMemory, CreateNotSent, CreateBackPressure,
           SettleConfirmed, SettleOther, WorkerDebits, Complete, accountVars, courierVars
  <2>3. CASE CreateAccepted(w)
    BY <1>2, <1>3, <2>3 DEF CreateAccepted, accountVars
  <2>4. CASE CreateRejected(w)
    BY <1>2, <1>3, <2>4 DEF CreateRejected, accountVars
  <2>5. CASE CreateTimedOut(w)
    BY <1>2, <1>3, <2>5 DEF CreateTimedOut, accountVars
  <2>6. QED BY <2>1, <2>2, <2>3, <2>4, <2>5 DEF WorkerStep
<1>8. CASE \/ \E m \in Members, s \in Shipments : LoadOutcomeUnknown(m, s)
           \/ \E m \in Members : MemberStep(m) \/ AbandonResolution(m) \/ CrashMember(m)
  BY <1>2, <1>8
     DEF LoadOutcomeUnknown, MemberStep, LookupByReference, OperatorDecides, ResolveConfirmed,
         ResolveFailed, MemberDebits, AbandonResolution, CrashMember, accountVars, courierVars
<1>9. CASE SwitchMode \/ ChangeSubscription
  BY <1>2, <1>9 DEF SwitchMode, ChangeSubscription, courierVars
<1>10. CASE UNCHANGED vars BY <1>2, <1>10 DEF vars, accountVars, courierVars
<1>11. QED BY <1>4, <1>5, <1>6, <1>7, <1>8, <1>9, <1>10 DEF Next

\* The parcels are traced until the first disturbance.
FaultsSpent == \A k \in FaultKinds : budget[k] <= Budget[k]
LEMMA ParcelInvariant ==
  ASSUME OneResolver
  PROVE  Spec => [](FaultsSpent /\ (Unspent => ParcelInv /\ SameMode))
<1> DEFINE Inv == FaultsSpent /\ (Unspent => ParcelInv /\ SameMode)
<1>1. ASSUME Init PROVE Inv
  <2>1. FaultsSpent BY <1>1, BoundsAssumption DEF Init, FaultsSpent
  <2>2. /\ parcels = {} /\ wire = {} /\ \A s \in Shipments : awb[s] = NoAwb
        /\ \A w \in Workers : worker[w].pc # "settle"
        /\ \A m \in Members : member[m].pc # "settle"
        /\ \A w \in Workers, i \in Intents : cache[w][i] = NoAnswer
    BY <1>1, ProcessPc DEF Init
  <2>3. ParcelInv
    BY <2>2 DEF ParcelInv, ParcelsDiffer, AwbsMade, WorkersTruthful, MembersTruthful, CachesSettled
  <2>4. SameMode BY <2>2 DEF SameMode
  <2>5. QED BY <2>1, <2>3, <2>4
<1>2. ASSUME Inv, TypeOK, TypeOK', AwbOnlyBooked, StallsSpent /\ (NoStallYet => AttemptInv),
             [Next]_vars
      PROVE  Inv'
  <2>1. \A k \in FaultKinds : /\ budget[k] \in Nat /\ budget'[k] \in Nat /\ Budget[k] \in Nat
                              /\ budget'[k] <= budget[k] /\ budget[k] <= Budget[k]
    BY <1>2, BoundsAssumption, StallBudget DEF TypeOK, BudgetTypeOK, FaultsSpent
  <2>2. FaultsSpent' BY <2>1 DEF FaultsSpent
  <2>3. ASSUME Unspent' PROVE ParcelInv' /\ SameMode'
    <3>1. HarmfulKinds \subseteq FaultKinds
      BY DEF HarmfulKinds, DisturbingKinds, ForgettingKinds, FaultKinds
    <3>2. \A k \in HarmfulKinds : budget[k] = Budget[k] /\ budget'[k] = budget[k]
      BY <2>1, <2>3, <3>1 DEF Unspent
    <3>3. \A k \in HarmfulKinds : ~Spend(k)
      BY <2>1, <3>1, <3>2, <1>2 DEF Spend, TypeOK, BudgetTypeOK
    <3>4. Unspent /\ NoStallYet
      BY <3>2 DEF Unspent, NoStallYet, HarmfulKinds, DisturbingKinds
    <3>5. ParcelInv' BY <1>2, <3>3, <3>4, ParcelStep
    <3>6. ~Spend("switchMode") /\ wire = {}
      BY <1>2, <3>3, <3>4 DEF HarmfulKinds, ForgettingKinds, ParcelInv
    <3>7. QED BY <1>2, <3>4, <3>5, <3>6, SameModeStep
  <2>4. QED BY <2>2, <2>3
<1>3. SafetyInv => AwbOnlyBooked BY DEF SafetyInv
<1>4. QED BY <1>1, <1>2, <1>3, TypeCorrect, SafetyInvariant, AttemptInvariant, PTL DEF Spec

\* A parcel the courier made is stored on its shipment, or its shipment is in a
\* state from which it will still be found, until a worker dies with an answer,
\* a parcel is made and told FAILED, or the account changes its mode: with one
\* request resolving at a time, and while no job is delivered to two workers at
\* once, no answer is late, no AWB is recycled and no operator is mistaken.
\* Retries, refusals of the collectible trigger, lost requests and dying API
\* processes lose none.
THEOREM ParcelsKeptInSight ==
  OneResolver => (Spec => [](Undisturbed => NoOrphanParcel))
<1> SUFFICES ASSUME OneResolver PROVE Spec => [](Undisturbed => NoOrphanParcel)
  OBVIOUS
<1>1. ASSUME TypeOK, AwbOnlyBooked, Unspent => ParcelInv, Undisturbed,
             \A k \in ForgettingKinds : budget[k] = Budget[k],
             NEW p \in parcels
      PROVE  awb[p.ref[1]] = p.awb \/ booking[p.ref[1]] \in {"SUBMITTED", "OUTCOME_UNKNOWN"}
  <2>1. ParcelInv BY <1>1 DEF Unspent, Undisturbed, HarmfulKinds
  <2>2. Traced(p) BY <2>1 DEF ParcelInv
  <2>3. QED BY <2>2 DEF Traced, Refused, InDoubt, InFlight
<1>2. TypeOK /\ SafetyInv /\ (FaultsSpent /\ (Unspent => ParcelInv /\ SameMode)) => (Undisturbed => NoOrphanParcel)
  BY <1>1 DEF NoOrphanParcel, SafetyInv
<1>3. QED BY <1>2, TypeCorrect, SafetyInvariant, ParcelInvariant, PTL

=============================================================================
