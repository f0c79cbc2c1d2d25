------------------------------ MODULE MoneyProofs ------------------------------
(***************************************************************************)
(* What MCMoney promises of the components it composes, proved for every   *)
(* value of their constants: a return is final (CodRecon), no credit is    *)
(* free (Billing), a resolved batch is settled (FreightRecon), and a bill  *)
(* for what was quoted is not disputed (its prices).                       *)
(***************************************************************************)
EXTENDS MCMoney, TLAPS, SequenceTheorems, FiniteSetTheorems, WellFoundedInduction

moneyVars == <<focus, billingVars, codVars, freightVars, quoteVars>>

----------------------------------------------------------------------------
(* CodRecon.  Only a flip writes RTO_UNCOLLECTED, and whoever writes       *)
(* anything else has looked at the row in the same statement.              *)

Expectations == expect = [s \in Docked |-> expect[s]]

LEMMA ReturnsStay ==
  ASSUME Expectations, Cod!Next
  PROVE  Expectations' /\ \A s \in Docked :
           expect[s].state = "RTO_UNCOLLECTED" => expect'[s].state = "RTO_UNCOLLECTED"
<1> USE DEF Expectations
<1>1. CASE UNCHANGED expect
  BY <1>1
<1>2. CASE Cod!DueSweep
  BY <1>2 DEF Cod!DueSweep
<1>3. ASSUME NEW s \in Docked, Cod!CreateOnDelivered(s)
      PROVE  Expectations' /\ \A q \in Docked :
               expect[q].state = "RTO_UNCOLLECTED" => expect'[q].state = "RTO_UNCOLLECTED"
  BY <1>3 DEF Cod!CreateOnDelivered, Cod!Absent
<1>4. ASSUME NEW t \in Workers, Cod!RtoFlips(t)
      PROVE  Expectations' /\ \A q \in Docked :
               expect[q].state = "RTO_UNCOLLECTED" => expect'[q].state = "RTO_UNCOLLECTED"
  <2> DEFINE row == [state |-> "RTO_UNCOLLECTED", version |-> expect[ctask[t].of].version + 1]
  <2>1. expect' = expect \/ expect' = [expect EXCEPT ![ctask[t].of] = row]
    BY <1>4 DEF Cod!RtoFlips
  <2> QED BY <2>1
<1>5. ASSUME NEW t \in Workers, Cod!RecomputeWrites(t)
      PROVE  Expectations' /\ \A q \in Docked :
               expect[q].state = "RTO_UNCOLLECTED" => expect'[q].state = "RTO_UNCOLLECTED"
  <2> DEFINE of == ctask[t].of
             row == [state |-> ctask[t].next, version |-> expect[of].version + 1]
  <2>1. expect' = expect \/ (expect[of].state # "RTO_UNCOLLECTED" /\ expect' = [expect EXCEPT ![of] = row])
    BY <1>5 DEF Cod!RecomputeWrites, Cod!MayWrite
  <2> HIDE DEF of, row
  <2> QED BY <2>1
<1>6. ASSUME NEW t \in Workers, NEW s \in Docked, Cod!RtoStarts(t, s) PROVE UNCHANGED expect
  BY <1>6 DEF Cod!RtoStarts
<1>7. ASSUME NEW t \in Workers, NEW b \in Cod!Batches, Cod!Upload(t, b) \/ Cod!ProcessBatch(t, b)
      PROVE  UNCHANGED expect
  BY <1>7 DEF Cod!Upload, Cod!ProcessBatch
<1>8. ASSUME NEW t \in Workers,
             \/ Cod!RtoReads(t) \/ Cod!Enqueue(t) \/ Cod!AllocateRow(t) \/ Cod!RecomputeReads(t)
             \/ Cod!FinishBatch(t) \/ Cod!WorkerDies(t)
      PROVE  UNCHANGED expect
  BY <1>8 DEF Cod!RtoReads, Cod!Enqueue, Cod!AllocateRow, Cod!RecomputeReads, Cod!FinishBatch, Cod!WorkerDies
<1>9. ASSUME NEW s \in Docked, Cod!DueDatePasses(s) PROVE UNCHANGED expect
  BY <1>9 DEF Cod!DueDatePasses
<1>10. ASSUME NEW b \in Cod!Batches, Cod!ForgetJob(b) PROVE UNCHANGED expect
  BY <1>10 DEF Cod!ForgetJob
<1> HIDE DEF Expectations
<1> QED BY <1>1, <1>2, <1>3, <1>4, <1>5, <1>6, <1>7, <1>8, <1>9, <1>10 DEF Cod!Next

\* cod-expectation.service.ts: for any number of files, workers and parcels, an
\* expectation that went RTO stays RTO, whatever a recompute had read before.
THEOREM ReturnsAreFinal == Spec => RtoSticks
<1>1. Init => Expectations
  BY DEF Init, Cod!Init, Expectations
<1>2. Expectations /\ [Next]_moneyVars
        => Expectations' /\ [\A s \in Docked :
             expect[s].state = "RTO_UNCOLLECTED" => expect'[s].state = "RTO_UNCOLLECTED"]_(Cod!codVars)
  <2> SUFFICES ASSUME Expectations, [Next]_moneyVars
               PROVE  Expectations' /\ [\A s \in Docked :
                        expect[s].state = "RTO_UNCOLLECTED" => expect'[s].state = "RTO_UNCOLLECTED"]_(Cod!codVars)
    OBVIOUS
  <2>1. CASE Cod!Next
    BY <2>1, ReturnsStay
  <2>2. CASE UNCHANGED codVars
    BY <2>2 DEF codVars, Cod!codVars, Expectations
  <2> QED BY <2>1, <2>2 DEF Next, moneyVars
<1> QED BY <1>1, <1>2, PTL DEF Spec, RtoSticks, Cod!RtoSticks, moneyVars

----------------------------------------------------------------------------
(* Billing.  A credit is held for a usage record that Shopify is known to   *)
(* have booked, and once: a parcel's debit is reversed once, whoever       *)
(* settles its cancellation, and only that reversal leads to a hold.       *)

UsageRow(x) ==
  x \in [state : {"none", "PENDING", "SUBMITTED", "ACCEPTED", "REJECTED", "REVERSED"},
         row : {x.row}, tried : {x.tried}]
BillingTask(x) == x \in [pc : {x.pc}, charge : {x.charge}, parcel : {x.parcel}, row : {x.row}]

BillingType ==
  /\ usage = [p \in Parcels |-> usage[p]] /\ \A p \in Parcels : UsageRow(usage[p])
  /\ credits = [p \in Parcels |-> credits[p]] /\ \A p \in Parcels : credits[p] \in [held : 0 .. 1, used : Nat]
  /\ billed \in [Parcels -> Nat]
  /\ task = [t \in Workers |-> task[t]] /\ \A t \in Workers : BillingTask(task[t])

Reversed(p) == \E e \in ledger : e[1] = "REVERSAL" /\ e[2] = p
Holding(t, p) == task[t].pc = "hold" /\ task[t].parcel = p
KnownIsBooked == \A p \in Parcels : usage[p].state \in {"SUBMITTED", "ACCEPTED"} => billed[p] > 0
AnswerIsBooked ==
  \A t \in Workers, p \in Parcels : task[t].pc = "submitted" /\ task[t].parcel = p => billed[p] > 0
HoldIsFirst ==
  \A p \in Parcels, t \in Workers : Holding(t, p) =>
    /\ Reversed(p) /\ billed[p] > 0 /\ credits[p].held = 0
    /\ \A u \in Workers : Holding(u, p) => u = t
CreditIsPaid ==
  \A p \in Parcels :
    /\ credits[p].used <= credits[p].held
    /\ credits[p].held > 0 => Reversed(p) /\ billed[p] > 0

CreditInv == BillingType /\ KnownIsBooked /\ AnswerIsBooked /\ HoldIsFirst /\ CreditIsPaid

LEMMA CreditInitially == Subscription!Init => CreditInv
<1> SUFFICES ASSUME Subscription!Init PROVE CreditInv
  OBVIOUS
<1>1. /\ \A p \in Parcels : usage[p] = Subscription!NoUsage /\ credits[p] = [held |-> 0, used |-> 0] /\ billed[p] = 0
      /\ \A t \in Workers : task[t] = Subscription!Idle
  BY DEF Subscription!Init
<1>2. UsageRow(Subscription!NoUsage) /\ BillingTask(Subscription!Idle)
  BY DEF UsageRow, BillingTask, Subscription!NoUsage, Subscription!Idle
<1>3. BillingType
  BY <1>1, <1>2 DEF Subscription!Init, BillingType
<1>4. KnownIsBooked /\ AnswerIsBooked /\ HoldIsFirst /\ CreditIsPaid
  BY <1>1 DEF KnownIsBooked, AnswerIsBooked, HoldIsFirst, CreditIsPaid, Holding,
              Subscription!NoUsage, Subscription!Idle
<1> QED BY <1>3, <1>4 DEF CreditInv

LEMMA CreditInvStands == CreditInv => Subscription!NoFreeCredit
BY DEF CreditInv, BillingType, CreditIsPaid, Subscription!NoFreeCredit

\* What every step leaves: charges booked stay booked, reversals stay written.
LedgerGrows == ledger \subseteq ledger' /\ billed' \in [Parcels -> Nat] /\ \A p \in Parcels : billed[p] <= billed'[p]

\* A step that brings no holder and changes no credit.
LEMMA CreditLingers ==
  ASSUME CreditInv, BillingType', LedgerGrows, UNCHANGED credits,
         KnownIsBooked', AnswerIsBooked',
         \A t \in Workers, p \in Parcels : Holding(t, p)' => Holding(t, p)
  PROVE  CreditInv'
<1>1. \A p \in Parcels : Reversed(p) => Reversed(p)'
  BY DEF Reversed, LedgerGrows
<1>2. \A p \in Parcels : billed[p] > 0 => billed'[p] > 0
  BY DEF LedgerGrows, CreditInv, BillingType
<1>3. HoldIsFirst'
  <2> SUFFICES ASSUME NEW p \in Parcels, NEW t \in Workers, Holding(t, p)'
               PROVE  /\ Reversed(p)' /\ billed'[p] > 0 /\ credits'[p].held = 0
                      /\ \A u \in Workers : Holding(u, p)' => u = t
    BY Zenon DEF HoldIsFirst
  <2> QED BY <1>1, <1>2 DEF CreditInv, HoldIsFirst
<1>4. CreditIsPaid'
  <2> SUFFICES ASSUME NEW p \in Parcels
               PROVE  /\ credits'[p].used <= credits'[p].held
                      /\ credits'[p].held > 0 => Reversed(p)' /\ billed'[p] > 0
    BY Zenon DEF CreditIsPaid
  <2> QED BY <1>1, <1>2 DEF CreditInv, CreditIsPaid
<1> QED BY <1>3, <1>4 DEF CreditInv

\* The task goes on, or ends.
LEMMA BillingTaskMoves ==
  ASSUME BillingType, NEW t \in Workers, NEW row, BillingTask(row), task' = [task EXCEPT ![t] = row]
  PROVE  /\ task' = [u \in Workers |-> task'[u]] /\ (\A u \in Workers : BillingTask(task'[u]))
         /\ task'[t] = row /\ \A u \in Workers : u # t => task'[u] = task[u]
BY DEF BillingType

LEMMA BillingGoes ==
  ASSUME BillingType, NEW t \in Workers, NEW pc, Subscription!Go(t, pc)
  PROVE  /\ task' = [u \in Workers |-> task'[u]] /\ (\A u \in Workers : BillingTask(task'[u]))
         /\ task'[t].pc = pc /\ task'[t].parcel = task[t].parcel
         /\ \A u \in Workers : u # t => task'[u] = task[u]
<1> DEFINE row == [task[t] EXCEPT !.pc = pc]
<1>1. BillingTask(row) /\ row.pc = pc /\ row.parcel = task[t].parcel
  BY DEF BillingType, BillingTask
<1> HIDE DEF row
<1>2. task' = [task EXCEPT ![t] = row]
  BY DEF Subscription!Go, row, BillingType
<1> QED BY <1>1, <1>2, BillingTaskMoves

LEMMA BillingEnds ==
  ASSUME BillingType, NEW t \in Workers, Subscription!End(t)
  PROVE  /\ task' = [u \in Workers |-> task'[u]] /\ (\A u \in Workers : BillingTask(task'[u]))
         /\ task'[t].pc = "idle" /\ \A u \in Workers : u # t => task'[u] = task[u]
<1>1. BillingTask(Subscription!Idle) /\ Subscription!Idle.pc = "idle"
  BY DEF BillingTask, Subscription!Idle
<1>2. task' = [task EXCEPT ![t] = Subscription!Idle]
  BY DEF Subscription!End
<1> QED BY <1>1, <1>2, BillingTaskMoves

\* A step of one task on none of the records, to anywhere but a hold or an answer.
LEMMA TaskStepStands ==
  ASSUME CreditInv, NEW t \in Workers, UNCHANGED <<usage, credits, billed>>, ledger \subseteq ledger',
         task' = [u \in Workers |-> task'[u]], \A u \in Workers : BillingTask(task'[u]),
         task'[t].pc \notin {"hold", "submitted"}, \A u \in Workers : u # t => task'[u] = task[u]
  PROVE  CreditInv'
<1>1. BillingType'
  BY DEF CreditInv, BillingType, UsageRow
<1>2. LedgerGrows
  BY DEF CreditInv, BillingType, LedgerGrows
<1>3. KnownIsBooked' /\ AnswerIsBooked'
  BY DEF CreditInv, KnownIsBooked, AnswerIsBooked
<1>4. \A u \in Workers, p \in Parcels : Holding(u, p)' => Holding(u, p)
  BY DEF Holding
<1> QED BY <1>1, <1>2, <1>3, <1>4, CreditLingers

\* A step on none of the rows the invariant reads.
LEMMA CreditStays ==
  ASSUME CreditInv, UNCHANGED <<usage, credits, billed, ledger, task>>
  PROVE  CreditInv'
BY DEF CreditInv, BillingType, UsageRow, BillingTask, KnownIsBooked, AnswerIsBooked, HoldIsFirst,
       CreditIsPaid, Reversed, Holding


\* The steps of the plan and of the sweep: rows and charges, none of the records.
LEMMA PlanStands ==
  ASSUME CreditInv, NEW t \in Workers,
         \/ Subscription!Confirm(t) \/ Subscription!Activate(t) \/ Subscription!ExternalStatus(t)
         \/ Subscription!Cancel(t) \/ Subscription!RestrictRows(t) \/ Subscription!ExpireTrials(t)
         \/ Subscription!ToReadOnly(t) \/ Subscription!ReadOnlyRows(t)
  PROVE  CreditInv'
<1>1. BillingType
  BY DEF CreditInv
<1>2. UNCHANGED <<usage, credits, billed, ledger>>
  BY DEF Subscription!Confirm, Subscription!Activate, Subscription!ExternalStatus, Subscription!Cancel,
         Subscription!RestrictRows, Subscription!ExpireTrials, Subscription!ToReadOnly, Subscription!ReadOnlyRows
<1>3. CASE \E n : task' = [task EXCEPT ![t] = [Subscription!Idle EXCEPT !.pc = "activate", !.charge = n]]
  <2>1. PICK n : task' = [task EXCEPT ![t] = [Subscription!Idle EXCEPT !.pc = "activate", !.charge = n]]
    BY <1>3
  <2> DEFINE row == [Subscription!Idle EXCEPT !.pc = "activate", !.charge = n]
  <2>2. BillingTask(row) /\ row.pc = "activate"
    BY DEF BillingTask, Subscription!Idle
  <2>3. task' = [task EXCEPT ![t] = row]
    BY <2>1
  <2> HIDE DEF row
  <2> QED BY <1>1, <1>2, <2>2, <2>3, BillingTaskMoves, TaskStepStands
<1>4. CASE Subscription!End(t)
  BY <1>1, <1>2, <1>4, BillingEnds, TaskStepStands
<1>5. CASE Subscription!Go(t, "restrict")
  BY <1>1, <1>2, <1>5, BillingGoes, TaskStepStands
<1>6. CASE Subscription!Go(t, "readonly")
  BY <1>1, <1>2, <1>6, BillingGoes, TaskStepStands
<1>7. CASE UNCHANGED task
  BY <1>2, <1>7, CreditStays
<1>8. CASE Subscription!Confirm(t)
  BY <1>3, <1>8 DEF Subscription!Confirm
<1>9. CASE Subscription!Activate(t) \/ Subscription!RestrictRows(t) \/ Subscription!ReadOnlyRows(t)
  BY <1>4, <1>9 DEF Subscription!Activate, Subscription!RestrictRows, Subscription!ReadOnlyRows
<1>10. CASE Subscription!ExternalStatus(t) \/ Subscription!Cancel(t) \/ Subscription!ExpireTrials(t)
  <2>1. Subscription!ApplyRestriction(t)
    BY <1>10 DEF Subscription!ExternalStatus, Subscription!Cancel, Subscription!ExpireTrials
  <2> QED BY <1>5, <1>7, <2>1 DEF Subscription!ApplyRestriction
<1>11. CASE Subscription!ToReadOnly(t)
  BY <1>6, <1>11 DEF Subscription!ToReadOnly
<1> QED BY <1>8, <1>9, <1>10, <1>11

LEMMA DebitStands ==
  ASSUME CreditInv, NEW t \in Workers, NEW p \in Parcels, Subscription!Debit(t, p)
  PROVE  CreditInv'
<1> DEFINE paying == Subscription!Paying
           credit == [Subscription!Idle EXCEPT !.pc = "credit", !.parcel = p, !.row = paying]
<1>1. BillingType /\ UNCHANGED <<usage, credits, billed>> /\ ledger \subseteq ledger'
  BY DEF CreditInv, Subscription!Debit
<1>2. task' = [task EXCEPT ![t] = credit] \/ task' = [task EXCEPT ![t] = Subscription!Idle]
  BY DEF Subscription!Debit
<1> HIDE DEF paying
<1>3. BillingTask(credit) /\ credit.pc = "credit" /\ BillingTask(Subscription!Idle) /\ Subscription!Idle.pc = "idle"
  BY DEF BillingTask, Subscription!Idle
<1> HIDE DEF credit
<1> QED BY <1>1, <1>2, <1>3, BillingTaskMoves, TaskStepStands

LEMMA UseCreditStands ==
  ASSUME CreditInv, NEW t \in Workers, Subscription!UseCredit(t)
  PROVE  CreditInv'
<1>1. BillingType /\ UNCHANGED <<usage, billed, ledger>>
  BY DEF CreditInv, Subscription!UseCredit
<1>2. CASE Subscription!Go(t, "cap") /\ UNCHANGED credits
  BY <1>1, <1>2, BillingGoes, TaskStepStands
<1>3. CASE /\ Subscription!End(t)
           /\ \E p \in Parcels : /\ credits[p].held > credits[p].used
                                 /\ credits' = [credits EXCEPT ![p].used = @ + 1]
  <2>1. PICK p \in Parcels : credits[p].held > credits[p].used /\ credits' = [credits EXCEPT ![p].used = @ + 1]
    BY <1>3
  <2> DEFINE row == [credits[p] EXCEPT !.used = credits[p].used + 1]
  <2>2. row \in [held : 0 .. 1, used : Nat] /\ row.held = credits[p].held /\ row.used <= row.held
    BY <1>1, <2>1 DEF BillingType
  <2>3. credits' = [credits EXCEPT ![p] = row]
    BY <1>1, <2>1 DEF BillingType
  <2> HIDE DEF row
  <2>4. /\ credits' = [q \in Parcels |-> credits'[q]] /\ \A q \in Parcels : credits'[q] \in [held : 0 .. 1, used : Nat]
        /\ \A q \in Parcels : credits'[q].held = credits[q].held
        /\ \A q \in Parcels : credits'[q].used <= credits'[q].held
    BY <1>1, <2>2, <2>3 DEF BillingType, CreditInv, CreditIsPaid
  <2>5. /\ task' = [u \in Workers |-> task'[u]] /\ (\A u \in Workers : BillingTask(task'[u]))
        /\ task'[t].pc = "idle" /\ \A u \in Workers : u # t => task'[u] = task[u]
    BY <1>1, <1>3, BillingEnds
  <2>6. BillingType'
    BY <1>1, <2>4, <2>5 DEF BillingType, UsageRow
  <2>7. KnownIsBooked' /\ AnswerIsBooked'
    BY <1>1, <2>5 DEF CreditInv, KnownIsBooked, AnswerIsBooked
  <2>8. HoldIsFirst'
    BY <1>1, <2>4, <2>5 DEF CreditInv, HoldIsFirst, Holding, Reversed
  <2>9. CreditIsPaid'
    BY <1>1, <2>4 DEF CreditInv, CreditIsPaid, Reversed
  <2> QED BY <2>6, <2>7, <2>8, <2>9 DEF CreditInv
<1> QED BY <1>2, <1>3 DEF Subscription!UseCredit

\* A record rewritten, to a state that says it is booked only where it is.
LEMMA UsageRewritten ==
  ASSUME CreditInv, NEW p, NEW row, UsageRow(row), usage' = [usage EXCEPT ![p] = row],
         UNCHANGED <<credits, billed, ledger>>,
         p \in Parcels /\ row.state \in {"SUBMITTED", "ACCEPTED"} => billed[p] > 0,
         task' = [u \in Workers |-> task'[u]], \A u \in Workers : BillingTask(task'[u]),
         \A u \in Workers : task'[u].pc \in {"hold", "submitted"} => task'[u] = task[u]
  PROVE  CreditInv'
<1>1. /\ usage' = [q \in Parcels |-> usage'[q]]
      /\ \A q \in Parcels : usage'[q] = IF q = p THEN row ELSE usage[q]
  BY DEF CreditInv, BillingType
<1>2. BillingType'
  BY <1>1 DEF CreditInv, BillingType, UsageRow
<1>3. KnownIsBooked'
  BY <1>1 DEF CreditInv, KnownIsBooked
<1>4. AnswerIsBooked' /\ \A u \in Workers, q \in Parcels : Holding(u, q)' => Holding(u, q)
  BY DEF CreditInv, AnswerIsBooked, Holding
<1>5. LedgerGrows
  BY DEF CreditInv, BillingType, LedgerGrows
<1> QED BY <1>2, <1>3, <1>4, <1>5, CreditLingers

LEMMA ReconcileStands ==
  ASSUME CreditInv, NEW p \in Parcels, Subscription!ReconcileUsage(p)
  PROVE  CreditInv'
<1> DEFINE row == [usage[p] EXCEPT !.state = "ACCEPTED"]
<1>1. UsageRow(row) /\ billed[p] > 0 /\ UNCHANGED <<credits, billed, ledger, task>>
  BY DEF CreditInv, BillingType, UsageRow, Subscription!ReconcileUsage
<1>2. usage' = [usage EXCEPT ![p] = row]
  BY DEF CreditInv, BillingType, Subscription!ReconcileUsage
<1>3. task' = [u \in Workers |-> task'[u]] /\ \A u \in Workers : BillingTask(task'[u])
  BY <1>1 DEF CreditInv, BillingType, BillingTask
<1> HIDE DEF row
<1> QED BY <1>1, <1>2, <1>3, UsageRewritten

LEMMA InsertUsageStands ==
  ASSUME CreditInv, NEW t \in Workers, Subscription!InsertUsage(t)
  PROVE  CreditInv'
<1> DEFINE row == [state |-> "PENDING", row |-> task[t].row, tried |-> FALSE]
<1>1. BillingType /\ UNCHANGED <<credits, billed, ledger>>
  BY DEF CreditInv, Subscription!InsertUsage
<1>2. /\ Subscription!End(t) \/ Subscription!Go(t, "submit")
      /\ UNCHANGED usage \/ usage' = [usage EXCEPT ![task[t].parcel] = row]
  BY DEF Subscription!InsertUsage
<1>3. UsageRow(row) /\ row.state = "PENDING"
  BY DEF UsageRow
<1> HIDE DEF row
<1>4. /\ task' = [u \in Workers |-> task'[u]] /\ (\A u \in Workers : BillingTask(task'[u]))
      /\ task'[t].pc \in {"idle", "submit"} /\ \A u \in Workers : u # t => task'[u] = task[u]
  BY <1>1, <1>2, BillingEnds, BillingGoes
<1>5. CASE UNCHANGED usage
  BY <1>1, <1>4, <1>5, TaskStepStands
<1>6. CASE usage' = [usage EXCEPT ![task[t].parcel] = row]
  BY <1>1, <1>3, <1>4, <1>6, UsageRewritten
<1> QED BY <1>2, <1>5, <1>6

LEMMA SubmitStands ==
  ASSUME CreditInv, NEW t \in Workers, Subscription!Submit(t)
  PROVE  CreditInv'
<1>1. BillingType /\ UNCHANGED <<usage, credits, ledger>>
  BY DEF CreditInv, Subscription!Submit
<1>2. CASE Subscription!Go(t, "refused") /\ UNCHANGED billed
  BY <1>1, <1>2, BillingGoes, TaskStepStands
<1>3. CASE \E pc \in {"submitted", "ambiguous"}, b \in {0, 1} :
             /\ Subscription!Go(t, pc) /\ (pc = "submitted" => b = 1)
             /\ billed' = [billed EXCEPT ![task[t].parcel] = @ + b]
  <2>1. PICK pc \in {"submitted", "ambiguous"} : \E b \in {0, 1} :
             /\ Subscription!Go(t, pc) /\ (pc = "submitted" => b = 1)
             /\ billed' = [billed EXCEPT ![task[t].parcel] = @ + b]
    BY <1>3
  <2>2. PICK b \in {0, 1} :
             /\ Subscription!Go(t, pc) /\ (pc = "submitted" => b = 1)
             /\ billed' = [billed EXCEPT ![task[t].parcel] = @ + b]
    BY <2>1
  <2>3. /\ task' = [u \in Workers |-> task'[u]] /\ (\A u \in Workers : BillingTask(task'[u]))
        /\ task'[t].pc = pc /\ task'[t].parcel = task[t].parcel
        /\ \A u \in Workers : u # t => task'[u] = task[u]
    BY <1>1, <2>2, BillingGoes
  <2>4. /\ billed' \in [Parcels -> Nat]
        /\ \A p \in Parcels : billed'[p] = IF p = task[t].parcel THEN billed[p] + b ELSE billed[p]
    <3> DEFINE of == task[t].parcel
    <3>1. billed \in [Parcels -> Nat] /\ b \in Nat /\ billed' = [billed EXCEPT ![of] = @ + b]
      BY <1>1, <2>2 DEF BillingType
    <3> HIDE DEF of
    <3>2. \A p \in Parcels : billed'[p] = IF p = of THEN billed[p] + b ELSE billed[p]
      BY <3>1
    <3>3. \A p \in Parcels : billed'[p] \in Nat
      BY <3>1, <3>2
    <3>4. billed' = [p \in Parcels |-> billed'[p]]
      BY <3>1
    <3> QED BY <3>2, <3>3, <3>4 DEF of
  <2>5. LedgerGrows
    BY <1>1, <2>4 DEF LedgerGrows, BillingType
  <2>6. BillingType'
    BY <1>1, <2>3, <2>4 DEF BillingType, UsageRow
  <2>7. KnownIsBooked'
    BY <1>1, <2>4 DEF CreditInv, KnownIsBooked, BillingType
  <2>8. AnswerIsBooked'
    <3> SUFFICES ASSUME NEW u \in Workers, NEW p \in Parcels, task'[u].pc = "submitted", task'[u].parcel = p
                 PROVE  billed'[p] > 0
      BY DEF AnswerIsBooked
    <3>1. CASE u = t
      BY <1>1, <2>2, <2>3, <2>4, <3>1 DEF BillingType
    <3>2. CASE u # t
      BY <1>1, <2>3, <2>4, <3>2 DEF CreditInv, AnswerIsBooked, BillingType
    <3> QED BY <3>1, <3>2
  <2>9. \A u \in Workers, p \in Parcels : Holding(u, p)' => Holding(u, p)
    BY <2>3 DEF Holding
  <2> QED BY <1>1, <2>5, <2>6, <2>7, <2>8, <2>9, CreditLingers
<1> QED BY <1>2, <1>3 DEF Subscription!Submit


LEMMA SettleStands ==
  ASSUME CreditInv, NEW t \in Workers, Subscription!Settle(t)
  PROVE  CreditInv'
<1> DEFINE p == task[t].parcel
           row == Subscription!Settled(usage[p], task[t].pc)
<1>1. BillingType /\ UNCHANGED <<credits, billed, ledger>> /\ Subscription!End(t)
  BY DEF CreditInv, Subscription!Settle
<1>2. usage' = [usage EXCEPT ![p] = row]
  BY DEF Subscription!Settle
<1>3. /\ task' = [u \in Workers |-> task'[u]] /\ (\A u \in Workers : BillingTask(task'[u]))
      /\ task'[t].pc = "idle" /\ \A u \in Workers : u # t => task'[u] = task[u]
  BY <1>1, BillingEnds
<1>4. CASE p \in Parcels
  <2>1. UsageRow(usage[p]) /\ task[t].pc \in {"submitted", "refused", "ambiguous"}
    BY <1>1, <1>4 DEF BillingType, Subscription!Settle
  <2>2. UsageRow(row) /\ (row.state \in {"SUBMITTED", "ACCEPTED"} => billed[p] > 0)
    <3>1. CASE task[t].pc = "submitted"
      BY <1>4, <2>1, <3>1 DEF UsageRow, Subscription!Settled, CreditInv, AnswerIsBooked
    <3>2. CASE task[t].pc = "refused"
      BY <1>4, <2>1, <3>2 DEF UsageRow, Subscription!Settled
    <3>3. CASE task[t].pc = "ambiguous"
      BY <1>4, <2>1, <3>3 DEF UsageRow, Subscription!Settled, CreditInv, KnownIsBooked
    <3> QED BY <2>1, <3>1, <3>2, <3>3
  <2> HIDE DEF row
  <2> QED BY <1>1, <1>2, <1>3, <2>2, UsageRewritten
<1>5. CASE p \notin Parcels
  <2>1. UNCHANGED usage
    <3> HIDE DEF row
    <3> QED BY <1>1, <1>2, <1>5 DEF BillingType
  <2> QED BY <1>1, <1>3, <2>1, TaskStepStands
<1> QED BY <1>4, <1>5

LEMMA DropStands ==
  ASSUME CreditInv, NEW t \in Workers, Subscription!Drop(t)
  PROVE  CreditInv'
<1> DEFINE p == task[t].parcel
           row == [usage[p] EXCEPT !.state = "REVERSED"]
<1>1. BillingType /\ UNCHANGED <<credits, billed, ledger>> /\ Subscription!End(t)
  BY DEF CreditInv, Subscription!Drop
<1>2. /\ task' = [u \in Workers |-> task'[u]] /\ (\A u \in Workers : BillingTask(task'[u]))
      /\ task'[t].pc = "idle" /\ \A u \in Workers : u # t => task'[u] = task[u]
  BY <1>1, BillingEnds
<1>3. usage' = [usage EXCEPT ![p] = row]
  BY <1>1 DEF Subscription!Drop, BillingType
<1>4. CASE p \in Parcels
  <2>1. UsageRow(row) /\ row.state = "REVERSED"
    BY <1>1, <1>4 DEF BillingType, UsageRow
  <2> HIDE DEF row
  <2> QED BY <1>1, <1>2, <1>3, <2>1, UsageRewritten
<1>5. CASE p \notin Parcels
  <2>1. UNCHANGED usage
    <3> HIDE DEF row
    <3> QED BY <1>1, <1>3, <1>5 DEF BillingType
  <2> QED BY <1>1, <1>2, <2>1, TaskStepStands
<1> QED BY <1>4, <1>5

LEMMA ReverseDebitStands ==
  ASSUME CreditInv, NEW t \in Workers, NEW p \in Parcels, Subscription!ReverseDebit(t, p)
  PROVE  CreditInv'
<1> DEFINE paying == Subscription!Paying
           pc == Subscription!Remedy(usage[p])
           row == [Subscription!Idle EXCEPT !.pc = pc, !.parcel = p]
<1>1. /\ BillingType /\ UNCHANGED <<usage, credits, billed>> /\ ~Reversed(p)
      /\ ledger' = ledger \cup {<<"REVERSAL", p, paying>>}
  BY DEF CreditInv, Subscription!ReverseDebit, Reversed
<1> HIDE DEF paying
<1>2. task' = [task EXCEPT ![t] = row] \/ task' = [task EXCEPT ![t] = Subscription!Idle]
  BY DEF Subscription!ReverseDebit
<1>3. pc \in {"drop", "idle"} \/ (pc = "hold" /\ billed[p] > 0)
  BY DEF Subscription!Remedy, CreditInv, KnownIsBooked
<1> HIDE DEF pc
<1>4. /\ BillingTask(row) /\ row.pc = pc /\ row.parcel = p
      /\ BillingTask(Subscription!Idle) /\ Subscription!Idle.pc = "idle"
  BY DEF BillingTask, Subscription!Idle
<1> HIDE DEF row
<1>5. /\ task' = [u \in Workers |-> task'[u]] /\ (\A u \in Workers : BillingTask(task'[u]))
      /\ \A u \in Workers : u # t => task'[u] = task[u]
      /\ task'[t].pc = "idle" \/ (task'[t].pc = pc /\ task'[t].parcel = p)
  BY <1>1, <1>2, <1>4, BillingTaskMoves
<1>6. CASE task'[t].pc # "hold"
  <2>1. task'[t].pc # "submitted"
    BY <1>3, <1>5
  <2>2. ledger \subseteq ledger'
    BY <1>1
  <2> QED BY <1>1, <1>5, <1>6, <2>1, <2>2, TaskStepStands
<1>7. CASE task'[t].pc = "hold"
  <2>1. task'[t].parcel = p /\ billed[p] > 0
    BY <1>3, <1>5, <1>7
  <2>2. Reversed(p)' /\ \A q \in Parcels : Reversed(q) => Reversed(q)'
    <3> DEFINE entry == <<"REVERSAL", p, paying>>
    <3>1. entry[1] = "REVERSAL" /\ entry[2] = p
      OBVIOUS
    <3> HIDE DEF entry
    <3>2. ledger' = ledger \cup {entry}
      BY <1>1 DEF entry
    <3> QED BY <3>1, <3>2 DEF Reversed
  <2>3. credits[p].held = 0
    BY <1>1 DEF CreditInv, CreditIsPaid, BillingType
  <2>4. \A u \in Workers : ~Holding(u, p)
    BY <1>1 DEF CreditInv, HoldIsFirst
  <2>5. BillingType'
    BY <1>1, <1>5 DEF BillingType, UsageRow
  <2>6. KnownIsBooked' /\ AnswerIsBooked'
    BY <1>1, <1>5, <1>7 DEF CreditInv, KnownIsBooked, AnswerIsBooked
  <2>7. HoldIsFirst'
    <3> SUFFICES ASSUME NEW q \in Parcels, NEW u \in Workers, Holding(u, q)'
                 PROVE  /\ Reversed(q)' /\ billed'[q] > 0 /\ credits'[q].held = 0
                        /\ \A w \in Workers : Holding(w, q)' => w = u
      BY Zenon DEF HoldIsFirst
    <3>1. CASE u = t
      <4>1. q = p
        BY <2>1, <3>1 DEF Holding
      <4>2. \A w \in Workers : Holding(w, q)' => w = u
        BY <1>5, <2>4, <3>1, <4>1 DEF Holding
      <4> QED BY <1>1, <2>1, <2>2, <2>3, <4>1, <4>2
    <3>2. CASE u # t
      <4>1. Holding(u, q) /\ q # p
        BY <1>5, <2>4, <3>2 DEF Holding
      <4>2. \A w \in Workers : Holding(w, q)' => w = u
        BY <1>5, <2>1, <4>1 DEF Holding, CreditInv, HoldIsFirst
      <4> QED BY <1>1, <2>2, <4>1, <4>2 DEF CreditInv, HoldIsFirst
    <3> QED BY <3>1, <3>2
  <2>8. CreditIsPaid'
    BY <1>1, <2>2 DEF CreditInv, CreditIsPaid
  <2> QED BY <2>5, <2>6, <2>7, <2>8 DEF CreditInv
<1> QED BY <1>6, <1>7

LEMMA HoldCreditStands ==
  ASSUME CreditInv, NEW t \in Workers, Subscription!HoldCredit(t)
  PROVE  CreditInv'
<1> DEFINE p == task[t].parcel
           row == [credits[p] EXCEPT !.held = credits[p].held + 1]
<1>1. /\ BillingType /\ UNCHANGED <<usage, billed, ledger>> /\ Subscription!End(t) /\ task[t].pc = "hold"
      /\ credits' = [credits EXCEPT ![p].held = @ + 1]
  BY DEF CreditInv, Subscription!HoldCredit
<1>2. /\ task' = [u \in Workers |-> task'[u]] /\ (\A u \in Workers : BillingTask(task'[u]))
      /\ task'[t].pc = "idle" /\ \A u \in Workers : u # t => task'[u] = task[u]
  BY <1>1, BillingEnds
<1>3. credits' = [credits EXCEPT ![p] = row]
  BY <1>1 DEF BillingType
<1>4. CASE p \in Parcels
  <2>1. /\ Reversed(p) /\ billed[p] > 0 /\ credits[p].held = 0
        /\ \A u \in Workers : Holding(u, p) => u = t
    BY <1>1, <1>4 DEF CreditInv, HoldIsFirst, Holding
  <2>2. row \in [held : 0 .. 1, used : Nat] /\ row.held = 1 /\ row.used = credits[p].used
    BY <1>1, <1>4, <2>1 DEF BillingType
  <2> HIDE DEF row
  <2>3. /\ credits' = [q \in Parcels |-> credits'[q]]
        /\ \A q \in Parcels : credits'[q] = IF q = p THEN row ELSE credits[q]
    BY <1>1, <1>3 DEF BillingType
  <2>4. BillingType'
    BY <1>1, <1>2, <2>2, <2>3 DEF BillingType, UsageRow
  <2>5. KnownIsBooked' /\ AnswerIsBooked'
    BY <1>1, <1>2 DEF CreditInv, KnownIsBooked, AnswerIsBooked
  <2>6. \A q \in Parcels : Reversed(q) = Reversed(q)'
    BY <1>1 DEF Reversed
  <2>7. HoldIsFirst'
    <3> SUFFICES ASSUME NEW q \in Parcels, NEW u \in Workers, Holding(u, q)'
                 PROVE  /\ Reversed(q)' /\ billed'[q] > 0 /\ credits'[q].held = 0
                        /\ \A w \in Workers : Holding(w, q)' => w = u
      BY Zenon DEF HoldIsFirst
    <3>1. u # t /\ Holding(u, q) /\ q # p
      BY <1>2, <2>1 DEF Holding
    <3>2. \A w \in Workers : Holding(w, q)' => w = u
      BY <1>2, <3>1 DEF Holding, CreditInv, HoldIsFirst
    <3> QED BY <1>1, <2>3, <2>6, <3>1, <3>2 DEF CreditInv, HoldIsFirst
  <2>8. CreditIsPaid'
    BY <1>1, <2>1, <2>2, <2>3, <2>6 DEF CreditInv, CreditIsPaid
  <2> QED BY <2>4, <2>5, <2>7, <2>8 DEF CreditInv
<1>5. CASE p \notin Parcels
  <2>1. UNCHANGED credits
    <3> HIDE DEF row
    <3> QED BY <1>1, <1>3, <1>5 DEF BillingType
  <2> QED BY <1>1, <1>2, <2>1, TaskStepStands
<1> QED BY <1>4, <1>5

LEMMA CreditStep ==
  ASSUME CreditInv, Subscription!Next
  PROVE  CreditInv'
<1>1. CASE Subscription!RequestPlanChange \/ Subscription!Uninstall \/ Subscription!CycleEnds
           \/ Subscription!ApplyDowngrade
  BY <1>1, CreditStays DEF Subscription!RequestPlanChange, Subscription!Uninstall, Subscription!CycleEnds,
                           Subscription!ApplyDowngrade
<1>2. ASSUME NEW n \in 1 .. MaxCharges, Subscription!Decide(n) PROVE CreditInv'
  BY <1>2, CreditStays DEF Subscription!Decide
<1>3. ASSUME NEW p \in Parcels, Subscription!ReconcileUsage(p) PROVE CreditInv'
  BY <1>3, ReconcileStands
<1>4. ASSUME NEW t \in Workers,
             \/ Subscription!Confirm(t) \/ Subscription!Activate(t) \/ Subscription!ExternalStatus(t)
             \/ Subscription!Cancel(t) \/ Subscription!RestrictRows(t) \/ Subscription!ExpireTrials(t)
             \/ Subscription!ToReadOnly(t) \/ Subscription!ReadOnlyRows(t)
      PROVE  CreditInv'
  BY <1>4, PlanStands
<1>5. ASSUME NEW t \in Workers,
             \/ Subscription!UseCredit(t) \/ Subscription!InsertUsage(t) \/ Subscription!Submit(t)
             \/ Subscription!Settle(t) \/ Subscription!Drop(t) \/ Subscription!HoldCredit(t)
      PROVE  CreditInv'
  BY <1>5, UseCreditStands, InsertUsageStands, SubmitStands, SettleStands, DropStands, HoldCreditStands
<1>6. ASSUME NEW t \in Workers, NEW p \in Parcels, Subscription!Debit(t, p) PROVE CreditInv'
  BY <1>6, DebitStands
<1>7. ASSUME NEW t \in Workers, NEW p \in Parcels, Subscription!ReverseDebit(t, p) PROVE CreditInv'
  BY <1>7, ReverseDebitStands
<1> QED BY <1>1, <1>2, <1>3, <1>4, <1>5, <1>6, <1>7 DEF Subscription!Next

\* overage.service.ts: for any number of parcels, tasks, charges and lost
\* answers, no credit is consumed that was not held, and none is held for a
\* parcel Shopify has not booked a usage charge of.
THEOREM CreditsArePaid == Spec => []NoFreeCredit
<1>1. Init => CreditInv
  BY CreditInitially DEF Init
<1>2. CreditInv /\ [Next]_moneyVars => CreditInv'
  <2> SUFFICES ASSUME CreditInv, [Next]_moneyVars PROVE CreditInv'
    OBVIOUS
  <2>1. CASE Subscription!Next
    BY <2>1, CreditStep
  <2>2. CASE UNCHANGED billingVars
    BY <2>2, CreditStays DEF billingVars
  <2> QED BY <2>1, <2>2 DEF Next, moneyVars
<1>3. CreditInv => NoFreeCredit
  BY CreditInvStands DEF NoFreeCredit
<1> QED BY <1>1, <1>2, <1>3, PTL DEF Spec, moneyVars

----------------------------------------------------------------------------
(* FreightRecon.  A batch settles when its last row does, under a version  *)
(* that every writer of the batch moves.  A worker that still holds the    *)
(* version finds the batch unmatched, a member who still holds a row's     *)
(* version finds the state its step starts in, and whoever settles the     *)
(* last thing goes on to resolve the batch.                                *)

Unmatched == {"none", "UPLOADED", "PARSED", "FAILED"}
RowStates == {"OPEN", "ACCEPTED", "DISPUTE_PREPARED", "SUBMITTED", "RESOLVED", "IGNORED"}
InvoiceRow == [state : RowStates, version : Nat]
InvoiceBatch(x) ==
  x \in [state : Unmatched \cup {"MATCHED", "RESOLVED"}, version : Nat, control : {x.control}, uploads : {x.uploads}]
FreightTask(x) ==
  x \in [pc : {x.pc}, id : {x.id}, line : {x.line}, version : {x.version}, to : {x.to}]

FreightType ==
  /\ batch = [b \in Freight!Ids |-> batch[b]] /\ \A b \in Freight!Ids : InvoiceBatch(batch[b])
  /\ rows \in [Freight!Ids -> Seq(InvoiceRow)]
  /\ ftask = [t \in Workers |-> ftask[t]] /\ \A t \in Workers : FreightTask(ftask[t])

WorksInTime(t) ==
  ftask[t].pc \in {"taken", "match"} =>
    /\ ftask[t].id \in Freight!Ids /\ ftask[t].version \in Nat /\ ftask[t].version <= batch[ftask[t].id].version
    /\ Freight!Same(t) => batch[ftask[t].id].state \in Unmatched
TheRow(t) == rows[ftask[t].id][ftask[t].line]
ActsInTime(t) ==
  ftask[t].pc = "act" =>
    /\ ftask[t].id \in Freight!Ids /\ ftask[t].line \in DOMAIN rows[ftask[t].id]
    /\ ftask[t].version \in Nat /\ ftask[t].version <= TheRow(t).version
    /\ ftask[t].version = TheRow(t).version => <<TheRow(t).state, ftask[t].to>> \in Freight!Transitions
TaskIsTrue(t) ==
  WorksInTime(t) /\ ActsInTime(t) /\ (ftask[t].pc \in {"residual", "resolve"} => ftask[t].id \in Freight!Ids)

BatchIsTrue(b) ==
  /\ batch[b].state \in Unmatched => rows[b] = <<>>
  /\ Len(rows[b]) \in {0, Len(Invoices[b].lines)}
  /\ batch[b].state = "RESOLVED" => Freight!AllSettled(b) /\ batch[b].control # "MISMATCH"

Resolving(t, b) == ftask[t].pc = "resolve" /\ ftask[t].id = b
Attended == \A b \in Freight!Ids :
  Freight!Resolvable(b) /\ Len(rows[b]) > 0 => b \in left \/ \E t \in Workers : Resolving(t, b)

FreightInv ==
  /\ FreightType /\ \A t \in Workers : TaskIsTrue(t)
  /\ \A b \in Freight!Ids : BatchIsTrue(b)
  /\ Attended


LEMMA FreightInitially == Freight!Init => FreightInv
<1> SUFFICES ASSUME Freight!Init PROVE FreightInv
  OBVIOUS
<1>1. /\ \A b \in Freight!Ids : batch[b] = Freight!NoBatch /\ rows[b] = <<>>
      /\ \A t \in Workers : ftask[t] = Freight!Off
  BY DEF Freight!Init
<1>2. InvoiceBatch(Freight!NoBatch) /\ FreightTask(Freight!Off) /\ <<>> \in Seq(InvoiceRow)
  BY DEF InvoiceBatch, FreightTask, Freight!NoBatch, Freight!Off, Unmatched
<1>3. FreightType
  BY <1>1, <1>2 DEF Freight!Init, FreightType
<1>4. \A t \in Workers : TaskIsTrue(t)
  BY <1>1 DEF TaskIsTrue, WorksInTime, ActsInTime, Freight!Off
<1>5. \A b \in Freight!Ids : BatchIsTrue(b)
  BY <1>1 DEF BatchIsTrue, Freight!NoBatch
<1>6. Attended
  BY <1>1 DEF Attended, Freight!Resolvable, Freight!NoBatch
<1> QED BY <1>3, <1>4, <1>5, <1>6 DEF FreightInv

LEMMA FreightInvStands == FreightInv => Freight!ResolvedIsSettled
BY DEF FreightInv, BatchIsTrue, Attended, Resolving, Freight!ResolvedIsSettled

\* Versions grow: what a step of anybody leaves of the batches and the rows.
BatchesMove == \A b \in Freight!Ids : batch'[b] = batch[b] \/ batch'[b].version > batch[b].version
RowsMove ==
  \A b \in Freight!Ids : \A i \in DOMAIN rows[b] :
    i \in DOMAIN rows'[b] /\ (rows'[b][i] = rows[b][i] \/ rows'[b][i].version > rows[b][i].version)

\* So what a task at rest knows stays true.
LEMMA TaskStaysTrue ==
  ASSUME FreightType, FreightType', BatchesMove, RowsMove, NEW u \in Workers, TaskIsTrue(u), ftask'[u] = ftask[u]
  PROVE  TaskIsTrue(u)'
<1>1. WorksInTime(u)'
  <2> SUFFICES ASSUME ftask[u].pc \in {"taken", "match"}
               PROVE  /\ ftask[u].id \in Freight!Ids /\ ftask[u].version \in Nat
                      /\ ftask[u].version <= batch'[ftask[u].id].version
                      /\ batch'[ftask[u].id].version = ftask[u].version => batch'[ftask[u].id].state \in Unmatched
    BY DEF WorksInTime, Freight!Same
  <2> DEFINE b == ftask[u].id
  <2>1. /\ b \in Freight!Ids /\ ftask[u].version \in Nat /\ ftask[u].version <= batch[b].version
        /\ batch[b].version = ftask[u].version => batch[b].state \in Unmatched
    BY DEF TaskIsTrue, WorksInTime, Freight!Same
  <2>2. batch[b].version \in Nat /\ batch'[b].version \in Nat
    BY <2>1 DEF FreightType, InvoiceBatch
  <2>3. batch'[b] = batch[b] \/ batch'[b].version > batch[b].version
    BY <2>1 DEF BatchesMove
  <2> HIDE DEF b
  <2>4. ftask[u].version <= batch'[b].version /\ (batch'[b].version = ftask[u].version => batch'[b].state \in Unmatched)
    BY <2>1, <2>2, <2>3
  <2> QED BY <2>1, <2>4 DEF b
<1>2. ActsInTime(u)'
  <2> SUFFICES ASSUME ftask[u].pc = "act"
               PROVE  LET r == rows'[ftask[u].id][ftask[u].line]
                      IN  /\ ftask[u].id \in Freight!Ids /\ ftask[u].line \in DOMAIN rows'[ftask[u].id]
                          /\ ftask[u].version \in Nat /\ ftask[u].version <= r.version
                          /\ ftask[u].version = r.version => <<r.state, ftask[u].to>> \in Freight!Transitions
    BY DEF ActsInTime, TheRow
  <2> DEFINE b == ftask[u].id  i == ftask[u].line  o == rows[b][i]  r == rows'[b][i]
  <2>1. /\ b \in Freight!Ids /\ i \in DOMAIN rows[b] /\ ftask[u].version \in Nat /\ ftask[u].version <= o.version
        /\ ftask[u].version = o.version => <<o.state, ftask[u].to>> \in Freight!Transitions
    BY DEF TaskIsTrue, ActsInTime, TheRow
  <2>2. i \in DOMAIN rows'[b] /\ (r = o \/ r.version > o.version)
    BY <2>1 DEF RowsMove
  <2>3. o.version \in Nat /\ r.version \in Nat
    <3>1. rows[b] \in Seq(InvoiceRow) /\ rows'[b] \in Seq(InvoiceRow)
      BY <2>1 DEF FreightType
    <3> HIDE DEF b, i
    <3>2. o \in InvoiceRow /\ r \in InvoiceRow
      BY <2>1, <2>2, <3>1
    <3> HIDE DEF o, r
    <3> QED BY <3>2 DEF InvoiceRow
  <2> HIDE DEF b, i, o, r
  <2>4. ftask[u].version <= r.version /\ (ftask[u].version = r.version => <<r.state, ftask[u].to>> \in Freight!Transitions)
    BY <2>1, <2>2, <2>3
  <2> QED BY <2>1, <2>2, <2>4 DEF b, i, o, r
<1>3. ftask'[u].pc \in {"residual", "resolve"} => ftask'[u].id \in Freight!Ids
  BY DEF TaskIsTrue
<1> QED BY <1>1, <1>2, <1>3 DEF TaskIsTrue

LEMMA FreightTaskGoes ==
  ASSUME FreightType, NEW t \in Workers, NEW row, FreightTask(row), ftask' = [ftask EXCEPT ![t] = row]
  PROVE  /\ ftask' = [u \in Workers |-> ftask'[u]] /\ (\A u \in Workers : FreightTask(ftask'[u]))
         /\ ftask'[t] = row /\ \A u \in Workers : u # t => ftask'[u] = ftask[u]
BY DEF FreightType

LEMMA FreightTaskEnds ==
  ASSUME FreightType, NEW t \in Workers, Freight!Done(t)
  PROVE  /\ ftask' = [u \in Workers |-> ftask'[u]] /\ (\A u \in Workers : FreightTask(ftask'[u]))
         /\ ftask'[t].pc = "off" /\ \A u \in Workers : u # t => ftask'[u] = ftask[u]
<1>1. FreightTask(Freight!Off) /\ Freight!Off.pc = "off" /\ ftask' = [ftask EXCEPT ![t] = Freight!Off]
  BY DEF FreightTask, Freight!Off, Freight!Done
<1> QED BY <1>1, FreightTaskGoes

\* Nobody leaves a batch that could settle, unless t brings somebody to it.
LEMMA AttendedStays ==
  ASSUME Attended, NEW t \in Workers, \A u \in Workers : u # t => ftask'[u] = ftask[u], ftask[t].pc # "resolve",
         UNCHANGED left, \A c \in Freight!Ids : Freight!Resolvable(c)' /\ Len(rows'[c]) > 0 =>
           (Freight!Resolvable(c) /\ Len(rows[c]) > 0) \/ Resolving(t, c)'
  PROVE  Attended'
<1> SUFFICES ASSUME NEW c \in Freight!Ids, Freight!Resolvable(c)', Len(rows'[c]) > 0
             PROVE  c \in left' \/ \E u \in Workers : Resolving(u, c)'
  BY Zenon DEF Attended, Freight!Ids
<1>1. CASE Resolving(t, c)'
  BY <1>1
<1>2. CASE Freight!Resolvable(c) /\ Len(rows[c]) > 0
  BY <1>2 DEF Attended, Resolving
<1> QED BY <1>1, <1>2

\* A step of t, from anywhere, once its own part is known.
LEMMA FreightStepStands ==
  ASSUME FreightInv, FreightType', BatchesMove, RowsMove, NEW t \in Workers,
         \A u \in Workers : u # t => ftask'[u] = ftask[u], TaskIsTrue(t)',
         \A b \in Freight!Ids : BatchIsTrue(b)', Attended'
  PROVE  FreightInv'
<1>1. \A u \in Workers : TaskIsTrue(u)'
  BY TaskStaysTrue DEF FreightInv
<1> QED BY <1>1 DEF FreightInv, Freight!Ids


\* A step of t that reads, or writes nothing.
LEMMA FreightReadStands ==
  ASSUME FreightInv, UNCHANGED <<batch, rows, left>>, NEW t \in Workers, ftask[t].pc # "resolve", TaskIsTrue(t)',
         ftask' = [u \in Workers |-> ftask'[u]], \A u \in Workers : FreightTask(ftask'[u]),
         \A u \in Workers : u # t => ftask'[u] = ftask[u]
  PROVE  FreightInv'
<1>1. FreightType'
  BY DEF FreightInv, FreightType, InvoiceBatch
<1>2. BatchesMove /\ RowsMove
  BY DEF BatchesMove, RowsMove
<1>3. \A b \in Freight!Ids : BatchIsTrue(b)'
  BY DEF FreightInv, BatchIsTrue, Freight!AllSettled
<1>4. Attended'
  <2>1. \A c \in Freight!Ids : Freight!Resolvable(c)' = Freight!Resolvable(c)
    BY DEF Freight!Resolvable, Freight!AllSettled
  <2> QED BY <2>1, AttendedStays DEF FreightInv
<1> QED BY <1>1, <1>2, <1>3, <1>4, FreightStepStands

\* A task that is done, or goes on to enqueue, knows nothing.
LEMMA IdleIsTrue ==
  ASSUME NEW t \in Workers, ftask'[t].pc \in {"off", "enqueue"} PROVE TaskIsTrue(t)'
BY DEF TaskIsTrue, WorksInTime, ActsInTime

LEMMA FreightStays ==
  ASSUME FreightInv, UNCHANGED <<batch, rows, ftask, left>>
  PROVE  FreightInv'
<1>1. FreightType'
  BY DEF FreightInv, FreightType, InvoiceBatch, FreightTask
<1>2. BatchesMove /\ RowsMove
  BY DEF BatchesMove, RowsMove
<1>3. \A t \in Workers : TaskIsTrue(t)'
  BY <1>1, <1>2, TaskStaysTrue DEF FreightInv
<1>4. \A b \in Freight!Ids : BatchIsTrue(b)'
  BY DEF FreightInv, BatchIsTrue, Freight!AllSettled
<1>5. Attended'
  BY DEF FreightInv, Attended, Resolving, Freight!Resolvable, Freight!AllSettled, Freight!Ids
<1> QED BY <1>1, <1>3, <1>4, <1>5 DEF FreightInv

LEMMA DoneStands ==
  ASSUME FreightInv, UNCHANGED <<batch, rows, left>>, NEW t \in Workers, ftask[t].pc # "resolve", Freight!Done(t)
  PROVE  FreightInv'
BY FreightTaskEnds, IdleIsTrue, FreightReadStands DEF FreightInv

LEMMA TakeStands ==
  ASSUME FreightInv, NEW t \in Workers, NEW b \in Freight!Ids, Freight!TakeBatch(t, b)
  PROVE  FreightInv'
<1> DEFINE row == [Freight!Off EXCEPT !.pc = "taken", !.id = b, !.version = batch[b].version]
<1>1. UNCHANGED <<batch, rows, left>> /\ ftask[t].pc = "off" /\ FreightType
  BY DEF Freight!TakeBatch, Freight!Off, FreightInv
<1>2. CASE UNCHANGED ftask
  BY <1>1, <1>2, FreightStays
<1>3. CASE batch[b].state \in {"UPLOADED", "PARSED"} /\ ftask' = [ftask EXCEPT ![t] = row]
  <2>1. /\ FreightTask(row) /\ row.pc = "taken" /\ row.id = b /\ row.version = batch[b].version
        /\ batch[b].version \in Nat
    BY <1>1 DEF FreightTask, Freight!Off, FreightType, InvoiceBatch
  <2> HIDE DEF row
  <2>2. /\ ftask' = [u \in Workers |-> ftask'[u]] /\ (\A u \in Workers : FreightTask(ftask'[u]))
        /\ ftask'[t] = row /\ \A u \in Workers : u # t => ftask'[u] = ftask[u]
    BY <1>1, <1>3, <2>1, FreightTaskGoes
  <2>3. TaskIsTrue(t)'
    BY <1>1, <1>3, <2>1, <2>2 DEF TaskIsTrue, WorksInTime, ActsInTime, Unmatched, Freight!Same
  <2> QED BY <1>1, <2>2, <2>3, FreightReadStands
<1> QED BY <1>2, <1>3 DEF Freight!TakeBatch

LEMMA ActReadsStands ==
  ASSUME FreightInv, NEW t \in Workers, NEW b \in Freight!Ids, NEW i, Freight!ActReads(t, b, i)
  PROVE  FreightInv'
<1>1. UNCHANGED <<batch, rows, left>> /\ ftask[t].pc = "off" /\ FreightType /\ i \in DOMAIN rows[b]
  BY DEF Freight!ActReads, Freight!Off, FreightInv
<1>2. PICK tr \in Freight!Transitions :
        /\ tr[1] = rows[b][i].state
        /\ ftask' = [ftask EXCEPT ![t] =
             [pc |-> "act", id |-> b, line |-> i, version |-> rows[b][i].version, to |-> tr[2]]]
  BY DEF Freight!ActReads
<1>3. <<tr[1], tr[2]>> \in Freight!Transitions
  BY DEF Freight!Transitions
<1>4. rows[b][i].version \in Nat
  <2>1. rows[b] \in Seq(InvoiceRow)
    BY <1>1 DEF FreightType
  <2>2. rows[b][i] \in InvoiceRow
    BY <1>1, <2>1
  <2> QED BY <2>2 DEF InvoiceRow
<1> DEFINE to == tr[2]
           o == rows[b][i]
           row == [pc |-> "act", id |-> b, line |-> i, version |-> o.version, to |-> to]
<1>5. /\ FreightTask(row) /\ row.pc = "act" /\ row.id = b /\ row.line = i /\ row.version = o.version
      /\ row.to = to /\ <<o.state, to>> \in Freight!Transitions /\ ftask' = [ftask EXCEPT ![t] = row]
  <2>1. <<o.state, to>> \in Freight!Transitions /\ ftask' = [ftask EXCEPT ![t] = row]
    BY <1>2, <1>3
  <2> HIDE DEF to, o
  <2> QED BY <2>1 DEF FreightTask
<1> HIDE DEF row, to
<1>6. /\ ftask' = [u \in Workers |-> ftask'[u]] /\ (\A u \in Workers : FreightTask(ftask'[u]))
      /\ ftask'[t] = row /\ \A u \in Workers : u # t => ftask'[u] = ftask[u]
  BY <1>1, <1>5, FreightTaskGoes
<1>7. TaskIsTrue(t)'
  BY <1>1, <1>4, <1>5, <1>6 DEF TaskIsTrue, WorksInTime, ActsInTime, TheRow
<1> QED BY <1>1, <1>6, <1>7, FreightReadStands

LEMMA ResidualReadsStands ==
  ASSUME FreightInv, NEW t \in Workers, NEW b \in Freight!Ids, Freight!ResidualReads(t, b)
  PROVE  FreightInv'
<1> DEFINE row == [Freight!Off EXCEPT !.pc = "residual", !.id = b, !.version = batch[b].version]
<1>1. /\ UNCHANGED <<batch, rows, left>> /\ ftask[t].pc = "off" /\ FreightType /\ ftask' = [ftask EXCEPT ![t] = row]
  BY DEF Freight!ResidualReads, Freight!Off, FreightInv
<1>2. FreightTask(row) /\ row.pc = "residual" /\ row.id = b
  BY DEF FreightTask, Freight!Off
<1> HIDE DEF row
<1>3. /\ ftask' = [u \in Workers |-> ftask'[u]] /\ (\A u \in Workers : FreightTask(ftask'[u]))
      /\ ftask'[t] = row /\ \A u \in Workers : u # t => ftask'[u] = ftask[u]
  BY <1>1, <1>2, FreightTaskGoes
<1>4. TaskIsTrue(t)'
  BY <1>2, <1>3 DEF TaskIsTrue, WorksInTime, ActsInTime
<1> QED BY <1>1, <1>3, <1>4, FreightReadStands

\* A batch is rewritten under its next version.
LEMMA BatchRewritten ==
  ASSUME FreightType, NEW b \in Freight!Ids, NEW r, InvoiceBatch(r), r.version = batch[b].version + 1,
         batch' = [batch EXCEPT ![b] = r]
  PROVE  /\ batch' = [c \in Freight!Ids |-> batch'[c]] /\ (\A c \in Freight!Ids : InvoiceBatch(batch'[c]))
         /\ batch'[b] = r /\ (\A c \in Freight!Ids : c # b => batch'[c] = batch[c]) /\ BatchesMove
<1>1. /\ batch' = [c \in Freight!Ids |-> batch'[c]] /\ (\A c \in Freight!Ids : InvoiceBatch(batch'[c]))
      /\ batch'[b] = r /\ (\A c \in Freight!Ids : c # b => batch'[c] = batch[c])
  BY DEF FreightType
<1>2. BatchesMove
  BY <1>1 DEF BatchesMove, FreightType, InvoiceBatch
<1> QED BY <1>1, <1>2


\* A batch not yet matched stays so: no row, nothing to resolve.
LEMMA UnmatchedStands ==
  ASSUME FreightInv, NEW t \in Workers, ftask[t].pc # "resolve", TaskIsTrue(t)',
         ftask' = [u \in Workers |-> ftask'[u]], \A u \in Workers : FreightTask(ftask'[u]),
         \A u \in Workers : u # t => ftask'[u] = ftask[u],
         NEW b \in Freight!Ids, NEW r, InvoiceBatch(r), r.version = batch[b].version + 1,
         batch[b].state \in Unmatched, r.state \in Unmatched, batch' = [batch EXCEPT ![b] = r], UNCHANGED <<rows, left>>
  PROVE  FreightInv'
<1>1. FreightType
  BY DEF FreightInv
<1>2. /\ batch' = [c \in Freight!Ids |-> batch'[c]] /\ (\A c \in Freight!Ids : InvoiceBatch(batch'[c]))
      /\ batch'[b] = r /\ (\A c \in Freight!Ids : c # b => batch'[c] = batch[c]) /\ BatchesMove
  BY <1>1, BatchRewritten
<1>3. FreightType' /\ RowsMove
  BY <1>1, <1>2 DEF FreightType, RowsMove
<1>4. \A c \in Freight!Ids : BatchIsTrue(c)'
  <2> SUFFICES ASSUME NEW c \in Freight!Ids PROVE BatchIsTrue(c)'
    OBVIOUS
  <2>1. CASE c = b
    BY <1>2, <2>1 DEF FreightInv, BatchIsTrue, Unmatched
  <2>2. CASE c # b
    BY <1>2, <2>2 DEF FreightInv, BatchIsTrue, Freight!AllSettled
  <2> QED BY <2>1, <2>2
<1>5. \A c \in Freight!Ids : Freight!Resolvable(c)' => Freight!Resolvable(c)
  BY <1>2 DEF Freight!Resolvable, Freight!AllSettled, Unmatched
<1>6. Attended'
  BY <1>5, AttendedStays DEF FreightInv
<1> QED BY <1>2, <1>3, <1>4, <1>6, FreightStepStands

LEMMA UploadStands ==
  ASSUME FreightInv, NEW t \in Workers, NEW b \in Freight!Ids, Freight!UploadInvoice(t, b)
  PROVE  FreightInv'
<1> DEFINE row == [Freight!Off EXCEPT !.pc = "enqueue", !.id = b]
           r == [state |-> "UPLOADED", version |-> batch[b].version + 1,
                 control |-> "WITHIN_THRESHOLD", uploads |-> batch[b].uploads + 1]
<1>1. /\ FreightType /\ ftask[t].pc = "off" /\ batch[b].state \in Unmatched /\ UNCHANGED <<rows, left>>
      /\ ftask' = [ftask EXCEPT ![t] = row] /\ batch' = [batch EXCEPT ![b] = r]
  BY DEF Freight!UploadInvoice, Freight!Off, FreightInv, FreightType, Unmatched
<1>2. FreightTask(row) /\ row.pc = "enqueue"
  BY DEF FreightTask, Freight!Off
<1>3. InvoiceBatch(r) /\ r.version = batch[b].version + 1 /\ r.state \in Unmatched
  BY <1>1 DEF InvoiceBatch, FreightType, Unmatched
<1> HIDE DEF row, r
<1>4. /\ ftask' = [u \in Workers |-> ftask'[u]] /\ (\A u \in Workers : FreightTask(ftask'[u]))
      /\ ftask'[t] = row /\ \A u \in Workers : u # t => ftask'[u] = ftask[u]
  BY <1>1, <1>2, FreightTaskGoes
<1>5. TaskIsTrue(t)'
  BY <1>2, <1>4, IdleIsTrue
<1> QED BY <1>1, <1>3, <1>4, <1>5, UnmatchedStands

LEMMA ParseFailsStands ==
  ASSUME FreightInv, NEW t \in Workers, Freight!ParseFails(t)
  PROVE  FreightInv'
<1> DEFINE b == ftask[t].id
           w == batch[b].version + 1
           r == [batch[b] EXCEPT !.state = "FAILED", !.version = w]
<1>1. FreightType /\ ftask[t].pc = "taken" /\ UNCHANGED <<rows, left>> /\ Freight!Done(t)
  BY DEF Freight!ParseFails, FreightInv
<1>2. CASE UNCHANGED batch
  BY <1>1, <1>2, DoneStands
<1>3. CASE Freight!Same(t) /\ batch' = [batch EXCEPT ![b].state = "FAILED", ![b].version = @ + 1]
  <2>1. b \in Freight!Ids /\ batch[b].state \in Unmatched
    BY <1>1, <1>3 DEF FreightInv, TaskIsTrue, WorksInTime
  <2>2. InvoiceBatch(r) /\ r.version = batch[b].version + 1 /\ r.state \in Unmatched
    <3> DEFINE o == batch[b]
    <3>1. InvoiceBatch(o) /\ w = o.version + 1
      BY <1>1, <2>1 DEF FreightType
    <3> HIDE DEF o, w
    <3>2. w \in Nat
      BY <3>1 DEF InvoiceBatch
    <3> QED BY <3>1, <3>2 DEF InvoiceBatch, Unmatched, o
  <2>3. batch' = [batch EXCEPT ![b] = r]
    BY <1>1, <1>3, <2>1 DEF FreightType, InvoiceBatch
  <2> HIDE DEF b, w, r
  <2>4. /\ ftask' = [u \in Workers |-> ftask'[u]] /\ (\A u \in Workers : FreightTask(ftask'[u]))
        /\ ftask'[t].pc = "off" /\ \A u \in Workers : u # t => ftask'[u] = ftask[u]
    BY <1>1, FreightTaskEnds
  <2>5. TaskIsTrue(t)'
    BY <2>4, IdleIsTrue
  <2> QED BY <1>1, <2>1, <2>2, <2>3, <2>4, <2>5, UnmatchedStands
<1> QED BY <1>2, <1>3 DEF Freight!ParseFails

LEMMA ParseBatchStands ==
  ASSUME FreightInv, NEW t \in Workers, Freight!ParseBatch(t)
  PROVE  FreightInv'
<1> DEFINE b == ftask[t].id
           w == batch[b].version + 1
           r == [batch[b] EXCEPT !.state = "PARSED", !.version = w]
           row == [Freight!Off EXCEPT !.pc = "match", !.id = b, !.version = ftask[t].version + 1]
<1>1. FreightType /\ ftask[t].pc = "taken" /\ UNCHANGED <<rows, left>>
  BY DEF Freight!ParseBatch, FreightInv
<1>2. CASE UNCHANGED batch /\ ftask' = [ftask EXCEPT ![t] = Freight!Off]
  BY <1>1, <1>2, DoneStands DEF Freight!Done
<1>3. CASE /\ Freight!Same(t) /\ batch' = [batch EXCEPT ![b].state = "PARSED", ![b].version = @ + 1]
           /\ ftask' = [ftask EXCEPT ![t] = row]
  <2>1. b \in Freight!Ids /\ batch[b].state \in Unmatched /\ ftask[t].version = batch[b].version
    BY <1>1, <1>3 DEF FreightInv, TaskIsTrue, WorksInTime, Freight!Same
  <2>2. InvoiceBatch(r) /\ r.version = batch[b].version + 1 /\ r.state \in Unmatched /\ r.version \in Nat
    <3> DEFINE o == batch[b]
    <3>1. InvoiceBatch(o) /\ w = o.version + 1
      BY <1>1, <2>1 DEF FreightType
    <3> HIDE DEF o, w
    <3>2. w \in Nat
      BY <3>1 DEF InvoiceBatch
    <3> QED BY <3>1, <3>2 DEF InvoiceBatch, Unmatched, o
  <2>3. batch' = [batch EXCEPT ![b] = r]
    BY <1>1, <1>3, <2>1 DEF FreightType, InvoiceBatch
  <2>4. FreightTask(row) /\ row.pc = "match" /\ row.id = b /\ row.version = r.version
    BY <2>1, <2>2 DEF FreightTask, Freight!Off
  <2> HIDE DEF b, w, r, row
  <2>6. /\ ftask' = [u \in Workers |-> ftask'[u]] /\ (\A u \in Workers : FreightTask(ftask'[u]))
        /\ ftask'[t] = row /\ \A u \in Workers : u # t => ftask'[u] = ftask[u]
    BY <1>1, <1>3, <2>4, FreightTaskGoes
  <2>7. batch'[b] = r
    BY <1>1, <2>1, <2>2, <2>3, BatchRewritten
  <2>8. TaskIsTrue(t)'
    BY <2>1, <2>2, <2>4, <2>6, <2>7 DEF TaskIsTrue, WorksInTime, ActsInTime, Freight!Same
  <2> QED BY <1>1, <2>1, <2>2, <2>3, <2>6, <2>8, UnmatchedStands
<1>4. ftask' = [ftask EXCEPT ![t] = IF Freight!Same(t) THEN row ELSE Freight!Off]
  BY DEF Freight!ParseBatch
<1> HIDE DEF row
<1> QED BY <1>2, <1>3, <1>4 DEF Freight!ParseBatch

LEMMA MatchStands ==
  ASSUME FreightInv, NEW t \in Workers, Freight!MatchAndPersist(t)
  PROVE  FreightInv'
<1> DEFINE b == ftask[t].id
           new == [i \in DOMAIN Invoices[b].lines |-> [state |-> "OPEN", version |-> 1]]
           control == Freight!ControlOf(Booked, Invoices[b])
           w == batch[b].version + 1
           r == [batch[b] EXCEPT !.state = "MATCHED", !.version = w, !.control = control]
<1>1. FreightType /\ ftask[t].pc = "match" /\ Freight!Done(t) /\ UNCHANGED left
  BY DEF Freight!MatchAndPersist, FreightInv
<1>2. CASE UNCHANGED <<batch, rows>>
  BY <1>1, <1>2, DoneStands
<1>3. CASE /\ Freight!Same(t) /\ rows' = [rows EXCEPT ![b] = @ \o new]
           /\ batch' = [batch EXCEPT ![b].state = "MATCHED", ![b].version = @ + 1, ![b].control = control]
  <2> HIDE DEF control
  <2>1. b \in Freight!Ids /\ batch[b].state \in Unmatched
    BY <1>1, <1>3 DEF FreightInv, TaskIsTrue, WorksInTime
  <2>2. InvoiceBatch(r) /\ r.version = batch[b].version + 1 /\ r.state = "MATCHED"
    <3> DEFINE o == batch[b]
    <3>1. InvoiceBatch(o) /\ w = o.version + 1
      BY <1>1, <2>1 DEF FreightType
    <3> HIDE DEF o, w
    <3>2. w \in Nat
      BY <3>1 DEF InvoiceBatch
    <3> QED BY <3>1, <3>2 DEF InvoiceBatch, Unmatched, o
  <2>3. batch' = [batch EXCEPT ![b] = r]
    BY <1>1, <1>3, <2>1 DEF FreightType, InvoiceBatch
  <2>4. rows[b] = <<>>
    BY <2>1 DEF FreightInv, BatchIsTrue
  <2>5. /\ new \in Seq(InvoiceRow) /\ Len(new) = Len(Invoices[b].lines) /\ DOMAIN new = 1 .. Len(new)
        /\ \A i \in DOMAIN new : new[i].state = "OPEN"
    <3>1. b \in DOMAIN Invoices
      BY <2>1 DEF Freight!Ids
    <3> DEFINE n == Len(Invoices[b].lines)
    <3>2. n \in Nat /\ DOMAIN Invoices[b].lines = 1 .. n
      BY <3>1, MoneyAssumption
    <3>3. [state |-> "OPEN", version |-> 1] \in InvoiceRow
      BY DEF InvoiceRow, RowStates
    <3>4. new = [i \in 1 .. n |-> [state |-> "OPEN", version |-> 1]]
      BY <3>2
    <3> HIDE DEF n, b, new
    <3> QED BY <3>2, <3>3, <3>4 DEF n
  <2> HIDE DEF b, w, r, new
  <2>6. rows' = [rows EXCEPT ![b] = new]
    BY <1>1, <1>3, <2>1, <2>4, <2>5, ConcatEmptySeq DEF FreightType
  <2>7. /\ rows' \in [Freight!Ids -> Seq(InvoiceRow)] /\ rows'[b] = new
        /\ \A c \in Freight!Ids : c # b => rows'[c] = rows[c]
    BY <1>1, <2>1, <2>5, <2>6 DEF FreightType
  <2>8. /\ batch' = [c \in Freight!Ids |-> batch'[c]] /\ (\A c \in Freight!Ids : InvoiceBatch(batch'[c]))
        /\ batch'[b] = r /\ (\A c \in Freight!Ids : c # b => batch'[c] = batch[c]) /\ BatchesMove
    BY <1>1, <2>1, <2>2, <2>3, BatchRewritten
  <2>9. /\ ftask' = [u \in Workers |-> ftask'[u]] /\ (\A u \in Workers : FreightTask(ftask'[u]))
        /\ ftask'[t].pc = "off" /\ \A u \in Workers : u # t => ftask'[u] = ftask[u]
    BY <1>1, FreightTaskEnds
  <2>10. FreightType' /\ RowsMove /\ TaskIsTrue(t)'
    <3>1. DOMAIN rows[b] = {}
      BY <2>4
    <3> QED BY <2>7, <2>8, <2>9, <3>1, IdleIsTrue DEF FreightType, RowsMove
  <2>11. \A c \in Freight!Ids : BatchIsTrue(c)'
    <3> SUFFICES ASSUME NEW c \in Freight!Ids PROVE BatchIsTrue(c)'
      OBVIOUS
    <3>1. CASE c = b
      BY <2>2, <2>5, <2>7, <2>8, <3>1 DEF BatchIsTrue, Unmatched
    <3>2. CASE c # b
      BY <2>7, <2>8, <3>2 DEF FreightInv, BatchIsTrue, Freight!AllSettled
    <3> QED BY <3>1, <3>2
  <2>12. ASSUME NEW c \in Freight!Ids, Freight!Resolvable(c)', Len(rows'[c]) > 0
         PROVE  Freight!Resolvable(c) /\ Len(rows[c]) > 0
    <3>1. CASE c = b
      <4>1. 1 \in DOMAIN rows'[b] /\ rows'[b][1].state = "OPEN"
        BY <2>5, <2>7, <2>12, <3>1
      <4>2. \A i \in DOMAIN rows'[b] : rows'[b][i].state \in Freight!Settled
        BY <2>12, <3>1 DEF Freight!Resolvable, Freight!AllSettled
      <4> QED BY <4>1, <4>2 DEF Freight!Settled
    <3>2. CASE c # b
      BY <2>7, <2>8, <2>12, <3>2 DEF Freight!Resolvable, Freight!AllSettled
    <3> QED BY <3>1, <3>2
  <2>13. Attended'
    BY <1>1, <2>9, <2>12, AttendedStays DEF FreightInv
  <2> QED BY <2>8, <2>9, <2>10, <2>11, <2>13, FreightStepStands
<1> QED BY <1>2, <1>3 DEF Freight!MatchAndPersist


\* A row is rewritten under its next version.
LEMMA RowRewritten ==
  ASSUME FreightType, NEW b \in Freight!Ids, NEW i \in DOMAIN rows[b], NEW r \in InvoiceRow,
         r.version > rows[b][i].version, rows' = [rows EXCEPT ![b][i] = r]
  PROVE  /\ rows' \in [Freight!Ids -> Seq(InvoiceRow)] /\ rows'[b][i] = r /\ RowsMove
         /\ \A c \in Freight!Ids : Len(rows'[c]) = Len(rows[c]) /\ DOMAIN rows'[c] = DOMAIN rows[c]
         /\ \A c \in Freight!Ids : c # b => rows'[c] = rows[c]
         /\ \A j \in DOMAIN rows[b] : j # i => rows'[b][j] = rows[b][j]
<1>1. /\ rows' = [c \in Freight!Ids |-> rows'[c]] /\ rows'[b] = [rows[b] EXCEPT ![i] = r]
      /\ \A c \in Freight!Ids : c # b => rows'[c] = rows[c]
  BY DEF FreightType
<1>2. rows[b] \in Seq(InvoiceRow)
  BY DEF FreightType
<1>3. i \in 1 .. Len(rows[b])
  BY <1>2
<1>4. /\ rows'[b] \in Seq(InvoiceRow) /\ Len(rows'[b]) = Len(rows[b])
      /\ rows'[b][i] = r /\ \A j \in 1 .. Len(rows[b]) : j # i => rows'[b][j] = rows[b][j]
  BY <1>1, <1>2, <1>3, ExceptSeq
<1>5. DOMAIN rows'[b] = DOMAIN rows[b] /\ DOMAIN rows[b] = 1 .. Len(rows[b])
  BY <1>2, <1>4
<1>6. rows' \in [Freight!Ids -> Seq(InvoiceRow)]
  BY <1>1, <1>4 DEF FreightType
<1>7. RowsMove
  BY <1>1, <1>4, <1>5 DEF RowsMove
<1> QED BY <1>1, <1>4, <1>5, <1>6, <1>7

\* A row's rewriting leaves a settled row settled.
LEMMA RowStepStands ==
  ASSUME FreightInv, UNCHANGED <<batch, left>>, NEW t \in Workers, ftask[t].pc # "resolve", TaskIsTrue(t)',
         ftask' = [u \in Workers |-> ftask'[u]], \A u \in Workers : FreightTask(ftask'[u]),
         \A u \in Workers : u # t => ftask'[u] = ftask[u],
         NEW b \in Freight!Ids, NEW i \in DOMAIN rows[b], NEW r \in InvoiceRow,
         r.version > rows[b][i].version, rows' = [rows EXCEPT ![b][i] = r],
         rows[b][i].state \in Freight!Settled => r.state \in Freight!Settled,
         r.state = rows[b][i].state \/ (ftask'[t].pc = "resolve" /\ ftask'[t].id = b)
  PROVE  FreightInv'
<1>1. FreightType
  BY DEF FreightInv
<1>2. /\ rows' \in [Freight!Ids -> Seq(InvoiceRow)] /\ rows'[b][i] = r /\ RowsMove
      /\ \A c \in Freight!Ids : Len(rows'[c]) = Len(rows[c]) /\ DOMAIN rows'[c] = DOMAIN rows[c]
      /\ \A c \in Freight!Ids : c # b => rows'[c] = rows[c]
      /\ \A j \in DOMAIN rows[b] : j # i => rows'[b][j] = rows[b][j]
  BY <1>1, RowRewritten
<1>3. FreightType' /\ BatchesMove
  BY <1>1, <1>2 DEF FreightType, BatchesMove, InvoiceBatch
<1>4. \A c \in Freight!Ids : Freight!AllSettled(c) => Freight!AllSettled(c)'
  <2> SUFFICES ASSUME NEW c \in Freight!Ids, Freight!AllSettled(c), NEW j \in DOMAIN rows'[c]
               PROVE  rows'[c][j].state \in Freight!Settled
    BY DEF Freight!AllSettled
  <2>1. j \in DOMAIN rows[c] /\ rows[c][j].state \in Freight!Settled
    BY <1>2 DEF Freight!AllSettled
  <2>2. CASE c = b /\ j = i
    BY <1>2, <2>1, <2>2
  <2>3. CASE c # b \/ j # i
    BY <1>2, <2>1, <2>3
  <2> QED BY <2>2, <2>3
<1>5. \A c \in Freight!Ids : BatchIsTrue(c)'
  <2> SUFFICES ASSUME NEW c \in Freight!Ids PROVE BatchIsTrue(c)'
    OBVIOUS
  <2>1. BatchIsTrue(c) /\ (rows[c] = <<>> => rows'[c] = <<>>)
    <3>1. c = b => rows[c] # <<>>
      OBVIOUS
    <3> QED BY <1>2, <3>1 DEF FreightInv
  <2> QED BY <1>2, <1>4, <2>1 DEF BatchIsTrue
<1>6. ASSUME NEW c \in Freight!Ids, Freight!Resolvable(c)', Len(rows'[c]) > 0
      PROVE  (Freight!Resolvable(c) /\ Len(rows[c]) > 0) \/ Resolving(t, c)'
  <2>1. CASE ftask'[t].pc = "resolve" /\ ftask'[t].id = b /\ c = b
    BY <2>1 DEF Resolving
  <2>2. CASE r.state = rows[b][i].state \/ c # b
    <3>1. \A j \in DOMAIN rows[c] : rows'[c][j].state = rows[c][j].state /\ j \in DOMAIN rows'[c]
      BY <1>2, <2>2
    <3> QED BY <1>2, <1>6, <3>1 DEF Freight!Resolvable, Freight!AllSettled
  <2> QED BY <2>1, <2>2
<1>7. Attended'
  BY <1>6, AttendedStays DEF FreightInv
<1> QED BY <1>2, <1>3, <1>5, <1>7, FreightStepStands

LEMMA ActWritesStands ==
  ASSUME FreightInv, NEW t \in Workers, Freight!ActWrites(t)
  PROVE  FreightInv'
<1> DEFINE b == ftask[t].id
           i == ftask[t].line
           v == rows[b][i].version
           r == [state |-> ftask[t].to, version |-> v + 1]
           row == [Freight!Off EXCEPT !.pc = "resolve", !.id = b]
<1>1. FreightType /\ ftask[t].pc = "act" /\ UNCHANGED <<batch, left>>
  BY DEF Freight!ActWrites, FreightInv
<1>2. CASE UNCHANGED rows /\ Freight!Done(t)
  BY <1>1, <1>2, DoneStands
<1>3. CASE /\ v = ftask[t].version
           /\ rows' = [rows EXCEPT ![b][i] = [state |-> ftask[t].to, version |-> @.version + 1]]
           /\ ftask' = [ftask EXCEPT ![t] = row]
  <2>1. b \in Freight!Ids /\ i \in DOMAIN rows[b] /\ <<rows[b][i].state, ftask[t].to>> \in Freight!Transitions
    BY <1>1, <1>3 DEF FreightInv, TaskIsTrue, ActsInTime, TheRow
  <2>2. rows = [c \in Freight!Ids |-> rows[c]] /\ v \in Nat
    <3>1. rows[b] \in Seq(InvoiceRow) /\ rows \in [Freight!Ids -> Seq(InvoiceRow)]
      BY <1>1, <2>1 DEF FreightType
    <3> DEFINE o == rows[b][i]
    <3>2. o \in InvoiceRow
      BY <2>1, <3>1
    <3> HIDE DEF o
    <3>3. o.version \in Nat
      BY <3>2 DEF InvoiceRow
    <3> QED BY <3>1, <3>3 DEF o
  <2>3. rows' = [rows EXCEPT ![b][i] = r]
    BY <1>3
  <2>4. /\ ftask[t].to \in RowStates /\ rows[b][i].state \notin Freight!Settled
    BY <2>1 DEF Freight!Transitions, Freight!Settled, RowStates
  <2>5. FreightTask(row) /\ row.pc = "resolve" /\ row.id = b
    BY DEF FreightTask, Freight!Off
  <2>6. r \in InvoiceRow /\ r.version > v
    <3> HIDE DEF v
    <3> QED BY <2>2, <2>4 DEF InvoiceRow
  <2> HIDE DEF b, i, r, row
  <2>7. /\ ftask' = [u \in Workers |-> ftask'[u]] /\ (\A u \in Workers : FreightTask(ftask'[u]))
        /\ ftask'[t] = row /\ \A u \in Workers : u # t => ftask'[u] = ftask[u]
    BY <1>1, <1>3, <2>5, FreightTaskGoes
  <2>8. TaskIsTrue(t)'
    BY <2>1, <2>5, <2>7 DEF TaskIsTrue, WorksInTime, ActsInTime
  <2>9. r.version > rows[b][i].version
    BY <2>6 DEF b, i
  <2> QED BY <1>1, <2>1, <2>3, <2>4, <2>5, <2>6, <2>7, <2>8, <2>9, RowStepStands
<1> QED BY <1>2, <1>3 DEF Freight!ActWrites

LEMMA EvidenceStands ==
  ASSUME FreightInv, NEW t \in Workers, NEW b \in Freight!Ids, NEW i, Freight!AttachEvidence(t, b, i)
  PROVE  FreightInv'
<1> DEFINE o == rows[b][i]
           r == [state |-> o.state, version |-> o.version + 1]
<1>1. /\ FreightType /\ UNCHANGED <<batch, ftask, left>> /\ i \in DOMAIN rows[b] /\ ftask[t].pc = "off"
      /\ rows' = [rows EXCEPT ![b][i].version = @ + 1]
  BY DEF Freight!AttachEvidence, Freight!Off, FreightInv
<1>2. rows[b] \in Seq(InvoiceRow) /\ rows \in [Freight!Ids -> Seq(InvoiceRow)]
  BY <1>1 DEF FreightType
<1>3. o \in InvoiceRow
  BY <1>1, <1>2
<1>4. r \in InvoiceRow /\ r.version > o.version /\ r.state = o.state
  <2> HIDE DEF o
  <2> QED BY <1>3 DEF InvoiceRow
<1>5. rows' = [rows EXCEPT ![b][i] = r]
  <2> DEFINE w == o.version + 1
  <2>1. rows' = [rows EXCEPT ![b] = [rows[b] EXCEPT ![i] = [o EXCEPT !.version = w]]]
    BY <1>1, <1>2
  <2>2. [o EXCEPT !.version = w] = [state |-> o.state, version |-> w]
    <3> HIDE DEF o, w
    <3> QED BY <1>3 DEF InvoiceRow
  <2> QED BY <2>1, <2>2
<1>6. /\ ftask' = [u \in Workers |-> ftask'[u]] /\ (\A u \in Workers : FreightTask(ftask'[u]))
      /\ \A u \in Workers : ftask'[u] = ftask[u]
  BY <1>1 DEF FreightType, FreightTask
<1>7. TaskIsTrue(t)'
  BY <1>1 DEF TaskIsTrue, WorksInTime, ActsInTime
<1>8. /\ r \in InvoiceRow /\ r.version > rows[b][i].version /\ r.state = rows[b][i].state
      /\ rows[b][i].state \in Freight!Settled => r.state \in Freight!Settled
  <2> HIDE DEF r
  <2> QED BY <1>4 DEF o
<1>9. /\ ftask[t].pc # "resolve" /\ UNCHANGED <<batch, left>> /\ i \in DOMAIN rows[b]
      /\ \A u \in Workers : u # t => ftask'[u] = ftask[u]
  BY <1>1, <1>6
<1> HIDE DEF o, r
<1> QED BY <1>5, <1>6, <1>7, <1>8, <1>9, RowStepStands


LEMMA ResidualWritesStands ==
  ASSUME FreightInv, NEW t \in Workers, Freight!ResidualWrites(t)
  PROVE  FreightInv'
<1> DEFINE b == ftask[t].id
           w == batch[b].version + 1
           r == [batch[b] EXCEPT !.control = "ACCEPTED_WITH_REMARK", !.version = w]
           row == [Freight!Off EXCEPT !.pc = "resolve", !.id = b]
<1>1. FreightType /\ ftask[t].pc = "residual" /\ UNCHANGED <<rows, left>> /\ b \in Freight!Ids
  BY DEF Freight!ResidualWrites, FreightInv, TaskIsTrue
<1>2. CASE UNCHANGED batch /\ Freight!Done(t)
  BY <1>1, <1>2, DoneStands
<1>3. CASE /\ ftask' = [ftask EXCEPT ![t] = row]
           /\ batch' = [batch EXCEPT ![b].control = "ACCEPTED_WITH_REMARK", ![b].version = @ + 1]
  <2>1. InvoiceBatch(r) /\ r.version = w /\ r.state = batch[b].state /\ r.control = "ACCEPTED_WITH_REMARK"
    <3> DEFINE o == batch[b]
    <3>1. InvoiceBatch(o) /\ w = o.version + 1
      BY <1>1 DEF FreightType
    <3> HIDE DEF o, w
    <3>2. w \in Nat
      BY <3>1 DEF InvoiceBatch
    <3> QED BY <3>1, <3>2 DEF InvoiceBatch, o
  <2>2. batch' = [batch EXCEPT ![b] = r]
    BY <1>1, <1>3 DEF FreightType, InvoiceBatch
  <2>3. FreightTask(row) /\ row.pc = "resolve" /\ row.id = b
    BY DEF FreightTask, Freight!Off
  <2>4. r.version = batch[b].version + 1
    BY <2>1
  <2> HIDE DEF b, w, r, row
  <2>5. /\ batch' = [c \in Freight!Ids |-> batch'[c]] /\ (\A c \in Freight!Ids : InvoiceBatch(batch'[c]))
        /\ batch'[b] = r /\ (\A c \in Freight!Ids : c # b => batch'[c] = batch[c]) /\ BatchesMove
    BY <1>1, <2>1, <2>2, <2>4, BatchRewritten
  <2>6. /\ ftask' = [u \in Workers |-> ftask'[u]] /\ (\A u \in Workers : FreightTask(ftask'[u]))
        /\ ftask'[t] = row /\ \A u \in Workers : u # t => ftask'[u] = ftask[u]
    BY <1>1, <1>3, <2>3, FreightTaskGoes
  <2>7. FreightType' /\ RowsMove
    BY <1>1, <2>5, <2>6 DEF FreightType, RowsMove
  <2>8. TaskIsTrue(t)'
    BY <1>1, <2>3, <2>6 DEF TaskIsTrue, WorksInTime, ActsInTime
  <2>9. \A c \in Freight!Ids : BatchIsTrue(c)'
    <3> SUFFICES ASSUME NEW c \in Freight!Ids PROVE BatchIsTrue(c)'
      OBVIOUS
    <3>1. BatchIsTrue(c) /\ batch'[c].state = batch[c].state
      BY <2>1, <2>5 DEF FreightInv
    <3>2. batch'[c].control = batch[c].control \/ batch'[c].control = "ACCEPTED_WITH_REMARK"
      BY <2>1, <2>5
    <3> QED BY <1>1, <3>1, <3>2 DEF BatchIsTrue, Freight!AllSettled
  <2>10. ASSUME NEW c \in Freight!Ids, Freight!Resolvable(c)', Len(rows'[c]) > 0
         PROVE  (Freight!Resolvable(c) /\ Len(rows[c]) > 0) \/ Resolving(t, c)'
    <3>1. CASE c = b
      BY <2>3, <2>6, <3>1 DEF Resolving
    <3>2. CASE c # b
      BY <1>1, <2>5, <2>10, <3>2 DEF Freight!Resolvable, Freight!AllSettled
    <3> QED BY <3>1, <3>2
  <2>11. Attended'
    BY <1>1, <2>6, <2>10, AttendedStays DEF FreightInv
  <2> QED BY <2>5, <2>6, <2>7, <2>8, <2>9, <2>11, FreightStepStands
<1> QED BY <1>2, <1>3 DEF Freight!ResidualWrites

\* maybeResolveBatch: the one step that leaves a batch, and leaves none to resolve.
LEMMA MaybeResolveStands ==
  ASSUME FreightInv, NEW t \in Workers, Freight!MaybeResolve(t)
  PROVE  FreightInv'
<1> DEFINE b == ftask[t].id
           w == batch[b].version + 1
           r == [batch[b] EXCEPT !.state = "RESOLVED", !.version = w]
<1>1. /\ FreightType /\ ftask[t].pc = "resolve" /\ UNCHANGED <<rows, left>> /\ b \in Freight!Ids /\ Freight!Done(t)
      /\ batch' = IF Freight!Resolvable(b)
                  THEN [batch EXCEPT ![b].state = "RESOLVED", ![b].version = @ + 1] ELSE batch
  BY DEF Freight!MaybeResolve, FreightInv, TaskIsTrue
<1>2. /\ ftask' = [u \in Workers |-> ftask'[u]] /\ (\A u \in Workers : FreightTask(ftask'[u]))
      /\ ftask'[t].pc = "off" /\ \A u \in Workers : u # t => ftask'[u] = ftask[u]
  BY <1>1, FreightTaskEnds
<1>3. TaskIsTrue(t)'
  BY <1>2, IdleIsTrue
<1>4. CASE ~Freight!Resolvable(b) /\ UNCHANGED batch
  <2>1. FreightType' /\ BatchesMove /\ RowsMove
    BY <1>1, <1>2, <1>4 DEF FreightType, InvoiceBatch, BatchesMove, RowsMove
  <2>2. \A c \in Freight!Ids : BatchIsTrue(c)'
    BY <1>1, <1>4 DEF FreightInv, BatchIsTrue, Freight!AllSettled
  <2>3. Attended'
    <3> SUFFICES ASSUME NEW c \in Freight!Ids, Freight!Resolvable(c)', Len(rows'[c]) > 0
                 PROVE  c \in left' \/ \E u \in Workers : Resolving(u, c)'
      BY Zenon DEF Attended, Freight!Ids
    <3>1. Freight!Resolvable(c) /\ Len(rows[c]) > 0
      BY <1>1, <1>4 DEF Freight!Resolvable, Freight!AllSettled
    <3>2. c \in left \/ \E u \in Workers : Resolving(u, c)
      BY <3>1 DEF FreightInv, Attended
    <3>3. \A u \in Workers : Resolving(u, c) => u # t
      BY <1>4, <3>1 DEF Resolving
    <3> QED BY <1>1, <1>2, <3>2, <3>3 DEF Resolving
  <2> QED BY <1>2, <1>3, <2>1, <2>2, <2>3, FreightStepStands
<1>5. CASE Freight!Resolvable(b) /\ batch' = [batch EXCEPT ![b].state = "RESOLVED", ![b].version = @ + 1]
  <2>1. InvoiceBatch(r) /\ r.version = w /\ r.state = "RESOLVED" /\ r.control = batch[b].control
    <3> DEFINE o == batch[b]
    <3>1. InvoiceBatch(o) /\ w = o.version + 1
      BY <1>1 DEF FreightType
    <3> HIDE DEF o, w
    <3>2. w \in Nat
      BY <3>1 DEF InvoiceBatch
    <3> QED BY <3>1, <3>2 DEF InvoiceBatch, o
  <2>2. batch' = [batch EXCEPT ![b] = r]
    BY <1>1, <1>5 DEF FreightType, InvoiceBatch
  <2>3. r.version = batch[b].version + 1
    BY <2>1
  <2> HIDE DEF b, w, r
  <2>4. /\ batch' = [c \in Freight!Ids |-> batch'[c]] /\ (\A c \in Freight!Ids : InvoiceBatch(batch'[c]))
        /\ batch'[b] = r /\ (\A c \in Freight!Ids : c # b => batch'[c] = batch[c]) /\ BatchesMove
    BY <1>1, <2>1, <2>2, <2>3, BatchRewritten
  <2>5. FreightType' /\ RowsMove
    BY <1>1, <1>2, <2>4 DEF FreightType, RowsMove
  <2>6. \A c \in Freight!Ids : BatchIsTrue(c)'
    <3> SUFFICES ASSUME NEW c \in Freight!Ids PROVE BatchIsTrue(c)'
      OBVIOUS
    <3>1. CASE c = b
      BY <1>1, <1>5, <2>1, <2>4, <3>1 DEF FreightInv, BatchIsTrue, Freight!Resolvable, Freight!AllSettled, Unmatched
    <3>2. CASE c # b
      BY <1>1, <2>4, <3>2 DEF FreightInv, BatchIsTrue, Freight!AllSettled
    <3> QED BY <3>1, <3>2
  <2>7. Attended'
    <3> SUFFICES ASSUME NEW c \in Freight!Ids, Freight!Resolvable(c)', Len(rows'[c]) > 0
                 PROVE  c \in left' \/ \E u \in Workers : Resolving(u, c)'
      BY Zenon DEF Attended, Freight!Ids
    <3>1. c # b
      BY <2>1, <2>4 DEF Freight!Resolvable
    <3>2. Freight!Resolvable(c) /\ Len(rows[c]) > 0
      BY <1>1, <2>4, <3>1 DEF Freight!Resolvable, Freight!AllSettled
    <3>3. c \in left \/ \E u \in Workers : Resolving(u, c)
      BY <3>2 DEF FreightInv, Attended
    <3>4. \A u \in Workers : Resolving(u, c) => u # t
      BY <3>1 DEF Resolving, b
    <3> QED BY <1>1, <1>2, <3>3, <3>4 DEF Resolving
  <2> QED BY <1>2, <1>3, <2>4, <2>5, <2>6, <2>7, FreightStepStands
<1> QED BY <1>1, <1>4, <1>5

\* A death leaves the batch its request was to resolve on record.
LEMMA TaskDiesStands ==
  ASSUME FreightInv, NEW t \in Workers, Freight!TaskDies(t)
  PROVE  FreightInv'
<1>1. /\ FreightType /\ UNCHANGED <<batch, rows>> /\ Freight!Done(t)
      /\ left' = left \cup {b \in Freight!Ids : ftask[t].pc = "resolve" /\ ftask[t].id = b}
  BY DEF Freight!TaskDies, FreightInv
<1>2. /\ ftask' = [u \in Workers |-> ftask'[u]] /\ (\A u \in Workers : FreightTask(ftask'[u]))
      /\ ftask'[t].pc = "off" /\ \A u \in Workers : u # t => ftask'[u] = ftask[u]
  BY <1>1, FreightTaskEnds
<1>3. FreightType' /\ BatchesMove /\ RowsMove
  BY <1>1, <1>2 DEF FreightType, InvoiceBatch, BatchesMove, RowsMove
<1>4. \A c \in Freight!Ids : BatchIsTrue(c)'
  BY <1>1 DEF FreightInv, BatchIsTrue, Freight!AllSettled
<1>5. Attended'
  <2> SUFFICES ASSUME NEW c \in Freight!Ids, Freight!Resolvable(c)', Len(rows'[c]) > 0
               PROVE  c \in left' \/ \E u \in Workers : Resolving(u, c)'
    BY Zenon DEF Attended, Freight!Ids
  <2>1. Freight!Resolvable(c) /\ Len(rows[c]) > 0
    BY <1>1 DEF Freight!Resolvable, Freight!AllSettled
  <2>2. c \in left \/ \E u \in Workers : Resolving(u, c)
    BY <2>1 DEF FreightInv, Attended
  <2>3. Resolving(t, c) => c \in left'
    BY <1>1 DEF Resolving
  <2> QED BY <1>1, <1>2, <2>2, <2>3 DEF Resolving
<1>6. TaskIsTrue(t)'
  BY <1>2, IdleIsTrue
<1> QED BY <1>2, <1>3, <1>4, <1>5, <1>6, FreightStepStands

LEMMA FreightStep ==
  ASSUME FreightInv, Freight!Next
  PROVE  FreightInv'
<1>1. ASSUME NEW b \in Freight!Ids, Freight!Stall(b) PROVE FreightInv'
  BY <1>1, FreightStays DEF Freight!Stall
<1>2. ASSUME NEW t \in Workers, Freight!EnqueueBatch(t) PROVE FreightInv'
  BY <1>2, DoneStands DEF Freight!EnqueueBatch
<1>3. ASSUME NEW t \in Workers,
             \/ Freight!ParseFails(t) \/ Freight!ParseBatch(t) \/ Freight!MatchAndPersist(t)
             \/ Freight!ActWrites(t) \/ Freight!ResidualWrites(t) \/ Freight!MaybeResolve(t) \/ Freight!TaskDies(t)
      PROVE  FreightInv'
  BY <1>3, ParseFailsStands, ParseBatchStands, MatchStands, ActWritesStands, ResidualWritesStands, MaybeResolveStands,
     TaskDiesStands
<1>4. ASSUME NEW t \in Workers, NEW b \in Freight!Ids,
             Freight!UploadInvoice(t, b) \/ Freight!TakeBatch(t, b) \/ Freight!ResidualReads(t, b)
      PROVE  FreightInv'
  BY <1>4, UploadStands, TakeStands, ResidualReadsStands
<1>5. ASSUME NEW t \in Workers, NEW b \in Freight!Ids, NEW i \in DOMAIN Invoices[b].lines,
             Freight!ActReads(t, b, i) \/ Freight!AttachEvidence(t, b, i)
      PROVE  FreightInv'
  BY <1>5, ActReadsStands, EvidenceStands
<1> QED BY <1>1, <1>2, <1>3, <1>4, <1>5 DEF Freight!Next

\* recon-workflow.service.ts: for any invoices, workers, members, stalls and
\* deaths and re-uploads, a batch is RESOLVED only when every row is settled and
\* its control total stands, its lines are written once, and it does not stay
\* MATCHED once it could be resolved unless somebody is about to resolve it or a
\* member's request died between settling the last row (or the residual) and that.
THEOREM BatchesSettle == Spec => []ResolvedIsSettled
<1>1. Init => FreightInv
  BY FreightInitially DEF Init
<1>2. FreightInv /\ [Next]_moneyVars => FreightInv'
  <2> SUFFICES ASSUME FreightInv, [Next]_moneyVars PROVE FreightInv'
    OBVIOUS
  <2>1. CASE Freight!Next
    BY <2>1, FreightStep
  <2>2. CASE UNCHANGED freightVars
    BY <2>2, FreightStays DEF freightVars
  <2> QED BY <2>1, <2>2 DEF Next, moneyVars
<1>3. FreightInv => ResolvedIsSettled
  BY FreightInvStands DEF ResolvedIsSettled
<1> QED BY <1>1, <1>2, <1>3, PTL DEF Spec, moneyVars

----------------------------------------------------------------------------
(* Prices.  A sum is a fold over subsets, and what it yields is shown from *)
(* the smallest subset for which it would be otherwise.                    *)

\* A nonempty set of numbers has a least one.
LEMMA HasLeast ==
  ASSUME NEW S \in SUBSET Nat, S # {}
  PROVE  \E x \in S : \A y \in S : x <= y
<1>1. PICK x \in S : \A y \in S : ~ (<<y, x>> \in OpToRel(<, Nat))
  <2>1. IsWellFoundedOn(OpToRel(<, Nat), Nat)
    BY NatLessThanWellFounded, Zenon
  <2> QED BY <2>1, WFMin, Zenon
<1>2. ASSUME NEW y \in S PROVE x <= y
  <2>1. ~ (y < x) /\ x \in Nat /\ y \in Nat
    BY <1>1, Zenon DEF OpToRel
  <2> QED BY <2>1
<1> QED BY <1>2

\* What the fold over the subsets of S has to be.
Pick(s) == CHOOSE x \in s : TRUE
Unfolds(g, f, S) ==
  g = [s \in SUBSET S |-> IF s = {} THEN 0 ELSE f[Pick(s)] + g[s \ {Pick(s)}]]

\* Two of them agree.
LEMMA UnfoldsOnce ==
  ASSUME NEW f, NEW S, IsFiniteSet(S), NEW g, NEW h, Unfolds(g, f, S), Unfolds(h, f, S)
  PROVE  g = h
<1> DEFINE bad == {s \in SUBSET S : g[s] # h[s]}
           sizes == {Cardinality(s) : s \in bad}
<1>1. \A s \in SUBSET S : IsFiniteSet(s) /\ Cardinality(s) \in Nat
  BY FS_Subset, FS_CardinalityType
<1>2. bad = {}
  <2> SUFFICES ASSUME bad # {} PROVE FALSE
    OBVIOUS
  <2>1. sizes \in SUBSET Nat /\ sizes # {}
    BY <1>1
  <2>2. PICK n \in sizes : \A m \in sizes : n <= m
    BY <2>1, HasLeast, Zenon
  <2>3. PICK s \in bad : n = Cardinality(s)
    OBVIOUS
  <2>4. s # {}
    BY DEF Unfolds
  <2>5. Pick(s) \in s
    BY <2>4 DEF Pick
  <2>6. s \ {Pick(s)} \in SUBSET S /\ Cardinality(s \ {Pick(s)}) = n - 1
    BY <1>1, <2>3, <2>5, FS_RemoveElement
  <2>7. s \ {Pick(s)} \notin bad
    BY <2>1, <2>2, <2>6
  <2>8. g[s \ {Pick(s)}] = h[s \ {Pick(s)}]
    BY <2>6, <2>7
  <2> QED BY <2>4, <2>8 DEF Unfolds
<1>3. g = [s \in SUBSET S |-> g[s]] /\ h = [s \in SUBSET S |-> h[s]]
  BY DEF Unfolds
<1> QED BY <1>2, <1>3

\* There is one, and it yields numbers.
LEMMA UnfoldsExists ==
  ASSUME NEW f, NEW S, IsFiniteSet(S), NEW Numbers \in {Nat, Int}, \A x \in S : f[x] \in Numbers
  PROVE  \E g : Unfolds(g, f, S) /\ \A s \in SUBSET S : g[s] \in Numbers
<1> DEFINE levels(n) == {s \in SUBSET S : Cardinality(s) <= n}
           upto(g, n) ==
             /\ g = [s \in levels(n) |-> IF s = {} THEN 0 ELSE f[Pick(s)] + g[s \ {Pick(s)}]]
             /\ \A s \in levels(n) : g[s] \in Numbers
           bad == {n \in Nat : ~ \E g : upto(g, n)}
<1>1. \A s \in SUBSET S : IsFiniteSet(s) /\ Cardinality(s) \in Nat
  BY FS_Subset, FS_CardinalityType
<1>2. ASSUME NEW s \in SUBSET S, s # {}
      PROVE  /\ Pick(s) \in s /\ s \ {Pick(s)} \in SUBSET S
             /\ Cardinality(s \ {Pick(s)}) = Cardinality(s) - 1
  <2>1. Pick(s) \in s
    BY <1>2 DEF Pick
  <2> QED BY <1>1, <2>1, FS_RemoveElement
<1>3. bad = {}
  <2> SUFFICES ASSUME bad # {} PROVE FALSE
    OBVIOUS
  <2>1. PICK n \in bad : \A m \in bad : n <= m
    BY HasLeast
  <2>2. CASE n = 0
    <3> DEFINE g == [s \in levels(0) |-> 0]
    <3>1. \A s \in levels(0) : s = {}
      BY <1>1, FS_EmptySet
    <3>2. upto(g, 0)
      BY <3>1
    <3> QED BY <2>2, <3>2
  <2>3. CASE n # 0
    <3>1. n \in Nat /\ n - 1 \in Nat /\ n - 1 \notin bad
      <4>1. n \in Nat /\ n - 1 \in Nat
        BY <2>3
      <4>2. ~ (n <= n - 1)
        BY <4>1
      <4> HIDE DEF bad
      <4> QED BY <2>1, <4>1, <4>2, Zenon
    <3>2. PICK g : upto(g, n - 1)
      BY <3>1
    <3> DEFINE h == [s \in levels(n) |-> IF s = {} THEN 0 ELSE f[Pick(s)] + g[s \ {Pick(s)}]]
    <3>3. \A s \in levels(n) : s # {} => s \ {Pick(s)} \in levels(n - 1) /\ s \ {Pick(s)} \in levels(n)
      BY <1>1, <1>2
    <3>4. ASSUME NEW s \in levels(n - 1) PROVE s \in levels(n) /\ h[s] = g[s]
      <4>1. s \in levels(n)
        BY <1>1, <3>1
      <4>2. g[s] = IF s = {} THEN 0 ELSE f[Pick(s)] + g[s \ {Pick(s)}]
        BY <3>2
      <4> QED BY <4>1, <4>2
    <3>5. ASSUME NEW s \in levels(n) PROVE h[s] \in Numbers
      <4>1. CASE s = {}
        BY <4>1
      <4>2. CASE s # {}
        <5>1. f[Pick(s)] \in Numbers
          BY <1>2, <4>2
        <5>2. g[s \ {Pick(s)}] \in Numbers
          BY <3>2, <3>3, <4>2
        <5> QED BY <4>2, <5>1, <5>2
      <4> QED BY <4>1, <4>2
    <3>6. h = [s \in levels(n) |-> IF s = {} THEN 0 ELSE f[Pick(s)] + h[s \ {Pick(s)}]]
      BY <3>3, <3>4
    <3>7. upto(h, n)
      BY <3>5, <3>6
    <3> QED BY <3>7
  <2> QED BY <2>2, <2>3
<1>4. Cardinality(S) \in Nat /\ levels(Cardinality(S)) = SUBSET S
  BY FS_Subset, FS_CardinalityType
<1>5. PICK g : upto(g, Cardinality(S))
  BY <1>3, <1>4
<1> QED BY <1>4, <1>5 DEF Unfolds

\* The sum of the community modules is that fold.
LEMMA SumUnfolds ==
  ASSUME NEW f, NEW S, IsFiniteSet(S), NEW g, Unfolds(g, f, S)
  PROVE  Freight!SumFunctionOnSet(f, S) = g[S]
<1> DEFINE fold == CHOOSE h : h = [s \in SUBSET S |-> IF s = {} THEN 0
                       ELSE f[CHOOSE x \in s : TRUE] + h[s \ {CHOOSE x \in s : TRUE}]]
<1>1. Freight!SumFunctionOnSet(f, S) = fold[S]
  BY Zenon DEF Freight!SumFunctionOnSet, Freight!FoldFunctionOnSet, Freight!MapThenFoldSet
<1>2. Unfolds(fold, f, S)
  BY Zenon DEF Unfolds, Pick
<1>3. fold = g
  BY <1>2, UnfoldsOnce, Zenon
<1> QED BY <1>1, <1>3

\* What the reconciliation needs of sums.
LEMMA SumsAreNumbers ==
  ASSUME NEW f, NEW S, IsFiniteSet(S), NEW Numbers \in {Nat, Int}, \A x \in S : f[x] \in Numbers
  PROVE  Freight!SumFunctionOnSet(f, S) \in Numbers
<1>1. PICK g : Unfolds(g, f, S) /\ \A s \in SUBSET S : g[s] \in Numbers
  BY UnfoldsExists
<1> QED BY <1>1, SumUnfolds

LEMMA SumOfOne ==
  ASSUME NEW f, NEW x, f[x] \in Int
  PROVE  Freight!SumFunctionOnSet(f, {x}) = f[x] /\ Freight!SumFunctionOnSet(f, {}) = 0
<1>1. IsFiniteSet({}) /\ IsFiniteSet({x})
  BY FS_EmptySet, FS_Singleton
<1>2. PICK g : Unfolds(g, f, {x}) /\ \A s \in SUBSET {x} : g[s] \in Int
  BY <1>1, UnfoldsExists
<1>3. PICK e : Unfolds(e, f, {})
  BY <1>1, UnfoldsExists
<1>4. g[{}] = 0 /\ e[{}] = 0
  BY <1>2, <1>3 DEF Unfolds
<1>5. Pick({x}) = x /\ {x} \ {x} = {}
  BY DEF Pick
<1>6. g[{x}] = f[Pick({x})] + g[{x} \ {Pick({x})}]
  BY <1>2 DEF Unfolds
<1>7. g[{x}] = f[x]
  BY <1>4, <1>5, <1>6
<1> QED BY <1>1, <1>2, <1>3, <1>4, <1>7, SumUnfolds

----------------------------------------------------------------------------
(* Prices are amounts.                                                     *)

LEMMA RoundedIsAmount ==
  ASSUME NEW n \in Nat, NEW d \in Nat \ {0}
  PROVE  Freight!RoundHalfUp(n, d) \in Nat
<1>1. n \div d \in Nat
  OBVIOUS
<1> QED BY <1>1 DEF Freight!RoundHalfUp

LEMMA RateIsAmount ==
  ASSUME NEW amount \in Nat, NEW pct \in Nat
  PROVE  Freight!ApplyRate(amount, pct) \in Nat
<1>1. amount * pct \in Nat
  OBVIOUS
<1> QED BY <1>1, RoundedIsAmount DEF Freight!ApplyRate

LEMMA SurchargeIsAmount ==
  ASSUME NEW row \in [basis : Bases, value : Nat, taxed : BOOLEAN],
         NEW base \in Nat, NEW fuel \in Nat, NEW cod \in Nat, NEW grams \in Nat, NEW declared \in Nat
  PROVE  Freight!Surcharge(row, base, fuel, cod, grams, declared) \in Nat
<1>1. row.value \in Nat /\ row.value * grams \in Nat /\ base + fuel + cod \in Nat
  OBVIOUS
<1>2. /\ Freight!ApplyRate(base, row.value) \in Nat /\ Freight!ApplyRate(base + fuel + cod, row.value) \in Nat
      /\ Freight!ApplyRate(declared, row.value) \in Nat
  BY <1>1, RateIsAmount
<1>4. Freight!RoundHalfUp(row.value * grams, 1000) \in Nat
  BY <1>1, RoundedIsAmount
<1>3. row.basis \in Bases
  OBVIOUS
<1> QED BY <1>1, <1>2, <1>3, <1>4 DEF Freight!Surcharge, Bases

LEMMA PricedIsAmount ==
  ASSUME NEW t, IsTariff(t), NEW base \in Nat, NEW fuel \in Nat, NEW cod \in Nat, NEW grams \in Nat,
         NEW declared \in Nat
  PROVE  LET p == Freight!Priced(t, base, fuel, cod, grams, declared)
         IN  p.priced /\ p.base = base /\ p.cod = cod /\ p.total \in Nat
<1> DEFINE extras == [i \in DOMAIN t.rows |-> Freight!Surcharge(t.rows[i], base, fuel, cod, grams, declared)]
           In(code, amount) == IF code \in t.taxable THEN amount ELSE 0
           taxed == [i \in DOMAIN extras |-> IF t.rows[i].taxed THEN extras[i] ELSE 0]
           net == base + fuel + cod + Freight!SumFunction(extras)
           taxable == In("F-5", base) + In("F-6", fuel) + In("F-7", cod) + In("F-8", Freight!SumFunction(taxed))
           gst == Freight!ApplyRate(taxable, t.gst)
<1>1. /\ IsFiniteSet(DOMAIN t.rows) /\ DOMAIN extras = DOMAIN t.rows /\ DOMAIN taxed = DOMAIN t.rows
      /\ \A i \in DOMAIN t.rows : t.rows[i] \in [basis : Bases, value : Nat, taxed : BOOLEAN]
  <2>1. t.rows \in Seq([basis : Bases, value : Nat, taxed : BOOLEAN])
    BY DEF IsTariff
  <2>2. DOMAIN t.rows = 1 .. Len(t.rows) /\ Len(t.rows) \in Nat
    BY <2>1
  <2>3. IsFiniteSet(1 .. Len(t.rows))
    BY <2>2, FS_Interval
  <2>4. \A i \in DOMAIN t.rows : t.rows[i] \in [basis : Bases, value : Nat, taxed : BOOLEAN]
    BY <2>1, <2>2, ElementOfSeq, Zenon
  <2>5. DOMAIN extras = DOMAIN t.rows /\ DOMAIN taxed = DOMAIN t.rows
    OBVIOUS
  <2> QED BY <2>2, <2>3, <2>4, <2>5
<1>2. \A i \in DOMAIN t.rows : extras[i] \in Nat
  BY <1>1, SurchargeIsAmount
<1>3. \A i \in DOMAIN t.rows : taxed[i] \in Nat
  BY <1>1, <1>2
<1>4. Freight!SumFunction(extras) \in Nat /\ Freight!SumFunction(taxed) \in Nat
  <2> HIDE DEF extras, taxed
  <2> QED BY <1>1, <1>2, <1>3, SumsAreNumbers DEF Freight!SumFunction
<1>5. net \in Nat /\ taxable \in Nat
  BY <1>4
<1>6. gst \in Nat
  <2>1. t.gst \in Nat
    BY DEF IsTariff
  <2> QED BY <1>5, <2>1, RateIsAmount
<1>7. Freight!Priced(t, base, fuel, cod, grams, declared)
        = [priced |-> TRUE, base |-> base, cod |-> cod, net |-> net, gst |-> gst, total |-> net + gst]
  BY DEF Freight!Priced
<1> QED BY <1>5, <1>6, <1>7

LEMMA SteppedIsAmount ==
  ASSUME NEW n \in Int, NEW d \in Nat \ {0}
  PROVE  Freight!CeilDiv(n, d) \in Nat
<1>1. CASE n <= 0
  BY <1>1 DEF Freight!CeilDiv
<1>2. CASE n > 0
  <2>1. n + d - 1 \in Nat
    BY <1>2
  <2>2. (n + d - 1) \div d \in Nat
    BY <2>1
  <2> QED BY <1>2, <2>2 DEF Freight!CeilDiv
<1> QED BY <1>1, <1>2

LEMMA FreightIsAmount ==
  ASSUME NEW t, IsTariff(t), NEW zone, NEW grams \in Nat, NEW collectible \in Nat, NEW declared \in Nat,
         Freight!Freight(t, zone, grams, collectible, declared).priced
  PROVE  LET q == Freight!Freight(t, zone, grams, collectible, declared)
         IN  q.base \in Nat /\ q.cod \in Nat /\ q.total \in Nat
<1> DEFINE q == Freight!Freight(t, zone, grams, collectible, declared)
           slab == t.slabs[zone]
           base == Freight!BaseFreight(slab, grams)
           fuel == Freight!ApplyRate(base, t.fuel)
           cod == Freight!CodCharge(t, collectible)
<1>1. zone # "none" /\ zone \in DOMAIN t.slabs
  BY DEF Freight!Freight, Freight!Unpriceable
<1>2. q = Freight!Priced(t, base, fuel, cod, grams, declared)
  BY <1>1 DEF Freight!Freight
<1>3. base \in Nat
  <2>1. slab \in [rate : Nat, upto : Nat, step : Nat \ {0}, stepRate : Nat]
    BY <1>1 DEF IsTariff
  <2>2. slab.rate \in Nat /\ grams - slab.upto \in Int /\ slab.step \in Nat \ {0} /\ slab.stepRate \in Nat
    BY <2>1
  <2>3. Freight!CeilDiv(grams - slab.upto, slab.step) \in Nat
    BY <2>2, SteppedIsAmount
  <2>4. Freight!CeilDiv(grams - slab.upto, slab.step) * slab.stepRate \in Nat
    BY <2>2, <2>3
  <2> QED BY <2>2, <2>4 DEF Freight!BaseFreight
<1>4. fuel \in Nat
  BY <1>3, RateIsAmount DEF IsTariff
<1>5. cod \in Nat
  <2>1. t.codFlat \in Nat /\ t.codPct \in Nat
    BY DEF IsTariff
  <2>2. Freight!ApplyRate(collectible, t.codPct) \in Nat
    BY <2>1, RateIsAmount
  <2> QED BY <2>1, <2>2 DEF Freight!CodCharge, Freight!Larger
<1> HIDE DEF base, fuel, cod
<1>6. LET p == Freight!Priced(t, base, fuel, cod, grams, declared)
      IN  p.priced /\ p.base = base /\ p.cod = cod /\ p.total \in Nat
  BY <1>3, <1>4, <1>5, PricedIsAmount, Zenon
<1> HIDE DEF q
<1>7. q.base = base /\ q.cod = cod /\ q.total \in Nat
  BY <1>2, <1>6, Zenon
<1> QED BY <1>3, <1>5, <1>7 DEF q

LEMMA ReturnIsAmount ==
  ASSUME NEW t, IsTariff(t), NEW forward \in Nat, NEW grams \in Nat, NEW declared \in Nat
  PROVE  Freight!ReturnFreight(t, forward, grams, declared).total \in Nat
<1> DEFINE base == IF t.rto = "SAME_AS_FORWARD" THEN forward ELSE Freight!ApplyRate(forward, t.rtoPct)
           fuel == Freight!ApplyRate(base, t.fuel)
<1>1. t.rtoPct \in Nat /\ t.fuel \in Nat
  BY DEF IsTariff
<1>2. base \in Nat
  BY <1>1, RateIsAmount
<1>3. fuel \in Nat
  BY <1>1, <1>2, RateIsAmount
<1>4. Freight!ReturnFreight(t, forward, grams, declared) = Freight!Priced(t, base, fuel, 0, grams, declared)
  BY DEF Freight!ReturnFreight
<1> HIDE DEF base, fuel
<1>5. 0 \in Nat
  OBVIOUS
<1> QED BY <1>2, <1>3, <1>4, <1>5, PricedIsAmount

LEMMA WeightIsGrams ==
  ASSUME NEW box, IsBox(box), NEW service, {service.divisor, service.min, service.increment} \subseteq Nat,
         Freight!Weighable(service)
  PROVE  Freight!Billable(box, service) \in Nat
<1> DEFINE raw == Freight!Larger(box.dead, Freight!Volumetric(box, service.divisor))
<1>1. /\ box.dead \in Nat /\ box.l \in Nat /\ box.w \in Nat /\ box.h \in Nat /\ service.min \in Nat
      /\ service.divisor \in Nat \ {0} /\ service.increment \in Nat \ {0}
  BY DEF IsBox, Freight!Weighable
<1>2. box.l * box.w * box.h * 1000 \in Nat
  <2>1. box.l * box.w \in Nat
    BY <1>1
  <2>2. box.l * box.w * box.h \in Nat
    BY <1>1, <2>1
  <2> QED BY <2>2
<1>3. Freight!Volumetric(box, service.divisor) \in Nat
  BY <1>1, <1>2, RoundedIsAmount DEF Freight!Volumetric
<1>4. raw \in Nat
  BY <1>1, <1>3 DEF Freight!Larger
<1>5. Freight!CeilDiv(raw, service.increment) \in Nat
  BY <1>1, <1>4, SteppedIsAmount
<1>6. Freight!CeilDiv(raw, service.increment) * service.increment \in Nat
  BY <1>1, <1>5
<1> QED BY <1>1, <1>6 DEF Freight!Billable, Freight!Larger

----------------------------------------------------------------------------
(* A bill of a frozen quote.                                               *)

LEMMA BillPasses ==
  ASSUME NEW s, snapshot = s, FrozenStands(s), NEW n \in 1 .. Cardinality(ChargeTypes),
         NEW weight \in {Freight!Unknown, s.grams}, NEW order \in [1 .. n -> ChargeTypes],
         Freight!IsInjective(order), bill = Itemised(order, weight)
  PROVE  /\ \A key \in Freight!Groups(bill) :
              LET o == Freight!MatchGroup([w |-> s], bill, key) IN ~o.mismatch /\ ~o.review /\ ~o.notFound
         /\ Freight!ControlOf([w |-> s], bill) = "WITHIN_THRESHOLD"
<1> DEFINE N == 1 .. n
           key(i) == <<"w", order[i]>>
           amounts == [i \in N |-> Charge(order[i])]
<1>1. IsFiniteSet(N) /\ DOMAIN order = N /\ \A i \in N : order[i] \in ChargeTypes /\ i \in Int
  <2>1. IsFiniteSet(ChargeTypes) /\ Cardinality(ChargeTypes) \in Nat
    <3>1. ChargeTypes = (({} \cup {"FORWARD"}) \cup {"COD_FEE"}) \cup {"RTO"}
      BY DEF ChargeTypes
    <3>2. IsFiniteSet({})
      BY FS_EmptySet
    <3>3. IsFiniteSet({} \cup {"FORWARD"})
      BY <3>2, FS_AddElement
    <3>4. IsFiniteSet(({} \cup {"FORWARD"}) \cup {"COD_FEE"})
      BY <3>3, FS_AddElement
    <3>5. IsFiniteSet(ChargeTypes)
      BY <3>1, <3>4, FS_AddElement
    <3> QED BY <3>5, FS_CardinalityType
  <2>2. n \in Nat
    BY <2>1
  <2>3. IsFiniteSet(N)
    BY <2>2, FS_Interval
  <2> QED BY <2>3
<1>2. \A type \in ChargeTypes : Charge(type) \in Nat
  <2>1. s.total \in Nat /\ s.cod \in Nat /\ s.base \in Nat /\ s.grams \in Nat /\ s.declared \in Nat
    BY DEF FrozenStands
  <2>2. Freight!ReturnFreight(s.tariff, s.base, s.grams, s.declared).total \in Nat
    BY <2>1, ReturnIsAmount DEF FrozenStands
  <2> QED BY <2>1, <2>2 DEF Charge, ChargeTypes
<1>3. /\ DOMAIN bill.lines = N /\ bill.declared = Freight!SumFunction(amounts)
      /\ \A i \in N : bill.lines[i] = [awb |-> "w", type |-> order[i], amount |-> Charge(order[i]), weight |-> weight]
  BY <1>1 DEF Itemised
<1>4. \A i \in N : /\ bill.lines[i].awb = "w" /\ bill.lines[i].type = order[i] /\ bill.lines[i].weight = weight
                   /\ bill.lines[i].amount = Charge(order[i]) /\ bill.lines[i].amount \in Nat
                   /\ Freight!KeyOf(bill.lines[i]) = key(i)
  <2> SUFFICES ASSUME NEW i \in N
               PROVE  /\ bill.lines[i].awb = "w" /\ bill.lines[i].type = order[i] /\ bill.lines[i].weight = weight
                      /\ bill.lines[i].amount = Charge(order[i]) /\ bill.lines[i].amount \in Nat
                      /\ Freight!KeyOf(bill.lines[i]) = key(i)
    OBVIOUS
  <2>1. bill.lines[i] = [awb |-> "w", type |-> order[i], amount |-> Charge(order[i]), weight |-> weight]
    BY <1>3
  <2>2. Charge(order[i]) \in Nat
    BY <1>1, <1>2
  <2> QED BY <2>1, <2>2 DEF Freight!KeyOf
<1>5. \A i \in N : Freight!LinesOf(bill, key(i)) = {i}
  <2> SUFFICES ASSUME NEW i \in N PROVE Freight!LinesOf(bill, key(i)) = {i}
    OBVIOUS
  <2>1. \A j \in N : key(j) = key(i) => j = i
    BY <1>1 DEF Freight!IsInjective
  <2> QED BY <1>3, <1>4, <2>1 DEF Freight!LinesOf
<1>6. Freight!LinesOf(bill, <<"w", "ADJUSTMENT">>) = {}
  <2>1. \A i \in N : key(i) # <<"w", "ADJUSTMENT">>
    BY <1>1 DEF ChargeTypes
  <2> QED BY <1>3, <1>4, <2>1 DEF Freight!LinesOf
<1>7. [i \in DOMAIN bill.lines |-> IF bill.lines[i].amount = Freight!Unknown THEN 0 ELSE bill.lines[i].amount] = amounts
  <2>1. \A i \in N : bill.lines[i].amount # Freight!Unknown
    BY <1>4 DEF Freight!Unknown
  <2> QED BY <1>3, <1>4, <2>1
<1>8. \A S : Freight!SumOver(bill, S) = Freight!SumFunctionOnSet(amounts, S)
  BY <1>7 DEF Freight!SumOver
<1>9. \A i \in N : amounts[i] = Charge(order[i]) /\ amounts[i] \in Nat
  BY <1>1, <1>2
<1>10. \A i \in N : Freight!SumOver(bill, {i}) = Charge(order[i]) /\ Freight!SumOver(bill, {}) = 0
  <2> SUFFICES ASSUME NEW i \in N PROVE Freight!SumOver(bill, {i}) = Charge(order[i]) /\ Freight!SumOver(bill, {}) = 0
    OBVIOUS
  <2>1. amounts[i] \in Int
    BY <1>9
  <2> HIDE DEF amounts
  <2> QED BY <1>8, <1>9, <2>1, SumOfOne
<1>11. 1 \in N
  BY <1>1
<1>12. \A i \in N : Freight!AdjustmentsTo(bill, key(i)) = 0
  BY <1>6, <1>10 DEF Freight!AdjustmentsTo
<1>13. \A i \in N, w \in {Freight!Unknown, s.grams} : Freight!Expectation(order[i], s, w) = Charge(order[i])
  <2> SUFFICES ASSUME NEW i \in N, NEW w \in {Freight!Unknown, s.grams}
               PROVE  Freight!Expectation(order[i], s, w) = Charge(order[i])
    OBVIOUS
  <2>1. Freight!AuditWeight(s, w) = s.grams
    BY DEF Freight!AuditWeight
  <2>2. Freight!ForwardExpectation(s, w) = s.total
    BY <2>1 DEF Freight!ForwardExpectation, FrozenStands
  <2>3. Freight!RtoExpectation(s, w) = Freight!ReturnFreight(s.tariff, s.base, s.grams, s.declared).total
    BY <2>1 DEF Freight!RtoExpectation, FrozenStands
  <2> QED BY <1>1, <2>2, <2>3 DEF Freight!Expectation, Charge, ChargeTypes, FrozenStands
<1>14. ASSUME NEW i \in N
       PROVE  LET o == Freight!MatchGroup([w |-> s], bill, key(i)) IN ~o.mismatch /\ ~o.review /\ ~o.notFound
  <2> DEFINE lines == Freight!LinesOf(bill, key(i))
             weighed == {j \in lines : bill.lines[j].weight # Freight!Unknown}
             found == IF weighed = {} THEN Freight!Unknown ELSE bill.lines[Freight!Min(weighed)].weight
             expected == Freight!Expectation(order[i], s, found)
  <2>1. found \in {Freight!Unknown, s.grams}
    <3>1. CASE weight = Freight!Unknown
      <4>1. weighed = {}
        BY <1>4, <1>5, <3>1
      <4> QED BY <4>1
    <3>2. CASE weight # Freight!Unknown
      <4>1. weighed = {i}
        BY <1>4, <1>5, <3>2
      <4>2. Freight!Min({i}) = i
        BY <1>1 DEF Freight!Min
      <4>3. bill.lines[Freight!Min(weighed)].weight = weight
        BY <1>4, <4>1, <4>2
      <4> QED BY <3>2, <4>1, <4>3
    <3> QED BY <3>1, <3>2
  <2>2. expected = Charge(order[i]) /\ expected \in Nat
    <3> HIDE DEF found
    <3> QED BY <1>1, <1>2, <1>13, <2>1
  <2>3. key(i)[1] = "w" /\ key(i)[2] = order[i] /\ "w" \in DOMAIN [w |-> s] /\ [w |-> s].w = s
    OBVIOUS
  <2>4. ~ \E j \in lines : bill.lines[j].amount = Freight!Unknown
    BY <1>4, <1>5 DEF Freight!Unknown
  <2>5. expected # Freight!Unknown
    BY <2>2 DEF Freight!Unknown
  <2>6. Freight!SumOver(bill, lines) = expected
    BY <1>5, <1>10, <2>2
  <2>7. Freight!AmountMismatch(expected, 0, expected) = FALSE
    <3>1. \A e \in Nat, a \in Nat : ~ (e + 0 - e > a) /\ ~ (e + 0 - e < -a)
      OBVIOUS
    <3>2. AmountTolerance \in Nat
      BY PricesAssumption
    <3> HIDE DEF expected
    <3> QED BY <2>2, <3>1, <3>2 DEF Freight!AmountMismatch
  <2>8. Freight!MatchGroup([w |-> s], bill, key(i)) =
          [notFound |-> FALSE,
           review |-> (expected = Freight!Unknown \/ Freight!SumOver(bill, lines) < 0),
           mismatch |-> expected # Freight!Unknown
                        /\ Freight!AmountMismatch(Freight!SumOver(bill, lines), Freight!AdjustmentsTo(bill, key(i)), expected)]
    <3> HIDE DEF expected
    <3>1. (IF key(i)[1] \in DOMAIN [w |-> s] THEN Freight!Expectation(key(i)[2], [w |-> s][key(i)[1]], found)
           ELSE Freight!Unknown) = expected
      BY <2>3 DEF expected
    <3> HIDE DEF lines, found, key
    <3> QED BY <2>3, <2>4, <3>1 DEF Freight!MatchGroup, lines, found
  <2>9. ~ (expected < 0)
    BY <2>2
  <2>10. Freight!AdjustmentsTo(bill, key(i)) = 0
    BY <1>12
  <2> HIDE DEF expected, lines, key
  <2>11. Freight!MatchGroup([w |-> s], bill, key(i)) = [notFound |-> FALSE, review |-> FALSE, mismatch |-> FALSE]
    BY <2>5, <2>6, <2>7, <2>8, <2>9, <2>10
  <2> QED BY <2>11
<1>15. \A k \in Freight!Groups(bill) : \E i \in N : k = key(i)
  BY <1>3, <1>4 DEF Freight!Groups
<1>16. Freight!ControlOf([w |-> s], bill) = "WITHIN_THRESHOLD"
  <2> DEFINE reviewed == {i \in DOMAIN bill.lines :
               LET o == Freight!Outcome([w |-> s], bill, Freight!KeyOf(bill.lines[i])) IN o.review \/ o.notFound}
  <2>1. \A i \in N : Freight!Outcome([w |-> s], bill, key(i)) = Freight!MatchGroup([w |-> s], bill, key(i))
    <3>1. \A i \in N : key(i)[2] # "ADJUSTMENT"
      BY <1>1 DEF ChargeTypes
    <3> QED BY <3>1 DEF Freight!Outcome
  <2>2. \A i \in N : LET o == Freight!Outcome([w |-> s], bill, Freight!KeyOf(bill.lines[i])) IN ~ (o.review \/ o.notFound)
    <3> HIDE DEF key
    <3> QED BY <1>4, <1>14, <2>1
  <2>3. reviewed = {}
    <3> HIDE DEF key
    <3> QED BY <1>3, <2>2
  <2>4. Freight!SumOver(bill, reviewed) = 0
    BY <1>10, <1>11, <2>3
  <2>5. Freight!SumOver(bill, DOMAIN bill.lines \ reviewed) = bill.declared
    <3>1. DOMAIN bill.lines \ reviewed = N /\ DOMAIN amounts = N
      <4> HIDE DEF reviewed
      <4> QED BY <1>3, <2>3
    <3> HIDE DEF amounts, reviewed
    <3> QED BY <1>3, <1>8, <3>1 DEF Freight!SumFunction
  <2>6. bill.declared \in Nat
    <3>1. DOMAIN amounts = N
      OBVIOUS
    <3> HIDE DEF amounts
    <3>2. Freight!SumFunctionOnSet(amounts, N) \in Nat
      BY <1>1, <1>9, SumsAreNumbers
    <3> QED BY <1>3, <3>1, <3>2 DEF Freight!SumFunction
  <2>7. Freight!ControlTotal(bill.declared, bill.declared, 0) = "WITHIN_THRESHOLD"
    <3>1. bill.declared * 5 \in Nat
      BY <2>6
    <3>2. (bill.declared * 5) \div 1000 \in Nat
      BY <3>1
    <3>3. Freight!Larger((bill.declared * 5) \div 1000, ControlFloor) \in Nat
      BY <3>2, PricesAssumption DEF Freight!Larger
    <3> QED BY <2>6, <3>3 DEF Freight!ControlTotal
  <2> QED BY <2>4, <2>5, <2>7 DEF Freight!ControlOf
<1> HIDE DEF key
<1> QED BY <1>14, <1>15, <1>16

LEMMA QuotesInvSuffices ==
  QuotesInv => HonestBillPasses
<1> SUFFICES ASSUME QuotesInv, bill # NoBill
             PROVE  /\ \A key \in Freight!Groups(bill) :
                         LET o == Freight!MatchGroup([w |-> snapshot], bill, key)
                         IN ~o.mismatch /\ ~o.review /\ ~o.notFound
                    /\ Freight!ControlOf([w |-> snapshot], bill) = "WITHIN_THRESHOLD"
  BY DEF HonestBillPasses
<1>1. FrozenStands(snapshot)
  BY DEF QuotesInv
<1>2. PICK n \in 1 .. Cardinality(ChargeTypes), weight \in {Freight!Unknown, snapshot.grams} :
        \E order \in [1 .. n -> ChargeTypes] : Freight!IsInjective(order) /\ bill = Itemised(order, weight)
  BY DEF QuotesInv
<1>3. PICK order \in [1 .. n -> ChargeTypes] : Freight!IsInjective(order) /\ bill = Itemised(order, weight)
  BY <1>2
<1> QED BY <1>1, <1>3, BillPasses, Zenon

----------------------------------------------------------------------------
(* A booking freezes such a quote.                                         *)

LEMMA QuoteFreezes ==
  ASSUME QuotesInv, NEW parcel \in Goods, NEW day \in Days, Quote(parcel, day)
  PROVE  QuotesInv'
<1> DEFINE seller == [origin |-> Seller.origin, places |-> Seller.places, services |-> Seller.services,
                      versions |-> versions]
           quoted == Freight!Estimate(seller, parcel, day)
           version == CHOOSE v \in Freight!InForce(versions, day) : TRUE
           service == CHOOSE v \in Freight!InForce(Seller.services, day) : TRUE
           zone == Freight!Zone(version.rules, Seller.places[Seller.origin], Seller.places[parcel.to])
           grams == Freight!Billable(parcel.box, service)
           frozen == [basis |-> "RATE_CARD", tariff |-> version.tariff, zone |-> zone, grams |-> grams,
                      collectible |-> parcel.collectible, declared |-> parcel.declared,
                      base |-> quoted.base, cod |-> quoted.cod, total |-> quoted.total, net |-> quoted.net]
           priced == Freight!Freight(version.tariff, zone, grams, parcel.collectible, parcel.declared)
<1>1. snapshot = NotBooked /\ quoted.priced /\ snapshot' = frozen /\ UNCHANGED <<versions, bill>>
  BY Zenon DEF Quote
<1>2. /\ Seller.origin # "none" /\ Freight!InForce(versions, day) # {} /\ Freight!InForce(Seller.services, day) # {}
      /\ Freight!Weighable(service) /\ quoted = priced
  <2>1. /\ seller.origin = Seller.origin /\ seller.places = Seller.places /\ seller.services = Seller.services
        /\ seller.versions = versions
    OBVIOUS
  <2> HIDE DEF seller
  <2>2. Seller.origin # "none"
    BY <1>1, <2>1 DEF Freight!Estimate, Freight!Unpriceable
  <2>3. Freight!InForce(versions, day) # {}
    BY <1>1, <2>1, <2>2 DEF Freight!Estimate, Freight!Unpriceable
  <2>4. quoted = IF Freight!InForce(Seller.services, day) = {} THEN Freight!Unpriceable("SERVICE_VERSION_MISSING")
                 ELSE IF ~Freight!Weighable(service) THEN Freight!Unpriceable("DIVISOR_MISSING")
                 ELSE priced
    BY <2>1, <2>2, <2>3 DEF Freight!Estimate
  <2>5. \A reason : Freight!Unpriceable(reason).priced = FALSE
    BY DEF Freight!Unpriceable
  <2> HIDE DEF quoted, priced, service
  <2> QED BY <1>1, <2>2, <2>3, <2>4, <2>5
<1>3. version \in versions /\ service \in Seller.services
  BY <1>2 DEF Freight!InForce
<1>4. IsTariff(version.tariff)
  BY <1>3 DEF QuotesInv
<1>5. parcel.collectible \in Nat /\ parcel.declared \in Nat /\ IsBox(parcel.box)
  BY PricesAssumption
<1>6. grams \in Nat
  <2>1. {service.divisor, service.min, service.increment} \subseteq Nat
    BY <1>3, PricesAssumption
  <2> QED BY <1>2, <1>5, <2>1, WeightIsGrams, Zenon
<1> HIDE DEF quoted
<1>7. priced.priced
  BY <1>1, <1>2
<1>8. LET q == priced IN q.base \in Nat /\ q.cod \in Nat /\ q.total \in Nat
  <2> HIDE DEF version, zone, grams
  <2> QED BY <1>4, <1>5, <1>6, <1>7, FreightIsAmount, Zenon
<1>9. FrozenStands(frozen)
  <2> HIDE DEF version, zone, grams
  <2>1. /\ frozen.basis = "RATE_CARD" /\ frozen.tariff = version.tariff /\ frozen.zone = zone /\ frozen.grams = grams
        /\ frozen.collectible = parcel.collectible /\ frozen.declared = parcel.declared
        /\ frozen.base = quoted.base /\ frozen.cod = quoted.cod /\ frozen.total = quoted.total
    OBVIOUS
  <2> HIDE DEF frozen
  <2> QED BY <1>2, <1>4, <1>5, <1>6, <1>7, <1>8, <2>1 DEF FrozenStands
<1>10. bill = NoBill
  BY <1>1 DEF QuotesInv
<1> HIDE DEF frozen
<1> QED BY <1>1, <1>9, <1>10 DEF QuotesInv

LEMMA QuotesStep ==
  ASSUME QuotesInv, QuotesMove
  PROVE  QuotesInv'
<1>1. CASE CreateVersion
  <2>1. PICK t \in Tariffs, since \in Days, upto \in Days :
          versions' = versions \cup {[since |-> since, upto |-> upto, rules |-> t.rules, tariff |-> t.tariff]}
    BY <1>1, Zenon DEF CreateVersion
  <2>2. UNCHANGED <<snapshot, bill>>
    BY <1>1 DEF CreateVersion
  <2>3. IsTariff(t.tariff)
    BY PricesAssumption
  <2>4. \A v \in versions' : IsTariff(v.tariff)
    BY <2>1, <2>3 DEF QuotesInv
  <2>5. /\ snapshot' = NotBooked \/ FrozenStands(snapshot')
        /\ bill' # NoBill =>
             /\ snapshot' # NotBooked
             /\ \E n \in 1 .. Cardinality(ChargeTypes), weight \in {Freight!Unknown, snapshot'.grams} :
                  \E order \in [1 .. n -> ChargeTypes] :
                     Freight!IsInjective(order) /\ bill' = Itemised(order, weight)'
    <3>1. \A o, w : Itemised(o, w)' = Itemised(o, w)
      BY <2>2 DEF Itemised, Charge
    <3> QED BY <2>2, <3>1 DEF QuotesInv
  <2> QED BY <2>4, <2>5 DEF QuotesInv
<1>2. ASSUME NEW parcel \in Goods, NEW day \in Days, Quote(parcel, day) PROVE QuotesInv'
  BY <1>2, QuoteFreezes
<1>3. CASE Bill
  <2>1. UNCHANGED <<versions, snapshot>> /\ snapshot # NotBooked
    BY <1>3 DEF Bill
  <2>2. PICK n \in 1 .. Cardinality(ChargeTypes), weight \in {Freight!Unknown, snapshot.grams} :
          \E order \in [1 .. n -> ChargeTypes] : Freight!IsInjective(order) /\ bill' = Itemised(order, weight)
    BY <1>3, Zenon DEF Bill
  <2>3. PICK order \in [1 .. n -> ChargeTypes] : Freight!IsInjective(order) /\ bill' = Itemised(order, weight)
    BY <2>2
  <2>4. Itemised(order, weight)' = Itemised(order, weight)
    BY <2>1 DEF Itemised, Charge
  <2> QED BY <2>1, <2>3, <2>4 DEF QuotesInv
<1> QED BY <1>1, <1>2, <1>3 DEF QuotesMove

\* recon-matching.ts against pricing.ts: for any rate cards, parcels and days, an
\* invoice that bills a shipment for exactly what its booking quoted, in whatever
\* order of charges and with or without a weight, is not disputed.
THEOREM HonestBillsPass == Spec => []HonestBillPasses
<1>1. Init => QuotesInv
  BY DEF Init, QuotesInit, QuotesInv
<1>2. QuotesInv /\ [Next]_moneyVars => QuotesInv'
  <2> SUFFICES ASSUME QuotesInv, [Next]_moneyVars PROVE QuotesInv'
    OBVIOUS
  <2>1. CASE QuotesMove
    BY <2>1, QuotesStep
  <2>2. CASE UNCHANGED quoteVars
    <3>1. UNCHANGED <<versions, snapshot, bill>>
      BY <2>2 DEF quoteVars
    <3>2. \A o, w : Itemised(o, w)' = Itemised(o, w)
      BY <3>1 DEF Itemised, Charge
    <3> QED BY <3>1, <3>2 DEF QuotesInv
  <2> QED BY <2>1, <2>2 DEF Next, moneyVars
<1>3. QuotesInv => HonestBillPasses
  BY QuotesInvSuffices
<1> QED BY <1>1, <1>2, <1>3, PTL DEF Spec, moneyVars

=============================================================================
