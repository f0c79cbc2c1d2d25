------------------------------- MODULE CodRecon -------------------------------
(***************************************************************************)
(* COD reconciliation: what a courier owes for delivered parcels, the      *)
(* remittance files a member uploads, and the workers that allocate their  *)
(* rows.  A worker, a request and a tracking seam are tasks; a recompute   *)
(* reads the allocations in one statement and writes the state in another. *)
(***************************************************************************)
EXTENDS Integers, Sequences, FiniteSets, FiniteSetsExt, Functions

CONSTANTS
  CodTasks,     \* workers, requests and seams at work
  Docked,       \* shipments with something to collect
  Files,        \* sequence of remittance files, each a sequence of [of, amount]
  Readable,     \* the files whose header a column map fits from the start
  Owed,         \* the Collectible of a shipment
  Tolerance,    \* S-29
  MaxUploads,   \* bound on uploads
  MaxDeaths     \* bound on worker deaths

VARIABLES
  parcels,   \* shipments by what tracking has made of them
  overdue,   \* shipments whose due date has passed
  expect,    \* recon_cod_expected
  alloc,     \* recon_cod_allocation, append-only: <<file, row>>
  files,     \* recon_cod_batch by state, and the uploads of the file so far
  jobs,      \* BullMQ's job of a file; a finished job keeps its id
  ctask,     \* per task: what it has read and still has to do
  deaths

codVars == <<parcels, overdue, expect, alloc, files, jobs, ctask, deaths>>

----------------------------------------------------------------------------

Batches == DOMAIN Files
Absent == [state |-> "none", version |-> 0]
AtEase == [pc |-> "idle", file |-> 0, row |-> 0, of |-> "none", version |-> 0, next |-> "none"]

Init ==
  /\ parcels = [s \in Docked |-> "moving"]
  /\ overdue = {}
  /\ expect = [s \in Docked |-> Absent]
  /\ alloc = {}
  /\ files = [b \in Batches |-> [state |-> "none", uploads |-> 0]]
  /\ jobs = [b \in Batches |-> "none"]
  /\ ctask = [t \in CodTasks |-> AtEase]
  /\ deaths = 0

Rest(t) == ctask' = [ctask EXCEPT ![t] = AtEase]
Step(t, pc) == ctask' = [ctask EXCEPT ![t].pc = pc]

----------------------------------------------------------------------------
(* The tracking seams.                                                     *)

\* createOnDelivered: one row per shipment.
CreateOnDelivered(s) ==
  /\ parcels[s] # "delivered"
  /\ parcels' = [parcels EXCEPT ![s] = "delivered"]
  /\ expect' = [expect EXCEPT ![s] = IF @ = Absent THEN [state |-> "AWAITING", version |-> 1] ELSE @]
  /\ UNCHANGED <<overdue, alloc, files, jobs, ctask, deaths>>

\* onRtoInitiated runs after the COMMIT of the event, and a parcel called back
\* may be delivered before it does.
RtoStarts(t, s) ==
  /\ ctask[t] = AtEase /\ parcels[s] = "moving"
  /\ parcels' = [parcels EXCEPT ![s] = "returning"]
  /\ ctask' = [ctask EXCEPT ![t] = [AtEase EXCEPT !.pc = "rto", !.of = s]]
  /\ UNCHANGED <<overdue, expect, alloc, files, jobs, deaths>>

\* markRtoUncollected reads the row with its version ...
RtoReads(t) ==
  /\ ctask[t].pc = "rto"
  /\ IF expect[ctask[t].of].state \in {"none", "RTO_UNCOLLECTED"} THEN Rest(t)
     ELSE ctask' = [ctask EXCEPT ![t].pc = "flip", ![t].version = expect[ctask[t].of].version]
  /\ UNCHANGED <<parcels, overdue, expect, alloc, files, jobs, deaths>>

\* ... and writes only that version.
RtoFlips(t) ==
  /\ ctask[t].pc = "flip"
  /\ LET s == ctask[t].of
     IN expect' = IF expect[s].version = ctask[t].version
                  THEN [expect EXCEPT ![s] = [state |-> "RTO_UNCOLLECTED", version |-> @.version + 1]]
                  ELSE expect
  /\ Rest(t)
  /\ UNCHANGED <<parcels, overdue, alloc, files, jobs, deaths>>

\* Time: computeDueDate's day is over in the shop's zone.
DueDatePasses(s) ==
  /\ expect[s] # Absent /\ overdue' = overdue \cup {s}
  /\ UNCHANGED <<parcels, expect, alloc, files, jobs, ctask, deaths>>

\* The daily sweep, one statement.
DueSweep ==
  /\ \E s \in overdue : expect[s].state \in {"AWAITING", "SHORT"}
  /\ expect' = [s \in Docked |->
       IF s \in overdue /\ expect[s].state \in {"AWAITING", "SHORT"}
       THEN [state |-> "PENDING_OVERDUE", version |-> expect[s].version + 1] ELSE expect[s]]
  /\ UNCHANGED <<parcels, overdue, alloc, files, jobs, ctask, deaths>>

----------------------------------------------------------------------------
(* The files.                                                              *)

\* uploadBatch: a known file is a no-op unless it FAILED, then its row is used
\* again; the controller enqueues the job afterwards.
Upload(t, b) ==
  /\ ctask[t] = AtEase /\ files[b].uploads < MaxUploads
  /\ files[b].state \in {"none", "FAILED"}
  /\ files' = [files EXCEPT ![b] = [state |-> "UPLOADED", uploads |-> @.uploads + 1]]
  /\ ctask' = [ctask EXCEPT ![t] = [AtEase EXCEPT !.pc = "enqueue", !.file = b]]
  /\ UNCHANGED <<parcels, overdue, expect, alloc, jobs, deaths>>

\* A job id BullMQ still knows is not added again.
Enqueue(t) ==
  /\ ctask[t].pc = "enqueue"
  /\ jobs' = [jobs EXCEPT ![ctask[t].file] = IF @ = "none" THEN "waiting" ELSE @]
  /\ Rest(t)
  /\ UNCHANGED <<parcels, overdue, expect, alloc, files, deaths>>

\* removeOnComplete: an old finished job is forgotten.
ForgetJob(b) ==
  /\ jobs[b] = "finished"
  /\ jobs' = [jobs EXCEPT ![b] = "none"]
  /\ UNCHANGED <<parcels, overdue, expect, alloc, files, ctask, deaths>>

\* processBatch: UPLOADED only; a file that does not parse fails.
Parses(b) == b \in Readable \/ files[b].uploads > 1
ProcessBatch(t, b) ==
  /\ ctask[t] = AtEase /\ jobs[b] = "waiting"
  /\ \/ /\ files[b].state # "UPLOADED"
        /\ jobs' = [jobs EXCEPT ![b] = "finished"]
        /\ UNCHANGED <<files, ctask>>
     \/ /\ files[b].state = "UPLOADED" /\ ~Parses(b)
        /\ files' = [files EXCEPT ![b].state = "FAILED"]
        /\ jobs' = [jobs EXCEPT ![b] = "finished"]
        /\ UNCHANGED ctask
     \/ /\ files[b].state = "UPLOADED" /\ Parses(b)
        /\ files' = [files EXCEPT ![b].state = "PARSED"]
        /\ jobs' = [jobs EXCEPT ![b] = "active"]
        /\ ctask' = [ctask EXCEPT ![t] = [AtEase EXCEPT !.pc = "row", !.file = b, !.row = 1]]
  /\ UNCHANGED <<parcels, overdue, expect, alloc, deaths>>

Row(t) == Files[ctask[t].file][ctask[t].row]

\* One row: unmatched without an expectation, else one allocation by key, and
\* a recompute of an expectation that was not RTO_UNCOLLECTED.
AllocateRow(t) ==
  /\ ctask[t].pc = "row" /\ ctask[t].row <= Len(Files[ctask[t].file])
  /\ LET s == Row(t).of
     IN IF expect[s] = Absent THEN ctask' = [ctask EXCEPT ![t].row = @ + 1] /\ UNCHANGED alloc
        ELSE /\ alloc' = alloc \cup {<<ctask[t].file, ctask[t].row>>}
             /\ ctask' = IF expect[s].state = "RTO_UNCOLLECTED" THEN [ctask EXCEPT ![t].row = @ + 1]
                         ELSE [ctask EXCEPT ![t].pc = "sum", ![t].of = s]
  /\ UNCHANGED <<parcels, overdue, expect, files, jobs, deaths>>

Allocated(s) == MapThenSumSet(LAMBDA a : Files[a[1]][a[2]].amount, {a \in alloc : Files[a[1]][a[2]].of = s})

\* deriveCodState (F-13).
CodState(received, current, late) ==
  LET diff == received - Owed
  IN CASE current = "RTO_UNCOLLECTED" -> current
       [] received = 0 -> IF late THEN "PENDING_OVERDUE" ELSE "AWAITING"
       [] diff <= Tolerance /\ -diff <= Tolerance -> "TALLIED"
       [] diff > Tolerance -> "EXCESS"
       [] late -> "PENDING_OVERDUE"
       [] OTHER -> "SHORT"

\* recomputeState reads the sum, the state and the day ...
RecomputeReads(t) ==
  /\ ctask[t].pc = "sum"
  /\ LET s == ctask[t].of
     IN ctask' = [ctask EXCEPT ![t].pc = "write",
          ![t].next = CodState(Allocated(s), expect[s].state, s \in overdue)]
  /\ UNCHANGED <<parcels, overdue, expect, alloc, files, jobs, deaths>>

\* ... and writes a state that differs, unless the row became RTO_UNCOLLECTED.
MayWriteBug(s) == TRUE
MayWrite(s) == expect[s].state # "RTO_UNCOLLECTED"
RecomputeWrites(t) ==
  /\ ctask[t].pc = "write"
  /\ LET s == ctask[t].of
     IN expect' = IF MayWrite(s) /\ ctask[t].next # expect[s].state
                  THEN [expect EXCEPT ![s] = [state |-> ctask[t].next, version |-> @.version + 1]]
                  ELSE expect
  /\ ctask' = [ctask EXCEPT ![t] = [AtEase EXCEPT !.pc = "row", !.file = ctask[t].file, !.row = ctask[t].row + 1]]
  /\ UNCHANGED <<parcels, overdue, alloc, files, jobs, deaths>>

FinishBatch(t) ==
  /\ ctask[t].pc = "row" /\ ctask[t].row > Len(Files[ctask[t].file])
  /\ files' = [files EXCEPT ![ctask[t].file].state = "MATCHED"]
  /\ jobs' = [jobs EXCEPT ![ctask[t].file] = "finished"]
  /\ Rest(t)
  /\ UNCHANGED <<parcels, overdue, expect, alloc, deaths>>

\* A worker dies; BullMQ gives its job to another.
WorkerDies(t) ==
  /\ ctask[t].pc \in {"row", "sum", "write"} /\ deaths < MaxDeaths
  /\ deaths' = deaths + 1
  /\ jobs' = [jobs EXCEPT ![ctask[t].file] = "waiting"]
  /\ Rest(t)
  /\ UNCHANGED <<parcels, overdue, expect, alloc, files>>

----------------------------------------------------------------------------

Next ==
  \/ DueSweep
  \/ \E s \in Docked : CreateOnDelivered(s) \/ DueDatePasses(s)
  \/ \E b \in Batches : ForgetJob(b)
  \/ \E t \in CodTasks :
       \/ RtoReads(t) \/ RtoFlips(t) \/ Enqueue(t)
       \/ AllocateRow(t) \/ RecomputeReads(t) \/ RecomputeWrites(t) \/ FinishBatch(t) \/ WorkerDies(t)
       \/ \E s \in Docked : RtoStarts(t, s)
       \/ \E b \in Batches : Upload(t, b) \/ ProcessBatch(t, b)

Spec == Init /\ [][Next]_codVars

----------------------------------------------------------------------------

\* cod-expectation.service.ts: an expectation that went RTO is never counted
\* as short, tallied or overdue again, whatever a recompute had read before.
RtoSticks ==
  [][\A s \in Docked :
       expect[s].state = "RTO_UNCOLLECTED" => expect'[s].state = "RTO_UNCOLLECTED"]_codVars

\* A file that waits to be processed has somebody to process it.
UploadedIsQueued ==
  \A b \in Batches : files[b].state = "UPLOADED" =>
    jobs[b] = "waiting" \/ \E t \in CodTasks : ctask[t].file = b

\* A file whose worker died is taken up where it stopped.
ParsedIsAttended ==
  \A b \in Batches : files[b].state = "PARSED" =>
    jobs[b] = "waiting" \/ \E t \in CodTasks : ctask[t].file = b

\* The state says what the allocations add up to once nobody is at work.
StateFollowsCash ==
  \A s \in Docked : (\A t \in CodTasks : ctask[t] = AtEase) /\ expect[s] # Absent =>
    expect[s].state \in {CodState(Allocated(s), expect[s].state, late) : late \in BOOLEAN}
=============================================================================
