------------------------------- MODULE Reports -------------------------------
(***************************************************************************)
(* Reports, on request and by schedule.  A sweep claims each occurrence of *)
(* a schedule by moving next_run_at on; the job is a row first and a place *)
(* in the queue after; a worker writes the file, then the state, then the  *)
(* e-mail with the link.  The queue retries an attempt that threw, and     *)
(* gives the job of a worker it has not heard from to another.             *)
(***************************************************************************)
EXTENDS Integers, FiniteSets, FiniteSetsExt

CONSTANTS
  Procs,        \* processes: sweeps, requests of members and workers
  Days,         \* bound: the clock
  Week,         \* days of a week
  MaxJobs,      \* bound: rows of report_job
  MaxAttempts,  \* of the queue
  MaxEdits,     \* bound: edits and removals of the schedule
  MaxFaults     \* bound: deaths, stalls and attempts that throw

VARIABLES
  now,        \* the day; schedules run at its start
  schedule,   \* report_schedule
  job,        \* report_job and its file
  queue,      \* jobs waiting in the queue
  desk,       \* per process
  faults

reportVars == <<now, schedule, job, queue, desk, faults>>

NoJob == [state |-> "NONE", occurrence |-> 0, file |-> FALSE, mailed |-> FALSE, attempts |-> 0]
Resting == [pc |-> "rest", job |-> 0, day |-> 0, next |-> 0]
FreeJob == {j \in DOMAIN job : job[j] = NoJob}

Init ==
  /\ now = 1
  /\ schedule = [exists |-> TRUE, next |-> 2, step |-> 1, edits |-> 0]
  /\ job = [j \in 1..MaxJobs |-> NoJob]
  /\ queue = {}
  /\ desk = [p \in Procs |-> Resting]
  /\ faults = 0

Tick ==
  /\ now < Days /\ now' = now + 1
  /\ UNCHANGED <<schedule, job, queue, desk, faults>>

At(p, pc) == desk[p].pc = pc
Go(p, pc) == desk' = [desk EXCEPT ![p].pc = pc]
Rest(p) == desk' = [desk EXCEPT ![p] = Resting]

----------------------------------------------------------------------------
(* The schedule.                                                           *)

\* The next occurrence counted in steps from a scheduled day that has come, past today.
AdvanceNextRun(day, step) == day + step * ((now - day) \div step + 1)
\* The first occurrence of a cadence from today: tomorrow, or the next Monday.
ComputeInitialNextRun(step) == step * (now \div step + 1)

\* update: the row is read, and written whatever happened to it since.
ReadForUpdate(p) ==
  /\ At(p, "rest") /\ schedule.exists /\ schedule.edits < MaxEdits
  /\ desk' = [desk EXCEPT ![p] = [Resting EXCEPT !.pc = "update", !.day = schedule.next, !.next = schedule.step]]
  /\ UNCHANGED <<now, schedule, job, queue, faults>>
Update(p, step) ==
  /\ At(p, "update")
  /\ schedule' = IF ~schedule.exists THEN schedule
       ELSE [schedule EXCEPT !.step = step, !.edits = @ + 1,
               !.next = IF step # desk[p].next THEN ComputeInitialNextRun(step) ELSE desk[p].day]
  /\ Rest(p)
  /\ UNCHANGED <<now, job, queue, faults>>
Remove ==
  /\ schedule.exists /\ schedule.edits < MaxEdits
  /\ schedule' = [schedule EXCEPT !.exists = FALSE]
  /\ UNCHANGED <<now, job, queue, desk, faults>>

\* runDueSchedules.
SelectDue(p) ==
  /\ At(p, "rest") /\ schedule.exists /\ schedule.next <= now
  /\ desk' = [desk EXCEPT ![p] = [Resting EXCEPT !.pc = "claim", !.day = schedule.next,
                                    !.next = AdvanceNextRun(schedule.next, schedule.step)]]
  /\ UNCHANGED <<now, schedule, job, queue, faults>>
Unmoved(p) == schedule.exists /\ schedule.next = desk[p].day
Claim(p) ==
  /\ At(p, "claim")
  /\ IF Unmoved(p)
     THEN schedule' = [schedule EXCEPT !.next = desk[p].next] /\ Go(p, "insert")
     ELSE UNCHANGED schedule /\ Rest(p)
  /\ UNCHANGED <<now, job, queue, faults>>

----------------------------------------------------------------------------
(* enqueueReport: the row, and then the queue, for a sweep or a member.    *)

InsertRow(p, occurrence) ==
  /\ FreeJob # {}
  /\ LET j == Min(FreeJob) IN
       /\ job' = [job EXCEPT ![j] = [NoJob EXCEPT !.state = "QUEUED", !.occurrence = occurrence]]
       /\ desk' = [desk EXCEPT ![p] = [Resting EXCEPT !.pc = "enqueue", !.job = j]]
  /\ UNCHANGED <<now, schedule, queue, faults>>
InsertJob(p) ==
  \/ At(p, "insert") /\ InsertRow(p, desk[p].day)
  \/ At(p, "rest") /\ InsertRow(p, 0)
Enqueue(p) ==
  /\ At(p, "enqueue")
  /\ queue' = queue \cup {desk[p].job}
  /\ Rest(p)
  /\ UNCHANGED <<now, schedule, job, faults>>

----------------------------------------------------------------------------
(* runJob.                                                                 *)

Open == {"QUEUED", "RUNNING"}

ClaimableBug(j) == TRUE
Claimable(j) == job[j].state \in Open
ClaimJob(p, j) ==
  /\ At(p, "rest") /\ j \in queue
  /\ queue' = queue \ {j}
  /\ IF Claimable(j)
     THEN /\ job' = [job EXCEPT ![j].state = "RUNNING"]
          /\ desk' = [desk EXCEPT ![p] = [Resting EXCEPT !.pc = "generate", !.job = j]]
     ELSE UNCHANGED <<job, desk>>
  /\ UNCHANGED <<now, schedule, faults>>
\* The rows as of the request, rendered and stored under the job's own key.
StoreFile(p) ==
  /\ At(p, "generate")
  /\ job' = [job EXCEPT ![desk[p].job].file = TRUE]
  /\ Go(p, "finish")
  /\ UNCHANGED <<now, schedule, queue, faults>>
Finish(p) ==
  /\ At(p, "finish")
  /\ job' = [job EXCEPT ![desk[p].job].state = "SUCCEEDED"]
  /\ Go(p, "notify")
  /\ UNCHANGED <<now, schedule, queue, faults>>
\* notifyReady: a signed link to the file.
NotifyReady(p) ==
  /\ At(p, "notify")
  /\ job' = [job EXCEPT ![desk[p].job].mailed = TRUE]
  /\ Rest(p)
  /\ UNCHANGED <<now, schedule, queue, faults>>
\* The source of the report is not there: FAILED at once.
Failed(j) == job' = [job EXCEPT ![j].state = IF @ \in Open THEN "FAILED" ELSE @]
SourceUnavailable(p) ==
  /\ At(p, "generate")
  /\ Failed(desk[p].job)
  /\ Rest(p)
  /\ UNCHANGED <<now, schedule, queue, faults>>
\* The attempt throws, the audit after the state included: the queue has it
\* again, or after the last attempt the failed handler parks it.
Throw(p) ==
  LET j == desk[p].job
      last == job[j].attempts + 1 >= MaxAttempts IN
  /\ desk[p].pc \in {"generate", "finish", "notify"} /\ faults < MaxFaults
  /\ faults' = faults + 1
  /\ job' = [job EXCEPT ![j].attempts = @ + 1]
  /\ queue' = IF last THEN queue ELSE queue \cup {j}
  /\ IF last THEN Go(p, "markFailed") ELSE Rest(p)
  /\ UNCHANGED <<now, schedule>>
MarkFailed(p) ==
  /\ At(p, "markFailed")
  /\ Failed(desk[p].job)
  /\ Rest(p)
  /\ UNCHANGED <<now, schedule, queue, faults>>

\* A worker not heard from: its job is queued again, and it may go on.
Stall(p) ==
  /\ desk[p].pc \in {"generate", "finish", "notify"} /\ faults < MaxFaults
  /\ queue' = queue \cup {desk[p].job} /\ faults' = faults + 1
  /\ UNCHANGED <<now, schedule, job, desk>>
Crash(p) ==
  /\ ~At(p, "rest") /\ faults < MaxFaults
  /\ queue' = IF desk[p].pc \in {"generate", "finish", "notify"} THEN queue \cup {desk[p].job} ELSE queue
  /\ faults' = faults + 1
  /\ Rest(p)
  /\ UNCHANGED <<now, schedule, job>>

Next ==
  \/ Tick \/ Remove
  \/ \E p \in Procs :
       \/ ReadForUpdate(p) \/ \E step \in {1, Week} : Update(p, step)
       \/ SelectDue(p) \/ Claim(p)
       \/ InsertJob(p) \/ Enqueue(p)
       \/ \E j \in DOMAIN job : ClaimJob(p, j)
       \/ StoreFile(p) \/ Finish(p) \/ NotifyReady(p)
       \/ SourceUnavailable(p) \/ Throw(p) \/ MarkFailed(p)
       \/ Stall(p) \/ Crash(p)

Spec == Init /\ [][Next]_reportVars

----------------------------------------------------------------------------

Of(day) == {j \in DOMAIN job : job[j].occurrence = day /\ job[j].state # "NONE"}

\* Only an edit of the schedule can have an occurrence reported again, however
\* many sweeps found it due; and a link that was mailed works from then on: its
\* job is SUCCEEDED with its file, whatever stalled, died or was run twice.
ReportsStand ==
  /\ \A day \in 1..Days : Cardinality(Of(day)) <= 1 + schedule.edits
  /\ \A j \in DOMAIN job :
       /\ job[j].mailed => job[j].state = "SUCCEEDED"
       /\ job[j].state = "SUCCEEDED" => job[j].file

\* What keeps it.  An occurrence has been reported, is about to be by a sweep
\* that has claimed it, or is yet to be claimed, and by one edit once more.
Claimed(day) == {p \in Procs : desk[p].pc = "insert" /\ desk[p].day = day}
Awaited(day) == IF schedule.exists /\ schedule.next <= day THEN 1 ELSE 0
OccurrenceStands(day) ==
  /\ IsFiniteSet(Claimed(day))
  /\ Cardinality(Of(day)) + Cardinality(Claimed(day)) + Awaited(day) <= 1 + schedule.edits
\* What is worked on is a job that was inserted; it has its file when it is
\* finished, and has succeeded when it is mailed.
HandStands(r) ==
  /\ r \in [pc : {"rest", "update", "claim", "insert", "enqueue", "generate", "finish", "notify", "markFailed"},
            job : Int, day : Int, next : Int]
  /\ r.pc = "claim" => r.day < r.next
  /\ r.pc \in {"enqueue", "generate", "finish", "notify", "markFailed"} =>
       r.job \in DOMAIN job /\ job[r.job].state # "NONE"
  /\ r.pc \in {"finish", "notify"} => job[r.job].file
  /\ r.pc = "notify" => job[r.job].state = "SUCCEEDED"
JobStands(x) ==
  /\ x \in [state : Open \cup {"NONE", "SUCCEEDED", "FAILED"}, occurrence : Int, file : BOOLEAN,
            mailed : BOOLEAN, attempts : Nat]
  /\ x.state = "NONE" => x.occurrence = 0
  /\ x.mailed => x.state = "SUCCEEDED"
  /\ x.state = "SUCCEEDED" => x.file
ReportsInv ==
  /\ now \in Nat
  /\ schedule \in [exists : BOOLEAN, next : Int, step : {1, Week}, edits : Nat]
  /\ job = [j \in 1..MaxJobs |-> job[j]] /\ \A j \in DOMAIN job : JobStands(job[j])
  /\ queue \subseteq {j \in DOMAIN job : job[j].state # "NONE"}
  /\ desk = [p \in Procs |-> desk[p]] /\ \A p \in Procs : HandStands(desk[p])
  /\ \A day \in 1..Days : OccurrenceStands(day)

\* What the repository says otherwise.

\* "Each due schedule is claimed by advancing next_run_at": an edit that had
\* read the row writes the old next_run_at back.
OnceAnOccurrence == \A day \in 1..Days : Cardinality(Of(day)) <= 1
\* "jobId dedup means no concurrent duplicate exists".
NoDuplicateRun ==
  \A p, q \in Procs :
    p # q /\ {desk[p].pc, desk[q].pc} \subseteq {"generate", "finish"} => desk[p].job # desk[q].job
=============================================================================
