------------------------------- MODULE Labels -------------------------------
(***************************************************************************)
(* Labels: of one shipment on request, and of many by a job of the queue.  *)
(* A file is stored first and its document row inserted after; a job of    *)
(* the queue writes its state without looking at what it was.              *)
(***************************************************************************)
EXTENDS Integers, FiniteSets, FiniteSetsExt

CONSTANTS
  Procs,       \* requests and workers
  Shipments,   \* shipments with a label
  MaxDocs,     \* bound: document rows
  MaxEdits,    \* bound: versions of the template after the first
  MaxAttempts, \* of the queue
  MaxStalls    \* bound: workers not heard from

VARIABLES
  account,      \* whether its state blocks new labels, and the version of its template
  pdf,       \* the object at the job's key: the template version it was drawn from, or 0
  doc,       \* document
  bulk,      \* the row of document_job
  task,      \* its place in the queue
  hand       \* per process

labelVars == <<account, pdf, doc, bulk, task, hand>>

NoDoc == [of |-> "none", drawn |-> 0]
Free == [pc |-> "free", of |-> "none", drawn |-> 0, doc |-> 0]
FreeDoc == {d \in DOMAIN doc : doc[d] = NoDoc}
Terminal == {"SUCCEEDED", "PARTIAL", "FAILED", "CANCELLED"}

Init ==
  /\ account = [blocked |-> FALSE, template |-> 1]
  /\ pdf = 0
  /\ doc = [d \in 1..MaxDocs |-> NoDoc]
  /\ bulk = [state |-> "NONE", result |-> 0]
  /\ task = [queued |-> FALSE, attempts |-> 0, stalls |-> 0]
  /\ hand = [p \in Procs |-> Free]

At(p, pc) == hand[p].pc = pc
Go(p, pc) == hand' = [hand EXCEPT ![p].pc = pc]
Done(p) == hand' = [hand EXCEPT ![p] = Free]

\* An edit of the template carries the version its writer read, and merges its
\* fields into the row of that version; one that comes late is a 409.
EditTemplate ==
  /\ account.template <= MaxEdits
  /\ account' = [account EXCEPT !.template = @ + 1]
  /\ UNCHANGED <<pdf, doc, bulk, task, hand>>
\* account_state becomes RESTRICTED, READ_ONLY or UNINSTALLED.
Block ==
  /\ ~account.blocked /\ account' = [account EXCEPT !.blocked = TRUE]
  /\ UNCHANGED <<pdf, doc, bulk, task, hand>>

----------------------------------------------------------------------------
(* generateShipmentLabel.                                                  *)

\* A document that has not expired is given again, whatever it was drawn from.
Existing(s) == {d \in DOMAIN doc : doc[d].of = s}
AskLabel(p, s) ==
  /\ At(p, "free")
  /\ Existing(s) = {} /\ ~account.blocked
  /\ hand' = [hand EXCEPT ![p] = [Free EXCEPT !.pc = "draw", !.of = s]]
  /\ UNCHANGED <<account, pdf, doc, bulk, task>>
\* renderCustom or fetchCourierPdf, stored under the key of the new document.
DrawLabel(p) ==
  /\ At(p, "draw")
  /\ hand' = [hand EXCEPT ![p].pc = "insert", ![p].drawn = account.template]
  /\ UNCHANGED <<account, pdf, doc, bulk, task>>
InsertLabel(p) ==
  /\ At(p, "insert") /\ FreeDoc # {}
  /\ doc' = [doc EXCEPT ![Min(FreeDoc)] = [of |-> hand[p].of, drawn |-> hand[p].drawn]]
  /\ Done(p)
  /\ UNCHANGED <<account, pdf, bulk, task>>

----------------------------------------------------------------------------
(* The bulk job.                                                           *)

\* createBulkJob: the row, and then the queue, which may be refused it.
CreateBulkJob ==
  /\ bulk.state = "NONE" /\ ~account.blocked
  /\ bulk' = [bulk EXCEPT !.state = "QUEUED"]
  /\ \E queued \in BOOLEAN : task' = [task EXCEPT !.queued = queued]
  /\ UNCHANGED <<account, pdf, doc, hand>>

\* processBulkJob reads the row: a terminal one is done with.
Reopenable == bulk.state \notin Terminal
TakeTask(p) ==
  /\ At(p, "free") /\ task.queued
  /\ task' = [task EXCEPT !.queued = FALSE]
  /\ IF Reopenable THEN hand' = [hand EXCEPT ![p] = [Free EXCEPT !.pc = "run"]] ELSE UNCHANGED hand
  /\ UNCHANGED <<account, pdf, doc, bulk>>
StartRun(p) ==
  /\ At(p, "run")
  /\ bulk' = [bulk EXCEPT !.state = "RUNNING"]
  /\ Go(p, "collect")
  /\ UNCHANGED <<account, pdf, doc, task>>
\* collectPages: the state again at every twenty-fifth shipment.
SaveProgress(p) ==
  /\ At(p, "collect")
  /\ bulk' = [bulk EXCEPT !.state = "RUNNING"]
  /\ UNCHANGED <<account, pdf, doc, task, hand>>
\* The merged file, at the key of the job.
StorePages(p) ==
  /\ At(p, "collect")
  /\ pdf' = account.template
  /\ hand' = [hand EXCEPT ![p].pc = "document", ![p].drawn = account.template]
  /\ UNCHANGED <<account, doc, bulk, task>>
InsertDocument(p) ==
  /\ At(p, "document") /\ FreeDoc # {}
  /\ doc' = [doc EXCEPT ![Min(FreeDoc)] = [of |-> "bulk", drawn |-> hand[p].drawn]]
  /\ hand' = [hand EXCEPT ![p].pc = "settle", ![p].doc = Min(FreeDoc)]
  /\ UNCHANGED <<account, pdf, bulk, task>>
\* PARTIAL when a shipment was skipped.
SettleJob(p) ==
  /\ At(p, "settle")
  /\ \E state \in {"SUCCEEDED", "PARTIAL"} : bulk' = [state |-> state, result |-> hand[p].doc]
  /\ Done(p)
  /\ UNCHANGED <<account, pdf, doc, task>>

InRun(p) == hand[p].pc \in {"collect", "document", "settle"}

\* FAILED, and the error again for the queue, which tries the job once more.
FailRun(p) ==
  /\ InRun(p)
  /\ bulk' = [bulk EXCEPT !.state = "FAILED"]
  /\ task' = [task EXCEPT !.attempts = @ + 1, !.queued = @ \/ task.attempts + 1 < MaxAttempts]
  /\ Done(p)
  /\ UNCHANGED <<account, pdf, doc>>
\* A worker the queue has not heard from: another gets the job, and this one
\* has died or goes on.
Stall(p) ==
  /\ InRun(p) \/ At(p, "run")
  /\ task.stalls < MaxStalls
  /\ task' = [task EXCEPT !.stalls = @ + 1, !.queued = TRUE]
  /\ UNCHANGED hand \/ Done(p)
  /\ UNCHANGED <<account, pdf, doc, bulk>>

Next ==
  \/ EditTemplate \/ Block \/ CreateBulkJob
  \/ \E p \in Procs :
       \/ \E s \in Shipments : AskLabel(p, s)
       \/ DrawLabel(p) \/ InsertLabel(p)
       \/ TakeTask(p) \/ StartRun(p) \/ SaveProgress(p) \/ StorePages(p)
       \/ InsertDocument(p) \/ SettleJob(p) \/ FailRun(p) \/ Stall(p)

Spec == Init /\ [][Next]_labelVars

----------------------------------------------------------------------------

\* A job that succeeded names a document of its own, and only a worker that
\* stalled can have the job print its labels twice: not an attempt that failed
\* after its document was inserted, nor the retries of it.
LabelsStand ==
  /\ bulk.state \in {"SUCCEEDED", "PARTIAL"} => bulk.result # 0
  /\ bulk.result # 0 => doc[bulk.result].of = "bulk" /\ pdf # 0
  /\ task.stalls = 0 => Cardinality(Existing("bulk")) <= 1

\* What keeps it: a worker past the merged file has one, and past its document
\* has that; and until a worker stalls the job is in one place, the queue or one
\* worker's hand, and has a document only at the end of a run.
Running(p) == hand[p].pc \in {"run", "collect", "document", "settle"}
RowsStand ==
  /\ account \in [blocked : BOOLEAN, template : Nat \ {0}] /\ pdf \in Nat
  /\ doc \in [1..MaxDocs -> [of : Shipments \cup {"none", "bulk"}, drawn : Nat]]
  /\ bulk \in [state : {"NONE", "QUEUED", "RUNNING"} \cup Terminal, result : Nat]
  /\ task \in [queued : BOOLEAN, attempts : Nat, stalls : Nat]
  /\ bulk.state \in {"SUCCEEDED", "PARTIAL"} => bulk.result # 0
  /\ bulk.result # 0 => bulk.result \in Existing("bulk") /\ pdf # 0
HandStands(r) ==
  /\ r \in [pc : {"free", "draw", "insert", "run", "collect", "document", "settle"},
            of : Shipments \cup {"none"}, drawn : Nat, doc : Nat]
  /\ r.pc \in {"document", "settle"} => pdf # 0
  /\ r.pc = "settle" => r.doc # 0 /\ r.doc \in Existing("bulk")
RunStands ==
  /\ \A p, q \in Procs : Running(p) /\ Running(q) => p = q
  /\ \A p \in Procs : Running(p) =>
       /\ ~task.queued /\ bulk.state \notin Terminal \cup {"NONE"}
       /\ hand[p].pc # "settle" => Existing("bulk") = {}
  /\ bulk.state = "NONE" => ~task.queued
  /\ bulk.state \notin Terminal /\ (\A p \in Procs : ~Running(p)) => Existing("bulk") = {}
  /\ \A d, e \in Existing("bulk") : d = e
LabelsInv ==
  /\ RowsStand
  /\ hand = [p \in Procs |-> hand[p]] /\ \A p \in Procs : HandStands(hand[p])
  /\ task.stalls = 0 => RunStands

\* What the repository says otherwise.

\* "BullMQ retries": a retry finds its job FAILED, which is terminal.
RetriesRun == task.queued /\ bulk.state # "NONE" => Reopenable
\* A terminal job is "exactly-once": one that stalled runs over it.
TerminalStays == [][bulk.state \in Terminal => bulk'.state = bulk.state]_labelVars
\* A document's hash is of its file: a second run writes over the key of the first.
HashMatchesFile == \A d \in Existing("bulk") : doc[d].drawn = pdf
\* A shipment's label is made once and given again.
OneLabel == \A s \in Shipments : Cardinality(Existing(s)) <= 1
=============================================================================
