------------------------------- MODULE SyncBack -------------------------------
(***************************************************************************)
(* The outbox that writes one shipment's life back to Shopify: rows are    *)
(* inserted by the booking worker and the movement reducer, claimed in     *)
(* batches by the 15-second sweep, executed under a cost budget, retried,  *)
(* given up as DEAD and replayed by an administrator.                      *)
(***************************************************************************)
EXTENDS Integers, FiniteSets, Sequences

CONSTANTS
  SyncWorkers,
  CarrierEvents,         \* the carrier statuses the shipment goes through
  IsTest,                \* the shipment is a test booking
  MaxAttempts,           \* SYNC_MAX_ATTEMPTS
  CallsPerWindow,        \* the cost budget of a shop, in calls
  MaxFaults, MaxReplays  \* bounds on crashes and lost answers, and on administrators' replays

VARIABLES
  outbox,    \* the sync_outbox rows by operation
  store,     \* Shopify: fulfillments created, events recorded
  syncer,    \* per worker: the claimed batch, the row in hand, its answer
  budget,    \* calls made in the current window
  dlq,       \* operations with an open dlq_item
  fault,     \* crashes, lost answers and replays so far, items closed too late
  desk       \* per replay: the row an administrator has read, and what is next

syncVars == <<outbox, store, syncer, budget, dlq, fault, desk>>

----------------------------------------------------------------------------

Create == "CREATE_FULFILLMENT"
Ops == {Create} \cup CarrierEvents

\* What Shopify is told of a carrier status.
ShopifyStatus(e) ==
  CASE e \in {"PICKUP_SCHEDULED", "PICKED_UP"} -> "CONFIRMED"
    [] e = "UNDELIVERED_ATTEMPT" -> "ATTEMPTED_DELIVERY"
    [] e \in {"IN_TRANSIT", "OUT_FOR_DELIVERY", "DELIVERED"} -> e
    [] OTHER -> "FAILURE"

AtRest == [op |-> "none", pc |-> "idle"]
Resting == [batch |-> {}, op |-> "none", pc |-> "idle"]
DueBug == {o \in Ops : outbox[o].state \in {"PENDING", "RETRYING", "IN_FLIGHT"}}
Due == {o \in Ops : outbox[o].state \in {"PENDING", "RETRYING"}}

Init ==
  /\ outbox = [o \in Ops |-> [state |-> "NONE", attempts |-> 0, gid |-> FALSE]]
  /\ store = [fulfillments |-> 0, events |-> {}]
  /\ syncer = [w \in SyncWorkers |-> Resting]
  /\ budget = 0
  /\ dlq = {}
  /\ fault = [crashes |-> 0, lost |-> 0, replays |-> 0, late |-> {}]
  /\ desk = [a \in 1..MaxReplays |-> AtRest]

----------------------------------------------------------------------------

\* The idempotency key makes a second insert of the same operation a no-op;
\* nothing is written for a test shipment.  An event keeps the fulfillment of
\* the succeeded create, when there is one.
Created == outbox[Create].state = "SUCCEEDED" /\ outbox[Create].gid
Enqueue(o) ==
  /\ ~IsTest /\ outbox[o].state = "NONE"
  /\ outbox' = [outbox EXCEPT ![o] = [state |-> "PENDING", attempts |-> 0,
                                      gid |-> o # Create /\ Created]]
  /\ UNCHANGED <<store, syncer, budget, dlq, fault, desk>>

\* UPDATE ... WHERE outbox_id IN (SELECT ... FOR UPDATE SKIP LOCKED).
ClaimDueBatch(w) ==
  /\ syncer[w] = Resting /\ Due # {}
  /\ outbox' = [o \in Ops |-> IF o \in Due THEN [outbox[o] EXCEPT !.state = "IN_FLIGHT"] ELSE outbox[o]]
  /\ syncer' = [syncer EXCEPT ![w] = [Resting EXCEPT !.batch = Due]]
  /\ UNCHANGED <<store, budget, dlq, fault, desk>>

\* The row in hand is done with; the next of the batch is taken.
Put(w, o) == syncer' = [syncer EXCEPT ![w] = [Resting EXCEPT !.batch = syncer[w].batch \ {o}]]

Defer(w, o) ==
  /\ syncer[w].pc = "idle" /\ o \in syncer[w].batch
  /\ budget >= CallsPerWindow
  /\ outbox' = [outbox EXCEPT ![o].state = IF outbox[o].attempts > 0 THEN "RETRYING" ELSE "PENDING"]
  /\ Put(w, o)
  /\ UNCHANGED <<store, budget, dlq, fault, desk>>

\* The call to Shopify: refused, or done, and then answered or not.  An event
\* with no succeeded create is refused before it is sent.
Known(o) == o = Create \/ outbox[o].gid \/ Created
Execute(w, o) ==
  /\ syncer[w].pc = "idle" /\ o \in syncer[w].batch
  /\ budget < CallsPerWindow
  /\ budget' = budget + 1
  /\ \E answer \in {"ok", "error", "lost"} :
       /\ answer # "error" => Known(o)
       /\ answer = "lost" => fault.lost + fault.crashes < MaxFaults
       /\ syncer' = [syncer EXCEPT ![w].op = o, ![w].pc = IF answer = "ok" THEN "ok" ELSE "error"]
       /\ fault' = IF answer = "lost" THEN [fault EXCEPT !.lost = @ + 1] ELSE fault
       /\ store' = IF answer = "error" THEN store
                   ELSE IF o = Create THEN [store EXCEPT !.fulfillments = @ + 1]
                   ELSE [store EXCEPT !.events = @ \cup {ShopifyStatus(o)}]
  /\ UNCHANGED <<outbox, dlq, desk>>

MarkSucceeded(w) ==
  /\ syncer[w].pc = "ok"
  /\ outbox' = [outbox EXCEPT ![syncer[w].op].state = "SUCCEEDED",
                              ![syncer[w].op].gid = @ \/ syncer[w].op = Create]
  /\ Put(w, syncer[w].op)
  /\ UNCHANGED <<store, budget, dlq, fault, desk>>

\* The tenth failure makes the row DEAD; the dlq_item is a statement of its own.
GivesUp(attempts) == attempts >= MaxAttempts
HandleFailure(w) ==
  LET o == syncer[w].op
      n == outbox[o].attempts + 1
  IN /\ syncer[w].pc = "error"
     /\ outbox' = [outbox EXCEPT ![o].attempts = n,
                                 ![o].state = IF GivesUp(n) THEN "DEAD" ELSE "RETRYING"]
     /\ IF GivesUp(n) THEN syncer' = [syncer EXCEPT ![w].pc = "file"] ELSE Put(w, o)
     /\ UNCHANGED <<store, budget, dlq, fault, desk>>

FileDlqItem(w) ==
  /\ syncer[w].pc = "file"
  /\ dlq' = dlq \cup {syncer[w].op}
  /\ Put(w, syncer[w].op)
  /\ UNCHANGED <<outbox, store, budget, fault, desk>>

\* An administrator's replay: the read of a DEAD row, the UPDATE if its version
\* is still what was read, then the close of its open items, whether or not the
\* UPDATE found the row and whatever it has become since.  A request that dies
\* goes no further.
At(a, o, pc) == desk[a] = [op |-> o, pc |-> pc]
Goes(a, o, pc) == desk' = [desk EXCEPT ![a] = [op |-> o, pc |-> pc]]
Replayable(o) == outbox[o].state = "DEAD"
ReadDead(a, o) ==
  /\ desk[a] = AtRest /\ Replayable(o)
  /\ Goes(a, o, "update")
  /\ UNCHANGED <<outbox, store, syncer, budget, dlq, fault>>

\* Whoever else has read the row now has an old version of it.
ReplayRow(a, o) ==
  /\ At(a, o, "update") /\ Replayable(o)
  /\ outbox' = [outbox EXCEPT ![o].state = "PENDING", ![o].attempts = 0]
  /\ desk' = [b \in DOMAIN desk |-> IF b = a THEN [op |-> o, pc |-> "close"]
                                    ELSE IF At(b, o, "update") THEN [op |-> o, pc |-> "stale"] ELSE desk[b]]
  /\ fault' = [fault EXCEPT !.replays = @ + 1]
  /\ UNCHANGED <<store, syncer, budget, dlq>>
MissRow(a, o) ==
  /\ At(a, o, "stale")
  /\ Goes(a, o, "close")
  /\ UNCHANGED <<outbox, store, syncer, budget, dlq, fault>>
CloseItem(a, o) ==
  /\ At(a, o, "close")
  /\ dlq' = dlq \ {o}
  /\ fault' = [fault EXCEPT !.late = IF o \in dlq /\ outbox[o].state = "DEAD" THEN @ \cup {o} ELSE @]
  /\ Goes(a, o, "done")
  /\ UNCHANGED <<outbox, store, syncer, budget>>

NextWindow ==
  /\ budget > 0 /\ budget' = 0
  /\ UNCHANGED <<outbox, store, syncer, dlq, fault, desk>>

\* A worker that dies leaves the rows of its batch IN_FLIGHT.
Crash(w) ==
  /\ syncer[w] # Resting /\ fault.crashes + fault.lost < MaxFaults
  /\ fault' = [fault EXCEPT !.crashes = @ + 1]
  /\ syncer' = [syncer EXCEPT ![w] = Resting]
  /\ UNCHANGED <<outbox, store, budget, dlq, desk>>

Next ==
  \/ NextWindow
  \/ \E o \in Ops :
       \/ Enqueue(o)
       \/ \E a \in DOMAIN desk : ReadDead(a, o) \/ ReplayRow(a, o) \/ MissRow(a, o) \/ CloseItem(a, o)
  \/ \E w \in SyncWorkers :
       \/ ClaimDueBatch(w) \/ MarkSucceeded(w) \/ HandleFailure(w) \/ FileDlqItem(w) \/ Crash(w)
       \/ \E o \in Ops : Defer(w, o) \/ Execute(w, o)

Spec == Init /\ [][Next]_syncVars

----------------------------------------------------------------------------

TypeOK ==
  /\ \A o \in Ops : /\ outbox[o].state \in {"NONE", "PENDING", "IN_FLIGHT", "RETRYING", "SUCCEEDED", "DEAD"}
                    /\ outbox[o].attempts \in 0..MaxAttempts
  /\ dlq \subseteq Ops /\ budget \in 0..CallsPerWindow

\* A shipment gets one fulfillment in Shopify, and one more only for an answer
\* that was lost after the mutation took effect: two sweeps never execute the
\* same row (claimDueBatch, markSucceeded).
OneFulfillment == store.fulfillments <= 1 + fault.lost

\* Nothing reaches Shopify of a shipment whose fulfillment does not exist there
\* (execute, succeededFulfillmentGid).
EventsFollowCreate == store.events # {} => store.fulfillments > 0

\* A row that gave up has an open item in the dead-letter queue unless the
\* worker died between the two statements or a replay closed the item of a row
\* that had given up again meanwhile, and an item is open only for a row that
\* gave up or was replayed in between (handleFailure, replay).
DeadIsFiled ==
  \A o \in Ops :
    /\ outbox[o].state = "DEAD" /\ fault.crashes = 0 /\ o \notin fault.late
         => o \in dlq \/ \E w \in SyncWorkers : syncer[w].op = o /\ syncer[w].pc = "file"
    /\ o \in dlq => outbox[o].state = "DEAD" \/ fault.replays > 0

----------------------------------------------------------------------------
(* Why they hold.                                                          *)

\* What a worker still has to do: the rows of its batch, but for the one it gave
\* up and only has to file (which may be replayed, and claimed, meanwhile).
Holds(w, o) == o \in syncer[w].batch /\ ~(syncer[w].op = o /\ syncer[w].pc = "file")
Answered(w) == syncer[w].op = Create /\ syncer[w].pc = "ok"

\* A worker is at a row of its batch; what it holds is IN_FLIGHT and its own.
WorkersStand ==
  /\ syncer \in [SyncWorkers -> [batch : SUBSET Ops, op : Ops \cup {"none"},
                                 pc : {"idle", "ok", "error", "file"}]]
  /\ \A w \in SyncWorkers : syncer[w].pc # "idle" => syncer[w].op \in syncer[w].batch
  /\ \A w \in SyncWorkers, o \in Ops : Holds(w, o) => outbox[o].state = "IN_FLIGHT"
  /\ \A v, w \in SyncWorkers, o \in Ops : Holds(v, o) /\ Holds(w, o) => v = w

\* The create that was answered is not executed again: it succeeded, or is in
\* flight and in no hand but the one that has the answer.
CreateStands ==
  /\ store.fulfillments > fault.lost =>
       /\ outbox[Create].state \in {"SUCCEEDED", "IN_FLIGHT"}
       /\ \A w \in SyncWorkers : Holds(w, Create) => Answered(w)
  /\ (\E o \in Ops : outbox[o].gid) \/ (\E w \in SyncWorkers : Answered(w)) => store.fulfillments > 0

FilingStands ==
  \A w \in SyncWorkers : syncer[w].pc = "file" =>
    outbox[syncer[w].op].state = "DEAD" \/ fault.replays > 0

SyncInv ==
  /\ outbox \in [Ops -> [state : {"NONE", "PENDING", "IN_FLIGHT", "RETRYING", "SUCCEEDED", "DEAD"},
                         attempts : Nat, gid : BOOLEAN]]
  /\ store \in [fulfillments : Nat, events : SUBSET {ShopifyStatus(o) : o \in Ops}]
  /\ fault \in [crashes : Nat, lost : Nat, replays : Nat, late : SUBSET Ops]
  /\ WorkersStand /\ CreateStands /\ FilingStands
  /\ OneFulfillment /\ EventsFollowCreate /\ DeadIsFiled
=============================================================================
