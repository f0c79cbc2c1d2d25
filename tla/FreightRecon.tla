------------------------------ MODULE FreightRecon ------------------------------
(***************************************************************************)
(* What a parcel should have cost, and what becomes of the courier's       *)
(* invoice.  First the formulas F-1 to F-12 of a rate card, in whole grams *)
(* and paise and per-cent rates: a quote is a record, and what cannot be   *)
(* priced is Unpriceable with the guard that refused it.  Then the         *)
(* matching core: lines of one AWB and charge type are one group, whose    *)
(* expectation is computed from the snapshot of the shipment; an           *)
(* adjustment adds to the group it names.  Then the reconciliation: an     *)
(* invoice file becomes a batch of rows matched so; members settle the     *)
(* rows and the batch's residual.  Uploads, workers and members interleave. *)
(***************************************************************************)
EXTENDS Integers, Sequences, FiniteSets, FiniteSetsExt, SequencesExt, Functions

CONSTANTS
  FreightTasks,     \* workers and members at work
  Invoices,         \* sequence of invoice files, each [declared, lines]
  Booked,           \* AWB -> the snapshot of its shipment
  AmountTolerance,  \* S-28 in paise
  ControlFloor,     \* smallest residual that is a mismatch, in paise
  MaxReuploads,     \* bound on uploads of a file
  MaxActs,          \* bound on a member's acts on a line
  MaxRestarts       \* attempts of a job after its first; bounds deaths too

----------------------------------------------------------------------------
(* Amounts.                                                                *)

\* divRoundHalfUp, ceilDiv and applyRate on amounts that are never negative.
RoundHalfUp(n, d) == (n \div d) + (IF 2 * (n % d) >= d THEN 1 ELSE 0)
CeilDiv(n, d) == IF n <= 0 THEN 0 ELSE (n + d - 1) \div d
ApplyRate(amount, pct) == RoundHalfUp(amount * pct, 100)

Larger(a, b) == IF a > b THEN a ELSE b

----------------------------------------------------------------------------
(* Weights.                                                                *)

\* F-1: centimetres and the divisor give grams; no divisor, no weight.
Volumetric(box, divisor) == RoundHalfUp(box.l * box.w * box.h * 1000, divisor)

\* F-2, F-3: the larger weight, stepped up to the increment, at least the
\* minimum of the service.
Billable(box, service) ==
  LET raw == Larger(box.dead, Volumetric(box, service.divisor))
  IN Larger(CeilDiv(raw, service.increment) * service.increment, service.min)

Weighable(service) == service.divisor > 0 /\ service.increment > 0

----------------------------------------------------------------------------
(* Zones.                                                                  *)

\* A matcher constrains some attributes of a pincode; an attribute the postal
\* master does not hold matches nothing.
Matches(matcher, place) ==
  \A a \in DOMAIN matcher : place[a] # "missing" /\ place[a] \in matcher[a]

\* The first rule by position, else no zone.
Zone(rules, origin, destination) ==
  LET hits == {i \in DOMAIN rules : Matches(rules[i].from, origin) /\ Matches(rules[i].to, destination)}
  IN IF hits = {} THEN "none" ELSE rules[Min(hits)].zone

----------------------------------------------------------------------------
(* Freight.                                                                *)

\* A row of F-8 by its basis.
Surcharge(row, base, fuel, cod, grams, declared) ==
  CASE row.basis = "FLAT" -> row.value
    [] row.basis = "PERCENT_OF_BASE_FREIGHT" -> ApplyRate(base, row.value)
    [] row.basis = "PERCENT_OF_PRE_TAX_SUBTOTAL" -> ApplyRate(base + fuel + cod, row.value)
    [] row.basis = "PER_KG_BILLABLE" -> RoundHalfUp(row.value * grams, 1000)
    [] row.basis = "PERCENT_OF_DECLARED_VALUE" -> ApplyRate(declared, row.value)

\* F-8 to F-11 over a base, its fuel and its COD charge: the total is the sum
\* of rounded components, the tax that of the taxable ones.
Priced(tariff, base, fuel, cod, grams, declared) ==
  LET rows == [i \in DOMAIN tariff.rows |-> Surcharge(tariff.rows[i], base, fuel, cod, grams, declared)]
      In(code, amount) == IF code \in tariff.taxable THEN amount ELSE 0
      taxed == [i \in DOMAIN rows |-> IF tariff.rows[i].taxed THEN rows[i] ELSE 0]
      net == base + fuel + cod + SumFunction(rows)
      gst == ApplyRate(In("F-5", base) + In("F-6", fuel) + In("F-7", cod) + In("F-8", SumFunction(taxed)), tariff.gst)
  IN [priced |-> TRUE, base |-> base, cod |-> cod, net |-> net, gst |-> gst, total |-> net + gst]

Unpriceable(reason) == [priced |-> FALSE, reason |-> reason]

\* F-5: the slab's base rate and a rate for every started step above it.
BaseFreight(slab, grams) ==
  slab.rate + CeilDiv(grams - slab.upto, slab.step) * slab.stepRate

\* F-7: the larger of the flat and the per-cent charge, of cash to collect.
CodCharge(tariff, collectible) ==
  IF collectible > 0 THEN Larger(tariff.codFlat, ApplyRate(collectible, tariff.codPct)) ELSE 0

\* computeFreight.
Freight(tariff, zone, grams, collectible, declared) ==
  IF zone = "none" THEN Unpriceable("ZONE_NOT_MATCHED")
  ELSE IF zone \notin DOMAIN tariff.slabs THEN Unpriceable("SLAB_MISSING")
  ELSE LET base == BaseFreight(tariff.slabs[zone], grams)
       IN Priced(tariff, base, ApplyRate(base, tariff.fuel), CodCharge(tariff, collectible), grams, declared)

\* computeRtoExpectation: F-12 over the forward base of the quote.
ReturnFreight(tariff, forwardBase, grams, declared) ==
  LET base == IF tariff.rto = "SAME_AS_FORWARD" THEN forwardBase ELSE ApplyRate(forwardBase, tariff.rtoPct)
  IN Priced(tariff, base, ApplyRate(base, tariff.fuel), 0, grams, declared)

----------------------------------------------------------------------------
(* A quote from the shop's cards.                                          *)

\* The version in force on a day, the newest when several are.
InForce(versions, day) ==
  LET live == {v \in versions : v.since <= day /\ day <= v.upto}
  IN {v \in live : \A o \in live : o.since <= v.since}

\* createVersion refuses an interval that meets another.
Overlaps(versions, since, upto) == \E v \in versions : v.since <= upto /\ since <= v.upto

\* estimateCost: its guards in their order.
Estimate(shop, parcel, day) ==
  LET version == CHOOSE v \in InForce(shop.versions, day) : TRUE
      service == CHOOSE s \in InForce(shop.services, day) : TRUE
  IN CASE shop.origin = "none" -> Unpriceable("ORIGIN_MISSING")
       [] shop.origin # "none" /\ InForce(shop.versions, day) = {} -> Unpriceable("RATE_CARD_VERSION_MISSING")
       [] shop.origin # "none" /\ InForce(shop.versions, day) # {} ->
            IF InForce(shop.services, day) = {} THEN Unpriceable("SERVICE_VERSION_MISSING")
            ELSE IF ~Weighable(service) THEN Unpriceable("DIVISOR_MISSING")
            ELSE LET grams == Billable(parcel.box, service)
                     zone == Zone(version.rules, shop.places[shop.origin], shop.places[parcel.to])
                 IN Freight(version.tariff, zone, grams, parcel.collectible, parcel.declared)

----------------------------------------------------------------------------
(* The matching of an invoice.                                            *)

Unknown == -1000000   \* an amount nobody can compute, or a cell that holds none

\* abs(invoiced + adjustments - expected) > tolerance.
AmountMismatch(invoiced, adjustment, expected) ==
  LET diff == invoiced + adjustment - expected
  IN diff > AmountTolerance \/ diff < -AmountTolerance

\* controlTotal: half a per cent of the declared total, or the floor.
ControlTotal(declared, matched, review) ==
  LET residual == declared - matched - review
      threshold == Larger((declared * 5) \div 1000, ControlFloor)
  IN IF residual > threshold \/ residual < -threshold THEN "MISMATCH" ELSE "WITHIN_THRESHOLD"

----------------------------------------------------------------------------

AuditWeightBug(ship, weight) == IF weight = Unknown THEN 0 ELSE weight
AuditWeight(ship, weight) == IF weight = Unknown THEN ship.grams ELSE weight

\* forwardExpectation by the basis the booking froze.
ForwardExpectation(ship, weight) ==
  CASE ship.basis = "NONE" -> Unknown
    [] ship.basis = "PROVIDER_CONFIRMED_CHARGE" -> ship.confirmed
    [] ship.basis = "QUOTE" -> ship.total
    [] ship.basis = "RATE_CARD" ->
         LET audited == Freight(ship.tariff, ship.zone, AuditWeight(ship, weight), ship.collectible, ship.declared)
         IN IF audited.priced THEN audited.total ELSE Unknown

\* rtoExpectation: F-12 on the invoiced weight, or the quote's total by rule.
RtoExpectation(ship, weight) ==
  CASE ship.basis = "RATE_CARD" ->
         ReturnFreight(ship.tariff, ship.base, AuditWeight(ship, weight), ship.declared).total
    [] ship.basis = "QUOTE" ->
         IF ship.tariff.rto = "SAME_AS_FORWARD" THEN ship.total ELSE ApplyRate(ship.total, ship.tariff.rtoPct)
    [] OTHER -> Unknown

Expectation(type, ship, weight) ==
  CASE type = "FORWARD" -> ForwardExpectation(ship, weight)
    [] type = "RTO" -> RtoExpectation(ship, weight)
    [] type = "COD_FEE" -> IF ship.basis = "RATE_CARD" THEN ship.cod ELSE Unknown
    [] OTHER -> Unknown   \* REATTEMPT, OTHER and ADJUSTMENT expect nothing

----------------------------------------------------------------------------
(* Groups of an invoice.                                                   *)

Types == <<"FORWARD", "RTO", "COD_FEE", "REATTEMPT">>
KeyOf(line) == <<line.awb, line.type>>
Groups(invoice) == {KeyOf(invoice.lines[i]) : i \in DOMAIN invoice.lines}
LinesOf(invoice, key) == {i \in DOMAIN invoice.lines : KeyOf(invoice.lines[i]) = key}

SumOver(invoice, S) ==
  SumFunctionOnSet([i \in DOMAIN invoice.lines |->
                      IF invoice.lines[i].amount = Unknown THEN 0 ELSE invoice.lines[i].amount], S)

\* The group an AWB's adjustment adds to: the first type in preference.
TargetIn(invoice, awb) ==
  LET hits == {n \in DOMAIN Types : <<awb, Types[n]>> \in Groups(invoice)}
  IN IF hits = {} THEN {} ELSE {<<awb, Types[Min(hits)]>>}

AdjustmentsTo(invoice, key) ==
  IF key[2] # "ADJUSTMENT" /\ key \in TargetIn(invoice, key[1])
  THEN SumOver(invoice, LinesOf(invoice, <<key[1], "ADJUSTMENT">>)) ELSE 0

\* matchGroup.
MatchGroup(booked, invoice, key) ==
  LET lines == LinesOf(invoice, key)
      unread == \E i \in lines : invoice.lines[i].amount = Unknown
      weighed == {i \in lines : invoice.lines[i].weight # Unknown}
      weight == IF weighed = {} THEN Unknown ELSE invoice.lines[Min(weighed)].weight
      expected == IF key[1] \in DOMAIN booked THEN Expectation(key[2], booked[key[1]], weight) ELSE Unknown
  IN [notFound |-> key[1] \notin DOMAIN booked,
      review |-> key[1] \in DOMAIN booked /\ (expected = Unknown \/ unread \/ SumOver(invoice, lines) < 0),
      mismatch |-> expected # Unknown /\ ~unread
                   /\ AmountMismatch(SumOver(invoice, lines), AdjustmentsTo(invoice, key), expected)]

\* An adjustment takes its target's flags, or is reviewed without one.
Outcome(booked, invoice, key) ==
  IF key[2] = "ADJUSTMENT" /\ TargetIn(invoice, key[1]) # {}
  THEN [MatchGroup(booked, invoice, CHOOSE k \in TargetIn(invoice, key[1]) : TRUE) EXCEPT !.notFound = FALSE]
  ELSE MatchGroup(booked, invoice, key)

\* The control total: every group is matched or to be reviewed, none is lost.
\* (Which of the two an adjustment of another file's line is changes no residual.)
ControlOf(booked, invoice) ==
  LET reviewed == {i \in DOMAIN invoice.lines :
                     LET o == Outcome(booked, invoice, KeyOf(invoice.lines[i])) IN o.review \/ o.notFound}
  IN ControlTotal(invoice.declared,
                  SumOver(invoice, DOMAIN invoice.lines \ reviewed), SumOver(invoice, reviewed))

\* What a file's adjustments add to another's lines: those whose AWB has no
\* target in the file itself and has one among the other's rows.
AdjustmentsOf(invoice, other, rows) ==
  SumOver(invoice, {i \in DOMAIN invoice.lines :
    /\ invoice.lines[i].type = "ADJUSTMENT" /\ rows # <<>>
    /\ TargetIn(invoice, invoice.lines[i].awb) = {}
    /\ TargetIn(other, invoice.lines[i].awb) # {}})

----------------------------------------------------------------------------
(* The batches.                                                            *)

VARIABLES
  batch,     \* recon_freight_batch
  rows,      \* recon_freight_row by line, once the matching committed
  adjusted,  \* recon_freight_adjustment: what later files added to a line
  queue,     \* BullMQ's job of a batch; a finished job keeps its id
  ftask,     \* per task: the batch or row it has read
  restarts,
  left       \* batches a member's request died at before it could resolve them

freightVars == <<batch, rows, adjusted, queue, ftask, restarts, left>>

Ids == DOMAIN Invoices
Settled == {"ACCEPTED", "RESOLVED", "IGNORED"}
NoBatch == [state |-> "none", version |-> 0, control |-> "WITHIN_THRESHOLD", uploads |-> 0]
Off == [pc |-> "off", id |-> 0, line |-> 0, version |-> 0, to |-> "none"]

Init ==
  /\ batch = [b \in Ids |-> NoBatch]
  /\ rows = [b \in Ids |-> <<>>]
  /\ adjusted = [b \in Ids |-> 0]
  /\ queue = [b \in Ids |-> "none"]
  /\ ftask = [t \in FreightTasks |-> Off]
  /\ restarts = 0
  /\ left = {}

Done(t) == ftask' = [ftask EXCEPT ![t] = Off]

----------------------------------------------------------------------------
(* Upload.                                                                 *)

\* upload: a known file is a no-op unless it FAILED; then its row is revived.
\* The job is enqueued after the statement.
UploadInvoice(t, b) ==
  /\ ftask[t] = Off /\ batch[b].uploads < MaxReuploads
  /\ batch[b].state \in {"none", "FAILED"}
  /\ batch' = [batch EXCEPT ![b] = [state |-> "UPLOADED", version |-> @.version + 1,
                                    control |-> "WITHIN_THRESHOLD", uploads |-> @.uploads + 1]]
  /\ ftask' = [ftask EXCEPT ![t] = [Off EXCEPT !.pc = "enqueue", !.id = b]]
  /\ UNCHANGED <<rows, adjusted, queue, restarts, left>>

\* jobId is the batch's: BullMQ ignores an id it still holds, and it holds the
\* last hundred finished jobs.
EnqueueBatch(t) ==
  /\ ftask[t].pc = "enqueue"
  /\ queue' = [queue EXCEPT ![ftask[t].id] = IF @ = "none" THEN "waiting" ELSE @]
  /\ Done(t)
  /\ UNCHANGED <<batch, rows, adjusted, restarts, left>>

----------------------------------------------------------------------------
(* Processing.                                                             *)

\* processBatch: UPLOADED and PARSED are taken, anything else is a no-op.
TakeBatch(t, b) ==
  /\ ftask[t] = Off /\ queue[b] = "waiting"
  /\ IF batch[b].state \in {"UPLOADED", "PARSED"}
     THEN /\ queue' = [queue EXCEPT ![b] = "active"]
          /\ ftask' = [ftask EXCEPT ![t] = [Off EXCEPT !.pc = "taken", !.id = b, !.version = batch[b].version]]
     ELSE queue' = [queue EXCEPT ![b] = "finished"] /\ UNCHANGED ftask
  /\ UNCHANGED <<batch, rows, adjusted, restarts, left>>

\* A lost lock: BullMQ hands the job to another worker while one is at it.
Stall(b) ==
  /\ queue[b] = "active" /\ restarts < MaxRestarts
  /\ queue' = [queue EXCEPT ![b] = "waiting"]
  /\ restarts' = restarts + 1
  /\ UNCHANGED <<batch, rows, adjusted, ftask, left>>

Same(t) == batch[ftask[t].id].version = ftask[t].version

\* parseStoredFile, then failBatch or markState(PARSED), both by version.
ParseFails(t) ==
  /\ ftask[t].pc = "taken"
  /\ LET b == ftask[t].id
     IN /\ batch' = IF Same(t) THEN [batch EXCEPT ![b].state = "FAILED", ![b].version = @ + 1] ELSE batch
        /\ queue' = [queue EXCEPT ![b] = "finished"]
  /\ Done(t)
  /\ UNCHANGED <<rows, adjusted, restarts, left>>

ParseBatch(t) ==
  /\ ftask[t].pc = "taken"
  /\ LET b == ftask[t].id
     IN /\ batch' = IF Same(t) THEN [batch EXCEPT ![b].state = "PARSED", ![b].version = @ + 1] ELSE batch
        /\ ftask' = [ftask EXCEPT ![t] = IF Same(t) THEN [Off EXCEPT !.pc = "match", !.id = b, !.version = ftask[t].version + 1]
                                         ELSE Off]
  /\ UNCHANGED <<rows, adjusted, queue, restarts, left>>

\* matchAndPersist: every row, its flags, the adjustments and the control total
\* in one transaction that ends with the batch's version; else it rolls back
\* and the job is retried.
MatchAndPersist(t) ==
  /\ ftask[t].pc = "match"
  /\ LET b == ftask[t].id
         new == [i \in DOMAIN Invoices[b].lines |-> [state |-> "OPEN", version |-> 1]]
     IN IF Same(t)
        THEN /\ rows' = [rows EXCEPT ![b] = @ \o new]
             /\ adjusted' = [c \in Ids |-> adjusted[c] + AdjustmentsOf(Invoices[b], Invoices[c], rows[c])]
             /\ batch' = [batch EXCEPT ![b].state = "MATCHED", ![b].version = @ + 1,
                                       ![b].control = ControlOf(Booked, Invoices[b])]
             /\ queue' = [queue EXCEPT ![b] = "finished"]
             /\ UNCHANGED restarts
        ELSE /\ queue' = [queue EXCEPT ![b] = IF restarts < MaxRestarts THEN "waiting" ELSE "finished"]
             /\ restarts' = restarts + 1
             /\ UNCHANGED <<rows, adjusted, batch>>
  /\ Done(t)
  /\ UNCHANGED left

----------------------------------------------------------------------------
(* Members.                                                                *)

\* ROW_TRANSITIONS.
Transitions == {<<"OPEN", "ACCEPTED">>, <<"OPEN", "DISPUTE_PREPARED">>, <<"DISPUTE_PREPARED", "DISPUTE_PREPARED">>,
                <<"DISPUTE_PREPARED", "SUBMITTED">>, <<"DISPUTE_PREPARED", "RESOLVED">>,
                <<"SUBMITTED", "RESOLVED">>, <<"OPEN", "IGNORED">>}

\* act reads the row; the version is the one the member's screen showed.
ActReads(t, b, i) ==
  /\ ftask[t] = Off /\ i \in DOMAIN rows[b] /\ rows[b][i].version <= MaxActs
  /\ \E tr \in Transitions :
       /\ tr[1] = rows[b][i].state
       /\ ftask' = [ftask EXCEPT ![t] =
            [pc |-> "act", id |-> b, line |-> i, version |-> rows[b][i].version, to |-> tr[2]]]
  /\ UNCHANGED <<batch, rows, adjusted, queue, restarts, left>>

ActWrites(t) ==
  /\ ftask[t].pc = "act"
  /\ LET b == ftask[t].id  i == ftask[t].line
     IN IF rows[b][i].version = ftask[t].version
        THEN /\ rows' = [rows EXCEPT ![b][i] = [state |-> ftask[t].to, version |-> @.version + 1]]
             /\ ftask' = [ftask EXCEPT ![t] = [Off EXCEPT !.pc = "resolve", !.id = b]]
        ELSE Done(t) /\ UNCHANGED rows
  /\ UNCHANGED <<batch, adjusted, queue, restarts, left>>

\* attachEvidence moves only the row's version.
AttachEvidence(t, b, i) ==
  /\ ftask[t] = Off /\ i \in DOMAIN rows[b] /\ rows[b][i].version = 1
  /\ rows' = [rows EXCEPT ![b][i].version = @ + 1]
  /\ UNCHANGED <<batch, adjusted, queue, ftask, restarts, left>>

\* acceptResidual reads the batch, then writes the version the screen showed.
ResidualReads(t, b) ==
  /\ ftask[t] = Off /\ batch[b].state = "MATCHED" /\ batch[b].control # "ACCEPTED_WITH_REMARK"
  /\ ftask' = [ftask EXCEPT ![t] = [Off EXCEPT !.pc = "residual", !.id = b, !.version = batch[b].version]]
  /\ UNCHANGED <<batch, rows, adjusted, queue, restarts, left>>

ResidualWrites(t) ==
  /\ ftask[t].pc = "residual"
  /\ LET b == ftask[t].id
     IN IF Same(t) /\ batch[b].control # "ACCEPTED_WITH_REMARK"
        THEN /\ batch' = [batch EXCEPT ![b].control = "ACCEPTED_WITH_REMARK", ![b].version = @ + 1]
             /\ ftask' = [ftask EXCEPT ![t] = [Off EXCEPT !.pc = "resolve", !.id = b]]
        ELSE Done(t) /\ UNCHANGED batch
  /\ UNCHANGED <<rows, adjusted, queue, restarts, left>>

AllSettled(b) == \A i \in DOMAIN rows[b] : rows[b][i].state \in Settled

\* maybeResolveBatch, one conditional statement after each of the above.
ResolvableBug(b) == batch[b].state = "MATCHED" /\ AllSettled(b)
Resolvable(b) == batch[b].state = "MATCHED" /\ batch[b].control # "MISMATCH" /\ AllSettled(b)
MaybeResolve(t) ==
  /\ ftask[t].pc = "resolve"
  /\ batch' = IF Resolvable(ftask[t].id)
              THEN [batch EXCEPT ![ftask[t].id].state = "RESOLVED", ![ftask[t].id].version = @ + 1] ELSE batch
  /\ Done(t)
  /\ UNCHANGED <<rows, adjusted, queue, restarts, left>>

\* A process dies between two statements: a worker leaves its job active until
\* Stall hands it out again, nobody repeats what a member's request had left to do.
TaskDies(t) ==
  /\ ftask[t] # Off /\ restarts + Cardinality(left) < MaxRestarts
  /\ left' = left \cup {b \in Ids : ftask[t].pc = "resolve" /\ ftask[t].id = b}
  /\ Done(t)
  /\ UNCHANGED <<batch, rows, adjusted, queue, restarts>>

----------------------------------------------------------------------------

Next ==
  \/ \E b \in Ids : Stall(b)
  \/ \E t \in FreightTasks :
       \/ EnqueueBatch(t) \/ ParseFails(t) \/ ParseBatch(t) \/ MatchAndPersist(t)
       \/ ActWrites(t) \/ ResidualWrites(t) \/ MaybeResolve(t) \/ TaskDies(t)
       \/ \E b \in Ids :
            \/ UploadInvoice(t, b) \/ TakeBatch(t, b) \/ ResidualReads(t, b)
            \/ \E i \in DOMAIN Invoices[b].lines : ActReads(t, b, i) \/ AttachEvidence(t, b, i)

Spec == Init /\ [][Next]_freightVars

----------------------------------------------------------------------------

\* recon-workflow.service.ts: a batch is RESOLVED when every row is settled and
\* its control total stands; its lines are there once; and a batch that could be
\* resolved has somebody about to do so, unless a member's request died between
\* the statement that settled the last thing (lines 104, 228) and its
\* maybeResolveBatch: only an acceptance of the residual could still resolve it.
ResolvedIsSettled ==
  \A b \in Ids :
    /\ Len(rows[b]) \in {0, Len(Invoices[b].lines)}
    /\ batch[b].state = "RESOLVED" => AllSettled(b) /\ batch[b].control # "MISMATCH"
    /\ Resolvable(b) /\ Len(rows[b]) > 0 =>
         b \in left \/ \E t \in FreightTasks : ftask[t].pc = "resolve" /\ ftask[t].id = b

\* A batch that waits to be processed has a job or somebody about to add one
\* (recon-import.service.ts: a FAILED batch "is revived and reprocessed").
UploadedIsQueued ==
  \A b \in Ids : batch[b].state = "UPLOADED" =>
    queue[b] = "waiting" \/ \E t \in FreightTasks : ftask[t].id = b
=============================================================================
