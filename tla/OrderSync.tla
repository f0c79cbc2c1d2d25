------------------------------ MODULE OrderSync ------------------------------
(***************************************************************************)
(* One Shopify order on its way into the shop's tables: webhooks and the   *)
(* hourly sweep ingest it (upsert, rebuild, evaluate), the buyer confirms  *)
(* a COD order, bookings take the drafts, and a GDPR request redacts it.   *)
(* Every ingest is a process: its four database transactions and the read  *)
(* of Shopify's fulfillment orders are separate steps.                     *)
(***************************************************************************)
EXTENDS Integers, Sequences, FiniteSets, SequencesExt

CONSTANTS
  Ingests,        \* webhook deliveries and sweep visits of the order
  FOs,            \* its fulfillment orders in Shopify
  Elsewhere,      \* those assigned to a location that does not ship via Jsyxi
  Payloads,       \* the contents the order may have, one per edit
  CodGateways, Profiles, Rules, DefaultWeight,
  CanMerge, ExpiryPolicy, Pickup, Nobody,
  MaxEdits, MaxCrashes,  \* bounds on edits in Shopify and on processes that die
  MaxShipments           \* bound on the shipment rows at a time

VARIABLES
  shopify,        \* Shopify's side: content, fulfillment orders, cancelled
  order,          \* the "order" row, with its order_line rows; Nobody's lock is free
  allocations,    \* the allocation rows
  shipments,      \* the shipment rows; Gone where there is none
  proc,           \* per ingest
  confirmation,   \* the cod_confirmation row, and what the expiry sweep has read
  redaction,      \* the steps of customers/redact
  crashes

vars == <<shopify, order, allocations, shipments, proc, confirmation, redaction, crashes>>

----------------------------------------------------------------------------
(* The pure derivations over an order (order-derivation): dead weight,     *)
(* package profile, COD outstanding, payment mode, eligibility.  Money is  *)
(* in paise, weight in grams; Null is SQL's NULL.                          *)

Null == -1

UnbookedOrderStates == {"IMPORTED", "INCOMPLETE", "READY"}
Drafts == {"DRAFT", "NEEDS_MANUAL_ASSIGNMENT"}

----------------------------------------------------------------------------
(* Weight and package.  A line is [sku, qty, override, shopify, profile]:  *)
(* override and profile are the sku_override row's, Null without one.      *)

PerUnit(line) == IF line.override # Null THEN line.override
                 ELSE IF line.shopify # Null THEN line.shopify ELSE 0

LineTotal(lines) == MapThenSumSet(LAMBDA l : PerUnit(l) * l.qty, lines)

ContentWeight(lines, default) ==
  IF LineTotal(lines) = 0 THEN default ELSE LineTotal(lines)

DeadWeight(lines, tare, default) == ContentWeight(lines, default) + tare

\* A rule is [position, minKg, maxKg, minItems, maxItems, profile]; Null leaves a bound open.
RuleMatches(r, grams, items) ==
  /\ r.minKg # Null => grams >= r.minKg
  /\ r.maxKg # Null => grams <= r.maxKg
  /\ r.minItems # Null => items >= r.minItems
  /\ r.maxItems # Null => items <= r.maxItems

\* The profiles the selection may return; {} where the code throws.  A profile
\* is [id, volume, tare, default].  Of equally large SKU profiles the first read wins.
SelectProfiles(lines, grams, rules, profiles) ==
  LET items == MapThenSumSet(LAMBDA l : l.qty, lines)
      overrides == {p \in profiles : \E l \in lines : l.profile = p.id}
      hits == {r \in rules : RuleMatches(r, grams, items) /\ \E p \in profiles : p.id = r.profile}
      first == {r \in hits : \A q \in hits : r.position <= q.position}
      defaults == {p \in profiles : p.default}
  IN IF overrides # {} THEN {p \in overrides : \A q \in overrides : q.volume <= p.volume}
     ELSE IF hits # {} THEN {p \in profiles : \E r \in first : p.id = r.profile}
     ELSE IF Cardinality(defaults) = 1 THEN defaults ELSE {}

----------------------------------------------------------------------------
(* Payment.                                                                *)

CodOutstanding(amount, outstanding, hasCodGateway) ==
  IF outstanding # Null THEN outstanding
  ELSE IF hasCodGateway THEN amount ELSE 0

PaymentMode(gateways, codGateways, outstanding) ==
  LET cod == gateways \cap codGateways # {}
      prepaid == gateways \ codGateways # {}
  IN CASE gateways = {} \/ (cod /\ prepaid) \/ outstanding = Null -> "UNRESOLVED"
       [] cod /\ ~prepaid /\ outstanding # Null -> IF outstanding > 0 THEN "COD" ELSE "PREPAID"
       [] prepaid /\ ~cod /\ outstanding # Null -> IF outstanding > 0 THEN "UNRESOLVED" ELSE "PREPAID"

\* INV-7 as evaluated: the serviceability and credential checks are constants in the code.
EligibilityFailures(recipient, hasLines, grams, hasProfile, pickup, mode, collectible) ==
     (IF recipient THEN {} ELSE {"RECIPIENT"})
  \cup (IF hasLines THEN {} ELSE {"ALLOCATED_LINES"})
  \cup (IF grams > 0 THEN {} ELSE {"POSITIVE_WEIGHT"})
  \cup (IF hasProfile THEN {} ELSE {"POSITIVE_DIMENSIONS"})
  \cup (IF pickup THEN {} ELSE {"PICKUP_LOCATION"})
  \cup (IF mode # "UNRESOLVED" THEN {} ELSE {"PAYMENT_MODE"})
  \cup (IF collectible >= 0 THEN {} ELSE {"COLLECTIBLE"})

----------------------------------------------------------------------------

OrderStates == UnbookedOrderStates \cup {"ABSENT", "CANCELLED_IN_SHOPIFY", "CLOSED"}
Topics == {"create", "updated", "cancelled", "fulfilled", "sweep"}
Gone == [booking |-> "GONE"]
Unjudged == {"UNJUDGED"}

Idle == [pc |-> "idle", topic |-> "sweep", payload |-> 0, fos |-> {}, read |-> <<>>]

Rows == {n \in 1..MaxShipments : shipments[n] # Gone}
DraftRows == {n \in Rows : shipments[n].booking \in Drafts}
Unbooked == order.state \in UnbookedOrderStates

\* The order_line rows a shipment_line row still references.
LinesReferenced == \E n \in Rows : shipments[n].lines

Init ==
  /\ shopify = [content |-> 1, fos |-> [f \in FOs |-> "OPEN"], cancelled |-> FALSE]
  /\ order = [state |-> "ABSENT", content |-> 0, pii |-> FALSE, mode |-> "UNRESOLVED",
              lock |-> Nobody]
  /\ allocations = {}
  /\ shipments = [n \in 1..MaxShipments |-> Gone]
  /\ proc = [p \in Ingests |-> Idle]
  /\ confirmation = [state |-> "NONE", sweep |-> "idle"]
  /\ redaction = "none"
  /\ crashes = 0

----------------------------------------------------------------------------
(* The buyer and Shopify.                                                  *)

EditInShopify ==
  /\ shopify.content < MaxEdits
  /\ \/ shopify' = [shopify EXCEPT !.content = @ + 1]
     \/ shopify' = [shopify EXCEPT !.content = @ + 1, !.cancelled = TRUE]
     \/ \E f \in FOs : shopify.fos[f] = "OPEN"
                       /\ shopify' = [shopify EXCEPT !.content = @ + 1, !.fos[f] = "CLOSED"]
  /\ UNCHANGED <<order, allocations, shipments, proc, confirmation, redaction, crashes>>

----------------------------------------------------------------------------
(* Ingest.                                                                 *)

\* Shopify gave no answer; a constraint refused the statement; the process died.
Ended == {"done", "failed", "refused", "dead"}
Step(p, pc) == proc' = [proc EXCEPT ![p] = IF pc \in Ended
                                            THEN [Idle EXCEPT !.pc = pc, !.topic = proc[p].topic]
                                            ELSE [@ EXCEPT !.pc = pc]]
Busy(p, pc) == proc[p].pc = pc

\* A webhook carries the content of the moment it was sent and may be handled
\* late; the sweep reads the order when it visits it.
Deliver(p, topic, payload) ==
  /\ Busy(p, "idle")
  /\ payload \in 1..shopify.content
  /\ topic = "sweep" => payload = shopify.content
  /\ topic = "cancelled" => shopify.cancelled
  /\ topic = "fulfilled" => \E f \in FOs : shopify.fos[f] = "CLOSED"
  /\ proc' = [proc EXCEPT ![p] = [Idle EXCEPT !.pc = "upsert", !.topic = topic, !.payload = payload]]
  /\ UNCHANGED <<shopify, order, allocations, shipments, confirmation, redaction, crashes>>

\* The row is written whatever its state; the lines of an unbooked order are
\* deleted and written again, which fails while a shipment_line references one.
Upsert(p) ==
  /\ Busy(p, "upsert") /\ order.lock = Nobody
  /\ IF Unbooked /\ LinesReferenced
     THEN Step(p, "refused") /\ UNCHANGED order
     ELSE /\ order' = [order EXCEPT !.state = IF @ = "ABSENT" THEN "IMPORTED" ELSE @,
                                    !.content = proc[p].payload, !.pii = TRUE]
          /\ Step(p, IF order.state \in UnbookedOrderStates \cup {"ABSENT"} THEN "fetch" ELSE "confirm")
  /\ UNCHANGED <<shopify, allocations, shipments, confirmation, redaction, crashes>>

FetchFulfillmentOrders(p) ==
  /\ Busy(p, "fetch")
  /\ \/ proc' = [proc EXCEPT ![p].pc = "rebuild", ![p].fos = {f \in FOs : shopify.fos[f] = "OPEN"}]
     \/ Step(p, "failed")   \* Shopify answers with an error; the hourly sweep comes again
  /\ UNCHANGED <<shopify, order, allocations, shipments, confirmation, redaction, crashes>>

\* The allocations of a plan as [fos, state]: every fulfillment order of the
\* answer is in one, and an order with none gets one open allocation.
Plan(open) ==
  LET ours == open \ Elsewhere
      excluded == {[fos |-> {f}, state |-> "EXCLUDED"] : f \in FOs \ ours}
      kept == IF CanMerge THEN {[fos |-> ours, state |-> "OPEN"] : f \in ours}
              ELSE {[fos |-> {f}, state |-> "OPEN"] : f \in ours}
  IN IF FOs = {} THEN {[fos |-> {}, state |-> "OPEN"]} ELSE excluded \cup kept

Deletable == {a \in allocations : a.state \in {"OPEN", "EXCLUDED"}}
StillUsedByDraft(a) == \E n \in DraftRows : shipments[n].attempted /\ shipments[n].fos = a.fos
StillUsed(a) == \E n \in Rows \ DraftRows : shipments[n].fos = a.fos

NewShipment(a, payload) ==
  [fos |-> a.fos, booking |-> "DRAFT", attempted |-> FALSE, content |-> payload, pii |-> TRUE,
   lines |-> Payloads[order.content].lines # {}, snapshotPii |-> FALSE, failures |-> Unjudged]

\* Rolls back when a booked shipment references an allocation it would delete,
\* or a booking intent one of the drafts.
Rebuild(p) ==
  /\ Busy(p, "rebuild") /\ order.lock = Nobody
  /\ IF ~Unbooked THEN Step(p, "derive") /\ UNCHANGED <<allocations, shipments>>
     ELSE IF (\E a \in Deletable : StillUsed(a)) \/ (\E n \in DraftRows : shipments[n].attempted)
     THEN Step(p, "refused") /\ UNCHANGED <<allocations, shipments>>
     ELSE LET plan == Plan(proc[p].fos)
              open == SetToSeq({i \in plan : i.state = "OPEN"})
              free == SetToSortSeq({n \in 1..MaxShipments : n \notin Rows \ DraftRows}, <)
              place(n) == {k \in DOMAIN open : free[k] = n}
          IN /\ Len(open) <= Len(free)
             /\ allocations' = (allocations \ Deletable) \cup plan
             /\ shipments' = [n \in 1..MaxShipments |->
                  IF n \in Rows \ DraftRows THEN shipments[n]
                  ELSE IF place(n) = {} THEN Gone
                  ELSE NewShipment(open[CHOOSE k \in place(n) : TRUE], proc[p].payload)]
             /\ Step(p, "derive")
  /\ UNCHANGED <<shopify, order, confirmation, redaction, crashes>>

\* evaluateOrder: reads under the order's row lock, writes, releases; a draft's
\* working values are written back as they were read, the recipient included.
Verdict(failures) == IF failures = {} THEN "READY" ELSE "INCOMPLETE"

Derived(read) ==
  LET rows == DOMAIN read
      content == Payloads[order.content]
      first == Payloads[read[Min(rows)].content]   \* the working values' payload
      gateways == IF rows = {} THEN {} ELSE UNION {Payloads[read[n].content].gateways : n \in rows}
      outstanding == IF rows = {} THEN Null ELSE first.outstanding
      cod == CodOutstanding(content.amount, outstanding, gateways \cap CodGateways # {})
      mode == PaymentMode(gateways, CodGateways, cod)
      profiles == SelectProfiles(content.lines, ContentWeight(content.lines, DefaultWeight), Rules, Profiles)
      grams == IF profiles = {} THEN Null
               ELSE DeadWeight(content.lines, (CHOOSE f \in profiles : TRUE).tare, DefaultWeight)
  IN [mode |-> mode,
      failures |-> EligibilityFailures(order.pii /\ content.recipient, rows # {} /\ content.lines # {},
                                       grams, profiles # {}, Pickup /\ rows # {}, mode, cod)]

NeedsEvaluation == Unbooked
EvaluateRead(p) ==
  /\ Busy(p, "derive") /\ order.lock = Nobody
  /\ IF NeedsEvaluation
     THEN /\ proc' = [proc EXCEPT ![p].pc = "write", ![p].read =
               [n \in DraftRows |-> [pii |-> shipments[n].pii, content |-> shipments[n].content]]]
          /\ order' = [order EXCEPT !.lock = p]
     ELSE Step(p, "confirm") /\ UNCHANGED order
  /\ UNCHANGED <<shopify, allocations, shipments, confirmation, redaction, crashes>>

EvaluateWrite(p) ==
  /\ Busy(p, "write")
  /\ LET read == proc[p].read
         d == Derived(read)
     IN /\ order' = [order EXCEPT !.mode = d.mode, !.lock = Nobody,
                        !.state = IF Unbooked THEN Verdict(d.failures) ELSE @]
        /\ shipments' = [n \in 1..MaxShipments |->
             IF n \in DOMAIN read \cap DraftRows
             THEN [shipments[n] EXCEPT !.failures = d.failures, !.pii = read[n].pii] ELSE shipments[n]]
  /\ proc' = [proc EXCEPT ![p].pc = "confirm", ![p].read = <<>>]
  /\ UNCHANGED <<shopify, allocations, confirmation, redaction, crashes>>

StartConfirmation(p) ==
  /\ Busy(p, "confirm")
  /\ confirmation' = IF order.mode = "COD" /\ confirmation.state = "NONE"
                     THEN [confirmation EXCEPT !.state = "PENDING"] ELSE confirmation
  /\ Step(p, IF proc[p].topic \in {"cancelled", "fulfilled"} THEN proc[p].topic ELSE "done")
  /\ UNCHANGED <<shopify, order, allocations, shipments, redaction, crashes>>

MarkCancelled(p) ==
  /\ Busy(p, "cancelled") /\ order.lock = Nobody
  /\ order' = [order EXCEPT !.state = IF @ = "CLOSED" THEN @ ELSE "CANCELLED_IN_SHOPIFY"]
  /\ Step(p, "done")
  /\ UNCHANGED <<shopify, allocations, shipments, confirmation, redaction, crashes>>

\* The exclusion, the deletion of the drafts' lines and that of the drafts are
\* separate statements.
Closed == {f \in FOs : shopify.fos[f] # "OPEN"}
ExcludeFulfilled(p) ==
  /\ Busy(p, "fulfilled")
  /\ LET hit == {a \in allocations : a.state = "OPEN" /\ a.fos \cap Closed # {}}
     IN /\ allocations' = (allocations \ hit) \cup {[a EXCEPT !.state = "EXCLUDED"] : a \in hit}
        /\ IF hit = {} THEN Step(p, "done")
           ELSE proc' = [proc EXCEPT ![p].pc = "lines", ![p].fos = UNION {a.fos : a \in hit}]
  /\ UNCHANGED <<shopify, order, shipments, confirmation, redaction, crashes>>

ExcludedDrafts(p) == {n \in DraftRows : shipments[n].fos \cap proc[p].fos # {}}
DropLines(p) ==
  /\ Busy(p, "lines")
  /\ shipments' = [n \in 1..MaxShipments |->
       IF n \in ExcludedDrafts(p) THEN [shipments[n] EXCEPT !.lines = FALSE] ELSE shipments[n]]
  /\ Step(p, "drop")
  /\ UNCHANGED <<shopify, order, allocations, confirmation, redaction, crashes>>

\* Fails when a booking intent references one of the drafts.
DropExcludedDrafts(p) ==
  /\ Busy(p, "drop")
  /\ LET hit == ExcludedDrafts(p)
     IN IF \E n \in hit : shipments[n].attempted
        THEN Step(p, "refused") /\ UNCHANGED shipments
        ELSE /\ shipments' = [n \in 1..MaxShipments |-> IF n \in hit THEN Gone ELSE shipments[n]]
             /\ Step(p, "done")
  /\ UNCHANGED <<shopify, order, allocations, confirmation, redaction, crashes>>

\* A process that dies releases its lock with its transaction.
Crash(p) ==
  /\ crashes < MaxCrashes
  /\ proc[p].pc \notin Ended \cup {"idle"}
  /\ crashes' = crashes + 1
  /\ Step(p, "dead")
  /\ order' = [order EXCEPT !.lock = IF @ = p THEN Nobody ELSE @]
  /\ UNCHANGED <<shopify, allocations, shipments, confirmation, redaction>>

----------------------------------------------------------------------------
(* The bookings, seen from the order (Booking.tla has them whole): a draft *)
(* is queued with a frozen snapshot and is BOOKED until it is void or back *)
(* with the member.                                                        *)

Book(n) ==
  /\ n \in DraftRows /\ shipments[n].pii /\ shipments[n].failures \ {"RECIPIENT"} = {}
  /\ shipments' = [shipments EXCEPT ![n].booking = "BOOKED", ![n].snapshotPii = shipments[n].pii]
  /\ UNCHANGED <<shopify, order, allocations, proc, confirmation, redaction, crashes>>

SettleBooking(n) ==
  /\ n \in Rows /\ shipments[n].booking = "BOOKED"
  /\ \E b \in {"VOID", "NEEDS_MANUAL_ASSIGNMENT"} :
       shipments' = [shipments EXCEPT ![n].booking = b, ![n].attempted = TRUE]
  /\ UNCHANGED <<shopify, order, allocations, proc, confirmation, redaction, crashes>>

----------------------------------------------------------------------------
(* COD confirmation.                                                       *)

Confirm ==
  /\ confirmation.state = "PENDING"
  /\ confirmation' = [confirmation EXCEPT !.state = "CONFIRMED"]
  /\ UNCHANGED <<shopify, order, allocations, shipments, proc, redaction, crashes>>

\* The sweep reads the pending rows, then acts on the shipments and settles the
\* row if it is still pending.
SweepReads ==
  /\ confirmation.state = "PENDING" /\ confirmation.sweep = "idle"
  /\ confirmation' = [confirmation EXCEPT !.sweep = "read"]
  /\ UNCHANGED <<shopify, order, allocations, shipments, proc, redaction, crashes>>

SweepActs ==
  /\ confirmation.sweep = "read"
  /\ shipments' = IF ExpiryPolicy = "BOOK_ANYWAY" THEN shipments   \* the booker: Book(n)
                  ELSE [n \in 1..MaxShipments |->
                          IF shipments[n].booking = "DRAFT"
                          THEN [shipments[n] EXCEPT !.booking = "NEEDS_MANUAL_ASSIGNMENT"] ELSE shipments[n]]
  /\ confirmation' = [state |-> IF confirmation.state # "PENDING" THEN confirmation.state
                                ELSE IF ExpiryPolicy = "BOOK_ANYWAY" THEN "EXPIRED_BOOKED" ELSE "EXPIRED_HELD",
                      sweep |-> "idle"]
  /\ UNCHANGED <<shopify, order, allocations, proc, redaction, crashes>>

----------------------------------------------------------------------------
(* customers/redact: the order, the working values, the frozen snapshots.  *)

Redact ==
  /\ order.state # "ABSENT"
  /\ \/ /\ redaction = "none" /\ order.lock = Nobody
        /\ order' = [order EXCEPT !.pii = FALSE]
        /\ redaction' = IF order.pii THEN "working" ELSE "snapshots"
        /\ UNCHANGED shipments
     \/ /\ redaction = "working" /\ redaction' = "snapshots"
        /\ shipments' = [n \in 1..MaxShipments |->
             IF n \in DraftRows THEN [shipments[n] EXCEPT !.pii = FALSE] ELSE shipments[n]]
        /\ UNCHANGED order
     \/ /\ redaction = "snapshots"   \* the row guard refuses any change to a snapshot here
        /\ redaction' = IF \E n \in Rows : shipments[n].snapshotPii THEN "refused" ELSE "done"
        /\ UNCHANGED <<order, shipments>>
  /\ UNCHANGED <<shopify, allocations, proc, confirmation, crashes>>

----------------------------------------------------------------------------

Ingest(p) ==
  \/ \E t \in Topics, c \in 1..MaxEdits : Deliver(p, t, c)
  \/ Upsert(p) \/ FetchFulfillmentOrders(p) \/ Rebuild(p) \/ EvaluateRead(p) \/ EvaluateWrite(p)
  \/ StartConfirmation(p) \/ MarkCancelled(p) \/ ExcludeFulfilled(p)
  \/ DropLines(p) \/ DropExcludedDrafts(p)
  \/ Crash(p)

Next ==
  \/ EditInShopify \/ Redact
  \/ \E p \in Ingests : Ingest(p)
  \/ \E n \in 1..MaxShipments : n \in Rows /\ (Book(n) \/ SettleBooking(n))
  \/ Confirm \/ SweepReads \/ SweepActs

Spec == Init /\ [][Next]_vars

----------------------------------------------------------------------------

TypeOK ==
  /\ order.state \in OrderStates /\ order.content \in 0..MaxEdits /\ order.pii \in BOOLEAN
  /\ order.mode \in {"PREPAID", "COD", "UNRESOLVED"} /\ order.lock \in Ingests \cup {Nobody}
  /\ \A a \in allocations : a.fos \subseteq FOs /\ a.state \in {"OPEN", "EXCLUDED"}
  /\ \A n \in Rows : shipments[n].booking \in Drafts \cup {"BOOKED", "VOID"}
  /\ confirmation.state \in {"NONE", "PENDING", "CONFIRMED", "EXPIRED_BOOKED", "EXPIRED_HELD"}

\* No fulfillment order is ever in two shipments that can ship: not when two
\* ingests rebuild the order at once, nor when a booking takes a draft between
\* an ingest's upsert and its rebuild (§9.2.5).
NoDoubleShipment ==
  \A m, n \in Rows : m # n => shipments[m].fos \cap shipments[n].fos = {}

\* When no ingest is under way and none died on the way, every draft no booking
\* has touched has been judged, by the verdict the order shows: whatever fails,
\* the last rebuild is followed by an evaluation that saw its drafts (INV-7).
DraftsJudged ==
  (/\ Unbooked
   /\ \A p \in Ingests : proc[p].pc \in (Ended \ {"dead"}) \cup {"idle"})
    => \A n \in DraftRows : ~shipments[n].attempted => Verdict(shipments[n].failures) = order.state

\* A cancellation announced by Shopify lands on the order's row, whatever the
\* order has been through: no constraint refuses the ingest that precedes it.
CancelLands == \A p \in Ingests : proc[p].topic = "cancelled" => proc[p].pc # "refused"

\* customers/redact erases the recipient from the frozen snapshots too (§5.5).
RedactionErases == redaction # "refused"
=============================================================================
