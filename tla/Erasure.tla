-------------------------------- MODULE Erasure --------------------------------
(***************************************************************************)
(* What takes a buyer's data, or a whole test, away: customers/redact over *)
(* the stores that hold a recipient (FullRedactionService), and the        *)
(* Owner's purge of the test shipments (TestShipmentsService), while the   *)
(* order is ingested again, booked and printed.  One order.                *)
(***************************************************************************)
EXTENDS Integers, FiniteSets

CONSTANTS
  Parcels, Tests,   \* shipments of the order, those whose account is a TEST one
  MaxPapers,        \* bound: documents
  MaxIngests,       \* bound: ingests of the order
  MaxRequests,      \* bound: redactions and purges begun
  MaxCrashes        \* bound

VARIABLES
  buyer,    \* recipient in the order, and in its invoice; ingests about to write drafts
  parcel,   \* row, is_test, recipient in working values and snapshot, ledger rows
  paper,    \* document rows and the bytes they name
  printer,  \* a label being generated
  redactor, purger,
  bounds

erasureVars == <<buyer, parcel, paper, printer, redactor, purger, bounds>>

NoPaper == [row |-> "none", of |-> "none", bytes |-> FALSE]
Rest == [pc |-> "rest", seen |-> {}, docs |-> {}, quiet |-> TRUE]
NoPurge == [pc |-> "rest", seen |-> {}, docs |-> {}, left |-> {}, tombs |-> {}]

Init ==
  /\ buyer = [order |-> TRUE, invoice |-> "none", writing |-> 0, late |-> FALSE]
  /\ parcel = [p \in Parcels |-> [row |-> "DRAFT", test |-> FALSE, working |-> TRUE,
                                  frozen |-> FALSE, ledger |-> FALSE]]
  /\ paper = [d \in 1..MaxPapers |-> NoPaper]
  /\ printer = "none"
  /\ redactor = Rest /\ purger = NoPurge
  /\ bounds = [ingests |-> MaxIngests, requests |-> MaxRequests, crashes |-> MaxCrashes]

Spend(what) == bounds[what] > 0 /\ bounds' = [bounds EXCEPT ![what] = @ - 1]

----------------------------------------------------------------------------
(* What goes on meanwhile.                                                 *)

\* The order is read from Shopify again and upserted; its drafts are rebuilt from
\* what was read in statements that follow.  late records drafts written so after
\* a redaction took the recipient from the order.
Ingest ==
  /\ Spend("ingests")
  /\ buyer' = [buyer EXCEPT !.order = TRUE, !.writing = @ + 1, !.late = FALSE]
  /\ redactor' = [redactor EXCEPT !.quiet = FALSE]
  /\ UNCHANGED <<parcel, paper, printer, purger>>
WriteDrafts ==
  /\ buyer.writing > 0
  /\ buyer' = [buyer EXCEPT !.writing = @ - 1, !.late = @ \/ ~buyer.order]
  /\ parcel' = [p \in Parcels |-> IF parcel[p].row = "DRAFT" THEN [parcel[p] EXCEPT !.working = TRUE]
                                  ELSE parcel[p]]
  /\ redactor' = [redactor EXCEPT !.quiet = FALSE]
  /\ UNCHANGED <<paper, printer, purger, bounds>>

\* Booked and confirmed: the mode of the account is the shipment's, and a live
\* one is debited and invoiced.
Book(p) ==
  /\ parcel[p].row = "DRAFT" /\ parcel[p].working
  /\ parcel' = [parcel EXCEPT ![p] = [row |-> "CONFIRMED", test |-> p \in Tests, working |-> TRUE,
                                      frozen |-> TRUE, ledger |-> p \notin Tests]]
  /\ buyer' = IF p \in Tests \/ buyer.invoice # "none" THEN buyer ELSE [buyer EXCEPT !.invoice = "full"]
  /\ UNCHANGED <<paper, printer, redactor, purger, bounds>>

\* The shipment is read, the label drawn and stored, then its row inserted.
Draw(p) ==
  /\ printer = "none" /\ parcel[p].row = "CONFIRMED" /\ \E d \in DOMAIN paper : paper[d] = NoPaper
  /\ printer' = p
  /\ UNCHANGED <<buyer, parcel, paper, redactor, purger, bounds>>
Insert ==
  /\ printer # "none"
  /\ LET d == CHOOSE n \in DOMAIN paper : paper[n] = NoPaper
     IN  paper' = [paper EXCEPT ![d] = [row |-> "object", of |-> printer, bytes |-> TRUE]]
  /\ printer' = "none"
  /\ UNCHANGED <<buyer, parcel, redactor, purger, bounds>>

\* Rows whose key still names an object, of these shipments.
Objects(of) == {d \in DOMAIN paper : paper[d].row = "object" /\ paper[d].of \in of}
Deleted(docs) == [d \in DOMAIN paper |-> IF d \in docs THEN [paper[d] EXCEPT !.bytes = FALSE] ELSE paper[d]]

----------------------------------------------------------------------------
(* customers/redact: one statement after another, no transaction.          *)

Redacts(pc, next) == redactor.pc = pc /\ redactor' = [redactor EXCEPT !.pc = next]

\* The orders listed or whose snapshot still names the customer.
Capture ==
  /\ redactor.pc \in {"rest", "done", "failed"} /\ Spend("requests")
  /\ \E listed \in BOOLEAN :
       redactor' = [Rest EXCEPT !.pc = "captured",
                                !.seen = IF listed \/ buyer.order
                                         THEN {p \in Parcels : parcel[p].row # "gone"} ELSE {}]
  /\ UNCHANGED <<buyer, parcel, paper, printer, purger>>

\* Phase 1 goes on with the orders whose snapshot it took away just now.
RedactOrder ==
  /\ Redacts("captured", IF buyer.order THEN "order" ELSE "working")
  /\ buyer' = [buyer EXCEPT !.order = FALSE]
  /\ UNCHANGED <<parcel, paper, printer, purger, bounds>>
Wiped(p) == parcel[p].row = "DRAFT"
RedactWorking ==
  /\ Redacts("order", "working")
  /\ parcel' = [p \in Parcels |-> IF Wiped(p) THEN [parcel[p] EXCEPT !.working = FALSE] ELSE parcel[p]]
  /\ UNCHANGED <<buyer, paper, printer, purger, bounds>>

\* The row guard refuses any change to a frozen snapshot: the request fails.
PseudonymizeSnapshots ==
  /\ redactor.pc = "working"
  /\ redactor' = [redactor EXCEPT !.pc =
       IF \E p \in redactor.seen : parcel[p].row = "CONFIRMED" /\ parcel[p].frozen
       THEN "failed" ELSE "snapshots"]
  /\ UNCHANGED <<buyer, parcel, paper, printer, purger, bounds>>
StripGst ==
  /\ Redacts("snapshots", "invoice")
  /\ buyer' = IF redactor.seen # {} /\ buyer.invoice = "full"
              THEN [buyer EXCEPT !.invoice = "stripped"] ELSE buyer
  /\ UNCHANGED <<parcel, paper, printer, purger, bounds>>
EraseDocuments ==
  /\ redactor.pc = "invoice"
  /\ LET docs == Objects(redactor.seen)
     IN  /\ redactor' = [redactor EXCEPT !.pc = "erased", !.docs = docs]
         /\ paper' = Deleted(docs)
  /\ UNCHANGED <<buyer, parcel, printer, purger, bounds>>
Tombstone ==
  /\ Redacts("erased", "done")
  /\ paper' = [d \in DOMAIN paper |->
       IF d \in redactor.docs /\ paper[d].row = "object" THEN [paper[d] EXCEPT !.row = "redacted"]
       ELSE paper[d]]
  /\ UNCHANGED <<buyer, parcel, printer, purger, bounds>>

----------------------------------------------------------------------------
(* The purge: refused when a test has left a trace in the books; then      *)
(* batches, the bytes before the transaction that deletes the rows.        *)

TestRow(p) == parcel[p].row # "gone" /\ parcel[p].test

AssertTestIsolation ==
  /\ purger.pc = "rest" /\ Spend("requests")
  /\ purger' = IF \E p \in Parcels : parcel[p].test /\ parcel[p].ledger
               THEN purger ELSE [purger EXCEPT !.pc = "isolated"]
  /\ UNCHANGED <<buyer, parcel, paper, printer, redactor>>
\* The batch, and then all its documents, those a redaction left a tombstone of too.
ReadBatch ==
  /\ purger.pc = "isolated"
  /\ LET batch == {p \in Parcels : TestRow(p)}
         docs == {d \in DOMAIN paper : paper[d].row \in {"object", "redacted"} /\ paper[d].of \in batch}
     IN  purger' = IF batch = {} THEN NoPurge
                   ELSE [pc |-> "batch", seen |-> batch, docs |-> docs, left |-> docs,
                         tombs |-> {d \in docs : paper[d].row = "redacted"}]
  /\ UNCHANGED <<buyer, parcel, paper, printer, redactor, bounds>>
\* One by one; a key that is not under the shop's prefix ends the request.
EraseObject ==
  /\ purger.pc = "batch"
  /\ \E d \in purger.left :
       IF d \in purger.tombs
       THEN purger' = NoPurge /\ UNCHANGED paper
       ELSE purger' = [purger EXCEPT !.left = @ \ {d}] /\ paper' = Deleted({d})
  /\ UNCHANGED <<buyer, parcel, printer, redactor, bounds>>
PurgeBatch ==
  /\ purger.pc = "batch" /\ purger.left = {}
  /\ parcel' = [p \in Parcels |-> IF p \in purger.seen THEN [parcel[p] EXCEPT !.row = "gone"] ELSE parcel[p]]
  /\ paper' = [d \in DOMAIN paper |-> IF d \in purger.docs THEN [paper[d] EXCEPT !.row = "gone"] ELSE paper[d]]
  /\ purger' = [NoPurge EXCEPT !.pc = "isolated"]
  /\ UNCHANGED <<buyer, printer, redactor, bounds>>

Dies ==
  /\ Spend("crashes")
  /\ \/ redactor.pc \notin {"rest", "done", "failed"}
        /\ redactor' = [redactor EXCEPT !.pc = "failed"] /\ UNCHANGED purger
     \/ purger.pc # "rest" /\ purger' = NoPurge /\ UNCHANGED redactor
  /\ UNCHANGED <<buyer, parcel, paper, printer>>

Next ==
  \/ Ingest \/ WriteDrafts \/ Insert \/ Dies
  \/ \E p \in Parcels : Book(p) \/ Draw(p)
  \/ Capture \/ RedactOrder \/ RedactWorking \/ PseudonymizeSnapshots
  \/ StripGst \/ EraseDocuments \/ Tombstone
  \/ AssertTestIsolation \/ ReadBatch \/ EraseObject \/ PurgeBatch

Spec == Init /\ [][Next]_erasureVars

----------------------------------------------------------------------------

\* full-redaction.service.ts and test-shipments.service.ts: whatever is booked,
\* printed or ingested meanwhile, a shipment with money behind it is never
\* purged; the object of a key that is gone, or a tombstone, is gone; and a
\* redaction that ends well, with no ingest at work since it began and no process
\* dead before it, leaves no recipient in the order, nor in a draft it found, unless
\* an ingest wrote that draft after an earlier redaction had emptied the order:
\* phase 1 then matches no order and leaves its drafts.
ErasureStands ==
  /\ \A p \in Parcels : parcel[p].ledger => parcel[p].row # "gone"
  /\ \A d \in DOMAIN paper : paper[d].row \in {"redacted", "gone"} => ~paper[d].bytes
  /\ redactor.pc = "done" /\ redactor.quiet /\ bounds.crashes = MaxCrashes =>
       /\ ~buyer.order
       /\ ~buyer.late => \A p \in redactor.seen : parcel[p].row = "DRAFT" => ~parcel[p].working

\* What keeps it: no test is in the books, and what the purge or the tombstones
\* are about to take is a test, or has lost its bytes; a place is kept for the
\* paper being printed; and while no process died, an order that names no buyer
\* has no draft that does, but for the moment between two statements.
ParcelStands(x) ==
  /\ x \in [row : {"DRAFT", "CONFIRMED", "gone"}, test : BOOLEAN, working : BOOLEAN,
            frozen : BOOLEAN, ledger : BOOLEAN]
  /\ x.row = "DRAFT" => ~x.test
  /\ x.test => ~x.ledger
  /\ x.ledger => x.row # "gone"
PaperStands(x) ==
  /\ x \in [row : {"none", "object", "redacted", "gone"}, of : {x.of}, bytes : BOOLEAN]
  /\ x.row \in {"redacted", "gone"} => ~x.bytes
Erased(docs) == docs \subseteq {d \in DOMAIN paper : paper[d].row # "none" /\ ~paper[d].bytes}
RedactorStands ==
  /\ redactor \in [pc : {redactor.pc}, seen : SUBSET Parcels, docs : {redactor.docs}, quiet : BOOLEAN]
  /\ redactor.pc = "erased" => Erased(redactor.docs)
  /\ redactor.quiet /\ redactor.pc \in {"order", "working", "snapshots", "invoice", "erased", "done"} => ~buyer.order
  /\ ~buyer.order /\ ~buyer.late /\ bounds.crashes = MaxCrashes /\ redactor.pc # "order" =>
       \A p \in Parcels : parcel[p].row = "DRAFT" => ~parcel[p].working
PurgerStands ==
  /\ purger \in [pc : {purger.pc}, seen : {purger.seen}, docs : {purger.docs},
                left : {purger.left}, tombs : {purger.tombs}]
  /\ purger.pc = "batch" =>
       /\ purger.seen \subseteq {p \in Parcels : parcel[p].test}
       /\ purger.left \subseteq purger.docs
       /\ purger.docs \subseteq {d \in DOMAIN paper : paper[d].row # "none"}
       /\ Erased(purger.docs \ purger.left)
ErasureInv ==
  /\ buyer \in [order : BOOLEAN, invoice : {buyer.invoice}, writing : Nat, late : BOOLEAN]
  /\ parcel = [p \in Parcels |-> parcel[p]] /\ \A p \in Parcels : ParcelStands(parcel[p])
  /\ paper = [d \in 1..MaxPapers |-> paper[d]] /\ \A d \in 1..MaxPapers : PaperStands(paper[d])
  /\ printer # "none" => \E d \in 1..MaxPapers : paper[d] = NoPaper
  /\ bounds \in [ingests : {bounds.ingests}, requests : {bounds.requests}, crashes : Int]
  /\ bounds.crashes <= MaxCrashes
  /\ RedactorStands /\ PurgerStands

\* Not so: a redaction that ends well has reached every draft it found (after
\* one that died the order matches no more, and phase 1 leaves its drafts).
RedactionCompletes ==
  redactor.pc = "done" /\ redactor.quiet =>
    \A p \in redactor.seen : parcel[p].row = "DRAFT" => ~parcel[p].working

\* Not so: full-redaction.service.ts:194, "the one sanctioned exception to
\* INV-10": the row guard makes none, and the request ends there.
BookedIsRedacted == redactor.pc # "failed" \/ bounds.crashes < MaxCrashes

\* Not so: the purge takes all of a test (a label printed meanwhile stays; and with
\* a tombstone among its papers the request throws, now and each time it is repeated).
PurgeTakesAll ==
  \A d \in DOMAIN paper : paper[d].row = "object" => parcel[paper[d].of].row # "gone"

\* Not so: a document that is listed can be fetched (the bytes go first).
ListedIsThere == purger.pc = "rest" => \A d \in DOMAIN paper : paper[d].row = "object" => paper[d].bytes
=============================================================================
