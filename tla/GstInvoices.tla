----------------------------- MODULE GstInvoices -----------------------------
(***************************************************************************)
(* The GST invoices of a shop: one for an order, made when its first       *)
(* shipment is confirmed, completed by the merchant, numbered when it is   *)
(* issued, voided, and corrected by a linked credit note.                  *)
(***************************************************************************)
EXTENDS Integers, FiniteSets, FiniteSetsExt

CONSTANTS
  Shipments,   \* the live shipments being confirmed
  OrderOf,     \* the order of each
  Complete,    \* the orders whose snapshot has all that an invoice needs
  Sellers,     \* the GSTINs of the shop's pickup locations
  Slots        \* invoice rows, in the order they are inserted

VARIABLES
  schema,     \* the last migration that has run: 12 or 13
  year,       \* the financial year it is
  invoice,    \* rows of gst_invoice with their lines
  sequence,   \* rows of invoice_number_sequence
  hook,       \* the locals of onShipmentConfirmed
  written     \* the rows a member completed or made, and has not yet had issued

gstVars == <<schema, year, invoice, sequence, hook, written>>

----------------------------------------------------------------------------

Series == {"INV", "CN"}
Places == {"home", "away"}   \* the seller's state, and another
NoRow == [state |-> "NONE"]

Rows == {i \in Slots : invoice[i] # NoRow}
Free == Slots \ Rows
Fresh(order, series, seller, place, missing, lines, of) ==
  [state |-> "ISSUE_PENDING", order |-> order, series |-> series, seller |-> seller, place |-> place,
   missing |-> missing, lines |-> lines, total |-> "none", number |-> 0, year |-> 0,
   corrects |-> of]

Init ==
  /\ schema = 12 /\ year = 1
  /\ invoice = [i \in Slots |-> NoRow]
  /\ sequence = [n \in Sellers \X (1..2) \X Series |-> 0]
  /\ hook = [h \in Shipments |-> [pc |-> "confirmed", row |-> 0]]
  /\ written = {}

\* Migration 13 makes the index on (shop, order) a partial one.
Migrate == schema = 12 /\ schema' = 13 /\ UNCHANGED <<year, invoice, sequence, hook, written>>
NewYear == year = 1 /\ year' = 2 /\ UNCHANGED <<schema, invoice, sequence, hook, written>>

----------------------------------------------------------------------------
(* attemptIssue: one transaction that holds the invoice's row and the      *)
(* sequence's; a rollback gives the number back.                           *)

Number(i) == <<invoice[i].seller, year, invoice[i].series>>
ReadyBug(i) == invoice[i].state = "ISSUE_PENDING"
Ready(i) == invoice[i].state = "ISSUE_PENDING" /\ ~invoice[i].missing

Issued(i) ==
  [invoice[i] EXCEPT !.state = "ISSUED", !.number = sequence[Number(i)] + 1, !.year = year,
                     !.total = invoice[i].lines]
AttemptIssue(i) ==
  IF Ready(i)
  THEN /\ invoice' = [invoice EXCEPT ![i] = Issued(i)]
       /\ sequence' = [sequence EXCEPT ![Number(i)] = @ + 1]
  ELSE UNCHANGED <<invoice, sequence>>

----------------------------------------------------------------------------
(* onShipmentConfirmed, statement by statement.  ON CONFLICT (shop, order) *)
(* finds its index until migration 13, and none that fits after it: the    *)
(* statement fails and the booking worker logs it.                         *)

Hook(h, pc, row) == hook' = [hook EXCEPT ![h] = [pc |-> pc, row |-> row]]
Primary(order) == {i \in Rows : invoice[i].order = order /\ invoice[i].corrects = 0}
InferenceFails == schema = 13

InsertInvoice(h) ==
  LET order == OrderOf[h] IN
  /\ hook[h].pc = "confirmed"
  /\ UNCHANGED <<schema, year, sequence, written>>
  /\ \/ InferenceFails /\ Hook(h, "failed", 0) /\ UNCHANGED invoice
     \/ /\ ~InferenceFails /\ Primary(order) = {} /\ Free # {}
        /\ \E seller \in Sellers : invoice' = [invoice EXCEPT ![Min(Free)] =
               Fresh(order, "INV", seller, "away", order \notin Complete, "none", 0)]
        /\ Hook(h, "lines", Min(Free))
     \/ /\ ~InferenceFails /\ Primary(order) # {}
        /\ \E i \in Primary(order) : Hook(h, "issue", i)
        /\ UNCHANGED invoice

\* The tax of a line is split by the place of supply.
InsertLines(h) ==
  LET i == hook[h].row IN
  /\ hook[h].pc = "lines"
  /\ invoice' = [invoice EXCEPT ![i].lines = "away"]
  /\ Hook(h, "issue", i)
  /\ UNCHANGED <<schema, year, sequence, written>>
IssueAfterBooking(h) ==
  /\ hook[h].pc = "issue"
  /\ AttemptIssue(hook[h].row)
  /\ Hook(h, "done", hook[h].row)
  /\ UNCHANGED <<schema, year, written>>
\* The worker dies.
HookDies(h) ==
  /\ hook[h].pc \in {"confirmed", "lines", "issue"}
  /\ Hook(h, "dead", hook[h].row)
  /\ UNCHANGED <<schema, year, invoice, sequence, written>>

----------------------------------------------------------------------------
(* The members.                                                            *)

\* patchInvoice: the fields, perhaps the lines; a form that shows another
\* version is refused.  What is complete is then issued.
PatchInvoice(i, seller, place, supplies, withLines) ==
  /\ invoice[i].state = "ISSUE_PENDING"
  /\ invoice' = [invoice EXCEPT ![i].seller = seller, ![i].place = place, ![i].missing = @ /\ ~supplies,
                                ![i].lines = IF withLines /\ @ # "none" THEN place ELSE @]
  /\ written' = IF invoice'[i].missing THEN written ELSE written \cup {i}
  /\ UNCHANGED <<schema, year, sequence, hook>>
IssueAfterWrite(i) ==
  /\ i \in written
  /\ AttemptIssue(i)
  /\ written' = written \ {i}
  /\ UNCHANGED <<schema, year, hook>>

VoidInvoice(i) ==
  /\ invoice[i].state = "ISSUED"
  /\ invoice' = [invoice EXCEPT ![i].state = "VOID"]
  /\ UNCHANGED <<schema, year, sequence, hook, written>>

\* createCreditNote inserts a row, which the first index refuses a second time
\* for an order, and issues it.
CreateCreditNote(i) ==
  /\ invoice[i].state = "VOID" /\ schema = 13 /\ Free # {}
  /\ invoice' = [invoice EXCEPT ![Min(Free)] =
       Fresh(invoice[i].order, "CN", invoice[i].seller, invoice[i].place, FALSE, invoice[i].lines, i)]
  /\ written' = written \cup {Min(Free)}
  /\ UNCHANGED <<schema, year, sequence, hook>>

Next ==
  \/ Migrate \/ NewYear
  \/ \E h \in Shipments : InsertInvoice(h) \/ InsertLines(h) \/ IssueAfterBooking(h) \/ HookDies(h)
  \/ \E i \in Rows :
       \/ VoidInvoice(i) \/ CreateCreditNote(i) \/ IssueAfterWrite(i)
       \/ \E seller \in Sellers, place \in Places, supplies, withLines \in BOOLEAN :
            PatchInvoice(i, seller, place, supplies, withLines)

Spec == Init /\ [][Next]_gstVars

----------------------------------------------------------------------------

Numbered == {i \in Rows : invoice[i].state \in {"ISSUED", "VOID"}}

\* INV-13: the numbers of a GSTIN, a year and a series are 1, 2, 3, ... with one invoice
\* each, voided ones keeping theirs, whoever issues and whenever the year turns;
\* no number goes to an invoice that still misses what the law asks for.
NumbersStand ==
  /\ \A g \in Sellers, y \in 1..2, s \in Series :
       LET of == {i \in Numbered : invoice[i].seller = g /\ invoice[i].year = y /\ invoice[i].series = s}
       IN /\ {invoice[i].number : i \in of} = 1..sequence[<<g, y, s>>]
          /\ Cardinality(of) = sequence[<<g, y, s>>]
  /\ \A i \in Numbered : ~invoice[i].missing
  /\ \A i \in Rows : invoice[i].corrects # 0 => invoice[invoice[i].corrects].state = "VOID"

\* What the repository says otherwise.

\* One invoice per order is created at its first confirmed booking.
BookedHasInvoice ==
  \A h \in Shipments : hook[h].pc \in {"done", "failed"} => Primary(OrderOf[h]) # {}
\* The totals of an issued invoice are those of its lines.
TotalsOfLines == \A i \in Numbered : invoice[i].total = invoice[i].lines
\* The tax of an issued invoice is split by its place of supply.
SplitFollowsPlace ==
  \A i \in Numbered : invoice[i].lines # "none" => invoice[i].lines = invoice[i].place
=============================================================================
