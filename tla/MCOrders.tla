------------------------------- MODULE MCOrders -------------------------------
(***************************************************************************)
(* What happens to an order before and beside its booking, one component   *)
(* at a time: the ingests (OrderSync, extended), the routing decision      *)
(* (RuleEngine), the rules as rows (RuleBook) and the GST invoices         *)
(* (GstInvoices).  They share no state; focus says which moves.            *)
(***************************************************************************)
EXTENDS OrderSync, TLC

CONSTANTS
  Focuses,                                 \* which components move
  RuleIds, Conditions, Contents, InZone,   \* of RuleBook
  Members, Evaluations, MaxVersion,
  Shipments, OrderOf, Complete, Sellers, Slots,  \* of GstInvoices
  Services, Books, Chains, Facts, StaleAfter \* of RuleEngine

ASSUME OrdersAssumption ==
  /\ IsFiniteSet(FOs) /\ Nobody \notin Ingests /\ MaxShipments \in Nat
  /\ IsFiniteSet(Slots) /\ Slots \subseteq Nat \ {0}

\* A rule has one of the four actions and a condition one of the two levels; a
\* price, a date and a place in the merchant's order are numbers.
RuleOK(r) ==
  /\ r.active \in BOOLEAN /\ r.from \in Int /\ r.to \in Int
  /\ r.action \in {"MANUAL_ONLY", "PRIORITY_CHAIN", "CHEAPEST", "FASTEST"}
  /\ r.services \in Seq(Services)
  /\ \A k \in DOMAIN r.groups : \A i \in DOMAIN r.groups[k] :
       LET c == r.groups[k][i]
       IN c.level \in {"candidate", "order"} /\ c.known \in BOOLEAN /\ c.holds \in BOOLEAN
FactOK(f) ==
  /\ {f.row, f.bookable, f.serviceable, f.quoted} \subseteq BOOLEAN
  /\ {f.price, f.edd, f.tie} \subseteq Nat
ASSUME EngineAssumption ==
  /\ \A book \in Books :
       Len(book) \in Nat /\ DOMAIN book = 1 .. Len(book) /\ \A k \in DOMAIN book : RuleOK(book[k])
  /\ Chains \subseteq Seq(Services) /\ \A f \in Facts : FactOK(f)

VARIABLES
  focus,
  input, results, outcome,
  rule, group, cond, zone, trace, form, eval, written,
  schema, year, invoice, sequence, hook, touched

engineVars == <<input, results, outcome>>
bookVars == <<rule, group, cond, zone, trace, form, eval, written>>
gstVars == <<schema, year, invoice, sequence, hook, touched>>

----------------------------------------------------------------------------
(* The order: paid for at the door, then prepaid with one unit more.       *)

Content(amount, outstanding, gateways, lines) ==
  [amount |-> amount, outstanding |-> outstanding, gateways |-> gateways, recipient |-> TRUE, lines |-> lines]
Line(qty) == [sku |-> "s", qty |-> qty, override |-> Null, shopify |-> 2, profile |-> Null]
MCPayloads == <<Content(9, 9, {"cod"}, {Line(1)}), Content(9, 0, {"card"}, {Line(2)})>>
MCProfiles == {[id |-> 1, volume |-> 5, tare |-> 1, default |-> TRUE]}
MCRules == {}

----------------------------------------------------------------------------
(* The books: a rule of each kind over a held order, a rule that is off,   *)
(* too early or over, an operand that is missing, two bounds of one field. *)

Cond(level, field, bound, known) ==
  [level |-> level, field |-> field, bound |-> bound, known |-> known, holds |-> TRUE]
Tagged == Cond("order", "TAG", 1, TRUE)
Weighed(known) == Cond("order", "WEIGHT", 1, known)
Freight(bound) == Cond("candidate", "ESTIMATED_FREIGHT", bound, FALSE)
RuleOf(action, groups, active, excluded, from, to) ==
  [action |-> action, groups |-> groups, active |-> active, excluded |-> excluded,
   from |-> from, to |-> to, services |-> <<"a", "b">>]
HoldFrom(from) == RuleOf("MANUAL_ONLY", <<<< >>>>, TRUE, {}, from, 9)
MCBooks ==
  {<< >>}
  \cup {<<RuleOf(action, <<<<Tagged>>, group2>>, TRUE, excluded, 0, 9), HoldFrom(from)>> :
          action \in {"PRIORITY_CHAIN", "CHEAPEST", "FASTEST"},
          group2 \in {<< >>, <<Weighed(FALSE)>>, <<Weighed(TRUE), Freight(1), Freight(2)>>},
          excluded \in {{}, {"a"}}, from \in {1, 2}}
  \cup {<<RuleOf("CHEAPEST", <<<< >>>>, active, {}, 0, to), HoldFrom(0)>> :
          active \in BOOLEAN, to \in {1, 2}}
Usual ==
  [row |-> TRUE, bookable |-> TRUE, serviceable |-> TRUE, quoted |-> TRUE,
   price |-> 1, edd |-> 1, age |-> 1, tie |-> 0, meets |-> {1, 2}]
MCFacts ==
  {[Usual EXCEPT !.price = p, !.edd = e] : p \in 0..2, e \in 0..2}
  \cup {[Usual EXCEPT !.tie = 2], [Usual EXCEPT !.price = 2, !.edd = 2, !.tie = 2],
        [Usual EXCEPT !.row = FALSE], [Usual EXCEPT !.bookable = FALSE],
        [Usual EXCEPT !.serviceable = FALSE], [Usual EXCEPT !.quoted = FALSE],
        [Usual EXCEPT !.age = 2], [Usual EXCEPT !.meets = {}], [Usual EXCEPT !.meets = {1}]}

MCChains == {<< >>, <<"b">>, <<"b", "a">>}

Engine == INSTANCE RuleEngine
AnyInput == [rules |-> CHOOSE b \in Books : TRUE, chain |-> CHOOSE c \in Chains : TRUE,
             facts |-> [s \in Services |-> CHOOSE f \in Facts : TRUE], now |-> 1]

MCContents == {{{"cod"}}, {{"zone"}, {"cod"}}}
RuleRows == INSTANCE RuleBook WITH Rules <- RuleIds

MCOrderOf == <<1, 1>>
Gst == INSTANCE GstInvoices WITH written <- touched

----------------------------------------------------------------------------

MCInit ==
  /\ focus \in Focuses
  /\ Init /\ Engine!Init /\ RuleRows!Init /\ Gst!Init
  /\ focus # "engine" => input = AnyInput

MCNext ==
  \/ focus = "ingest" /\ Next /\ UNCHANGED <<focus, engineVars, bookVars, gstVars>>
  \/ focus = "engine" /\ Engine!Next /\ UNCHANGED <<focus, vars, bookVars, gstVars>>
  \/ focus = "book" /\ RuleRows!Next /\ UNCHANGED <<focus, vars, engineVars, gstVars>>
  \/ focus = "gst" /\ Gst!Next /\ UNCHANGED <<focus, vars, engineVars, bookVars>>

MCSpec == MCInit /\ [][MCNext]_<<focus, vars, engineVars, bookVars, gstVars>>

Symmetry == Permutations(Ingests) \cup Permutations(Members)

----------------------------------------------------------------------------

\* OrderSync: no fulfillment order's lines are in two shipments, and every draft
\* an ingest leaves behind has been judged.
IngestsStand == focus = "ingest" => NoDoubleShipment /\ DraftsJudged
\* RuleEngine: the first rule that speaks decides, and what it selects is able.
RoutingStands == focus = "engine" => Engine!RoutingStands
\* RuleBook: no write goes over one its author was not shown.
NoSilentOverwrite == [][RuleRows!OverwritesNothing]_bookVars
\* GstInvoices: the numbers of a GSTIN, a year and a series have no gap and no double.
NumbersStand == focus = "gst" => Gst!NumbersStand

\* GstInvoices: an order with a confirmed shipment has its invoice.
BookedHasInvoice == focus = "gst" => Gst!BookedHasInvoice
=============================================================================
