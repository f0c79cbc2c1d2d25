--------------------------------- MODULE MCMoney ---------------------------------
(***************************************************************************)
(* The components that count money, one at a time: Billing, CodRecon,      *)
(* FreightRecon, and a parcel's price from the rate card to the courier's  *)
(* invoice.  They share no state; focus says which moves.                  *)
(***************************************************************************)
EXTENDS Integers, Sequences, FiniteSets, TLC

CONSTANTS
  Focuses,                                   \* which components move
  Workers,                                   \* their tasks
  Parcels, Allowance, Cap,                   \* of Billing
  MaxCharges, MaxRows, MaxAmbiguous, MaxActivity,
  Docked, Readable, Files, Owed, Tolerance,  \* of CodRecon
  MaxUploads, MaxDeaths,
  Booked, Invoices, AmountTolerance, ControlFloor,   \* of FreightRecon
  MaxReuploads, MaxActs, MaxRestarts,
  Seller, Tariffs, Goods, Days               \* of the prices: a shop with the services it
                                             \* uses, cards it may write, parcels, days

\* The lines of an invoice file are a sequence.
ASSUME MoneyAssumption ==
  \A b \in DOMAIN Invoices :
    Len(Invoices[b].lines) \in Nat /\ DOMAIN Invoices[b].lines = 1 .. Len(Invoices[b].lines)

VARIABLES
  focus,
  shop, subs, charges, downgrade, ledger, usage, credits, billed, task,
  parcels, overdue, expect, alloc, files, jobs, ctask, deaths,
  batch, rows, adjusted, queue, ftask, restarts, left,
  versions, snapshot, bill

Subscription == INSTANCE Billing WITH Tasks <- Workers
Cod == INSTANCE CodRecon WITH CodTasks <- Workers
Freight == INSTANCE FreightRecon WITH FreightTasks <- Workers

----------------------------------------------------------------------------
(* A remittance in two files that tally together; an invoice and a later   *)
(* adjustment whose declared total does not stand.                         *)

MCFiles == <<<<[of |-> "docked", amount |-> 4]>>, <<[of |-> "docked", amount |-> 6]>>>>

Unread == -1000000
Line(type, amount) == [awb |-> "w", type |-> type, amount |-> amount, weight |-> Unread]
MCBooked == [w |-> [basis |-> "QUOTE", total |-> 100]]
MCInvoices == <<[declared |-> 100, lines |-> <<Line("FORWARD", 100)>>],
                [declared |-> 300, lines |-> <<Line("ADJUSTMENT", -10)>>]>>

----------------------------------------------------------------------------
(* Two tariffs, two service versions, places in two zones.                 *)

Pune == [city |-> "pune", metro |-> "no"]
MCSeller == [origin |-> "o",
         places |-> [o |-> Pune, near |-> Pune, far |-> [city |-> "missing", metro |-> "yes"]],
         services |-> {[since |-> 1, upto |-> 9, divisor |-> 5000, min |-> 500, increment |-> 500],
                       [since |-> 2, upto |-> 9, divisor |-> 4000, min |-> 500, increment |-> 250]}]
Rules == <<[from |-> [city |-> {"pune"}], to |-> [city |-> {"pune"}], zone |-> "A"],
           [from |-> <<>>, to |-> [metro |-> {"yes"}], zone |-> "B"]>>
Row(basis, value, taxed) == [basis |-> basis, value |-> value, taxed |-> taxed]
Tariff1 ==
  [slabs |-> [A |-> [rate |-> 3501, upto |-> 500, step |-> 500, stepRate |-> 1999],
              B |-> [rate |-> 7001, upto |-> 500, step |-> 300, stepRate |-> 2903]],
   fuel |-> 13, codFlat |-> 3000, codPct |-> 2, gst |-> 18, taxable |-> {"F-5", "F-6", "F-7", "F-8"},
   rows |-> <<Row("PERCENT_OF_PRE_TAX_SUBTOTAL", 3, TRUE), Row("PER_KG_BILLABLE", 157, FALSE)>>,
   rto |-> "PERCENT_OF_FORWARD", rtoPct |-> 90]
Tariff2 ==
  [Tariff1 EXCEPT !.fuel = 0, !.taxable = {"F-5"}, !.rto = "SAME_AS_FORWARD",
     !.rows = <<Row("PERCENT_OF_BASE_FREIGHT", 7, TRUE), Row("PERCENT_OF_DECLARED_VALUE", 1, TRUE), Row("FLAT", 501, TRUE)>>]

MCTariffs == {[rules |-> Rules, tariff |-> Tariff1], [rules |-> Tail(Rules), tariff |-> Tariff2]}
MCGoods == {[to |-> to, box |-> [dead |-> d, l |-> l, w |-> 20, h |-> 10], collectible |-> c, declared |-> 99900] :
            to \in {"near", "far"}, d \in {400, 1300}, l \in {10, 30}, c \in {0, 99900, 499999}}

----------------------------------------------------------------------------
(* From a rate card to the invoice, by the operators of FreightRecon: a card *)
(* gets versions, a booking freezes its quote in the snapshot of the       *)
(* shipment, and the courier bills it later, when other versions may be in *)
(* force.                                                                  *)

NoBill == [declared |-> 0, lines |-> <<>>]
NotBooked == [basis |-> "none"]

QuotesInit ==
  /\ versions = {}
  /\ snapshot = NotBooked
  /\ bill = NoBill

\* createVersion: under the card's row lock, no interval meets another.
CreateVersion ==
  /\ \E t \in Tariffs, since \in Days, upto \in Days :
       /\ since <= upto /\ ~Freight!Overlaps(versions, since, upto)
       /\ versions' = versions \cup {[since |-> since, upto |-> upto, rules |-> t.rules, tariff |-> t.tariff]}
  /\ UNCHANGED <<snapshot, bill>>

\* estimateCost, and the snapshot the booking freezes of it.
Quote(parcel, day) ==
  LET seller == [origin |-> Seller.origin, places |-> Seller.places, services |-> Seller.services, versions |-> versions]
      quoted == Freight!Estimate(seller, parcel, day)
      version == CHOOSE v \in Freight!InForce(versions, day) : TRUE
      service == CHOOSE s \in Freight!InForce(Seller.services, day) : TRUE
  IN /\ snapshot = NotBooked /\ quoted.priced
     /\ snapshot' = [basis |-> "RATE_CARD", tariff |-> version.tariff,
                     zone |-> Freight!Zone(version.rules, Seller.places[Seller.origin], Seller.places[parcel.to]),
                     grams |-> Freight!Billable(parcel.box, service),
                     collectible |-> parcel.collectible, declared |-> parcel.declared,
                     base |-> quoted.base, cod |-> quoted.cod, total |-> quoted.total, net |-> quoted.net]
     /\ UNCHANGED <<versions, bill>>

\* The courier bills what was quoted, with or without the weight it charged.
Charge(type) ==
  CASE type = "FORWARD" -> snapshot.total
    [] type = "COD_FEE" -> snapshot.cod
    [] type = "RTO" -> Freight!ReturnFreight(snapshot.tariff, snapshot.base, snapshot.grams, snapshot.declared).total
ChargeTypes == {"FORWARD", "COD_FEE", "RTO"}
Itemised(order, weight) ==
  [declared |-> Freight!SumFunction([n \in DOMAIN order |-> Charge(order[n])]),
   lines |-> [n \in DOMAIN order |->
                [awb |-> "w", type |-> order[n], amount |-> Charge(order[n]), weight |-> weight]]]
Bill ==
  /\ snapshot # NotBooked /\ bill = NoBill
  /\ \E n \in 1 .. Cardinality(ChargeTypes), weight \in {Freight!Unknown, snapshot.grams} :
       \E order \in [1 .. n -> ChargeTypes] :
          Freight!IsInjective(order) /\ bill' = Itemised(order, weight)
  /\ UNCHANGED <<versions, snapshot>>

QuotesMove ==
  \/ CreateVersion
  \/ \E parcel \in Goods, day \in Days : Quote(parcel, day)
  \/ Bill

----------------------------------------------------------------------------

\* Rates and charges are amounts or per cents, a slab has steps, a card's rows are
\* a sequence of the five bases.
Bases == {"FLAT", "PERCENT_OF_BASE_FREIGHT", "PERCENT_OF_PRE_TAX_SUBTOTAL", "PER_KG_BILLABLE",
          "PERCENT_OF_DECLARED_VALUE"}
IsTariff(t) ==
  /\ \A z \in DOMAIN t.slabs : t.slabs[z] \in [rate : Nat, upto : Nat, step : Nat \ {0}, stepRate : Nat]
  /\ t.rows \in Seq([basis : Bases, value : Nat, taxed : BOOLEAN])
  /\ {t.fuel, t.codFlat, t.codPct, t.gst, t.rtoPct} \subseteq Nat
IsBox(b) == b \in [dead : Nat, l : Nat, w : Nat, h : Nat]
ASSUME PricesAssumption ==
  /\ AmountTolerance \in Nat /\ ControlFloor \in Nat
  /\ \A t \in Tariffs : IsTariff(t.tariff)
  /\ \A s \in Seller.services : {s.divisor, s.min, s.increment} \subseteq Nat
  /\ \A g \in Goods : IsBox(g.box) /\ {g.collectible, g.declared} \subseteq Nat

----------------------------------------------------------------------------

\* A booking froze a price that its own weight, tariff and zone give again.
FrozenStands(s) ==
  /\ s.basis = "RATE_CARD" /\ IsTariff(s.tariff)
  /\ {s.grams, s.collectible, s.declared, s.base, s.cod, s.total} \subseteq Nat
  /\ LET again == Freight!Freight(s.tariff, s.zone, s.grams, s.collectible, s.declared)
     IN again.priced /\ again.total = s.total

\* The inductive invariant: tariffs are sound, and a bill is one of a frozen quote,
\* a line for each charge.
QuotesInv ==
  /\ \A v \in versions : IsTariff(v.tariff)
  /\ snapshot = NotBooked \/ FrozenStands(snapshot)
  /\ bill # NoBill =>
       /\ snapshot # NotBooked
       /\ \E n \in 1 .. Cardinality(ChargeTypes), weight \in {Freight!Unknown, snapshot.grams} :
            \E order \in [1 .. n -> ChargeTypes] : Freight!IsInjective(order) /\ bill = Itemised(order, weight)

----------------------------------------------------------------------------

billingVars == <<shop, subs, charges, downgrade, ledger, usage, credits, billed, task>>
codVars == <<parcels, overdue, expect, alloc, files, jobs, ctask, deaths>>
freightVars == <<batch, rows, adjusted, queue, ftask, restarts, left>>
quoteVars == <<versions, snapshot, bill>>

Init ==
  /\ focus \in Focuses
  /\ Subscription!Init /\ Cod!Init /\ Freight!Init /\ QuotesInit

Next ==
  \/ focus = "billing" /\ Subscription!Next /\ UNCHANGED <<focus, codVars, freightVars, quoteVars>>
  \/ focus = "cod" /\ Cod!Next /\ UNCHANGED <<focus, billingVars, freightVars, quoteVars>>
  \/ focus = "freight" /\ Freight!Next /\ UNCHANGED <<focus, billingVars, codVars, quoteVars>>
  \/ focus = "quotes" /\ QuotesMove /\ UNCHANGED <<focus, billingVars, codVars, freightVars>>

Spec == Init /\ [][Next]_<<focus, billingVars, codVars, freightVars, quoteVars>>

Symmetry == Permutations(Workers) \cup Permutations(Parcels)

----------------------------------------------------------------------------

\* Billing: no credit without a usage Shopify was asked for.
NoFreeCredit == focus = "billing" => Subscription!NoFreeCredit
\* CodRecon: a return is final.
RtoSticks == Cod!RtoSticks
\* FreightRecon: a resolved batch is settled.
ResolvedIsSettled == focus = "freight" => Freight!ResolvedIsSettled
\* FreightRecon: an uploaded batch waits for a worker.
UploadedIsQueued == focus = "freight" => Freight!UploadedIsQueued
\* recon-matching.ts against pricing.ts: a bill for exactly what was quoted is
\* not disputed, whatever versions the card has got since.
HonestBillPasses ==
  bill # NoBill =>
    /\ \A key \in Freight!Groups(bill) :
         LET o == Freight!MatchGroup([w |-> snapshot], bill, key) IN ~o.mismatch /\ ~o.review /\ ~o.notFound
    /\ Freight!ControlOf([w |-> snapshot], bill) = "WITHIN_THRESHOLD"
=============================================================================
