---------------------------------- MODULE Ship ----------------------------------
(***************************************************************************)
(* What a parcel is expected to cost, from the ship modal to the booking   *)
(* snapshot.  The modal, the rules and the booking ask for the same quotes *)
(* through one cache; the booking asks inside its transaction, after it    *)
(* has locked the shipment and the order.  One shipment: which sibling     *)
(* carries the order's amount is Booking's.                                *)
(***************************************************************************)
EXTENDS Integers, FiniteSets

CONSTANTS
  Procs,        \* requests
  Accounts,     \* courier accounts that offer the service, one candidate each
  DefaultChain, \* S-22, the accounts a booking falls back to
  CostSource,   \* of the service of each account
  Bands,        \* billable-weight bands
  Ttl,          \* S-16
  Days,         \* bound: the clock
  MaxEdits,     \* bound: edits of working values and of what is offered
  MaxAsks       \* bound: calls to the couriers

VARIABLES
  now,       \* the clock
  cache,     \* quote rows of no shipment
  parcel,    \* shipment
  offered,   \* accounts whose merchant_service is bookable
  clerk,     \* per request; saw, the live price the modal last showed its Member
  bounds     \* [edits, asks]

shipVars == <<now, cache, parcel, offered, clerk, bounds>>

None == [none |-> TRUE]
Resting == [pc |-> "rest", kind |-> "none", account |-> None, band |-> 0,
            box |-> FALSE, fetched |-> FALSE, since |-> 0, quote |-> None, saw |-> None]

\* A quote: the weight it was asked for, and what the courier said.
Quote(band, serviceable, rate) ==
  [band |-> band, serviceable |-> serviceable, rate |-> rate, at |-> now]

Init ==
  /\ now = 0
  /\ cache = {}
  /\ parcel = [state |-> "DRAFT", band |-> CHOOSE b \in Bands : TRUE, snapshot |-> None]
  /\ offered = Accounts
  /\ clerk = [p \in Procs |-> Resting]
  /\ bounds = [edits |-> 0, asks |-> 0]

Tick ==
  /\ now < Days /\ now' = now + 1
  /\ UNCHANGED <<cache, parcel, offered, clerk, bounds>>

At(p, kind, pc) == clerk[p].kind = kind /\ clerk[p].pc = pc
Rest(p) == clerk' = [clerk EXCEPT ![p] = Resting]
\* The shipment row is locked until the transaction of the booking ends.
LocksOrder(p) == clerk[p].kind = "book" /\ clerk[p].pc \in {"quote", "ask", "freeze"}
Locks(p) == LocksOrder(p) \/ At(p, "book", "locked")
UnlockedBug == \A p \in Procs : ~LocksOrder(p)
Unlocked == \A p \in Procs : ~Locks(p)

----------------------------------------------------------------------------
(* What moves under a request.                                             *)

Edit == bounds.edits < MaxEdits /\ bounds' = [bounds EXCEPT !.edits = @ + 1]

\* A refresh of the order rewrites the working values before the booking.
Rederive(band) ==
  /\ parcel.state \in {"DRAFT", "NEEDS_MANUAL_ASSIGNMENT"} /\ Unlocked /\ band # parcel.band
  /\ Edit
  /\ parcel' = [parcel EXCEPT !.band = band]
  /\ UNCHANGED <<now, cache, offered, clerk>>

Withdraw(a) ==
  /\ a \in offered /\ Edit
  /\ offered' = offered \ {a}
  /\ UNCHANGED <<now, cache, parcel, clerk>>

----------------------------------------------------------------------------
(* The quotes.  A statement of its own sees the clock; one in a            *)
(* transaction sees the clock of its BEGIN.                                *)

Clock(p) == IF clerk[p].kind = "book" THEN clerk[p].since ELSE now

Fresh(row, band, t) == row.band = band /\ row.at + Ttl > t
Newest(rows) == CHOOSE r \in rows : \A o \in rows : o.at <= r.at

\* What follows the quote: the candidate is shown, weighed, or frozen.
Quoted(p, quote) == clerk' = [clerk EXCEPT ![p].pc = "freeze", ![p].quote = quote]

\* A rate card prices without a call; NONE has no quote.
Estimate(p) ==
  /\ clerk[p].pc = "quote"
  /\ \/ CostSource[clerk[p].account] = "NONE" /\ Quoted(p, None)
     \/ /\ CostSource[clerk[p].account] = "RATE_CARD"
        /\ \E serviceable, rate \in BOOLEAN :
             /\ rate => serviceable
             /\ Quoted(p, Quote(clerk[p].band, serviceable, rate))
  /\ UNCHANGED <<now, cache, parcel, offered, bounds>>

FindFresh(p) ==
  /\ clerk[p].pc = "quote" /\ CostSource[clerk[p].account] = "LIVE_QUOTE"
  /\ LET hits == {r \in cache : Fresh(r, clerk[p].band, Clock(p))}
     IN  IF hits = {} THEN clerk' = [clerk EXCEPT ![p].pc = "ask"] ELSE Quoted(p, Newest(hits))
  /\ UNCHANGED <<now, cache, parcel, offered, bounds>>

\* The row of a booking is seen when the booking commits.
FetchAndStore(p) ==
  /\ clerk[p].pc = "ask" /\ bounds.asks < MaxAsks
  /\ bounds' = [bounds EXCEPT !.asks = @ + 1]
  /\ \E serviceable, rate \in BOOLEAN :
       /\ rate => serviceable
       /\ LET quote == Quote(clerk[p].band, serviceable, rate)
          IN  /\ clerk' = [clerk EXCEPT ![p].pc = "freeze", ![p].quote = quote,
                                      ![p].fetched = (clerk[p].kind = "book")]
              /\ cache' = IF serviceable /\ clerk[p].kind # "book" THEN cache \cup {quote} ELSE cache
  /\ UNCHANGED <<now, parcel, offered>>

\* The modal and the rules go on without the price; the booking throws.
FetchFails(p) ==
  /\ clerk[p].pc = "ask"
  /\ IF clerk[p].kind = "book" THEN Rest(p) ELSE Quoted(p, None)
  /\ UNCHANGED <<now, cache, parcel, offered, bounds>>

----------------------------------------------------------------------------
(* The modal and the rules: one candidate of their loops.                  *)

Open(p) ==
  /\ clerk[p].pc = "rest" /\ parcel.state \in {"DRAFT", "NEEDS_MANUAL_ASSIGNMENT"}
  /\ clerk' = [clerk EXCEPT ![p] = [Resting EXCEPT !.pc = "read", !.kind = "modal",
                                                   !.band = parcel.band, !.since = now]]
  /\ UNCHANGED <<now, cache, parcel, offered, bounds>>

\* The siblings and the candidates are read after the shipment was.
ReadCandidates(p) ==
  /\ At(p, "modal", "read")
  /\ \/ \E a \in offered :
          clerk' = [clerk EXCEPT ![p].pc = "quote", ![p].account = a]
     \/ Rest(p)
  /\ UNCHANGED <<now, cache, parcel, offered, bounds>>

\* Only a serviceable, priced answer is an estimate.
Shows(quote) == quote # None /\ quote.serviceable /\ quote.rate

Show(p) ==
  /\ At(p, "modal", "freeze")
  /\ LET c == clerk[p]
         saw == IF Shows(c.quote) /\ CostSource[c.account] = "LIVE_QUOTE"
                THEN [account |-> c.account, quote |-> c.quote] ELSE None
     IN  clerk' = [clerk EXCEPT ![p] = [Resting EXCEPT !.saw = saw]]
  /\ UNCHANGED <<now, cache, parcel, offered, bounds>>

\* The rules read the shipment's facts and price every candidate the rules name,
\* those that cannot be booked as well.
LoadCandidates(p) ==
  /\ clerk[p].pc = "rest" /\ parcel.state = "DRAFT"
  /\ \E a \in Accounts :
       clerk' = [clerk EXCEPT ![p] = [Resting EXCEPT !.pc = "quote", !.kind = "rules", !.account = a,
                                                     !.band = parcel.band, !.since = now]]
  /\ UNCHANGED <<now, cache, parcel, offered, bounds>>

\* A candidate without a price is left out of the cheapest and the fastest.
Weigh(p) ==
  /\ At(p, "rules", "freeze")
  /\ Rest(p)
  /\ UNCHANGED <<now, cache, parcel, offered, bounds>>

----------------------------------------------------------------------------
(* The booking.                                                            *)

Bookable == {"DRAFT", "NEEDS_MANUAL_ASSIGNMENT", "FAILED"}

\* A Member books, maybe the one who was shown a price.
Begin(p) ==
  /\ clerk[p].pc = "rest"
  /\ clerk' = [clerk EXCEPT ![p] = [Resting EXCEPT !.pc = "begun", !.kind = "book",
                                                   !.since = now, !.saw = clerk[p].saw]]
  /\ UNCHANGED <<now, cache, parcel, offered, bounds>>

\* The working values are read under the lock.
LockShipment(p) ==
  /\ At(p, "book", "begun") /\ Unlocked
  /\ IF parcel.state \in Bookable
     THEN clerk' = [clerk EXCEPT ![p].pc = "locked", ![p].band = parcel.band]
     ELSE Rest(p)
  /\ UNCHANGED <<now, cache, parcel, offered, bounds>>

\* The order lock, the selection - a Member's, or the first of S-22 that is
\* offered - and the hard blocks; a Member may choose the box as well.
LockOrder(p) ==
  /\ At(p, "book", "locked") /\ \A q \in Procs : ~LocksOrder(q)
  /\ \/ \E a \in offered, box \in {0} \cup Bands :
          clerk' = [clerk EXCEPT ![p].pc = "quote", ![p].account = a, ![p].box = (box # 0),
                                 ![p].band = IF box = 0 THEN @ ELSE box]
     \/ offered # Accounts /\ Rest(p)
  /\ UNCHANGED <<now, cache, parcel, offered, bounds>>

\* No chain resolves a service.
NoneResolvable(p) ==
  /\ At(p, "book", "locked") /\ \A q \in Procs : ~LocksOrder(q)
  /\ DefaultChain \cap offered = {}
  /\ parcel' = IF parcel.state = "DRAFT"
               THEN [parcel EXCEPT !.state = "NEEDS_MANUAL_ASSIGNMENT"] ELSE parcel
  /\ Rest(p)
  /\ UNCHANGED <<now, cache, offered, bounds>>

ExpectedBasis(quote) == IF Shows(quote) THEN "SNAPSHOT_QUOTE" ELSE "none"

Snapshot(p) ==
  [band |-> clerk[p].band, box |-> clerk[p].box, since |-> clerk[p].since, quote |-> clerk[p].quote,
   account |-> clerk[p].account, saw |-> clerk[p].saw, asked |-> clerk[p].fetched,
   basis |-> ExpectedBasis(clerk[p].quote)]

\* A lane that is not served rolls back, and what was fetched goes with it.
Freeze(p) ==
  /\ At(p, "book", "freeze")
  /\ LET quote == clerk[p].quote
         served == quote = None \/ quote.serviceable
     IN  /\ parcel' = IF served
                      THEN [parcel EXCEPT !.state = "QUEUED", !.snapshot = Snapshot(p)]
                      ELSE parcel
         /\ cache' = IF served /\ clerk[p].fetched THEN cache \cup {quote} ELSE cache
  /\ Rest(p)
  /\ UNCHANGED <<now, offered, bounds>>

Next ==
  \/ Tick
  \/ \E band \in Bands : Rederive(band)
  \/ \E a \in Accounts : Withdraw(a)
  \/ \E p \in Procs :
       \/ Open(p)
       \/ Begin(p)
       \/ Estimate(p) \/ FindFresh(p) \/ FetchAndStore(p) \/ FetchFails(p)
       \/ ReadCandidates(p) \/ Show(p) \/ LoadCandidates(p) \/ Weigh(p)
       \/ LockShipment(p) \/ LockOrder(p) \/ NoneResolvable(p) \/ Freeze(p)

----------------------------------------------------------------------------
(* What a price is worth.                                                  *)

\* A quote was asked for this weight, and was not past its life at BEGIN.
Usable(quote, band, since) == quote.serviceable /\ quote.band = band /\ quote.at + Ttl > since

\* The live price a Member was shown is of the account it books and of the weight
\* that is frozen, and lived when the booking began.
StillShown(r) ==
  /\ r.saw # None /\ r.saw.account = r.account /\ r.saw.quote.band = r.band
  /\ r.saw.quote.at + Ttl > r.since

\* quote-cache.service.ts and booking.service.ts: whoever fetched it and however
\* long the locks took, the price frozen in a snapshot, and the price a modal
\* shows or a rule weighs, was given for that weight, by a courier that serves
\* the lane, within S-16 of the request; the weight frozen is the shipment's own
\* unless a Member chose the box; the snapshot names a price as its basis exactly
\* when it has one; and what the Member was shown is frozen, or an answer no older
\* that was kept meanwhile, without asking the courier again.  Not so, though
\* ship-modal.service.ts:21 says the estimate is computed on exactly the values
\* that freeze: when a refresh of the order or a chosen box moved the weight, or
\* S-16 was over, which StillShown names.
PricesStand ==
  /\ LET snap == parcel.snapshot
     IN  snap # None =>
           /\ snap.quote # None => Usable(snap.quote, snap.band, snap.since)
           /\ ~snap.box => snap.band = parcel.band
           /\ snap.basis = "SNAPSHOT_QUOTE" <=> (snap.quote # None /\ snap.quote.rate)
           /\ StillShown(snap) => ~snap.asked /\ snap.quote # None /\ snap.quote.at >= snap.saw.quote.at
  /\ \A p \in Procs :
       clerk[p].kind # "book" /\ Shows(clerk[p].quote) =>
         Usable(clerk[p].quote, clerk[p].band, clerk[p].since)

\* What keeps it: every quote in hand or in the cache was given not after now, a
\* served lane's if it has a rate; what a request has in hand was asked for its
\* weight and was alive at its beginning; a booking that holds the lock weighs
\* what the shipment does, and a shipment with a snapshot is a draft no more.
IsQuote(q) ==
  /\ q \in [band : {q.band}, serviceable : BOOLEAN, rate : BOOLEAN, at : 0 .. now]
  /\ q.rate => q.serviceable
ClerkType(c) ==
  c \in [pc : {c.pc}, kind : {c.kind}, account : {c.account}, band : {c.band},
         box : BOOLEAN, fetched : BOOLEAN, since : 0 .. now, quote : {c.quote}, saw : {c.saw}]
InHand(c) ==
  /\ ClerkType(c)
  /\ c.quote # None => IsQuote(c.quote) /\ c.quote.band = c.band /\ c.quote.at + Ttl > c.since
  /\ c.pc # "freeze" => c.quote = None /\ ~c.fetched
  /\ c.fetched => c.quote # None
  /\ c.pc \in {"begun", "locked"} => ~c.box
  /\ c.kind = "book" /\ c.pc \in {"locked", "quote", "ask", "freeze"} /\ ~c.box => c.band = parcel.band
\* What a modal shows, or has shown, is a row of the cache, and a booking finds it there.
Seen(c, rows) ==
  /\ c.saw # None => c.saw.quote \in rows /\ CostSource[c.saw.account] = "LIVE_QUOTE"
  /\ c.kind = "modal" /\ c.pc = "freeze" /\ Shows(c.quote) /\ CostSource[c.account] = "LIVE_QUOTE" => c.quote \in rows
  /\ c.kind = "book" /\ StillShown(c) =>
       /\ c.pc # "ask"
       /\ c.pc = "freeze" => ~c.fetched /\ c.quote # None /\ c.quote.at >= c.saw.quote.at
Booked(snap) ==
  /\ snap.quote # None => Usable(snap.quote, snap.band, snap.since)
  /\ ~snap.box => snap.band = parcel.band
  /\ snap.basis = "SNAPSHOT_QUOTE" <=> (snap.quote # None /\ snap.quote.rate)
  /\ StillShown(snap) => ~snap.asked /\ snap.quote # None /\ snap.quote.at >= snap.saw.quote.at
PricesInv ==
  /\ now \in Nat
  /\ parcel \in [state : {parcel.state}, band : {parcel.band}, snapshot : {parcel.snapshot}]
  /\ clerk = [p \in Procs |-> clerk[p]]
  /\ \A q \in cache : IsQuote(q) /\ q.serviceable
  /\ \A p \in Procs : InHand(clerk[p]) /\ Seen(clerk[p], cache)
  /\ parcel.snapshot # None => parcel.state = "QUEUED" /\ Booked(parcel.snapshot)

\* booking.service.ts:599: "a price failure alone never blocks".  Not kept: an
\* exception of the quote call leaves the transaction.
PriceNeverBlocks ==
  [][\A p \in Procs : clerk[p].pc = "ask" /\ clerk[p].kind = "book" => clerk'[p] # Resting]_shipVars
=============================================================================
