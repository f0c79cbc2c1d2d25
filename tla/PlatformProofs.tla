----------------------------- MODULE PlatformProofs -----------------------------
(***************************************************************************)
(* What MCPlatform promises of the components around the shipments, proved *)
(* for every value of their constants.  The variables r1, r2, ... are those *)
(* of the component a section is about, in the order of its declarations;  *)
(* its inductive invariant is stated in the component's module.            *)
(***************************************************************************)
EXTENDS MCPlatform, Sequences, TLAPS, FiniteSetTheorems, WellFoundedInduction

----------------------------------------------------------------------------
(* Ship.  r1 is now, r2 the cache, r3 the parcel, r5 the requests.         *)

\* A nonempty set of numbers has a least one.
LEMMA HasLeast ==
  ASSUME NEW S \in SUBSET Nat, S # {}
  PROVE  \E x \in S : \A y \in S : x <= y
<1>1. PICK x \in S : \A y \in S : ~ (<<y, x>> \in OpToRel(<, Nat))
  <2>1. IsWellFoundedOn(OpToRel(<, Nat), Nat)
    BY NatLessThanWellFounded, Zenon
  <2> QED BY <2>1, WFMin, Zenon
<1>2. ASSUME NEW y \in S PROVE x <= y
  <2>1. ~ (y < x) /\ x \in Nat /\ y \in Nat
    BY <1>1, Zenon DEF OpToRel
  <2> QED BY <2>1
<1> QED BY <1>2

\* A quote is not the absence of one.
LEMMA QuotesDiffer ==
  ASSUME NEW q, Modal!IsQuote(q)
  PROVE  q # Modal!None
BY DEF Modal!IsQuote, Modal!None

\* A hit of the cache has a newest row.
LEMMA NewestOf ==
  ASSUME NEW rows, rows # {}, r1 \in Nat, \A q \in rows : Modal!IsQuote(q)
  PROVE  Modal!Newest(rows) \in rows /\ \A o \in rows : o.at <= Modal!Newest(rows).at
<1> DEFINE ages == {r1 - q.at : q \in rows}
<1>1. \A q \in rows : q.at \in 0 .. r1
  BY DEF Modal!IsQuote
<1>2. ages \in SUBSET Nat /\ ages # {}
  BY <1>1
<1>3. PICK x \in ages : \A y \in ages : x <= y
  BY <1>2, HasLeast, Zenon
<1>4. PICK q \in rows : x = r1 - q.at
  BY <1>3
<1>5. ASSUME NEW o \in rows PROVE o.at <= q.at
  <2>1. r1 - o.at \in ages
    OBVIOUS
  <2>2. r1 - q.at <= r1 - o.at
    BY <1>3, <1>4, <2>1
  <2> QED BY <1>1, <2>2
<1> QED BY <1>5 DEF Modal!Newest

LEMMA PricesInitially == Modal!Init => Modal!PricesInv
<1> SUFFICES ASSUME Modal!Init PROVE Modal!PricesInv
  OBVIOUS
<1>1. /\ r1 = 0 /\ r2 = {} /\ r5 = [p \in Workers |-> Modal!Resting]
      /\ r3 = [state |-> "DRAFT", band |-> CHOOSE b \in Bands : TRUE, snapshot |-> Modal!None]
  BY DEF Modal!Init
<1>2. Modal!InHand(Modal!Resting)
  BY <1>1 DEF Modal!InHand, Modal!ClerkType, Modal!Resting
<1>4. Modal!Seen(Modal!Resting, r2)
  BY DEF Modal!Seen, Modal!Resting
<1>3. /\ r3 \in [state : {r3.state}, band : {r3.band}, snapshot : {r3.snapshot}]
      /\ r3.snapshot = Modal!None
  BY <1>1
<1> QED BY <1>1, <1>2, <1>3, <1>4 DEF Modal!PricesInv

\* One request moves, and keeps what it may have in hand.
LEMMA ClerkMoves ==
  ASSUME Modal!PricesInv, r1' = r1, NEW p \in Workers, NEW c, Modal!InHand(c), r5' = [r5 EXCEPT ![p] = c],
         r2 \subseteq r2', Modal!Seen(c, r2'),
         r3' \in [state : {r3'.state}, band : {r3.band}, snapshot : {r3'.snapshot}],
         r3'.snapshot # Modal!None => r3'.state = "QUEUED" /\ Modal!Booked(r3'.snapshot),
         \A q \in r2' : Modal!IsQuote(q) /\ q.serviceable
  PROVE  Modal!PricesInv'
<1>1. \A d : Modal!InHand(d)' <=> Modal!InHand(d)
  BY DEF Modal!InHand, Modal!ClerkType, Modal!IsQuote
<1>2. \A q : Modal!IsQuote(q)' <=> Modal!IsQuote(q)
  BY DEF Modal!IsQuote
<1>3. \A s : Modal!Booked(s)' <=> Modal!Booked(s)
  BY DEF Modal!Booked
<1>4. \A q \in Workers : r5'[q] = IF q = p THEN c ELSE r5[q]
  BY DEF Modal!PricesInv
<1>5. \A q \in Workers : Modal!InHand(r5[q]) /\ Modal!Seen(r5[q], r2')
  BY DEF Modal!PricesInv, Modal!Seen
<1>6. \A q \in Workers : (Modal!InHand(r5[q]) /\ Modal!Seen(r5[q], r2))'
  BY <1>1, <1>4, <1>5 DEF Modal!Seen
<1>7. r5' = [q \in Workers |-> r5'[q]] /\ r1' \in Nat
  BY DEF Modal!PricesInv
<1> QED BY <1>2, <1>3, <1>6, <1>7 DEF Modal!PricesInv

\* What PricesInv says of one request and of the parcel.
LEMMA PricesSay ==
  ASSUME Modal!PricesInv
  PROVE  /\ r1 \in Nat /\ \A p \in Workers : Modal!InHand(r5[p]) /\ Modal!Seen(r5[p], r2)
         /\ r3 \in [state : {r3.state}, band : {r3.band}, snapshot : {r3.snapshot}]
         /\ r3.snapshot # Modal!None => r3.state = "QUEUED" /\ Modal!Booked(r3.snapshot)
         /\ \A q \in r2 : Modal!IsQuote(q) /\ q.serviceable
BY DEF Modal!PricesInv

\* A request that rests has nothing in hand.
LEMMA RestingHolds ==
  ASSUME Modal!PricesInv
  PROVE  Modal!InHand(Modal!Resting) /\ \A rows : Modal!Seen(Modal!Resting, rows)
<1>1. 0 \in 0 .. r1
  BY PricesSay
<1> QED BY <1>1 DEF Modal!InHand, Modal!ClerkType, Modal!Resting, Modal!Seen

\* Time goes on, the order is refreshed, a service is withdrawn.
LEMMA AmbientKeepsPrices ==
  ASSUME Modal!PricesInv,
         Modal!Tick \/ (\E band \in Bands : Modal!Rederive(band)) \/ (\E a \in Accounts : Modal!Withdraw(a))
  PROVE  Modal!PricesInv'
<1>1. CASE Modal!Tick
  <2>1. r1' = r1 + 1 /\ UNCHANGED <<r2, r3, r5>>
    BY <1>1 DEF Modal!Tick
  <2>2. 0 .. r1 \subseteq 0 .. r1' /\ r1' \in Nat
    BY <2>1, PricesSay
  <2>3. \A q : Modal!IsQuote(q) => Modal!IsQuote(q)'
    BY <2>2 DEF Modal!IsQuote
  <2>4. \A c : Modal!InHand(c) => Modal!InHand(c)'
    BY <2>1, <2>2, <2>3 DEF Modal!InHand, Modal!ClerkType
  <2>5. \A s : Modal!Booked(s)' <=> Modal!Booked(s)
    BY <2>1 DEF Modal!Booked
  <2> QED BY <2>1, <2>2, <2>3, <2>4, <2>5 DEF Modal!PricesInv, Modal!Seen
<1>2. ASSUME NEW band \in Bands, Modal!Rederive(band) PROVE Modal!PricesInv'
  <2>1. /\ r3' = [r3 EXCEPT !.band = band] /\ UNCHANGED <<r1, r2, r5>>
        /\ r3.state # "QUEUED" /\ \A p \in Workers : ~Modal!Locks(p)
    BY <1>2 DEF Modal!Rederive, Modal!Unlocked
  <2>2. r3' \in [state : {r3'.state}, band : {r3'.band}, snapshot : {r3'.snapshot}] /\ r3'.snapshot = Modal!None
    BY <2>1, PricesSay
  <2>3. ASSUME NEW p \in Workers PROVE Modal!InHand(r5[p])'
    <3>1. ~(r5[p].kind = "book" /\ r5[p].pc \in {"locked", "quote", "ask", "freeze"})
      BY <2>1 DEF Modal!Locks, Modal!LocksOrder, Modal!At
    <3>2. Modal!InHand(r5[p])
      BY PricesSay
    <3> QED BY <2>1, <3>1, <3>2 DEF Modal!InHand, Modal!ClerkType, Modal!IsQuote
  <2>4. \A q : Modal!IsQuote(q) => Modal!IsQuote(q)'
    BY <2>1 DEF Modal!IsQuote
  <2> QED BY <2>1, <2>2, <2>3, <2>4 DEF Modal!PricesInv, Modal!Seen
<1>3. ASSUME NEW a \in Accounts, Modal!Withdraw(a) PROVE Modal!PricesInv'
  <2>1. UNCHANGED <<r1, r2, r3, r5>>
    BY <1>3 DEF Modal!Withdraw
  <2> QED BY <2>1 DEF Modal!PricesInv, Modal!InHand, Modal!ClerkType, Modal!IsQuote, Modal!Booked, Modal!Seen
<1> QED BY <1>1, <1>2, <1>3

\* A quote, or none, is taken by a request that waited for it.
MayTake(c, quote) ==
  quote # Modal!None => Modal!IsQuote(quote) /\ quote.band = c.band /\ quote.at + Ttl > c.since
LEMMA QuoteTaken ==
  ASSUME Modal!PricesInv, UNCHANGED <<r1, r3>>, NEW p \in Workers, r5[p].pc \in {"quote", "ask"},
         NEW c, r5' = [r5 EXCEPT ![p] = c], Modal!ClerkType(c), c.pc = "freeze", MayTake(r5[p], c.quote),
         c.fetched => c.quote # Modal!None,
         c.band = r5[p].band, c.since = r5[p].since, c.kind = r5[p].kind, c.box = r5[p].box,
         c.account = r5[p].account, c.saw = r5[p].saw, r2 \subseteq r2',
         c.kind = "modal" /\ Modal!Shows(c.quote) /\ CostSource[c.account] = "LIVE_QUOTE" => c.quote \in r2',
         c.kind = "book" /\ Modal!StillShown(r5[p]) => ~c.fetched /\ c.quote # Modal!None /\ c.quote.at >= c.saw.quote.at,
         \A q \in r2' : Modal!IsQuote(q) /\ q.serviceable
  PROVE  Modal!PricesInv'
<1>1. Modal!InHand(r5[p]) /\ Modal!Seen(r5[p], r2)
  BY PricesSay
<1>2. Modal!InHand(c)
  BY <1>1 DEF Modal!InHand, MayTake
<1>3. Modal!Seen(c, r2')
  BY <1>1 DEF Modal!Seen, Modal!StillShown
<1> QED BY <1>2, <1>3, PricesSay, ClerkMoves, Zenon

\* What is asked now is younger than its life at the request's beginning.
LEMMA JustGiven ==
  ASSUME Modal!PricesInv, NEW p \in Workers, NEW serviceable \in BOOLEAN, NEW rate \in BOOLEAN, rate => serviceable
  PROVE  LET q == Modal!Quote(r5[p].band, serviceable, rate)
         IN  Modal!IsQuote(q) /\ MayTake(r5[p], q) /\ q.serviceable = serviceable /\ q.rate = rate
<1> DEFINE q == Modal!Quote(r5[p].band, serviceable, rate)
<1>1. r1 \in Nat /\ r5[p].since \in 0 .. r1
  BY PricesSay DEF Modal!InHand, Modal!ClerkType
<1>2. /\ q \in [band : {q.band}, serviceable : BOOLEAN, rate : BOOLEAN, at : 0 .. r1]
      /\ q.band = r5[p].band /\ q.serviceable = serviceable /\ q.rate = rate /\ q.at = r1
  BY <1>1 DEF Modal!Quote
<1>3. Modal!IsQuote(q)
  BY <1>2 DEF Modal!IsQuote
<1>4. q.at + Ttl > r5[p].since
  BY <1>1, <1>2, ShipAssumption
<1> QED BY <1>2, <1>3, <1>4 DEF MayTake

LEMMA QuotesKeepPrices ==
  ASSUME Modal!PricesInv, NEW p \in Workers,
         Modal!Estimate(p) \/ Modal!FindFresh(p) \/ Modal!FetchAndStore(p) \/ Modal!FetchFails(p)
  PROVE  Modal!PricesInv'
<1>1. /\ Modal!InHand(r5[p]) /\ Modal!ClerkType(r5[p]) /\ Modal!Seen(r5[p], r2) /\ r5 = [q \in Workers |-> r5[q]]
      /\ r5[p].pc # "freeze" => r5[p].quote = Modal!None /\ ~r5[p].fetched
  BY PricesSay DEF Modal!InHand, Modal!PricesInv
<1>2. ASSUME NEW quote, Modal!Quoted(p, quote), MayTake(r5[p], quote), r5[p].pc \in {"quote", "ask"}, UNCHANGED <<r1, r2, r3>>,
             r5[p].kind = "modal" /\ Modal!Shows(quote) /\ CostSource[r5[p].account] = "LIVE_QUOTE" => quote \in r2,
             r5[p].kind = "book" /\ Modal!StillShown(r5[p]) => quote # Modal!None /\ quote.at >= r5[p].saw.quote.at
      PROVE  Modal!PricesInv'
  <2> DEFINE c == [r5[p] EXCEPT !.pc = "freeze", !.quote = quote]
  <2>1. r5' = [r5 EXCEPT ![p] = c]
    BY <1>2, Zenon DEF Modal!Quoted
  <2>2. /\ c.pc = "freeze" /\ c.quote = quote /\ ~c.fetched /\ c.band = r5[p].band
        /\ c.since = r5[p].since /\ c.kind = r5[p].kind /\ c.box = r5[p].box
        /\ c.account = r5[p].account /\ c.saw = r5[p].saw /\ Modal!ClerkType(c)
    BY <1>1, <1>2, Zenon DEF Modal!ClerkType
  <2> HIDE DEF c
  <2>3. (\A q \in r2' : Modal!IsQuote(q) /\ q.serviceable) /\ r2 \subseteq r2'
    BY <1>2, PricesSay
  <2> QED BY <1>2, <2>1, <2>2, <2>3, QuoteTaken
<1>3. CASE Modal!Estimate(p)
  <2>0. CostSource[r5[p].account] # "LIVE_QUOTE" /\ ~Modal!StillShown(r5[p])
    BY <1>1, <1>3 DEF Modal!Estimate, Modal!Seen, Modal!StillShown
  <2>1. CASE Modal!Quoted(p, Modal!None)
    BY <1>2, <1>3, <2>0, <2>1 DEF Modal!Estimate, MayTake
  <2>2. ASSUME NEW serviceable \in BOOLEAN, NEW rate \in BOOLEAN, rate => serviceable,
               Modal!Quoted(p, Modal!Quote(r5[p].band, serviceable, rate))
        PROVE  Modal!PricesInv'
    <3>1. MayTake(r5[p], Modal!Quote(r5[p].band, serviceable, rate))
      BY <2>2, JustGiven
    <3> QED BY <1>2, <1>3, <2>0, <2>2, <3>1 DEF Modal!Estimate
  <2> QED BY <1>3, <2>1, <2>2 DEF Modal!Estimate
<1>4. CASE Modal!FindFresh(p)
  <2> DEFINE hits == {q \in r2 : Modal!Fresh(q, r5[p].band, Modal!Clock(p))}
  <2>1. CASE hits = {}
    <3> DEFINE c == [r5[p] EXCEPT !.pc = "ask"]
    <3>1. r5' = [r5 EXCEPT ![p] = c] /\ UNCHANGED <<r1, r2, r3>> /\ r5[p].pc = "quote"
      BY <1>4, <2>1 DEF Modal!FindFresh
    <3>2. /\ c.pc = "ask" /\ c.quote = r5[p].quote /\ c.fetched = r5[p].fetched /\ c.band = r5[p].band
          /\ c.since = r5[p].since /\ c.kind = r5[p].kind /\ c.box = r5[p].box /\ Modal!ClerkType(c)
          /\ c.account = r5[p].account /\ c.saw = r5[p].saw
      BY <1>1 DEF Modal!ClerkType
    <3> HIDE DEF c
    <3>3. Modal!InHand(c)
      BY <1>1, <3>1, <3>2 DEF Modal!InHand
    <3>4. ASSUME r5[p].kind = "book", Modal!StillShown(r5[p]) PROVE FALSE
      <4>1. r5[p].saw.quote \in r2
        BY <1>1, <3>4 DEF Modal!Seen, Modal!StillShown
      <4>2. Modal!Fresh(r5[p].saw.quote, r5[p].band, Modal!Clock(p))
        BY <3>4 DEF Modal!Fresh, Modal!Clock, Modal!StillShown
      <4> QED BY <2>1, <4>1, <4>2
    <3>5. Modal!Seen(c, r2)
      BY <1>1, <3>2, <3>4 DEF Modal!Seen, Modal!StillShown
    <3>6. r2' = r2
      BY <3>1
    <3> QED BY <3>1, <3>3, <3>5, <3>6, PricesSay, ClerkMoves
  <2>2. CASE hits # {}
    <3> DEFINE quote == Modal!Newest(hits)
    <3>1. quote \in hits /\ \A o \in hits : o.at <= quote.at
      BY <2>2, PricesSay, NewestOf
    <3>2. quote \in r2 /\ quote.band = r5[p].band /\ quote.at + Ttl > Modal!Clock(p)
      BY <3>1 DEF Modal!Fresh
    <3>3. Modal!IsQuote(quote)
      BY <3>2, PricesSay
    <3>4. quote.at + Ttl > r5[p].since
      <4>1. r1 \in Nat /\ r5[p].since \in 0 .. r1 /\ quote.at \in 0 .. r1
        BY <1>1, <3>3, PricesSay DEF Modal!ClerkType, Modal!IsQuote
      <4>2. Modal!Clock(p) \in {r1, r5[p].since}
        BY DEF Modal!Clock
      <4> QED BY <3>2, <4>1, <4>2, ShipAssumption
    <3>5. Modal!Quoted(p, quote) /\ UNCHANGED <<r1, r2, r3>> /\ r5[p].pc = "quote"
      BY <1>4, <2>2 DEF Modal!FindFresh
    <3>6. ASSUME r5[p].kind = "book", Modal!StillShown(r5[p]) PROVE quote.at >= r5[p].saw.quote.at
      <4>1. r5[p].saw.quote \in r2
        BY <1>1, <3>6 DEF Modal!Seen, Modal!StillShown
      <4>2. r5[p].saw.quote \in hits
        BY <3>6, <4>1 DEF Modal!Fresh, Modal!Clock, Modal!StillShown
      <4>3. r5[p].saw.quote.at \in Int /\ quote.at \in Int
        BY <3>3, <4>1, PricesSay DEF Modal!IsQuote
      <4> HIDE DEF quote, hits
      <4> QED BY <3>1, <4>2, <4>3
    <3>7. quote # Modal!None
      BY <3>3, QuotesDiffer
    <3> HIDE DEF quote
    <3> QED BY <1>2, <3>2, <3>3, <3>4, <3>5, <3>6, <3>7 DEF MayTake
  <2> QED BY <2>1, <2>2
<1>5. CASE Modal!FetchAndStore(p)
  <2>1. PICK serviceable \in BOOLEAN, rate \in BOOLEAN :
          /\ rate => serviceable
          /\ LET quote == Modal!Quote(r5[p].band, serviceable, rate)
             IN  /\ r5' = [r5 EXCEPT ![p].pc = "freeze", ![p].quote = quote,
                                     ![p].fetched = (r5[p].kind = "book")]
                 /\ r2' = IF serviceable /\ r5[p].kind # "book" THEN r2 \cup {quote} ELSE r2
    BY <1>5, Zenon DEF Modal!FetchAndStore
  <2> DEFINE quote == Modal!Quote(r5[p].band, serviceable, rate)
             c == [r5[p] EXCEPT !.pc = "freeze", !.quote = quote,
                                !.fetched = (r5[p].kind = "book")]
  <2>2. Modal!IsQuote(quote) /\ MayTake(r5[p], quote) /\ quote.serviceable = serviceable
    BY <2>1, JustGiven
  <2>3. r5' = [r5 EXCEPT ![p] = c] /\ UNCHANGED <<r1, r3>> /\ r5[p].pc = "ask"
    BY <1>5, <2>1, Zenon DEF Modal!FetchAndStore
  <2>4. (\A q \in r2' : Modal!IsQuote(q) /\ q.serviceable) /\ r2 \subseteq r2'
    BY <2>1, <2>2, PricesSay
  <2>7. r5[p].kind = "modal" /\ Modal!Shows(quote) => quote \in r2'
    BY <2>1, <2>2 DEF Modal!Shows
  <2>8. ~(r5[p].kind = "book" /\ Modal!StillShown(r5[p]))
    BY <1>1, <2>3 DEF Modal!Seen
  <2>5. quote # Modal!None
    BY <2>2, QuotesDiffer
  <2> HIDE DEF quote
  <2>6. /\ c.pc = "freeze" /\ c.quote = quote /\ c.band = r5[p].band
        /\ c.since = r5[p].since /\ c.kind = r5[p].kind /\ c.box = r5[p].box
        /\ c.account = r5[p].account /\ c.saw = r5[p].saw /\ Modal!ClerkType(c)
    BY <1>1, Zenon DEF Modal!ClerkType
  <2> HIDE DEF c
  <2> QED BY <2>2, <2>3, <2>4, <2>5, <2>6, <2>7, <2>8, QuoteTaken
<1>6. CASE Modal!FetchFails(p)
  <2>1. CASE r5[p].kind = "book"
    <3>1. r5' = [r5 EXCEPT ![p] = Modal!Resting] /\ UNCHANGED <<r1, r2, r3>>
      BY <1>6, <2>1 DEF Modal!FetchFails, Modal!Rest
    <3>2. r2' = r2
      BY <3>1
    <3> QED BY <3>1, <3>2, RestingHolds, PricesSay, ClerkMoves
  <2>2. CASE r5[p].kind # "book"
    BY <1>2, <1>6, <2>2 DEF Modal!FetchFails, MayTake, Modal!Shows
  <2> QED BY <2>1, <2>2
<1> QED BY <1>3, <1>4, <1>5, <1>6

\* A request that begins has no quote, and its clock is that of its beginning.
LEMMA BegunHolds ==
  ASSUME Modal!PricesInv, NEW p \in Workers, UNCHANGED <<r1, r2, r3>>,
         NEW c, r5' = [r5 EXCEPT ![p] = c], Modal!ClerkType(c), c.quote = Modal!None, ~c.fetched,
         c.kind # "book" \/ c.pc \notin {"locked", "quote", "ask", "freeze"} \/ c.box \/ c.band = r3.band,
         c.pc \in {"begun", "locked"} => ~c.box,
         c.pc \notin {"ask", "freeze"}, c.saw = Modal!None \/ c.saw = r5[p].saw
  PROVE  Modal!PricesInv'
<1>1. Modal!InHand(c)
  BY DEF Modal!InHand
<1>2. Modal!Seen(c, r2) /\ r2' = r2
  BY PricesSay DEF Modal!Seen
<1> QED BY <1>1, <1>2, PricesSay, ClerkMoves

\* A request that is over leaves the parcel and the cache alone.
LEMMA RestsAgain ==
  ASSUME Modal!PricesInv, NEW p \in Workers, UNCHANGED <<r1, r2, r3>>, Modal!Rest(p)
  PROVE  Modal!PricesInv'
<1>1. r5' = [r5 EXCEPT ![p] = Modal!Resting] /\ r2' = r2
  BY DEF Modal!Rest
<1> QED BY <1>1, RestingHolds, PricesSay, ClerkMoves

LEMMA ModalKeepsPrices ==
  ASSUME Modal!PricesInv, NEW p \in Workers,
         Modal!Open(p) \/ Modal!ReadCandidates(p) \/ Modal!Show(p) \/ Modal!LoadCandidates(p) \/ Modal!Weigh(p)
  PROVE  Modal!PricesInv'
<1>1. /\ Modal!InHand(r5[p]) /\ Modal!ClerkType(r5[p]) /\ r5 = [q \in Workers |-> r5[q]]
      /\ r5[p].pc # "freeze" => r5[p].quote = Modal!None /\ ~r5[p].fetched
      /\ r1 \in 0 .. r1
  BY PricesSay DEF Modal!InHand, Modal!PricesInv
<1>2. CASE Modal!Open(p)
  <2> DEFINE c == [Modal!Resting EXCEPT !.pc = "read", !.kind = "modal", !.band = r3.band, !.since = r1]
  <2>1. r5' = [r5 EXCEPT ![p] = c] /\ UNCHANGED <<r1, r2, r3>>
    BY <1>2 DEF Modal!Open
  <2>2. /\ Modal!ClerkType(c) /\ c.quote = Modal!None /\ ~c.fetched /\ ~c.box /\ c.kind # "book"
        /\ c.pc = "read" /\ c.saw = Modal!None
    BY <1>1, Zenon DEF Modal!ClerkType, Modal!Resting
  <2> HIDE DEF c
  <2> QED BY <2>1, <2>2, BegunHolds
<1>3. CASE Modal!LoadCandidates(p)
  <2>1. PICK a \in Accounts :
          r5' = [r5 EXCEPT ![p] = [Modal!Resting EXCEPT !.pc = "quote", !.kind = "rules", !.account = a,
                                                        !.band = r3.band, !.since = r1]]
    BY <1>3, Zenon DEF Modal!LoadCandidates
  <2> DEFINE c == [Modal!Resting EXCEPT !.pc = "quote", !.kind = "rules", !.account = a,
                                        !.band = r3.band, !.since = r1]
  <2>2. r5' = [r5 EXCEPT ![p] = c] /\ UNCHANGED <<r1, r2, r3>>
    BY <1>3, <2>1, Zenon DEF Modal!LoadCandidates
  <2>3. /\ Modal!ClerkType(c) /\ c.quote = Modal!None /\ ~c.fetched /\ ~c.box /\ c.kind # "book"
        /\ c.pc = "quote" /\ c.saw = Modal!None
    BY <1>1, Zenon DEF Modal!ClerkType, Modal!Resting
  <2> HIDE DEF c
  <2> QED BY <2>2, <2>3, BegunHolds
<1>4. CASE Modal!ReadCandidates(p)
  <2>1. CASE Modal!Rest(p)
    BY <1>4, <2>1, RestsAgain DEF Modal!ReadCandidates
  <2>2. ASSUME NEW a \in r4, r5' = [r5 EXCEPT ![p].pc = "quote", ![p].account = a] PROVE Modal!PricesInv'
    <3> DEFINE c == [r5[p] EXCEPT !.pc = "quote", !.account = a]
    <3>1. /\ r5' = [r5 EXCEPT ![p] = c] /\ UNCHANGED <<r1, r2, r3>>
          /\ r5[p].pc # "freeze" /\ r5[p].kind = "modal"
      BY <1>4, <2>2, Zenon DEF Modal!ReadCandidates, Modal!At
    <3>2. /\ Modal!ClerkType(c) /\ c.quote = r5[p].quote /\ c.fetched = r5[p].fetched /\ c.kind = r5[p].kind
          /\ c.pc = "quote" /\ c.saw = r5[p].saw
      BY <1>1, Zenon DEF Modal!ClerkType
    <3> HIDE DEF c
    <3> QED BY <1>1, <3>1, <3>2, BegunHolds
  <2> QED BY <1>4, <2>1, <2>2 DEF Modal!ReadCandidates
<1>5. CASE Modal!Weigh(p)
  BY <1>5, RestsAgain DEF Modal!Weigh
<1>6. CASE Modal!Show(p)
  <2> DEFINE saw == IF Modal!Shows(r5[p].quote) /\ CostSource[r5[p].account] = "LIVE_QUOTE"
                    THEN [account |-> r5[p].account, quote |-> r5[p].quote] ELSE Modal!None
             c == [Modal!Resting EXCEPT !.saw = saw]
  <2>1. r5' = [r5 EXCEPT ![p] = c] /\ UNCHANGED <<r1, r2, r3>> /\ r5[p].kind = "modal" /\ r5[p].pc = "freeze"
    BY <1>6, Zenon DEF Modal!Show, Modal!At
  <2>2. saw # Modal!None => saw.quote \in r2 /\ CostSource[saw.account] = "LIVE_QUOTE"
    BY <1>1, <2>1, PricesSay DEF Modal!Seen
  <2> HIDE DEF saw
  <2>3. /\ c.saw = saw /\ c.pc = "rest" /\ c.kind = "none" /\ c.quote = Modal!None /\ ~c.fetched /\ ~c.box
        /\ Modal!ClerkType(c)
    <3>1. 0 \in 0 .. r1
      BY PricesSay
    <3> QED BY <3>1, Zenon DEF Modal!ClerkType, Modal!Resting
  <2> HIDE DEF c
  <2>4. Modal!InHand(c) /\ Modal!Seen(c, r2) /\ r2' = r2
    BY <2>1, <2>2, <2>3 DEF Modal!InHand, Modal!Seen
  <2> QED BY <2>1, <2>4, PricesSay, ClerkMoves
<1> QED BY <1>2, <1>3, <1>4, <1>5, <1>6

LEMMA LocksKeepPrices ==
  ASSUME Modal!PricesInv, NEW p \in Workers,
         Modal!Begin(p) \/ Modal!LockShipment(p) \/ Modal!LockOrder(p)
  PROVE  Modal!PricesInv'
<1>1. /\ Modal!InHand(r5[p]) /\ Modal!ClerkType(r5[p]) /\ r5 = [q \in Workers |-> r5[q]]
      /\ r5[p].pc # "freeze" => r5[p].quote = Modal!None /\ ~r5[p].fetched
      /\ r1 \in 0 .. r1
  BY PricesSay DEF Modal!InHand, Modal!PricesInv
<1>2. CASE Modal!Begin(p)
  <2> DEFINE c == [Modal!Resting EXCEPT !.pc = "begun", !.kind = "book", !.since = r1, !.saw = r5[p].saw]
  <2>1. r5' = [r5 EXCEPT ![p] = c] /\ UNCHANGED <<r1, r2, r3>>
    BY <1>2 DEF Modal!Begin
  <2>2. Modal!ClerkType(c) /\ c.quote = Modal!None /\ ~c.fetched /\ ~c.box /\ c.pc = "begun" /\ c.saw = r5[p].saw
    BY <1>1, Zenon DEF Modal!ClerkType, Modal!Resting
  <2> HIDE DEF c
  <2> QED BY <2>1, <2>2, BegunHolds
<1>3. CASE Modal!LockShipment(p)
  <2>1. CASE Modal!Rest(p)
    BY <1>3, <2>1, RestsAgain DEF Modal!LockShipment
  <2>2. CASE r5' = [r5 EXCEPT ![p].pc = "locked", ![p].band = r3.band]
    <3> DEFINE c == [r5[p] EXCEPT !.pc = "locked", !.band = r3.band]
    <3>1. r5' = [r5 EXCEPT ![p] = c] /\ UNCHANGED <<r1, r2, r3>> /\ r5[p].pc # "freeze"
      BY <1>3, <2>2, Zenon DEF Modal!LockShipment, Modal!At
    <3>2. /\ Modal!ClerkType(c) /\ c.quote = r5[p].quote /\ c.fetched = r5[p].fetched /\ c.band = r3.band
          /\ ~c.box /\ c.saw = r5[p].saw /\ c.pc = "locked"
      BY <1>1, <1>3, Zenon DEF Modal!ClerkType, Modal!InHand, Modal!LockShipment, Modal!At
    <3> HIDE DEF c
    <3> QED BY <1>1, <3>1, <3>2, BegunHolds
  <2> QED BY <1>3, <2>1, <2>2 DEF Modal!LockShipment
<1>4. CASE Modal!LockOrder(p)
  <2>1. CASE Modal!Rest(p)
    BY <1>4, <2>1, RestsAgain, Zenon DEF Modal!LockOrder
  <2>2. ASSUME NEW a \in r4, NEW box \in {0} \cup Bands,
               r5' = [r5 EXCEPT ![p].pc = "quote", ![p].account = a, ![p].box = (box # 0),
                                ![p].band = IF box = 0 THEN r5[p].band ELSE box]
        PROVE  Modal!PricesInv'
    <3> DEFINE c == [r5[p] EXCEPT !.pc = "quote", !.account = a, !.box = (box # 0),
                                  !.band = IF box = 0 THEN r5[p].band ELSE box]
    <3>1. /\ r5' = [r5 EXCEPT ![p] = c] /\ UNCHANGED <<r1, r2, r3>>
          /\ r5[p].pc = "locked" /\ r5[p].kind = "book"
      BY <1>4, <2>2, Zenon DEF Modal!LockOrder, Modal!At
    <3>2. /\ Modal!ClerkType(c) /\ c.quote = r5[p].quote /\ c.fetched = r5[p].fetched
          /\ c.pc = "quote" /\ c.saw = r5[p].saw /\ c.box = (box # 0) /\ c.band = IF box = 0 THEN r5[p].band ELSE box
      BY <1>1, Zenon DEF Modal!ClerkType
    <3>3. ~r5[p].box /\ r5[p].band = r3.band
      BY <1>1, <3>1 DEF Modal!InHand
    <3> HIDE DEF c
    <3> QED BY <1>1, <3>1, <3>2, <3>3, BegunHolds
  <2> QED BY <1>4, <2>1, <2>2, Zenon DEF Modal!LockOrder
<1> QED BY <1>2, <1>3, <1>4

\* What is frozen is what was weighed under the lock.
LEMMA FreezeKeepsPrices ==
  ASSUME Modal!PricesInv, NEW p \in Workers, Modal!NoneResolvable(p) \/ Modal!Freeze(p)
  PROVE  Modal!PricesInv'
<1>1. /\ Modal!InHand(r5[p]) /\ Modal!ClerkType(r5[p]) /\ Modal!Seen(r5[p], r2)
      /\ r3 \in [state : {r3.state}, band : {r3.band}, snapshot : {r3.snapshot}]
  BY PricesSay DEF Modal!InHand
<1>2. CASE Modal!NoneResolvable(p)
  <2>1. /\ UNCHANGED <<r1, r2>> /\ r5' = [r5 EXCEPT ![p] = Modal!Resting]
        /\ r3' = IF r3.state = "DRAFT" THEN [r3 EXCEPT !.state = "NEEDS_MANUAL_ASSIGNMENT"] ELSE r3
    BY <1>2 DEF Modal!NoneResolvable, Modal!Rest
  <2>2. /\ r3' \in [state : {r3'.state}, band : {r3.band}, snapshot : {r3'.snapshot}]
        /\ r3'.snapshot = r3.snapshot /\ (r3.state # "DRAFT" => r3'.state = r3.state) /\ r2' = r2
    BY <1>1, <2>1
  <2> QED BY <2>1, <2>2, PricesSay, RestingHolds, ClerkMoves
<1>3. CASE Modal!Freeze(p)
  <2> DEFINE quote == r5[p].quote
             served == quote = Modal!None \/ quote.serviceable
             snap == Modal!Snapshot(p)
  <2>1. /\ r3' = IF served THEN [r3 EXCEPT !.state = "QUEUED", !.snapshot = snap] ELSE r3
        /\ r2' = IF served /\ r5[p].fetched THEN r2 \cup {quote} ELSE r2
        /\ r5' = [r5 EXCEPT ![p] = Modal!Resting] /\ UNCHANGED r1
        /\ r5[p].kind = "book" /\ r5[p].pc = "freeze"
    BY <1>3 DEF Modal!Freeze, Modal!Rest, Modal!At
  <2>2. \A q \in r2' : Modal!IsQuote(q) /\ q.serviceable
    BY <1>1, <2>1, PricesSay DEF Modal!InHand
  <2>3. /\ snap.band = r5[p].band /\ snap.box = r5[p].box /\ snap.since = r5[p].since /\ snap.quote = quote
        /\ snap.account = r5[p].account /\ snap.saw = r5[p].saw /\ snap.asked = r5[p].fetched
        /\ snap.basis = Modal!ExpectedBasis(quote)
    BY DEF Modal!Snapshot
  <2>7. Modal!StillShown(snap) => ~snap.asked /\ snap.quote # Modal!None /\ snap.quote.at >= snap.saw.quote.at
    BY <1>1, <2>1, <2>3 DEF Modal!Seen, Modal!StillShown
  <2>4. served => Modal!Booked(snap)
    BY <1>1, <2>1, <2>3, <2>7 DEF Modal!Booked, Modal!Usable, Modal!ExpectedBasis, Modal!Shows, Modal!InHand, Modal!IsQuote
  <2> HIDE DEF snap, served
  <2>5. /\ r3' \in [state : {r3'.state}, band : {r3.band}, snapshot : {r3'.snapshot}]
        /\ r3' = r3 \/ (served /\ r3'.snapshot = snap /\ r3'.state = "QUEUED")
    BY <1>1, <2>1, Zenon
  <2>6. r3'.snapshot # Modal!None => r3'.state = "QUEUED" /\ Modal!Booked(r3'.snapshot)
    BY <2>4, <2>5, PricesSay
  <2>8. r2 \subseteq r2'
    BY <2>1
  <2> QED BY <2>1, <2>2, <2>5, <2>6, <2>8, RestingHolds, ClerkMoves
<1> QED BY <1>2, <1>3

LEMMA PricesKept ==
  ASSUME Modal!PricesInv, [Modal!Next]_<<r1, r2, r3, r4, r5, r6>>
  PROVE  Modal!PricesInv'
<1>1. CASE Modal!Tick \/ (\E band \in Bands : Modal!Rederive(band)) \/ (\E a \in Accounts : Modal!Withdraw(a))
  BY <1>1, AmbientKeepsPrices
<1>2. ASSUME NEW p \in Workers,
             \/ Modal!Open(p) \/ Modal!Begin(p)
             \/ Modal!Estimate(p) \/ Modal!FindFresh(p) \/ Modal!FetchAndStore(p) \/ Modal!FetchFails(p)
             \/ Modal!ReadCandidates(p) \/ Modal!Show(p) \/ Modal!LoadCandidates(p) \/ Modal!Weigh(p)
             \/ Modal!LockShipment(p) \/ Modal!LockOrder(p) \/ Modal!NoneResolvable(p) \/ Modal!Freeze(p)
      PROVE  Modal!PricesInv'
  BY <1>2, QuotesKeepPrices, ModalKeepsPrices, LocksKeepPrices, FreezeKeepsPrices
<1>3. CASE UNCHANGED <<r1, r2, r3, r4, r5, r6>>
  BY <1>3 DEF Modal!PricesInv, Modal!InHand, Modal!ClerkType, Modal!IsQuote, Modal!Booked, Modal!Seen
<1> QED BY <1>1, <1>2, <1>3 DEF Modal!Next

LEMMA PricesInvStands == Modal!PricesInv => Modal!PricesStand
<1> SUFFICES ASSUME Modal!PricesInv PROVE Modal!PricesStand
  OBVIOUS
<1>1. ASSUME NEW p \in Workers, Modal!Shows(r5[p].quote)
      PROVE  Modal!Usable(r5[p].quote, r5[p].band, r5[p].since)
  BY <1>1, PricesSay DEF Modal!Shows, Modal!Usable, Modal!InHand
<1> QED BY <1>1, PricesSay DEF Modal!PricesStand, Modal!Booked

\* quote-cache.service.ts, booking.service.ts: whatever the accounts, bands and
\* lives of a quote, and whoever fetched it, the price frozen, shown or weighed
\* was given for that weight, on a lane that is served, within its life; and what
\* a Member was shown of an account and weight it then books is frozen while it
\* lives, or an answer no older that was kept meanwhile.
THEOREM PricesAreTrue == Spec => []PricesStand
<1> DEFINE I == focus = "ship" => Modal!PricesInv
<1>1. Init => I
  BY PricesInitially DEF Init
<1>2. I /\ [Next]_vars => I'
  <2> SUFFICES ASSUME I, [Next]_vars PROVE I'
    OBVIOUS
  <2>1. UNCHANGED focus
    BY DEF Next, vars
  <2>2. CASE focus = "ship"
    <3>1. [Modal!Next]_<<r1, r2, r3, r4, r5, r6>>
      BY <2>2 DEF Next, vars
    <3> QED BY <2>1, <2>2, <3>1, PricesKept
  <2> QED BY <2>1, <2>2
<1>3. I => PricesStand
  BY PricesInvStands DEF PricesStand
<1> QED BY <1>1, <1>2, <1>3, PTL DEF Spec

----------------------------------------------------------------------------
(* Upkeep.  r1 is today, r4 the items, r5 the sweeps.                      *)

LEMMA Tables ==
  /\ Keep!Kinds = {"inbox", "raw", "tracking", "document", "invoice", "export", "attachment"}
  /\ Len(Keep!Order) = 7 /\ \A i \in 1 .. 7 : Keep!Order[i] \in Keep!Kinds
  /\ Keep!Partitioned = {"raw", "tracking"}
BY DEF Keep!Kinds, Keep!Order, Keep!Partitioned

\* An item is not lost before its time.
Overdue(k, i) == i.late \/ (i.closed # 0 /\ r1 - i.closed > Horizon[k])
Timely(k, i) ==
  i.born # 0 =>
    /\ ~i.row => r1 - i.born > Horizon[k]
    /\ i.row /\ ~i.object /\ k \notin Keep!Partitioned \cup {"inbox"} => i.tomb \/ r1 - i.born > Horizon[k]
    /\ k = "attachment" /\ ~i.object => Overdue(k, i)
\* The time of what a sweep may take has come.
HasCome(k, i) ==
  /\ i.born # 0 /\ r1 - i.born > Horizon[k]
  /\ k = "attachment" => Overdue(k, i)

LEMMA UpkeepSays ==
  ASSUME Keep!UpkeepInv
  PROVE  /\ r1 \in Nat \ {0} /\ r4 = [k \in Keep!Kinds |-> r4[k]] /\ r5 = [p \in Sweepers |-> r5[p]]
         /\ \A k \in Keep!Kinds : Keep!ItemStands(r4[k]) /\ Timely(k, r4[k])
         /\ \A p \in Sweepers : Keep!SweepStands(r5[p])
BY DEF Keep!UpkeepInv, Keep!KeptForItsTime, Keep!Age, Keep!Overdue, Timely, Overdue

LEMMA UpkeepFrom ==
  ASSUME r1 \in Nat \ {0}, r4 = [k \in Keep!Kinds |-> r4[k]], r5 = [p \in Sweepers |-> r5[p]],
         \A k \in Keep!Kinds : Keep!ItemStands(r4[k]) /\ Timely(k, r4[k]),
         \A p \in Sweepers : Keep!SweepStands(r5[p])
  PROVE  Keep!UpkeepInv
BY DEF Keep!UpkeepInv, Keep!KeptForItsTime, Keep!Age, Keep!Overdue, Timely, Overdue

LEMMA SweepsSay ==
  ASSUME Keep!UpkeepInv, NEW p \in Sweepers
  PROVE  /\ r5[p] \in [at : 0 .. 7, day : 0 .. r1, step : {"rest", "chosen", "foreign", "erased"}]
         /\ r5[p] # Keep!Off => r5[p].at # 0
         /\ r5[p].step # "rest" => r5[p] # Keep!Off
         /\ r5[p].step \in {"chosen", "erased"} => r5[p].at # 0 /\ HasCome(Keep!Order[r5[p].at], r4[Keep!Order[r5[p].at]])
<1>1. Keep!SweepStands(r5[p])
  BY UpkeepSays
<1>2. r5[p].step # "rest" => r5[p] # Keep!Off
  BY DEF Keep!Off
<1> QED BY <1>1, <1>2, Tables DEF Keep!SweepStands, Keep!TimeHasCome, Keep!Age, Keep!Overdue, HasCome, Overdue

LEMMA ItemsSay ==
  ASSUME Keep!UpkeepInv, NEW k \in Keep!Kinds
  PROVE  /\ r1 \in Nat \ {0} /\ r4[k].born \in Nat /\ r4[k].closed \in Nat
         /\ r4[k] \in [born : 0 .. r1, closed : 0 .. r1, part : {r4[k].part}, row : BOOLEAN, object : BOOLEAN,
                       tomb : BOOLEAN, late : BOOLEAN]
         /\ r4[k].row => r4[k].born # 0
         /\ r4[k].closed # 0 => r4[k].born # 0 /\ r4[k].born <= r4[k].closed
         /\ Timely(k, r4[k])
<1>1. r1 \in Nat \ {0} /\ Keep!ItemStands(r4[k]) /\ Timely(k, r4[k])
  BY UpkeepSays
<1>2. r4[k] \in [born : 0 .. r1, closed : 0 .. r1, part : {r4[k].part}, row : BOOLEAN, object : BOOLEAN,
                 tomb : BOOLEAN, late : BOOLEAN]
  BY <1>1 DEF Keep!ItemStands
<1>3. r4[k].born \in 0 .. r1 /\ r4[k].closed \in 0 .. r1
  BY <1>2, Zenon
<1> QED BY <1>1, <1>2, <1>3 DEF Keep!ItemStands

LEMMA UpkeepInitially == Keep!Init => Keep!UpkeepInv
<1> SUFFICES ASSUME Keep!Init PROVE Keep!UpkeepInv
  OBVIOUS
<1>1. /\ r1 = 1 /\ r4 = [k \in Keep!Kinds |-> Keep!NoItem] /\ r5 = [p \in Sweepers |-> Keep!Off]
  BY DEF Keep!Init
<1>2. Keep!ItemStands(Keep!NoItem) /\ \A k : Timely(k, Keep!NoItem)
  BY <1>1 DEF Keep!ItemStands, Timely, Keep!NoItem
<1>3. Keep!SweepStands(Keep!Off)
  BY <1>1, Tables DEF Keep!SweepStands, Keep!Off
<1> QED BY <1>1, <1>2, <1>3, UpkeepFrom

\* A step of today: every item it touches stays timely, and what may be taken may
\* still be, and so the sweeps it leaves alone still chose what they may.
LEMMA SweepMoves ==
  ASSUME Keep!UpkeepInv, r1' = r1,
         r4' = [k \in Keep!Kinds |-> r4'[k]], r5' = [p \in Sweepers |-> r5'[p]],
         \A k \in Keep!Kinds :
           \/ r4'[k] = r4[k]
           \/ /\ Keep!ItemStands(r4'[k]) /\ Timely(k, r4'[k])
              /\ HasCome(k, r4[k]) => HasCome(k, r4'[k]),
         \A p \in Sweepers : r5'[p] = r5[p] \/ Keep!SweepStands(r5[p])'
  PROVE  Keep!UpkeepInv'
<1>1. \A k \in Keep!Kinds : (Keep!ItemStands(r4[k]) /\ Timely(k, r4[k]))'
  <2>1. \A i : (Keep!ItemStands(i)' <=> Keep!ItemStands(i)) /\ \A k : Timely(k, i)' <=> Timely(k, i)
    BY DEF Keep!ItemStands, Timely, Overdue
  <2> QED BY <2>1, UpkeepSays
<1>2. ASSUME NEW p \in Sweepers, r5'[p] = r5[p] PROVE Keep!SweepStands(r5[p])'
  <2> DEFINE k == Keep!Order[r5[p].at]
  <2>1. Keep!SweepStands(r5[p])
    BY UpkeepSays
  <2>2. ASSUME r5[p].step \in {"chosen", "erased"} PROVE HasCome(k, r4'[k])
    <3>1. r5[p].at \in 1 .. 7 /\ HasCome(k, r4[k])
      BY <2>2, SweepsSay
    <3> QED BY <3>1, Tables
  <2> QED BY <1>2, <2>1, <2>2
       DEF Keep!SweepStands, Keep!TimeHasCome, Keep!Age, Keep!Overdue, HasCome, Overdue
<1>3. \A p \in Sweepers : Keep!SweepStands(r5[p])'
  BY <1>2
<1>4. (r1 \in Nat \ {0} /\ r4 = [k \in Keep!Kinds |-> r4[k]] /\ r5 = [p \in Sweepers |-> r5[p]])'
  BY UpkeepSays
<1> QED BY <1>1, <1>3, <1>4 DEF Keep!UpkeepInv, Keep!KeptForItsTime, Keep!Age, Keep!Overdue, Timely, Overdue

\* One item changes and no sweep.
LEMMA ItemMoves ==
  ASSUME Keep!UpkeepInv, r1' = r1, r5' = r5, NEW k \in Keep!Kinds, NEW i, r4' = [r4 EXCEPT ![k] = i],
         Keep!ItemStands(i), Timely(k, i), HasCome(k, r4[k]) => HasCome(k, i)
  PROVE  Keep!UpkeepInv'
<1>1. /\ r4' = [x \in Keep!Kinds |-> r4'[x]]
      /\ \A x \in Keep!Kinds : r4'[x] = IF x = k THEN i ELSE r4[x]
  BY UpkeepSays
<1> QED BY <1>1, UpkeepSays, SweepMoves, Zenon

\* A sweep that has chosen nothing.
LEMMA Unchosen ==
  ASSUME Keep!UpkeepInv, r1' = r1, NEW p \in Sweepers, NEW s, r5' = [r5 EXCEPT ![p] = s],
         s \in [at : 0 .. 7, day : 0 .. r1, step : {"rest", "foreign"}], s # Keep!Off => s.at # 0
  PROVE  /\ r5' = [q \in Sweepers |-> r5'[q]]
         /\ \A q \in Sweepers : r5'[q] = r5[q] \/ Keep!SweepStands(r5[q])'
<1>1. \A q \in Sweepers : r5'[q] = IF q = p THEN s ELSE r5[q]
  BY UpkeepSays
<1>2. Keep!SweepStands(r5[p])'
  BY <1>1, Tables, Zenon DEF Keep!SweepStands
<1> QED BY <1>1, <1>2, UpkeepSays, Zenon

LEMMA OnwardStands ==
  ASSUME Keep!UpkeepInv, r1' = r1, NEW p \in Sweepers, r5[p] # Keep!Off, Keep!Onward(p)
  PROVE  /\ r5' = [q \in Sweepers |-> r5'[q]]
         /\ \A q \in Sweepers : r5'[q] = r5[q] \/ Keep!SweepStands(r5[q])'
<1>1. /\ r5[p] \in [at : 0 .. 7, day : 0 .. r1, step : {"rest", "chosen", "foreign", "erased"}] /\ r5[p].at # 0
      /\ r1 \in Nat
  BY UpkeepSays, SweepsSay
<1> DEFINE s == IF r5[p].at = 7 THEN Keep!Off ELSE [r5[p] EXCEPT !.at = r5[p].at + 1, !.step = "rest"]
<1>2. r5' = [r5 EXCEPT ![p] = s]
  BY Tables DEF Keep!Onward
<1>3. s \in [at : 0 .. 7, day : 0 .. r1, step : {"rest", "foreign"}] /\ (s # Keep!Off => s.at # 0)
  <2>1. CASE r5[p].at = 7
    BY <1>1, <2>1 DEF Keep!Off
  <2>2. CASE r5[p].at # 7
    <3> DEFINE n == r5[p].at + 1
    <3>1. n \in 1 .. 7
      BY <1>1, <2>2
    <3> HIDE DEF n
    <3> DEFINE next == [r5[p] EXCEPT !.at = n, !.step = "rest"]
    <3>2. /\ next \in [at : 0 .. 7, day : 0 .. r1, step : {"rest", "foreign"}]
          /\ next.at = n
      <4>1. n \in 0 .. 7
        BY <3>1
      <4>2. r5[p] \in [at : 0 .. 7, day : 0 .. r1, step : {"rest", "chosen", "foreign", "erased"}]
        BY <1>1
      <4> QED BY <4>1, <4>2, Zenon
    <3>3. s = next
      BY <2>2 DEF n
    <3>4. n # 0
      BY <3>1
    <3> HIDE DEF s, next
    <3> QED BY <3>2, <3>3, <3>4, Zenon
  <2> QED BY <2>1, <2>2, Zenon
<1> HIDE DEF s
<1> QED BY <1>2, <1>3, Unchosen, Zenon

LEMMA DaysPass == ASSUME Keep!UpkeepInv, Keep!Tick PROVE Keep!UpkeepInv'
<1>1. r1' = r1 + 1 /\ UNCHANGED <<r4, r5>>
  BY DEF Keep!Tick
<1>2. r1 \in Nat \ {0} /\ r1' \in Nat \ {0} /\ 0 .. r1 \subseteq 0 .. r1'
  BY <1>1, UpkeepSays
<1>3. ASSUME NEW k \in Keep!Kinds
      PROVE  /\ (Keep!ItemStands(r4[k]) /\ Timely(k, r4[k]))'
             /\ HasCome(k, r4[k]) => HasCome(k, r4[k])'
  <2> DEFINE i == r4[k]
  <2>1. Horizon[k] \in Nat /\ i' = i
    BY <1>1, UpkeepAssumption
  <2>2. \A n \in Nat : r1 - n > Horizon[k] => r1' - n > Horizon[k]
    BY <1>1, <1>2, <2>1
  <2>3. /\ i.born \in Nat /\ i.closed \in Nat /\ Timely(k, i) /\ Keep!ItemStands(i)
        /\ i \in [born : 0 .. r1, closed : 0 .. r1, part : {i.part}, row : BOOLEAN, object : BOOLEAN,
                  tomb : BOOLEAN, late : BOOLEAN]
    BY ItemsSay, UpkeepSays
  <2> HIDE DEF i
  <2>4. Overdue(k, i) => Overdue(k, i)'
    BY <2>1, <2>2, <2>3 DEF Overdue
  <2>5. Timely(k, i)' /\ (HasCome(k, i) => HasCome(k, i)')
    BY <2>1, <2>2, <2>3, <2>4 DEF Timely, HasCome
  <2>6. Keep!ItemStands(i)'
    <3>1. i.born \in 0 .. r1' /\ i.closed \in 0 .. r1'
      BY <1>2, <2>3
    <3> QED BY <2>1, <2>3, <3>1 DEF Keep!ItemStands
  <2> QED BY <2>5, <2>6 DEF i
<1>4. ASSUME NEW p \in Sweepers PROVE Keep!SweepStands(r5[p])'
  <2> DEFINE k == Keep!Order[r5[p].at]
  <2>1. Keep!SweepStands(r5[p])
    BY UpkeepSays
  <2>2. ASSUME r5[p].step \in {"chosen", "erased"} PROVE HasCome(k, r4[k])'
    <3>1. r5[p].at \in 1 .. 7 /\ HasCome(k, r4[k])
      BY <2>2, SweepsSay
    <3>2. k \in Keep!Kinds /\ r5'[p] = r5[p]
      BY <1>1, <3>1, Tables
    <3> QED BY <1>1, <1>3, <3>1, <3>2
  <2>3. r5[p].day \in 0 .. r1'
    BY <1>2, SweepsSay
  <2> QED BY <1>1, <2>1, <2>2, <2>3
       DEF Keep!SweepStands, Keep!TimeHasCome, Keep!Age, Keep!Overdue, HasCome, Overdue
<1> QED BY <1>1, <1>2, <1>3, <1>4, UpkeepSays
     DEF Keep!UpkeepInv, Keep!KeptForItsTime, Keep!Age, Keep!Overdue, Timely, Overdue

LEMMA ItemsLive ==
  ASSUME Keep!UpkeepInv,
         \/ Keep!EnsurePartitions \/ Keep!Reopen
         \/ \E k \in Keep!Kinds : Keep!Store(k) \/ Keep!Close(k) \/ Keep!Redact(k)
  PROVE  Keep!UpkeepInv'
<1>2. CASE Keep!EnsurePartitions
  BY <1>2, UpkeepSays, SweepMoves DEF Keep!EnsurePartitions
<1>3. ASSUME NEW k \in Keep!Kinds, Keep!Store(k) PROVE Keep!UpkeepInv'
  <2> DEFINE i == [born |-> r1, closed |-> 0, row |-> TRUE, tomb |-> FALSE, late |-> FALSE,
                   object |-> k \notin Keep!Partitioned \cup {"inbox"},
                   part |-> IF k \notin Keep!Partitioned THEN "none"
                            ELSE IF Keep!MonthOf(r1) \in r3 THEN "month" ELSE "default"]
  <2>1. r4[k] = Keep!NoItem /\ r4' = [r4 EXCEPT ![k] = i] /\ UNCHANGED <<r1, r5>>
    BY <1>3 DEF Keep!Store
  <2>2. r1 \in Nat \ {0} /\ r1 \in 0 .. r1
    BY UpkeepSays
  <2>3. Keep!ItemStands(i)
    BY <2>2 DEF Keep!ItemStands
  <2>4. Timely(k, i)
    BY <2>2, Tables, Zenon DEF Timely
  <2> HIDE DEF i
  <2>5. ~HasCome(k, r4[k])
    BY <2>1 DEF Keep!NoItem, HasCome
  <2> QED BY <2>1, <2>3, <2>4, <2>5, ItemMoves
<1>4. ASSUME NEW k \in Keep!Kinds, Keep!Close(k) PROVE Keep!UpkeepInv'
  <2> DEFINE i == [r4[k] EXCEPT !.closed = r1]
  <2>1. /\ r4' = [r4 EXCEPT ![k] = i] /\ UNCHANGED <<r1, r5>> /\ r4[k].born # 0 /\ r4[k].closed = 0
    BY <1>4 DEF Keep!Close
  <2>2. /\ i.born = r4[k].born /\ i.closed = r1 /\ i.row = r4[k].row /\ i.object = r4[k].object
        /\ i.tomb = r4[k].tomb /\ i.late = r4[k].late
        /\ i \in [born : 0 .. r1, closed : 0 .. r1, part : {i.part}, row : BOOLEAN, object : BOOLEAN,
                  tomb : BOOLEAN, late : BOOLEAN]
    BY ItemsSay
  <2> HIDE DEF i
  <2>3. Keep!ItemStands(i)
    BY <2>1, <2>2, ItemsSay DEF Keep!ItemStands
  <2>4. Overdue(k, r4[k]) => Overdue(k, i)
    BY <2>1, <2>2 DEF Overdue
  <2>5. Timely(k, i) /\ (HasCome(k, r4[k]) => HasCome(k, i))
    BY <2>1, <2>2, <2>4, ItemsSay DEF Timely, HasCome
  <2> QED BY <2>1, <2>3, <2>5, ItemMoves
<1>5. CASE Keep!Reopen
  <2> DEFINE k == "attachment"
             i == [r4[k] EXCEPT !.closed = 0, !.late = Overdue(k, r4[k])]
  <2>1. k \in Keep!Kinds /\ r4' = [r4 EXCEPT ![k] = i] /\ UNCHANGED <<r1, r5>>
    BY <1>5, Tables DEF Keep!Reopen, Keep!Overdue, Overdue
  <2>2. /\ i.born = r4[k].born /\ i.closed = 0 /\ i.row = r4[k].row /\ i.object = r4[k].object
        /\ i.tomb = r4[k].tomb /\ i.late = Overdue(k, r4[k])
        /\ i \in [born : 0 .. r1, closed : 0 .. r1, part : {i.part}, row : BOOLEAN, object : BOOLEAN,
                  tomb : BOOLEAN, late : BOOLEAN]
    <3>1. Overdue(k, r4[k]) \in BOOLEAN
      BY <2>1, ItemsSay DEF Overdue
    <3>2. 0 \in 0 .. r1
      BY <2>1, ItemsSay
    <3> HIDE DEF k
    <3> QED BY <2>1, <3>1, <3>2, ItemsSay, Zenon
  <2> HIDE DEF i, k
  <2>3. Keep!ItemStands(i)
    BY <2>1, <2>2, ItemsSay DEF Keep!ItemStands
  <2>4. Overdue(k, i) <=> Overdue(k, r4[k])
    BY <2>2 DEF Overdue
  <2>5. Timely(k, i) /\ (HasCome(k, r4[k]) => HasCome(k, i))
    BY <2>1, <2>2, <2>4, ItemsSay DEF Timely, HasCome
  <2> QED BY <2>1, <2>3, <2>5, ItemMoves
<1>6. ASSUME NEW k \in Keep!Kinds, Keep!Redact(k) PROVE Keep!UpkeepInv'
  <2> DEFINE i == [r4[k] EXCEPT !.object = FALSE, !.tomb = TRUE]
  <2>1. r4' = [r4 EXCEPT ![k] = i] /\ UNCHANGED <<r1, r5>> /\ k # "attachment"
    BY <1>6 DEF Keep!Redact
  <2>2. /\ i.born = r4[k].born /\ i.closed = r4[k].closed /\ i.row = r4[k].row /\ i.tomb
        /\ i \in [born : 0 .. r1, closed : 0 .. r1, part : {i.part}, row : BOOLEAN, object : BOOLEAN,
                  tomb : BOOLEAN, late : BOOLEAN]
    BY ItemsSay, Zenon
  <2> HIDE DEF i
  <2>3. Keep!ItemStands(i)
    BY <2>2, ItemsSay DEF Keep!ItemStands
  <2>4. Timely(k, i) /\ (HasCome(k, r4[k]) => HasCome(k, i))
    BY <2>1, <2>2, ItemsSay DEF Timely, HasCome
  <2> QED BY <2>1, <2>3, <2>4, ItemMoves
<1> QED BY <1>2, <1>3, <1>4, <1>5, <1>6

\* Who is old enough for the sweep is old enough today.
LEMMA PastTheCutoff ==
  ASSUME Keep!UpkeepInv, NEW p \in Sweepers, r5[p] # Keep!Off, NEW n \in Nat, n < Keep!Cutoff(p)
  PROVE  Keep!Table(p) \in Keep!Kinds /\ r1 - n > Horizon[Keep!Table(p)]
<1>1. r5[p].at \in 1 .. 7 /\ r5[p].day \in 0 .. r1 /\ r1 \in Nat
  BY UpkeepSays, SweepsSay
<1>2. Keep!Table(p) \in Keep!Kinds
  BY <1>1, Tables DEF Keep!Table
<1>3. Horizon[Keep!Table(p)] \in Nat /\ r5[p].day \in Nat /\ r5[p].day <= r1
  BY <1>1, <1>2, UpkeepAssumption
<1> QED BY <1>1, <1>2, <1>3 DEF Keep!Cutoff

\* The last day of a month is before the month that follows.
LEMMA MonthsPass ==
  ASSUME NEW n \in Nat \ {0}, NEW cutoff \in Int, Keep!ExpiredMonth(Keep!MonthOf(n), cutoff)
  PROVE  n < cutoff
<1> DEFINE m == (n - 1) \div Month
<1>1. Month \in Nat \ {0} /\ m \in Nat
  BY UpkeepAssumption
<1>2. n - 1 < (m + 1) * Month
  BY UpkeepAssumption
<1>3. (m + 1) * Month \in Nat
  BY <1>1
<1>4. (m + 1) * Month + 1 <= cutoff
  BY DEF Keep!ExpiredMonth, Keep!MonthEnd, Keep!MonthOf
<1> HIDE DEF m
<1> QED BY <1>2, <1>3, <1>4

\* What a batched statement or an expired partition takes was old enough.
LEMMA RowsSwept ==
  ASSUME Keep!UpkeepInv, NEW p \in Sweepers, Keep!SweepInbox(p) \/ Keep!SweepPartitions(p)
  PROVE  Keep!UpkeepInv'
<1> DEFINE k == Keep!Table(p)
<1>1. r5[p] # Keep!Off /\ r1' = r1 /\ k \in {"inbox", "raw", "tracking"}
  BY Tables DEF Keep!SweepInbox, Keep!SweepPartitions
<1>2. k \in Keep!Kinds
  BY <1>1, Tables
<1>3. /\ r4[k] \in [born : 0 .. r1, closed : 0 .. r1, part : {r4[k].part}, row : BOOLEAN, object : BOOLEAN,
                    tomb : BOOLEAN, late : BOOLEAN]
      /\ r4[k].born \in Nat /\ (r4[k].row => r4[k].born # 0) /\ Keep!ItemStands(r4[k]) /\ Timely(k, r4[k])
  BY <1>2, ItemsSay, UpkeepSays
<1> DEFINE old == r4[k].row /\ r4[k].born < Keep!Cutoff(p)
<1>4. ASSUME NEW i, r4' = [r4 EXCEPT ![k] = i], old,
             i \in [born : {r4[k].born}, closed : {r4[k].closed}, part : {i.part}, row : {FALSE}, object : {r4[k].object},
                 tomb : {r4[k].tomb}, late : {r4[k].late}],
             Keep!Onward(p)
      PROVE  Keep!UpkeepInv'
  <2>1. r1 - r4[k].born > Horizon[k]
    BY <1>1, <1>3, <1>4, PastTheCutoff
  <2>2. /\ i.born = r4[k].born /\ i.closed = r4[k].closed /\ ~i.row /\ i.object = r4[k].object
        /\ i.tomb = r4[k].tomb /\ i.late = r4[k].late
    BY <1>4, Zenon
  <2>3. Keep!ItemStands(i)
    BY <1>3, <1>4, <2>2, Zenon DEF Keep!ItemStands
  <2>4. Timely(k, i) /\ (HasCome(k, r4[k]) => HasCome(k, i))
    BY <1>1, <2>1, <2>2 DEF Timely, HasCome
  <2>5. /\ r4' = [x \in Keep!Kinds |-> r4'[x]]
        /\ \A x \in Keep!Kinds : r4'[x] = IF x = k THEN i ELSE r4[x]
    BY <1>4, UpkeepSays
  <2> HIDE DEF k, old
  <2> QED BY <1>1, <1>2, <1>4, <2>3, <2>4, <2>5, UpkeepSays, OnwardStands, SweepMoves, Zenon
<1>5. ASSUME r4' = r4, Keep!Onward(p) PROVE Keep!UpkeepInv'
  BY <1>1, <1>5, UpkeepSays, OnwardStands, SweepMoves
<1>6. CASE Keep!SweepInbox(p)
  <2>1. k = "inbox" /\ Keep!Onward(p) /\ r4' = IF Keep!Due(p) THEN [r4 EXCEPT !["inbox"].row = FALSE] ELSE r4
    BY <1>6 DEF Keep!SweepInbox
  <2>2. CASE Keep!Due(p)
    <3> DEFINE i == [r4[k] EXCEPT !.row = FALSE]
    <3>1. r4' = [r4 EXCEPT ![k] = i]
      BY <2>1, <2>2
    <3>2. i \in [born : {r4[k].born}, closed : {r4[k].closed}, part : {i.part}, row : {FALSE}, object : {r4[k].object},
                 tomb : {r4[k].tomb}, late : {r4[k].late}]
      BY <1>3, Zenon
    <3>3. old
      BY <2>1, <2>2 DEF Keep!Due
    <3> HIDE DEF i, k, old
    <3> QED BY <1>4, <2>1, <3>1, <3>2, <3>3, Zenon
  <2> QED BY <1>5, <2>1, <2>2
<1>7. CASE Keep!SweepPartitions(p)
  <2> DEFINE gone == IF r4[k].part = "month" THEN Keep!ExpiredMonth(Keep!MonthOf(r4[k].born), Keep!Cutoff(p)) ELSE Keep!Due(p)
  <2>1. CASE ~r2
    <3>1. r4' = r4 /\ r5' = [r5 EXCEPT ![p] = Keep!Off]
      BY <1>7, <2>1 DEF Keep!SweepPartitions
    <3>2. Keep!Off \in [at : 0 .. 7, day : 0 .. r1, step : {"rest", "foreign"}]
      BY UpkeepSays DEF Keep!Off
    <3>3. Keep!Off.at = 0
      BY DEF Keep!Off
    <3> QED BY <1>1, <3>1, <3>2, Unchosen, UpkeepSays, SweepMoves, Zenon
  <2>2. CASE r2
    <3>1. /\ Keep!Onward(p)
          /\ r4' = IF r4[k].row /\ gone THEN [r4 EXCEPT ![k].row = FALSE, ![k].part = "none"] ELSE r4
      BY <1>7, <2>2, Zenon DEF Keep!SweepPartitions
    <3>2. CASE r4[k].row /\ gone
      <4> DEFINE i == [r4[k] EXCEPT !.row = FALSE, !.part = "none"]
      <4>1. r4' = [r4 EXCEPT ![k] = i]
        BY <3>1, <3>2, Zenon
      <4>2. i \in [born : {r4[k].born}, closed : {r4[k].closed}, part : {i.part}, row : {FALSE}, object : {r4[k].object},
                 tomb : {r4[k].tomb}, late : {r4[k].late}]
        BY <1>3, Zenon
      <4>3. old
        <5>1. CASE r4[k].part = "month"
          <6>1. Keep!Cutoff(p) \in Int
            BY <1>2, UpkeepSays, SweepsSay, UpkeepAssumption DEF Keep!Cutoff
          <6> QED BY <1>3, <3>2, <5>1, <6>1, MonthsPass
        <5>2. CASE r4[k].part # "month"
          BY <1>7, <3>2, <5>2, Tables DEF Keep!Due, Keep!SweepPartitions
        <5> QED BY <5>1, <5>2
      <4> HIDE DEF i, k, old, gone
      <4> QED BY <1>4, <3>1, <4>1, <4>2, <4>3, Zenon
    <3> QED BY <1>5, <3>1, <3>2
  <2> QED BY <2>1, <2>2
<1> QED BY <1>6, <1>7

\* A sweep's own step.
LEMMA SweepTurns ==
  ASSUME Keep!UpkeepInv, r1' = r1, r4' = r4, NEW p \in Sweepers, NEW s, r5' = [r5 EXCEPT ![p] = s],
         s \in [at : 0 .. 7, day : 0 .. r1, step : {"rest", "chosen", "foreign", "erased"}], s # Keep!Off => s.at # 0,
         s.step \in {"chosen", "erased"} => s.at # 0 /\ HasCome(Keep!Order[s.at], r4[Keep!Order[s.at]])
  PROVE  Keep!UpkeepInv'
<1>1. /\ r5' = [q \in Sweepers |-> r5'[q]]
      /\ \A q \in Sweepers : r5'[q] = IF q = p THEN s ELSE r5[q]
  BY UpkeepSays
<1>2. Keep!SweepStands(r5[p])'
  BY <1>1, Tables DEF Keep!SweepStands, Keep!TimeHasCome, Keep!Age, Keep!Overdue, HasCome, Overdue
<1> QED BY <1>1, <1>2, UpkeepSays, SweepMoves, Zenon

\* What is chosen was old enough.
LEMMA ObjectsChosen ==
  ASSUME Keep!UpkeepInv, NEW p \in Sweepers, Keep!Choose(p)
  PROVE  Keep!UpkeepInv'
<1> DEFINE k == Keep!Table(p)
           s == [r5[p] EXCEPT !.step = IF r4[k].tomb THEN "foreign" ELSE "chosen"]
<1>1. /\ r5[p] # Keep!Off /\ r1' = r1 /\ r4' = r4 /\ k \notin {"inbox", "raw", "tracking"}
      /\ IF Keep!Due(p) THEN r5' = [r5 EXCEPT ![p] = s] ELSE Keep!Onward(p)
  BY Tables DEF Keep!Choose
<1>2. /\ r5[p] \in [at : 0 .. 7, day : 0 .. r1, step : {"rest", "chosen", "foreign", "erased"}] /\ r5[p].at # 0
      /\ k = Keep!Order[r5[p].at] /\ k \in Keep!Kinds
  BY <1>1, Tables, SweepsSay DEF Keep!Table
<1>3. CASE ~Keep!Due(p)
  BY <1>1, <1>3, UpkeepSays, OnwardStands, SweepMoves
<1>4. CASE Keep!Due(p)
  <2>1. /\ r4[k].born \in Nat /\ r4[k].closed \in Nat /\ r4[k].born # 0 /\ r1 \in Nat
        /\ r4[k].closed # 0 => r4[k].born <= r4[k].closed
    BY <1>2, <1>4, ItemsSay DEF Keep!Due
  <2>2. HasCome(k, r4[k])
    <3>1. CASE k = "attachment"
      <4>1. r4[k].closed # 0 /\ r4[k].closed < Keep!Cutoff(p)
        BY <1>4, <3>1 DEF Keep!Due
      <4>2. r1 - r4[k].closed > Horizon[k] /\ Horizon[k] \in Nat
        BY <1>1, <1>2, <2>1, <4>1, PastTheCutoff, UpkeepAssumption
      <4> HIDE DEF k
      <4> QED BY <2>1, <4>1, <4>2 DEF HasCome, Overdue
    <3>2. CASE k # "attachment"
      <4>1. r4[k].born < Keep!Cutoff(p)
        BY <1>4, <3>2 DEF Keep!Due
      <4>2. r1 - r4[k].born > Horizon[k]
        BY <1>1, <2>1, <4>1, PastTheCutoff
      <4> QED BY <2>1, <3>2, <4>2 DEF HasCome
    <3> QED BY <3>1, <3>2
  <2>3. /\ s \in [at : 0 .. 7, day : 0 .. r1, step : {"rest", "chosen", "foreign", "erased"}] /\ s.at = r5[p].at
    BY <1>2, Zenon
  <2>4. k = Keep!Order[s.at]
    BY <1>2, <2>3
  <2> HIDE DEF s, k
  <2>5. s.at # 0 /\ HasCome(Keep!Order[s.at], r4[Keep!Order[s.at]])
    BY <1>2, <2>2, <2>3, <2>4
  <2>6. r1' = r1 /\ r4' = r4 /\ r5' = [r5 EXCEPT ![p] = s]
    BY <1>1, <1>4
  <2> QED BY <2>3, <2>5, <2>6, SweepTurns
<1> QED BY <1>3, <1>4

\* Its object goes first, its row later.
LEMMA ChosenErased ==
  ASSUME Keep!UpkeepInv, NEW p \in Sweepers, Keep!EraseObject(p)
  PROVE  Keep!UpkeepInv'
<1> DEFINE k == Keep!Table(p)
           i == [r4[k] EXCEPT !.object = FALSE]
           s == [r5[p] EXCEPT !.step = "erased"]
<1>1. /\ r1' = r1 /\ r5[p].step = "chosen" /\ r4' = [r4 EXCEPT ![k] = i] /\ r5' = [r5 EXCEPT ![p] = s]
  BY DEF Keep!EraseObject
<1>2. /\ r5[p] \in [at : 0 .. 7, day : 0 .. r1, step : {"rest", "chosen", "foreign", "erased"}] /\ r5[p].at # 0
      /\ k = Keep!Order[r5[p].at] /\ k \in Keep!Kinds /\ HasCome(k, r4[k])
  BY <1>1, Tables, SweepsSay DEF Keep!Table
<1>3. /\ i.born = r4[k].born /\ i.closed = r4[k].closed /\ i.row = r4[k].row /\ i.late = r4[k].late
      /\ i \in [born : 0 .. r1, closed : 0 .. r1, part : {i.part}, row : BOOLEAN, object : BOOLEAN,
                tomb : BOOLEAN, late : BOOLEAN]
  <2> HIDE DEF k
  <2> QED BY <1>2, ItemsSay, Zenon
<1>4. /\ s \in [at : 0 .. 7, day : 0 .. r1, step : {"rest", "chosen", "foreign", "erased"}] /\ s.at = r5[p].at
  BY <1>2, Zenon
<1>5. k = Keep!Order[s.at]
  BY <1>2, <1>4
<1> HIDE DEF i, s, k
<1>6. Keep!ItemStands(i)
  BY <1>2, <1>3, ItemsSay DEF Keep!ItemStands
<1>7. Timely(k, i) /\ HasCome(k, i)
  BY <1>2, <1>3 DEF Timely, HasCome, Overdue
<1>8. /\ r4' = [x \in Keep!Kinds |-> r4'[x]] /\ r4'[k] = i
      /\ \A x \in Keep!Kinds : r4'[x] = IF x = k THEN i ELSE r4[x]
  BY <1>1, <1>2, UpkeepSays
<1>9. /\ r5' = [q \in Sweepers |-> r5'[q]]
      /\ \A q \in Sweepers : r5'[q] = IF q = p THEN s ELSE r5[q]
  BY <1>1, UpkeepSays
<1>10. Keep!SweepStands(r5[p])'
  BY <1>1, <1>2, <1>4, <1>5, <1>7, <1>8, <1>9, Tables
  DEF Keep!SweepStands, Keep!TimeHasCome, Keep!Age, Keep!Overdue, HasCome, Overdue
<1>11. \A q \in Sweepers : r5'[q] = r5[q] \/ Keep!SweepStands(r5[q])'
  BY <1>9, <1>10
<1> QED BY <1>1, <1>6, <1>7, <1>8, <1>9, <1>11, SweepMoves, Zenon

LEMMA ChosenCleared ==
  ASSUME Keep!UpkeepInv, NEW p \in Sweepers, Keep!Clear(p)
  PROVE  Keep!UpkeepInv'
<1> DEFINE k == Keep!Table(p)
           i == [r4[k] EXCEPT !.row = FALSE]
<1>1. /\ r1' = r1 /\ r5[p].step = "erased"
      /\ r4' = IF k # "export" THEN [r4 EXCEPT ![k] = i] ELSE r4
      /\ Keep!Onward(p) \/ r5' = [r5 EXCEPT ![p].step = "rest"]
  BY DEF Keep!Clear
<1>2. /\ r5[p] \in [at : 0 .. 7, day : 0 .. r1, step : {"rest", "chosen", "foreign", "erased"}] /\ r5[p].at # 0
      /\ r5[p] # Keep!Off /\ k = Keep!Order[r5[p].at] /\ k \in Keep!Kinds /\ HasCome(k, r4[k])
  BY <1>1, Tables, SweepsSay DEF Keep!Table
<1>3. /\ r5' = [q \in Sweepers |-> r5'[q]]
      /\ \A q \in Sweepers : r5'[q] = r5[q] \/ Keep!SweepStands(r5[q])'
  <2>1. CASE Keep!Onward(p)
    BY <1>1, <1>2, <2>1, OnwardStands
  <2>2. CASE r5' = [r5 EXCEPT ![p].step = "rest"]
    <3> DEFINE s == [r5[p] EXCEPT !.step = "rest"]
    <3>1. s \in [at : 0 .. 7, day : 0 .. r1, step : {"rest", "foreign"}] /\ s.at = r5[p].at /\ r5' = [r5 EXCEPT ![p] = s]
      BY <1>2, <2>2, Zenon
    <3> HIDE DEF s
    <3> QED BY <1>1, <1>2, <3>1, Unchosen, Zenon
  <2> QED BY <1>1, <2>1, <2>2
<1>4. CASE k = "export"
  BY <1>1, <1>3, <1>4, UpkeepSays, SweepMoves
<1>5. CASE k # "export"
  <2>1. /\ i.born = r4[k].born /\ i.closed = r4[k].closed /\ ~i.row /\ i.object = r4[k].object /\ i.late = r4[k].late
        /\ i \in [born : 0 .. r1, closed : 0 .. r1, part : {i.part}, row : BOOLEAN, object : BOOLEAN,
                  tomb : BOOLEAN, late : BOOLEAN]
    <3> HIDE DEF k
    <3> QED BY <1>2, ItemsSay, Zenon
  <2>2. r4' = [r4 EXCEPT ![k] = i]
    BY <1>1, <1>5
  <2> HIDE DEF i, k
  <2>3. Keep!ItemStands(i)
    BY <1>2, <2>1, ItemsSay DEF Keep!ItemStands
  <2>4. Timely(k, i) /\ HasCome(k, i)
    BY <1>2, <2>1 DEF Timely, HasCome, Overdue
  <2>5. /\ r4' = [x \in Keep!Kinds |-> r4'[x]]
        /\ \A x \in Keep!Kinds : r4'[x] = IF x = k THEN i ELSE r4[x]
    BY <2>2, UpkeepSays
  <2> QED BY <1>1, <1>3, <2>3, <2>4, <2>5, SweepMoves, Zenon
<1> QED BY <1>4, <1>5

LEMMA SweepsComeAndGo ==
  ASSUME Keep!UpkeepInv, NEW p \in Sweepers, Keep!SweepStarts(p) \/ Keep!RefuseKey(p) \/ Keep!Dies(p)
  PROVE  Keep!UpkeepInv'
<1>1. r1 \in Nat /\ UNCHANGED <<r1, r4>>
  BY UpkeepSays DEF Keep!SweepStarts, Keep!RefuseKey, Keep!Dies
<1>2. CASE Keep!SweepStarts(p)
  <2> DEFINE s == [at |-> 1, day |-> r1, step |-> "rest"]
  <2>1. s \in [at : 0 .. 7, day : 0 .. r1, step : {"rest", "foreign"}] /\ s.at # 0 /\ r5' = [r5 EXCEPT ![p] = s]
    BY <1>1, <1>2 DEF Keep!SweepStarts
  <2> HIDE DEF s
  <2> QED BY <1>1, <2>1, Unchosen, UpkeepSays, SweepMoves, Zenon
<1>3. CASE Keep!RefuseKey(p) \/ Keep!Dies(p)
  <2>1. Keep!Off \in [at : 0 .. 7, day : 0 .. r1, step : {"rest", "foreign"}] /\ r5' = [r5 EXCEPT ![p] = Keep!Off]
    BY <1>1, <1>3 DEF Keep!RefuseKey, Keep!Dies, Keep!Off
  <2> QED BY <1>1, <2>1, Unchosen, UpkeepSays, SweepMoves, Zenon
<1> QED BY <1>2, <1>3

LEMMA UpkeepKept ==
  ASSUME Keep!UpkeepInv, [Keep!Next]_<<r1, r2, r3, r4, r5>>
  PROVE  Keep!UpkeepInv'
<1>1. CASE Keep!Tick
  BY <1>1, DaysPass
<1>2. CASE \/ Keep!EnsurePartitions \/ Keep!Reopen
           \/ \E k \in Keep!Kinds : Keep!Store(k) \/ Keep!Close(k) \/ Keep!Redact(k)
  BY <1>2, ItemsLive
<1>3. ASSUME NEW p \in Sweepers,
             \/ Keep!SweepStarts(p) \/ Keep!SweepInbox(p) \/ Keep!SweepPartitions(p) \/ Keep!Choose(p)
             \/ Keep!RefuseKey(p) \/ Keep!EraseObject(p) \/ Keep!Clear(p) \/ Keep!Dies(p)
      PROVE  Keep!UpkeepInv'
  BY <1>3, RowsSwept, ObjectsChosen, ChosenErased, ChosenCleared, SweepsComeAndGo
<1>4. CASE UNCHANGED <<r1, r2, r3, r4, r5>>
  BY <1>4, UpkeepSays, SweepMoves
<1> QED BY <1>1, <1>2, <1>3, <1>4 DEF Keep!Next

LEMMA UpkeepStands == Keep!UpkeepInv => Keep!KeptForItsTime
BY DEF Keep!UpkeepInv

----------------------------------------------------------------------------
(* Erasure.  r1 is the buyer, r2 the parcels, r3 the papers, r4 the        *)
(* printer, r5 the redactor, r6 the purger.                                *)

Docs == 1 .. MaxPapers

LEMMA ErasureSays ==
  ASSUME Erase!ErasureInv
  PROVE  /\ r1 \in [order : BOOLEAN, invoice : {r1.invoice}, writing : Nat, late : BOOLEAN]
         /\ r2 = [p \in Parcels |-> r2[p]] /\ \A p \in Parcels : Erase!ParcelStands(r2[p])
         /\ r3 = [d \in Docs |-> r3[d]] /\ (\A d \in Docs : Erase!PaperStands(r3[d])) /\ DOMAIN r3 = Docs
         /\ r4 # "none" => \E d \in Docs : r3[d] = Erase!NoPaper
         /\ r7 \in [ingests : {r7.ingests}, requests : {r7.requests}, crashes : Int] /\ r7.crashes <= MaxCrashes
         /\ Erase!RedactorStands /\ Erase!PurgerStands
BY DEF Erase!ErasureInv, Docs

LEMMA ErasureInitially == Erase!Init => Erase!ErasureInv
<1> SUFFICES ASSUME Erase!Init PROVE Erase!ErasureInv
  OBVIOUS
<1> DEFINE draft == [row |-> "DRAFT", test |-> FALSE, working |-> TRUE, frozen |-> FALSE, ledger |-> FALSE]
<1>1. /\ r1 = [order |-> TRUE, invoice |-> "none", writing |-> 0, late |-> FALSE]
      /\ r2 = [p \in Parcels |-> draft]
      /\ r3 = [d \in Docs |-> Erase!NoPaper] /\ r4 = "none" /\ r5 = Erase!Rest /\ r6 = Erase!NoPurge
      /\ r7 = [ingests |-> MaxIngests, requests |-> MaxRequests, crashes |-> MaxCrashes]
  BY DEF Erase!Init, Docs
<1>2. Erase!ParcelStands(draft) /\ Erase!PaperStands(Erase!NoPaper)
  BY DEF Erase!ParcelStands, Erase!PaperStands, Erase!NoPaper
<1>3. Erase!RedactorStands
  BY <1>1 DEF Erase!RedactorStands, Erase!Rest
<1>4. Erase!PurgerStands
  BY <1>1 DEF Erase!PurgerStands, Erase!NoPurge
<1>5. /\ r7 \in [ingests : {r7.ingests}, requests : {r7.requests}, crashes : Int] /\ r7.crashes <= MaxCrashes
      /\ r1 \in [order : BOOLEAN, invoice : {r1.invoice}, writing : Nat, late : BOOLEAN]
  BY <1>1, ErasureAssumption
<1> HIDE DEF draft
<1> QED BY <1>1, <1>2, <1>3, <1>4, <1>5 DEF Erase!ErasureInv, Docs

\* A test stays one; a paper is not forgotten and its bytes do not come back.
ParcelsGo ==
  /\ r2' = [p \in Parcels |-> r2'[p]]
  /\ \A p \in Parcels :
       r2'[p] = r2[p] \/ (Erase!ParcelStands(r2'[p]) /\ (r2[p].test => r2'[p].test))
PapersGo ==
  /\ r3' = [d \in Docs |-> r3'[d]]
  /\ \A d \in Docs :
       \/ r3'[d] = r3[d]
       \/ /\ Erase!PaperStands(r3'[d])
          /\ r3[d].row # "none" => r3'[d].row # "none" /\ (r3'[d].bytes => r3[d].bytes)

LEMMA ErasureMoves ==
  ASSUME Erase!ErasureInv, ParcelsGo, PapersGo,
         r1' = r1 \/ r1' \in [order : BOOLEAN, invoice : {r1'.invoice}, writing : Nat, late : BOOLEAN],
         r4' = "none" \/ (r3' = r3 /\ \E d \in Docs : r3[d] = Erase!NoPaper) \/ (r4' = r4 /\ \A d \in Docs : r3[d].row = "none" => r3'[d] = r3[d]),
         \/ r7' = r7
         \/ /\ r7' \in [ingests : {r7'.ingests}, requests : {r7'.requests}, crashes : Int]
            /\ r7'.crashes <= MaxCrashes,
         Erase!RedactorStands', Erase!PurgerStands'
  PROVE  Erase!ErasureInv'
<1>1. (\A p \in Parcels : Erase!ParcelStands(r2[p]))'
  BY ErasureSays DEF ParcelsGo, Erase!ParcelStands
<1>2. (\A d \in Docs : Erase!PaperStands(r3[d]))'
  BY ErasureSays DEF PapersGo, Erase!PaperStands
<1>3. (r4 # "none" => \E d \in Docs : r3[d] = Erase!NoPaper)'
  <2>1. CASE r4' = r4 /\ \A d \in Docs : r3[d].row = "none" => r3'[d] = r3[d]
    <3>1. Erase!NoPaper.row = "none"
      BY DEF Erase!NoPaper
    <3>2. ASSUME r4' # "none" PROVE \E d \in Docs : r3'[d] = Erase!NoPaper
      <4>1. PICK d \in Docs : r3[d] = Erase!NoPaper
        BY <2>1, <3>2, ErasureSays
      <4>2. r3'[d] = Erase!NoPaper
        BY <2>1, <3>1, <4>1
      <4> QED BY <4>2
    <3>3. Erase!NoPaper' = Erase!NoPaper
      BY DEF Erase!NoPaper
    <3> QED BY <3>2, <3>3
  <2>2. CASE r3' = r3 /\ \E d \in Docs : r3[d] = Erase!NoPaper
    BY <2>2 DEF Erase!NoPaper
  <2> QED BY <2>1, <2>2
<1>4. (r1 \in [order : BOOLEAN, invoice : {r1.invoice}, writing : Nat, late : BOOLEAN])'
  BY ErasureSays
<1>5. (r7 \in [ingests : {r7.ingests}, requests : {r7.requests}, crashes : Int] /\ r7.crashes <= MaxCrashes)'
  BY ErasureSays
<1> QED BY <1>1, <1>2, <1>3, <1>4, <1>5 DEF Erase!ErasureInv, ParcelsGo, PapersGo, Docs

\* What has lost its bytes stays so.
LEMMA ErasedStays ==
  ASSUME Erase!ErasureInv, PapersGo, NEW docs, Erase!Erased(docs)
  PROVE  docs \subseteq {d \in Docs : r3'[d].row # "none" /\ ~r3'[d].bytes} /\ DOMAIN r3' = Docs
<1>1. DOMAIN r3 = Docs /\ DOMAIN r3' = Docs
  BY ErasureSays DEF PapersGo
<1>2. ASSUME NEW d \in docs PROVE d \in Docs /\ r3'[d].row # "none" /\ ~r3'[d].bytes
  <2>1. d \in Docs /\ r3[d].row # "none" /\ ~r3[d].bytes
    BY <1>1 DEF Erase!Erased
  <2>2. r3'[d].bytes \in BOOLEAN
    BY <2>1, ErasureSays DEF PapersGo, Erase!PaperStands
  <2> QED BY <2>1, <2>2 DEF PapersGo
<1> QED BY <1>1, <1>2

LEMMA PurgerWaits ==
  ASSUME Erase!ErasureInv, ParcelsGo, PapersGo, r6' = r6
  PROVE  Erase!PurgerStands'
<1>1. /\ r6 \in [pc : {r6.pc}, seen : {r6.seen}, docs : {r6.docs}, left : {r6.left}, tombs : {r6.tombs}]
      /\ r6.pc = "batch" => /\ r6.left \subseteq r6.docs
                            /\ r6.seen \subseteq {p \in Parcels : r2[p].test}
                            /\ r6.docs \subseteq {d \in DOMAIN r3 : r3[d].row # "none"}
                            /\ Erase!Erased(r6.docs \ r6.left)
  BY ErasureSays DEF Erase!PurgerStands
<1>2. r6.pc = "batch" => r6.docs \ r6.left \subseteq {d \in Docs : r3'[d].row # "none" /\ ~r3'[d].bytes}
  BY <1>1, ErasedStays
<1>3. \A p \in Parcels : r2[p].test => r2'[p].test
  BY DEF ParcelsGo
<1>4. /\ \A d \in Docs : r3[d].row # "none" => r3'[d].row # "none"
      /\ DOMAIN r3 = Docs /\ DOMAIN r3' = Docs
  BY ErasureSays DEF PapersGo
<1>5. r6.pc = "batch" =>
        r6.seen \subseteq {p \in Parcels : r2'[p].test} /\ r6.docs \subseteq {d \in DOMAIN r3' : r3'[d].row # "none"}
  BY <1>1, <1>3, <1>4
<1> QED BY <1>1, <1>2, <1>4, <1>5 DEF Erase!PurgerStands, Erase!Erased

LEMMA RedactorWaits ==
  ASSUME Erase!ErasureInv, PapersGo, r5' = r5, r1'.order = r1.order, r1'.late = r1.late,
         r7'.crashes = r7.crashes,
         \A p \in Parcels : r2'[p].row = "DRAFT" /\ r2'[p].working => r2[p].row = "DRAFT" /\ r2[p].working
  PROVE  Erase!RedactorStands'
<1>1. Erase!RedactorStands
  BY ErasureSays
<1>2. r5.pc = "erased" => r5.docs \subseteq {d \in Docs : r3'[d].row # "none" /\ ~r3'[d].bytes} /\ DOMAIN r3' = Docs
  BY <1>1, ErasedStays DEF Erase!RedactorStands
<1> QED BY <1>1, <1>2 DEF Erase!RedactorStands, Erase!Erased

\* What is spent is not a crash, or is one.
LEMMA Spending ==
  ASSUME Erase!ErasureInv, NEW what \in {"ingests", "requests", "crashes"}, Erase!Spend(what)
  PROVE  /\ r7' \in [ingests : {r7'.ingests}, requests : {r7'.requests}, crashes : Int]
         /\ r7'.crashes <= MaxCrashes
         /\ what # "crashes" => r7'.crashes = r7.crashes
         /\ what = "crashes" => r7'.crashes < MaxCrashes
<1>1. /\ r7 \in [ingests : {r7.ingests}, requests : {r7.requests}, crashes : Int] /\ r7.crashes <= MaxCrashes
      /\ MaxCrashes \in Int
  BY ErasureSays, ErasureAssumption
<1>2. CASE what = "crashes"
  <2>1. r7' = [r7 EXCEPT !.crashes = r7.crashes - 1]
    BY <1>2, Zenon DEF Erase!Spend
  <2> DEFINE n == r7.crashes - 1
  <2>2. n \in Int /\ n < MaxCrashes /\ n <= MaxCrashes
    BY <1>1
  <2>3. r7' = [r7 EXCEPT !.crashes = n]
    BY <2>1
  <2> HIDE DEF n
  <2>4. r7' \in [ingests : {r7'.ingests}, requests : {r7'.requests}, crashes : Int] /\ r7'.crashes = n
    BY <1>1, <2>2, <2>3
  <2> QED BY <1>2, <2>2, <2>4
<1>3. CASE what = "ingests"
  <2>1. r7' = [r7 EXCEPT !.ingests = r7.ingests - 1]
    BY <1>3, Zenon DEF Erase!Spend
  <2> QED BY <1>1, <1>3, <2>1
<1>4. CASE what = "requests"
  <2>1. r7' = [r7 EXCEPT !.requests = r7.requests - 1]
    BY <1>4, Zenon DEF Erase!Spend
  <2> QED BY <1>1, <1>4, <2>1
<1> QED BY <1>2, <1>3, <1>4

\* The order is ingested, its drafts written, a parcel is booked.
LEMMA DraftsWritten ==
  ASSUME Erase!ErasureInv, Erase!WriteDrafts
  PROVE  Erase!ErasureInv'
<1>1. /\ UNCHANGED <<r3, r4, r6, r7>> /\ r5' = [r5 EXCEPT !.quiet = FALSE] /\ r1.writing > 0
      /\ r1' = [r1 EXCEPT !.writing = r1.writing - 1, !.late = r1.late \/ ~r1.order]
      /\ r2' = [p \in Parcels |-> IF r2[p].row = "DRAFT" THEN [r2[p] EXCEPT !.working = TRUE] ELSE r2[p]]
  BY DEF Erase!WriteDrafts
<1>2. /\ r1' \in [order : BOOLEAN, invoice : {r1'.invoice}, writing : Nat, late : BOOLEAN]
      /\ r1'.order = r1.order /\ r1'.late = (r1.late \/ ~r1.order)
  <2> DEFINE n == r1.writing - 1
             late == r1.late \/ ~r1.order
  <2>1. r1 \in [order : BOOLEAN, invoice : {r1.invoice}, writing : Nat, late : BOOLEAN]
    BY ErasureSays
  <2>2. n \in Nat /\ late \in BOOLEAN /\ r1' = [r1 EXCEPT !.writing = n, !.late = late]
    BY <1>1, <2>1
  <2> HIDE DEF n
  <2>3. r1' \in [order : BOOLEAN, invoice : {r1.invoice}, writing : Nat, late : BOOLEAN] /\ r1'.invoice = r1.invoice
    BY <2>1, <2>2, Zenon
  <2>4. r1'.order = r1.order /\ r1'.late = late
    BY <2>1, <2>2, Zenon
  <2> QED BY <2>3, <2>4
<1>3. ParcelsGo
  <2>1. ASSUME NEW p \in Parcels, r2[p].row = "DRAFT"
        PROVE  Erase!ParcelStands([r2[p] EXCEPT !.working = TRUE]) /\ [r2[p] EXCEPT !.working = TRUE].test = r2[p].test
    BY <2>1, ErasureSays, Zenon DEF Erase!ParcelStands
  <2> QED BY <1>1, <2>1 DEF ParcelsGo
<1>4. PapersGo
  BY <1>1, ErasureSays DEF PapersGo
<1>5. Erase!RedactorStands'
  <2>1. Erase!RedactorStands
    BY ErasureSays
  <2>2. /\ r5' \in [pc : {r5'.pc}, seen : SUBSET Parcels, docs : {r5'.docs}, quiet : BOOLEAN]
        /\ r5'.pc = r5.pc /\ r5'.docs = r5.docs /\ ~r5'.quiet
    BY <1>1, <2>1, Zenon DEF Erase!RedactorStands
  <2>3. ~(~r1'.order /\ ~r1'.late)
    BY <1>2, ErasureSays
  <2> QED BY <1>1, <2>1, <2>2, <2>3 DEF Erase!RedactorStands, Erase!Erased
<1> QED BY <1>1, <1>2, <1>3, <1>4, <1>5, PurgerWaits, ErasureSays, ErasureMoves

LEMMA OrdersGoOn ==
  ASSUME Erase!ErasureInv, Erase!Ingest \/ \E p \in Parcels : Erase!Book(p)
  PROVE  Erase!ErasureInv'
<1>1. CASE Erase!Ingest
  <2>1. /\ UNCHANGED <<r2, r3, r4, r6>> /\ r5' = [r5 EXCEPT !.quiet = FALSE] /\ Erase!Spend("ingests")
        /\ r1' = [r1 EXCEPT !.order = TRUE, !.writing = r1.writing + 1, !.late = FALSE]
    BY <1>1 DEF Erase!Ingest
  <2>2. r1' \in [order : BOOLEAN, invoice : {r1'.invoice}, writing : Nat, late : BOOLEAN] /\ r1'.order
    <3> DEFINE n == r1.writing + 1
    <3>1. r1 \in [order : BOOLEAN, invoice : {r1.invoice}, writing : Nat, late : BOOLEAN]
      BY ErasureSays
    <3>2. n \in Nat /\ r1' = [r1 EXCEPT !.order = TRUE, !.writing = n, !.late = FALSE]
      BY <2>1, <3>1
    <3> HIDE DEF n
    <3>3. r1' \in [order : BOOLEAN, invoice : {r1.invoice}, writing : Nat, late : BOOLEAN] /\ r1'.order
      BY <3>1, <3>2, Zenon
    <3>4. r1'.invoice = r1.invoice
      BY <3>1, <3>2, Zenon
    <3> QED BY <3>3, <3>4
  <2>3. ParcelsGo /\ PapersGo
    BY <2>1, ErasureSays DEF ParcelsGo, PapersGo
  <2>5. Erase!RedactorStands'
    <3>1. Erase!RedactorStands
      BY ErasureSays
    <3>2. /\ r5' \in [pc : {r5'.pc}, seen : SUBSET Parcels, docs : {r5'.docs}, quiet : BOOLEAN]
          /\ r5'.pc = r5.pc /\ r5'.docs = r5.docs /\ ~r5'.quiet
      BY <2>1, <3>1, Zenon DEF Erase!RedactorStands
    <3> QED BY <2>1, <2>2, <3>1, <3>2 DEF Erase!RedactorStands, Erase!Erased
  <2> QED BY <2>1, <2>2, <2>3, <2>5, Spending, PurgerWaits, ErasureSays, ErasureMoves
<1>2. ASSUME NEW p \in Parcels, Erase!Book(p) PROVE Erase!ErasureInv'
  <2> DEFINE x == [row |-> "CONFIRMED", test |-> p \in Tests, working |-> TRUE,
                   frozen |-> TRUE, ledger |-> p \notin Tests]
  <2>1. /\ r2[p].row = "DRAFT" /\ r2' = [r2 EXCEPT ![p] = x] /\ UNCHANGED <<r3, r4, r5, r6, r7>>
        /\ r1' = r1 \/ r1' = [r1 EXCEPT !.invoice = "full"]
    BY <1>2 DEF Erase!Book
  <2>2. (r1' = r1 \/ r1' \in [order : BOOLEAN, invoice : {r1'.invoice}, writing : Nat, late : BOOLEAN]) /\ r1'.order = r1.order /\ r1'.late = r1.late
    BY <2>1, ErasureSays
  <2>3. Erase!ParcelStands(x) /\ x.row = "CONFIRMED"
    <3>1. PICK test \in BOOLEAN : test <=> p \in Tests
      BY Zenon
    <3>2. x = [row |-> "CONFIRMED", test |-> test, working |-> TRUE, frozen |-> TRUE, ledger |-> ~test]
      BY <3>1, Zenon
    <3> HIDE DEF x
    <3> QED BY <3>2, Zenon DEF Erase!ParcelStands
  <2>4. ~r2[p].test
    BY <2>1, ErasureSays DEF Erase!ParcelStands
  <2> HIDE DEF x
  <2>5. ParcelsGo /\ \A q \in Parcels : r2'[q] = IF q = p THEN x ELSE r2[q]
    BY <2>1, <2>3, <2>4, ErasureSays, Zenon DEF ParcelsGo
  <2>6. PapersGo
    BY <2>1, ErasureSays DEF PapersGo
  <2>7. Erase!RedactorStands'
    BY <2>1, <2>2, <2>3, <2>5, <2>6, RedactorWaits
  <2> QED BY <2>1, <2>2, <2>5, <2>6, <2>7, PurgerWaits, ErasureSays, ErasureMoves
<1> QED BY <1>1, <1>2

\* A label is drawn, and has its place until it is stored.
LEMMA PrinterGoesOn ==
  ASSUME Erase!ErasureInv, Erase!Insert \/ \E p \in Parcels : Erase!Draw(p)
  PROVE  Erase!ErasureInv'
<1>1. /\ UNCHANGED <<r1, r2, r5, r6, r7>> /\ ParcelsGo
      /\ r4' = "none" \/ (r3' = r3 /\ \E d \in Docs : r3[d] = Erase!NoPaper)
  BY ErasureSays DEF Erase!Insert, Erase!Draw, ParcelsGo, Docs
<1>2. PapersGo
  <2>1. CASE Erase!Insert
    <3> DEFINE d == CHOOSE n \in DOMAIN r3 : r3[n] = Erase!NoPaper
               x == [row |-> "object", of |-> r4, bytes |-> TRUE]
    <3>1. r4 # "none" /\ r3' = [r3 EXCEPT ![d] = x]
      BY <2>1 DEF Erase!Insert
    <3>2. d \in Docs /\ r3[d] = Erase!NoPaper
      BY <3>1, ErasureSays
    <3>3. Erase!PaperStands(x)
      BY DEF Erase!PaperStands
    <3>4. r3[d].row = "none"
      BY <3>2 DEF Erase!NoPaper
    <3> HIDE DEF d, x
    <3> QED BY <3>1, <3>2, <3>3, <3>4, ErasureSays, Zenon DEF PapersGo
  <2>2. CASE \E p \in Parcels : Erase!Draw(p)
    BY <2>2, ErasureSays DEF PapersGo, Erase!Draw
  <2> QED BY <2>1, <2>2
<1>3. Erase!RedactorStands'
  BY <1>1, <1>2, RedactorWaits
<1> QED BY <1>1, <1>2, <1>3, PurgerWaits, ErasureMoves

\* The redaction, a statement after another.
LEMMA OrderRedacted ==
  ASSUME Erase!ErasureInv, Erase!Capture \/ Erase!RedactOrder \/ Erase!RedactWorking
  PROVE  Erase!ErasureInv'
<1>1. Erase!RedactorStands
  BY ErasureSays
<1>2. r5 \in [pc : {r5.pc}, seen : SUBSET Parcels, docs : {r5.docs}, quiet : BOOLEAN]
  BY <1>1 DEF Erase!RedactorStands
<1>3. UNCHANGED <<r3, r4, r6>> /\ PapersGo
  BY ErasureSays, Zenon DEF PapersGo, Erase!Capture, Erase!RedactOrder, Erase!RedactWorking
<1>4. CASE Erase!Capture
  <2>1. PICK listed \in BOOLEAN :
          r5' = [Erase!Rest EXCEPT !.pc = "captured",
                                   !.seen = IF listed \/ r1.order THEN {p \in Parcels : r2[p].row # "gone"} ELSE {}]
    BY <1>4, Zenon DEF Erase!Capture
  <2>2. UNCHANGED <<r1, r2>> /\ Erase!Spend("requests") /\ r5.pc \in {"rest", "done", "failed"}
    BY <1>4, Zenon DEF Erase!Capture
  <2>3. r5' \in [pc : {"captured"}, seen : SUBSET Parcels, docs : {r5'.docs}, quiet : BOOLEAN]
    BY <2>1, Zenon DEF Erase!Rest
  <2>4. /\ r7' \in [ingests : {r7'.ingests}, requests : {r7'.requests}, crashes : Int]
        /\ r7'.crashes <= MaxCrashes /\ r7'.crashes = r7.crashes
    BY <2>2, Spending
  <2>5. Erase!RedactorStands'
    BY <1>1, <2>2, <2>3, <2>4 DEF Erase!RedactorStands
  <2>6. ParcelsGo
    BY <2>2, ErasureSays DEF ParcelsGo
  <2> QED BY <1>3, <2>2, <2>4, <2>5, <2>6, PurgerWaits, ErasureMoves
<1>5. CASE Erase!RedactOrder
  <2>1. /\ r5.pc = "captured" /\ r5' = [r5 EXCEPT !.pc = IF r1.order THEN "order" ELSE "working"]
        /\ r1' = [r1 EXCEPT !.order = FALSE] /\ UNCHANGED <<r2, r7>>
    BY <1>5 DEF Erase!RedactOrder, Erase!Redacts
  <2>2. /\ r5' \in [pc : {"order", "working"}, seen : SUBSET Parcels, docs : {r5'.docs}, quiet : BOOLEAN]
        /\ r1.order => r5'.pc = "order"
    BY <1>2, <2>1
  <2>3. /\ r1' \in [order : {FALSE}, invoice : {r1'.invoice}, writing : Nat, late : BOOLEAN]
        /\ r1.order \in BOOLEAN /\ r1'.late = r1.late
    BY <2>1, ErasureSays, Zenon
  <2>4. Erase!RedactorStands'
    BY <1>1, <2>1, <2>2, <2>3 DEF Erase!RedactorStands
  <2>5. ParcelsGo
    BY <2>1, ErasureSays DEF ParcelsGo
  <2> QED BY <1>3, <2>1, <2>3, <2>4, <2>5, PurgerWaits, ErasureMoves, Zenon
<1>6. CASE Erase!RedactWorking
  <2>1. /\ r5.pc = "order" /\ r5' = [r5 EXCEPT !.pc = "working"] /\ UNCHANGED <<r1, r7>>
        /\ r2' = [p \in Parcels |-> IF r2[p].row = "DRAFT" THEN [r2[p] EXCEPT !.working = FALSE] ELSE r2[p]]
    BY <1>6 DEF Erase!RedactWorking, Erase!Redacts, Erase!Wiped
  <2>2. /\ r5' \in [pc : {"working"}, seen : SUBSET Parcels, docs : {r5'.docs}, quiet : BOOLEAN]
        /\ r5'.quiet = r5.quiet
    BY <1>2, <2>1
  <2>3. ASSUME NEW p \in Parcels, r2[p].row = "DRAFT"
        PROVE  LET x == [r2[p] EXCEPT !.working = FALSE]
               IN  Erase!ParcelStands(x) /\ x.test = r2[p].test /\ ~x.working
    BY <2>3, ErasureSays, Zenon DEF Erase!ParcelStands
  <2>4. ParcelsGo /\ \A p \in Parcels : r2'[p].row = "DRAFT" => ~r2'[p].working
    BY <2>1, <2>3 DEF ParcelsGo
  <2>5. Erase!RedactorStands'
    BY <1>1, <2>1, <2>2, <2>4 DEF Erase!RedactorStands
  <2> QED BY <1>3, <2>1, <2>4, <2>5, PurgerWaits, ErasureMoves
<1> QED BY <1>4, <1>5, <1>6

LEMMA CopiesRedacted ==
  ASSUME Erase!ErasureInv,
         Erase!PseudonymizeSnapshots \/ Erase!StripGst \/ Erase!EraseDocuments \/ Erase!Tombstone
  PROVE  Erase!ErasureInv'
<1>1. Erase!RedactorStands
  BY ErasureSays
<1>2. r5 \in [pc : {r5.pc}, seen : SUBSET Parcels, docs : {r5.docs}, quiet : BOOLEAN]
  BY <1>1 DEF Erase!RedactorStands
<1>3. UNCHANGED <<r2, r4, r6, r7>> /\ ParcelsGo
  BY ErasureSays DEF ParcelsGo, Erase!PseudonymizeSnapshots, Erase!StripGst, Erase!EraseDocuments, Erase!Tombstone
<1>4. CASE Erase!PseudonymizeSnapshots \/ Erase!StripGst
  <2>1. /\ r3' = r3
        /\ r1' = r1 \/ r1' = [r1 EXCEPT !.invoice = "stripped"]
        /\ r5.pc \in {"working", "snapshots"}
        /\ \E pc \in {"failed", "snapshots", "invoice"} : r5' = [r5 EXCEPT !.pc = pc]
    BY <1>4 DEF Erase!PseudonymizeSnapshots, Erase!StripGst, Erase!Redacts
  <2>2. /\ r5' \in [pc : {"failed", "snapshots", "invoice"}, seen : SUBSET Parcels, docs : {r5'.docs}, quiet : BOOLEAN]
        /\ r5'.quiet = r5.quiet
    BY <1>2, <2>1
  <2>3. (r1' = r1 \/ r1' \in [order : BOOLEAN, invoice : {r1'.invoice}, writing : Nat, late : BOOLEAN]) /\ r1'.order = r1.order /\ r1'.late = r1.late
    BY <2>1, ErasureSays
  <2>4. PapersGo
    BY <2>1, ErasureSays DEF PapersGo
  <2>5. Erase!RedactorStands'
    BY <1>1, <1>3, <2>1, <2>2, <2>3 DEF Erase!RedactorStands
  <2> QED BY <1>3, <2>1, <2>3, <2>4, <2>5, PurgerWaits, ErasureMoves
<1>5. CASE Erase!EraseDocuments
  <2> DEFINE docs == Erase!Objects(r5.seen)
  <2>1. /\ r5.pc = "invoice" /\ r5' = [r5 EXCEPT !.pc = "erased", !.docs = docs]
        /\ r3' = Erase!Deleted(docs) /\ r1' = r1
    BY <1>5 DEF Erase!EraseDocuments
  <2>2. docs \subseteq {d \in Docs : r3[d].row = "object"}
    BY ErasureSays DEF Erase!Objects
  <2> HIDE DEF docs
  <2>3. /\ r5' \in [pc : {"erased"}, seen : SUBSET Parcels, docs : {docs}, quiet : BOOLEAN]
        /\ r5'.quiet = r5.quiet
    BY <1>2, <2>1, Zenon
  <2>4. PapersGo /\ docs \subseteq {d \in Docs : r3'[d].row # "none" /\ ~r3'[d].bytes}
        /\ \A d \in Docs : r3[d].row = "none" => r3'[d] = r3[d]
    <3>1. r3' = [d \in Docs |-> IF d \in docs THEN [r3[d] EXCEPT !.bytes = FALSE] ELSE r3[d]]
      BY <2>1, ErasureSays DEF Erase!Deleted
    <3>2. ASSUME NEW d \in docs
          PROVE  LET x == [r3[d] EXCEPT !.bytes = FALSE]
                 IN  Erase!PaperStands(x) /\ x.row = "object" /\ ~x.bytes
      BY <2>2, ErasureSays, Zenon DEF Erase!PaperStands
    <3> QED BY <2>2, <3>1, <3>2 DEF PapersGo
  <2>5. Erase!RedactorStands'
    <3>1. DOMAIN r3' = Docs
      BY <2>4 DEF PapersGo
    <3> QED BY <1>1, <1>3, <2>1, <2>3, <2>4, <3>1 DEF Erase!RedactorStands, Erase!Erased
  <2> QED BY <1>3, <2>1, <2>4, <2>5, PurgerWaits, ErasureMoves
<1>6. CASE Erase!Tombstone
  <2>1. /\ r5.pc = "erased" /\ r5' = [r5 EXCEPT !.pc = "done"] /\ r1' = r1
        /\ r3' = [d \in Docs |-> IF d \in r5.docs /\ r3[d].row = "object"
                                 THEN [r3[d] EXCEPT !.row = "redacted"] ELSE r3[d]]
    BY <1>6, ErasureSays DEF Erase!Tombstone, Erase!Redacts
  <2>2. /\ r5' \in [pc : {"done"}, seen : SUBSET Parcels, docs : {r5'.docs}, quiet : BOOLEAN]
        /\ r5'.quiet = r5.quiet
    BY <1>2, <2>1
  <2>3. \A d \in r5.docs : ~r3[d].bytes
    BY <1>1, <2>1 DEF Erase!RedactorStands, Erase!Erased
  <2>4. ASSUME NEW d \in Docs, d \in r5.docs, r3[d].row = "object"
        PROVE  LET x == [r3[d] EXCEPT !.row = "redacted"]
               IN  Erase!PaperStands(x) /\ x.row = "redacted" /\ ~x.bytes
    BY <2>3, <2>4, ErasureSays DEF Erase!PaperStands
  <2>5. PapersGo /\ \A d \in Docs : r3[d].row = "none" => r3'[d] = r3[d]
    BY <2>1, <2>4 DEF PapersGo
  <2>6. Erase!RedactorStands'
    BY <1>1, <1>3, <2>1, <2>2 DEF Erase!RedactorStands
  <2> QED BY <1>3, <2>1, <2>5, <2>6, PurgerWaits, ErasureMoves
<1> QED BY <1>4, <1>5, <1>6

\* The purge, batch after batch, and the death of either.
LEMMA NoPurgeStands ==
  ASSUME r6' = Erase!NoPurge \/ r6' = [Erase!NoPurge EXCEPT !.pc = "isolated"]
  PROVE  Erase!PurgerStands'
<1>1. /\ r6' \in [pc : {r6'.pc}, seen : {r6'.seen}, docs : {r6'.docs}, left : {r6'.left}, tombs : {r6'.tombs}]
      /\ r6'.pc # "batch"
  BY DEF Erase!NoPurge
<1> QED BY <1>1 DEF Erase!PurgerStands

LEMMA TestsPurged ==
  ASSUME Erase!ErasureInv,
         Erase!AssertTestIsolation \/ Erase!ReadBatch \/ Erase!EraseObject \/ Erase!PurgeBatch
  PROVE  Erase!ErasureInv'
<1>1. Erase!PurgerStands /\ UNCHANGED <<r1, r4, r5>>
  BY ErasureSays DEF Erase!AssertTestIsolation, Erase!ReadBatch, Erase!EraseObject, Erase!PurgeBatch
<1>2. r6 \in [pc : {r6.pc}, seen : {r6.seen}, docs : {r6.docs}, left : {r6.left}, tombs : {r6.tombs}]
  BY <1>1 DEF Erase!PurgerStands
<1>3. CASE Erase!AssertTestIsolation \/ Erase!ReadBatch
  <2>1. UNCHANGED <<r2, r3>> /\ ParcelsGo /\ PapersGo
    BY <1>3, ErasureSays DEF Erase!AssertTestIsolation, Erase!ReadBatch, ParcelsGo, PapersGo
  <2>2. Erase!PurgerStands' /\ (r7' = r7 \/ Erase!Spend("requests"))
    <3>1. CASE Erase!AssertTestIsolation
      <4>1. r6.pc = "rest" /\ (r6' = r6 \/ r6' = [r6 EXCEPT !.pc = "isolated"]) /\ Erase!Spend("requests")
        BY <3>1 DEF Erase!AssertTestIsolation
      <4>2. /\ r6' \in [pc : {r6'.pc}, seen : {r6'.seen}, docs : {r6'.docs}, left : {r6'.left}, tombs : {r6'.tombs}]
            /\ r6'.pc \in {"rest", "isolated"}
        BY <1>2, <4>1
      <4> QED BY <4>1, <4>2 DEF Erase!PurgerStands
    <3>2. CASE Erase!ReadBatch
      <4> DEFINE batch == {p \in Parcels : Erase!TestRow(p)}
                 docs == {d \in DOMAIN r3 : r3[d].row \in {"object", "redacted"} /\ r3[d].of \in batch}
                 read == [pc |-> "batch", seen |-> batch, docs |-> docs, left |-> docs,
                          tombs |-> {d \in docs : r3[d].row = "redacted"}]
      <4>1. r7' = r7 /\ (r6' = Erase!NoPurge \/ r6' = read)
        BY <3>2 DEF Erase!ReadBatch
      <4>2. CASE r6' = read
        <5>1. r6'.seen = batch /\ batch \subseteq {p \in Parcels : r2[p].test}
          BY <4>2 DEF Erase!TestRow
        <5>2. r6'.docs = docs /\ r6'.left = docs /\ docs \subseteq {d \in DOMAIN r3 : r3[d].row # "none"}
          BY <4>2
        <5>3. r6' \in [pc : {r6'.pc}, seen : {r6'.seen}, docs : {r6'.docs}, left : {r6'.left}, tombs : {r6'.tombs}]
          BY <4>2, Zenon
        <5> HIDE DEF batch, docs, read
        <5> QED BY <2>1, <4>1, <5>1, <5>2, <5>3 DEF Erase!PurgerStands, Erase!Erased
      <4> QED BY <4>1, <4>2, NoPurgeStands
    <3> QED BY <1>3, <3>1, <3>2
  <2>3. r7'.crashes = r7.crashes
    BY <2>2, Spending
  <2> QED BY <1>1, <2>1, <2>2, <2>3, Spending, RedactorWaits, ErasureMoves
<1>4. CASE Erase!EraseObject
  <2>1. UNCHANGED <<r2, r7>> /\ r6.pc = "batch" /\ ParcelsGo
    BY <1>4, ErasureSays DEF Erase!EraseObject, ParcelsGo
  <2>2. PICK d \in r6.left :
          IF d \in r6.tombs THEN r6' = Erase!NoPurge /\ r3' = r3
          ELSE r6' = [r6 EXCEPT !.left = @ \ {d}] /\ r3' = Erase!Deleted({d})
    BY <1>4 DEF Erase!EraseObject
  <2>3. CASE d \in r6.tombs
    <3>1. PapersGo
      BY <2>2, <2>3, ErasureSays DEF PapersGo
    <3> QED BY <1>1, <2>1, <2>2, <2>3, <3>1, NoPurgeStands, RedactorWaits, ErasureMoves
  <2>4. CASE d \notin r6.tombs
    <3> DEFINE left == r6.left \ {d}
    <3>1. r6' = [r6 EXCEPT !.left = left]
      BY <2>2, <2>4
    <3> HIDE DEF left
    <3>2. /\ r6' \in [pc : {"batch"}, seen : {r6'.seen}, docs : {r6'.docs}, left : {r6'.left}, tombs : {r6'.tombs}]
          /\ r6'.seen = r6.seen /\ r6'.docs = r6.docs /\ r6'.left = left
      BY <1>2, <2>1, <3>1
    <3>3. r3' = [x \in Docs |-> IF x = d THEN [r3[x] EXCEPT !.bytes = FALSE] ELSE r3[x]]
      BY <2>2, <2>4, ErasureSays DEF Erase!Deleted
    <3>4. /\ r6.seen \subseteq {p \in Parcels : r2[p].test} /\ r6.docs \subseteq {x \in Docs : r3[x].row # "none"}
          /\ d \in r6.docs /\ left \subseteq r6.docs
          /\ r6.docs \ r6.left \subseteq {x \in Docs : r3[x].row # "none" /\ ~r3[x].bytes}
      BY <1>1, <2>1, ErasureSays DEF Erase!PurgerStands, Erase!Erased, left
    <3>5. ASSUME d \in Docs
          PROVE  LET x == [r3[d] EXCEPT !.bytes = FALSE]
                 IN  Erase!PaperStands(x) /\ x.row = r3[d].row /\ ~x.bytes
      BY <3>5, ErasureSays, Zenon DEF Erase!PaperStands
    <3>6. /\ PapersGo /\ \A x \in Docs : r3[x].row = "none" => r3'[x] = r3[x]
          /\ r6.docs \ left \subseteq {x \in Docs : r3'[x].row # "none" /\ ~r3'[x].bytes}
          /\ r6.docs \subseteq {x \in Docs : r3'[x].row # "none"} /\ DOMAIN r3' = Docs
      BY <3>3, <3>4, <3>5 DEF PapersGo, left
    <3>7. Erase!PurgerStands'
      BY <2>1, <3>2, <3>4, <3>6 DEF Erase!PurgerStands, Erase!Erased
    <3> QED BY <1>1, <2>1, <3>6, <3>7, RedactorWaits, ErasureMoves
  <2> QED BY <2>3, <2>4
<1>5. CASE Erase!PurgeBatch
  <2>1. /\ r6.pc = "batch" /\ r6.left = {} /\ r6' = [Erase!NoPurge EXCEPT !.pc = "isolated"] /\ r7' = r7
        /\ r2' = [p \in Parcels |-> IF p \in r6.seen THEN [r2[p] EXCEPT !.row = "gone"] ELSE r2[p]]
        /\ r3' = [d \in Docs |-> IF d \in r6.docs THEN [r3[d] EXCEPT !.row = "gone"] ELSE r3[d]]
    BY <1>5, ErasureSays DEF Erase!PurgeBatch
  <2>2. /\ \A p \in r6.seen : p \in Parcels => r2[p].test
        /\ r6.docs \subseteq {d \in Docs : r3[d].row # "none" /\ ~r3[d].bytes}
    BY <1>1, <2>1, ErasureSays DEF Erase!PurgerStands, Erase!Erased
  <2>3. ASSUME NEW p \in Parcels, p \in r6.seen
        PROVE  LET x == [r2[p] EXCEPT !.row = "gone"]
               IN  Erase!ParcelStands(x) /\ x.test = r2[p].test /\ x.row = "gone"
    BY <2>2, <2>3, ErasureSays DEF Erase!ParcelStands
  <2>4. ASSUME NEW d \in Docs, d \in r6.docs
        PROVE  LET x == [r3[d] EXCEPT !.row = "gone"]
               IN  Erase!PaperStands(x) /\ x.row = "gone" /\ ~x.bytes
    BY <2>2, <2>4, ErasureSays DEF Erase!PaperStands
  <2>5. ParcelsGo /\ \A p \in Parcels : r2'[p] = r2[p] \/ r2'[p].row = "gone"
    BY <2>1, <2>3 DEF ParcelsGo
  <2>6. PapersGo /\ \A d \in Docs : r3[d].row = "none" => r3'[d] = r3[d]
    BY <2>1, <2>2, <2>4 DEF PapersGo
  <2>7. Erase!PurgerStands'
    BY <2>1, NoPurgeStands
  <2> QED BY <1>1, <2>1, <2>5, <2>6, <2>7, RedactorWaits, ErasureMoves, Zenon
<1> QED BY <1>3, <1>4, <1>5

LEMMA EitherDies ==
  ASSUME Erase!ErasureInv, Erase!Dies
  PROVE  Erase!ErasureInv'
<1>1. /\ UNCHANGED <<r1, r2, r3, r4>> /\ Erase!Spend("crashes")
      /\ \/ r5' = [r5 EXCEPT !.pc = "failed"] /\ r6' = r6
         \/ r6' = Erase!NoPurge /\ r5' = r5
  BY DEF Erase!Dies
<1>2. ParcelsGo /\ PapersGo
  BY <1>1, ErasureSays DEF ParcelsGo, PapersGo
<1>3. /\ r7' \in [ingests : {r7'.ingests}, requests : {r7'.requests}, crashes : Int]
      /\ r7'.crashes <= MaxCrashes /\ r7'.crashes # MaxCrashes
  BY <1>1, Spending, ErasureAssumption
<1>4. Erase!RedactorStands'
  <2>1. Erase!RedactorStands
    BY ErasureSays
  <2>2. r5' = r5 \/ (r5' \in [pc : {"failed"}, seen : SUBSET Parcels, docs : {r5'.docs}, quiet : BOOLEAN])
    BY <1>1, <2>1 DEF Erase!RedactorStands
  <2> QED BY <1>1, <1>3, <2>1, <2>2 DEF Erase!RedactorStands, Erase!Erased
<1>5. Erase!PurgerStands'
  <2>1. CASE r6' = Erase!NoPurge
    BY <2>1, NoPurgeStands
  <2> QED BY <1>1, <1>2, <2>1, PurgerWaits
<1> QED BY <1>1, <1>2, <1>3, <1>4, <1>5, ErasureMoves

LEMMA ErasureKept ==
  ASSUME Erase!ErasureInv, [Erase!Next]_<<r1, r2, r3, r4, r5, r6, r7>>
  PROVE  Erase!ErasureInv'
<1>1. CASE UNCHANGED <<r1, r2, r3, r4, r5, r6, r7>>
  <2>1. ParcelsGo /\ PapersGo
    BY <1>1, ErasureSays DEF ParcelsGo, PapersGo
  <2> QED BY <1>1, <2>1, ErasureSays, RedactorWaits, PurgerWaits, ErasureMoves
<1> QED BY <1>1, DraftsWritten, OrdersGoOn, PrinterGoesOn, OrderRedacted, CopiesRedacted, TestsPurged, EitherDies DEF Erase!Next

LEMMA ErasureInvStands == Erase!ErasureInv => Erase!ErasureStands
<1> SUFFICES ASSUME Erase!ErasureInv PROVE Erase!ErasureStands
  OBVIOUS
<1>1. Erase!RedactorStands
  BY ErasureSays
<1>2. ASSUME r5.pc = "done", r5.quiet, r7.crashes = MaxCrashes
      PROVE  ~r1.order /\ (~r1.late => \A p \in r5.seen : r2[p].row = "DRAFT" => ~r2[p].working)
  <2>1. ~r1.order /\ r5.seen \subseteq Parcels
    BY <1>1, <1>2 DEF Erase!RedactorStands
  <2> QED BY <1>1, <1>2, <2>1 DEF Erase!RedactorStands
<1> QED BY <1>2, ErasureSays DEF Erase!ErasureStands, Erase!ParcelStands, Erase!PaperStands

\* maintenance and health: for any horizons, months, sweeps, parcels and papers,
\* whoever dies and whoever owns the partitions: no row or partition, and no object
\* but a redacted document's, is lost before its time, and no attachment but of a
\* ticket resolved that long ago, or reopened after it had been; no shipment in the
\* books is purged, a paper that is gone has no bytes left, and a redaction that
\* ends well, no ingest at work and no process dead, leaves the buyer in no order
\* and in no draft it found, but for drafts an ingest wrote into an emptied order.
THEOREM KeptUntilItsTime == Spec => []KeptForItsTime
<1> DEFINE I == (focus = "upkeep" => Keep!UpkeepInv) /\ (focus = "erasure" => Erase!ErasureInv)
<1>1. Init => I
  BY UpkeepInitially, ErasureInitially, Zenon DEF Init
<1>2. I /\ [Next]_vars => I'
  <2> SUFFICES ASSUME I, [Next]_vars PROVE I'
    OBVIOUS
  <2>1. UNCHANGED focus
    BY DEF Next, vars
  <2>2. CASE focus = "upkeep"
    <3>1. [Keep!Next]_<<r1, r2, r3, r4, r5>>
      BY <2>2 DEF Next, vars
    <3> QED BY <2>1, <2>2, <3>1, UpkeepKept
  <2>3. CASE focus = "erasure"
    <3>1. [Erase!Next]_<<r1, r2, r3, r4, r5, r6, r7>>
      BY <2>3 DEF Next, vars
    <3> QED BY <2>1, <2>3, <3>1, ErasureKept
  <2> QED BY <2>1, <2>2, <2>3
<1>3. I => KeptForItsTime
  BY UpkeepStands, ErasureInvStands DEF KeptForItsTime
<1> QED BY <1>1, <1>2, <1>3, PTL DEF Spec

----------------------------------------------------------------------------
(* SyncBack.  r1 is the outbox, r2 the store, r3 the workers, r5 the       *)
(* dead-letter queue, r6 the faults, r7 the administrators' desk.           *)

LEMMA SyncSays ==
  ASSUME Sync!SyncInv
  PROVE  /\ r1 \in [Sync!Ops -> [state : {"NONE", "PENDING", "IN_FLIGHT", "RETRYING", "SUCCEEDED", "DEAD"},
                                 attempts : Nat, gid : BOOLEAN]]
         /\ r2 \in [fulfillments : Nat, events : SUBSET {Sync!ShopifyStatus(o) : o \in Sync!Ops}]
         /\ r6 \in [crashes : Nat, lost : Nat, replays : Nat, late : SUBSET Sync!Ops]
         /\ r3 \in [Workers -> [batch : SUBSET Sync!Ops, op : Sync!Ops \cup {"none"},
                                pc : {"idle", "ok", "error", "file"}]]
         /\ Sync!WorkersStand /\ Sync!CreateStands /\ Sync!FilingStands
         /\ Sync!OneFulfillment /\ Sync!EventsFollowCreate /\ Sync!DeadIsFiled
BY DEF Sync!SyncInv, Sync!WorkersStand

LEMMA SyncInitially == Sync!Init => Sync!SyncInv
<1> SUFFICES ASSUME Sync!Init PROVE Sync!SyncInv
  OBVIOUS
<1>1. /\ r1 = [o \in Sync!Ops |-> [state |-> "NONE", attempts |-> 0, gid |-> FALSE]]
      /\ r2 = [fulfillments |-> 0, events |-> {}]
      /\ r3 = [w \in Workers |-> Sync!Resting]
      /\ r5 = {} /\ r6 = [crashes |-> 0, lost |-> 0, replays |-> 0, late |-> {}]
  BY DEF Sync!Init
<1>2. Sync!WorkersStand
  BY <1>1 DEF Sync!WorkersStand, Sync!Holds, Sync!Resting
<1>3. Sync!CreateStands /\ Sync!FilingStands
  BY <1>1 DEF Sync!CreateStands, Sync!FilingStands, Sync!Answered, Sync!Resting, Sync!Create, Sync!Ops
<1>4. Sync!OneFulfillment /\ Sync!EventsFollowCreate /\ Sync!DeadIsFiled
  BY <1>1 DEF Sync!OneFulfillment, Sync!EventsFollowCreate, Sync!DeadIsFiled
<1> QED BY <1>1, <1>2, <1>3, <1>4 DEF Sync!SyncInv

\* A worker that is done with a row holds what it held, but for that row.
LEMMA PutDown ==
  ASSUME Sync!SyncInv, NEW w \in Workers, NEW o \in Sync!Ops, Sync!Put(w, o),
         o \in r3[w].batch, r3[w].pc = "idle" \/ r3[w].op = o
  PROVE  /\ r3' \in [Workers -> [batch : SUBSET Sync!Ops, op : Sync!Ops \cup {"none"},
                                 pc : {"idle", "ok", "error", "file"}]]
         /\ \A v \in Workers : v # w => r3'[v] = r3[v]
         /\ r3'[w].pc = "idle" /\ r3'[w].op = "none" /\ r3'[w].batch = r3[w].batch \ {o}
         /\ \A v \in Workers, p \in Sync!Ops :
              r3'[v].pc = "idle" /\ p \in r3'[v].batch => (Sync!Holds(v, p) /\ (v # w \/ p # o))
         /\ \A v \in Workers, p \in Sync!Ops :
              p \in r3'[v].batch /\ ~(r3'[v].op = p /\ r3'[v].pc = "file")
                => (Sync!Holds(v, p) /\ (v # w \/ p # o))
<1>1. r3 \in [Workers -> [batch : SUBSET Sync!Ops, op : Sync!Ops \cup {"none"},
                          pc : {"idle", "ok", "error", "file"}]]
  BY SyncSays
<1>2. r3' = [r3 EXCEPT ![w] = [Sync!Resting EXCEPT !.batch = r3[w].batch \ {o}]]
  BY DEF Sync!Put
<1>3. /\ \A v \in Workers : v # w => r3'[v] = r3[v]
      /\ r3'[w].pc = "idle" /\ r3'[w].op = "none" /\ r3'[w].batch = r3[w].batch \ {o}
  BY <1>1, <1>2 DEF Sync!Resting
<1>4. r3' \in [Workers -> [batch : SUBSET Sync!Ops, op : Sync!Ops \cup {"none"},
                           pc : {"idle", "ok", "error", "file"}]]
  BY <1>1, <1>2 DEF Sync!Resting
<1> QED BY <1>3, <1>4 DEF Sync!Holds

\* The row a worker held and put down is the only one that changed.
LEMMA RowDone ==
  ASSUME Sync!SyncInv, NEW w \in Workers, NEW o \in Sync!Ops, Sync!Put(w, o), Sync!Holds(w, o),
         r3[w].pc = "idle" \/ r3[w].op = o, \A p \in Sync!Ops : p # o => r1'[p] = r1[p]
  PROVE  Sync!WorkersStand'
<1>1. Sync!WorkersStand
  BY SyncSays
<1>2. o \in r3[w].batch
  BY DEF Sync!Holds
<1>3. \A v \in Workers, p \in Sync!Ops : Sync!Holds(v, p)' => Sync!Holds(v, p) /\ p # o
  <2>1. \A v \in Workers, p \in Sync!Ops : Sync!Holds(v, p)' => Sync!Holds(v, p) /\ (v # w \/ p # o)
    BY <1>2, PutDown DEF Sync!Holds
  <2> QED BY <1>1, <2>1 DEF Sync!WorkersStand
<1>4. \A v \in Workers, p \in Sync!Ops : Sync!Holds(v, p)' => r1'[p].state = "IN_FLIGHT"
  BY <1>1, <1>3 DEF Sync!WorkersStand
<1>5. \A u, v \in Workers, p \in Sync!Ops : Sync!Holds(u, p)' /\ Sync!Holds(v, p)' => u = v
  BY <1>1, <1>3 DEF Sync!WorkersStand
<1>6. \A v \in Workers : r3'[v].pc # "idle" => r3'[v].op \in r3'[v].batch
  BY <1>1, <1>2, PutDown DEF Sync!WorkersStand
<1> QED BY <1>2, <1>4, <1>5, <1>6, PutDown DEF Sync!WorkersStand

\* A row is inserted, or an administrator's replay takes it up again.
LEMMA RowsBegin ==
  ASSUME Sync!SyncInv, NEW o \in Sync!Ops, NEW a, Sync!Enqueue(o) \/ Sync!ReplayRow(a, o)
  PROVE  Sync!SyncInv'
<1>1. /\ r1 \in [Sync!Ops -> [state : {"NONE", "PENDING", "IN_FLIGHT", "RETRYING", "SUCCEEDED", "DEAD"},
                              attempts : Nat, gid : BOOLEAN]]
      /\ Sync!WorkersStand /\ Sync!CreateStands /\ Sync!FilingStands
      /\ Sync!OneFulfillment /\ Sync!EventsFollowCreate /\ Sync!DeadIsFiled
  BY SyncSays
<1>2. /\ r1' \in [Sync!Ops -> [state : {"NONE", "PENDING", "IN_FLIGHT", "RETRYING", "SUCCEEDED", "DEAD"},
                               attempts : Nat, gid : BOOLEAN]]
      /\ r1[o].state \in {"NONE", "DEAD"} /\ r1'[o].state = "PENDING"
      /\ r1'[o].gid => r1[o].gid \/ Sync!Created
      /\ \A p \in Sync!Ops : p # o => r1'[p] = r1[p]
      /\ r2' = r2 /\ r3' = r3
  <2>1. CASE Sync!Enqueue(o)
    <3>1. Sync!Created \in BOOLEAN
      BY DEF Sync!Created
    <3>2. PICK g \in BOOLEAN : g <=> (o # Sync!Create /\ Sync!Created)
      BY <3>1, Zenon
    <3>3. r1' = [r1 EXCEPT ![o] = [state |-> "PENDING", attempts |-> 0, gid |-> o # Sync!Create /\ Sync!Created]]
          /\ r1[o].state = "NONE" /\ r2' = r2 /\ r3' = r3
      BY <2>1 DEF Sync!Enqueue
    <3>4. (o # Sync!Create /\ Sync!Created) = g
      BY <3>2, <3>1, Zenon
    <3>5. r1' = [r1 EXCEPT ![o] = [state |-> "PENDING", attempts |-> 0, gid |-> g]]
      BY <3>3, <3>4, Zenon
    <3> QED BY <1>1, <3>2, <3>3, <3>5
  <2>2. CASE Sync!ReplayRow(a, o)
    BY <1>1, <2>2, Zenon DEF Sync!ReplayRow, Sync!Replayable
  <2> QED BY <2>1, <2>2
<1>3. /\ r6' \in [crashes : Nat, lost : Nat, replays : Nat, late : SUBSET Sync!Ops]
      /\ r6'.crashes = r6.crashes /\ r6'.lost = r6.lost /\ r6'.replays >= r6.replays
      /\ r6'.late = r6.late /\ r5' = r5
  <2>1. r6 \in [crashes : Nat, lost : Nat, replays : Nat, late : SUBSET Sync!Ops]
    BY SyncSays
  <2>2. CASE Sync!Enqueue(o)
    BY <2>1, <2>2 DEF Sync!Enqueue
  <2>3. CASE Sync!ReplayRow(a, o)
    BY <2>1, <2>3 DEF Sync!ReplayRow
  <2> QED BY <2>2, <2>3
<1>4. Sync!Create \in Sync!Ops
  BY DEF Sync!Ops
<1>5. Sync!WorkersStand'
  BY <1>1, <1>2 DEF Sync!WorkersStand, Sync!Holds
<1>6. Sync!CreateStands'
  <2>1. Sync!Created => r1[Sync!Create].gid
    BY DEF Sync!Created
  <2>2. (\E p \in Sync!Ops : r1'[p].gid) => \E p \in Sync!Ops : r1[p].gid
    BY <1>2, <1>4, <2>1
  <2>3. \A w \in Workers : Sync!Answered(w)' = Sync!Answered(w) /\ Sync!Holds(w, Sync!Create)' = Sync!Holds(w, Sync!Create)
    BY <1>2 DEF Sync!Answered, Sync!Holds
  <2> QED BY <1>1, <1>2, <1>3, <1>4, <2>2, <2>3 DEF Sync!CreateStands
<1>7. Sync!FilingStands'
  <2> SUFFICES ASSUME NEW w \in Workers, r3'[w].pc = "file"
               PROVE  r1'[r3'[w].op].state = "DEAD" \/ r6'.replays > 0
    BY DEF Sync!FilingStands
  <2>1. r3[w].op \in Sync!Ops /\ (r1[r3[w].op].state = "DEAD" \/ r6.replays > 0)
    BY <1>1, <1>2 DEF Sync!FilingStands, Sync!WorkersStand
  <2>2. r6 \in [crashes : Nat, lost : Nat, replays : Nat, late : SUBSET Sync!Ops]
    BY SyncSays
  <2>3. CASE r3[w].op = o /\ r1[o].state = "DEAD"
    <3>1. Sync!ReplayRow(a, o)
      BY <2>3 DEF Sync!Enqueue
    <3> QED BY <2>2, <3>1 DEF Sync!ReplayRow
  <2> QED BY <1>2, <1>3, <2>1, <2>2, <2>3
<1>8. Sync!OneFulfillment' /\ Sync!EventsFollowCreate'
  BY <1>1, <1>2, <1>3 DEF Sync!OneFulfillment, Sync!EventsFollowCreate
<1>9. Sync!DeadIsFiled'
  <2>1. r6 \in [crashes : Nat, lost : Nat, replays : Nat, late : SUBSET Sync!Ops]
    BY SyncSays
  <2>2. CASE Sync!Enqueue(o)
    <3>1. r5' = r5 /\ r6' = r6 /\ r1[o].state = "NONE"
      BY <2>2 DEF Sync!Enqueue
    <3> QED BY <1>1, <1>2, <3>1 DEF Sync!DeadIsFiled
  <2>3. CASE Sync!ReplayRow(a, o)
    <3>1. r5' = r5 /\ r6'.replays > 0 /\ r6'.crashes = r6.crashes /\ r6'.late = r6.late
      BY <2>1, <2>3 DEF Sync!ReplayRow
    <3> QED BY <1>1, <1>2, <3>1 DEF Sync!DeadIsFiled
  <2> QED BY <2>2, <2>3
<1>10. r2 \in [fulfillments : Nat, events : SUBSET {Sync!ShopifyStatus(p) : p \in Sync!Ops}]
  BY SyncSays
<1> QED BY <1>2, <1>3, <1>5, <1>6, <1>7, <1>8, <1>9, <1>10 DEF Sync!SyncInv

\* A worker that rests claims what is due, which nobody holds.
LEMMA BatchClaimed ==
  ASSUME Sync!SyncInv, NEW w \in Workers, Sync!ClaimDueBatch(w)
  PROVE  Sync!SyncInv'
<1>1. /\ r1 \in [Sync!Ops -> [state : {"NONE", "PENDING", "IN_FLIGHT", "RETRYING", "SUCCEEDED", "DEAD"},
                              attempts : Nat, gid : BOOLEAN]]
      /\ r3 \in [Workers -> [batch : SUBSET Sync!Ops, op : Sync!Ops \cup {"none"},
                             pc : {"idle", "ok", "error", "file"}]]
      /\ Sync!WorkersStand /\ Sync!CreateStands /\ Sync!FilingStands
      /\ Sync!OneFulfillment /\ Sync!EventsFollowCreate /\ Sync!DeadIsFiled
  BY SyncSays
<1>2. /\ r1' = [o \in Sync!Ops |-> IF o \in Sync!Due THEN [r1[o] EXCEPT !.state = "IN_FLIGHT"] ELSE r1[o]]
      /\ r3' = [r3 EXCEPT ![w] = [Sync!Resting EXCEPT !.batch = Sync!Due]]
      /\ r3[w] = Sync!Resting /\ r2' = r2 /\ r5' = r5 /\ r6' = r6
  BY DEF Sync!ClaimDueBatch
<1>3. Sync!Due \subseteq Sync!Ops
  BY DEF Sync!Due
<1>4. /\ r1' \in [Sync!Ops -> [state : {"NONE", "PENDING", "IN_FLIGHT", "RETRYING", "SUCCEEDED", "DEAD"},
                               attempts : Nat, gid : BOOLEAN]]
      /\ \A o \in Sync!Ops : o \notin Sync!Due => r1'[o] = r1[o]
      /\ \A o \in Sync!Due : r1'[o].state = "IN_FLIGHT" /\ r1'[o].gid = r1[o].gid
                             /\ r1[o].state \in {"PENDING", "RETRYING"}
  <2> DEFINE claimed(o) == [r1[o] EXCEPT !.state = "IN_FLIGHT"]
  <2>1. \A o \in Sync!Ops : /\ claimed(o) \in [state : {"IN_FLIGHT"}, attempts : Nat, gid : BOOLEAN]
                            /\ claimed(o).gid = r1[o].gid
    BY <1>1
  <2>2. \A o \in Sync!Ops : r1'[o] = IF o \in Sync!Due THEN claimed(o) ELSE r1[o]
    BY <1>2
  <2>3. \A o \in Sync!Due : o \in Sync!Ops /\ r1[o].state \in {"PENDING", "RETRYING"}
    BY DEF Sync!Due
  <2>4. r1' = [o \in Sync!Ops |-> r1'[o]]
    BY <1>2
  <2> HIDE DEF claimed
  <2>5. \A o \in Sync!Ops : r1'[o] \in [state : {"NONE", "PENDING", "IN_FLIGHT", "RETRYING", "SUCCEEDED", "DEAD"},
                               attempts : Nat, gid : BOOLEAN]
    BY <1>1, <2>1, <2>2
  <2>6. r1' \in [Sync!Ops -> [state : {"NONE", "PENDING", "IN_FLIGHT", "RETRYING", "SUCCEEDED", "DEAD"},
                               attempts : Nat, gid : BOOLEAN]]
    BY <2>4, <2>5
  <2>7. \A o \in Sync!Ops : o \notin Sync!Due => r1'[o] = r1[o]
    BY <2>2
  <2>8. \A o \in Sync!Due : r1'[o].state = "IN_FLIGHT" /\ r1'[o].gid = r1[o].gid
    BY <2>1, <2>2, <2>3
  <2> QED BY <2>3, <2>6, <2>7, <2>8
<1>5. /\ r3' \in [Workers -> [batch : SUBSET Sync!Ops, op : Sync!Ops \cup {"none"},
                              pc : {"idle", "ok", "error", "file"}]]
      /\ \A v \in Workers : v # w => r3'[v] = r3[v]
      /\ r3'[w].pc = "idle" /\ r3'[w].batch = Sync!Due
      /\ r3[w].pc = "idle" /\ r3[w].batch = {}
  BY <1>1, <1>2, <1>3 DEF Sync!Resting
<1>6. \A v \in Workers, o \in Sync!Ops :
        Sync!Holds(v, o)' <=> (Sync!Holds(v, o) \/ (v = w /\ o \in Sync!Due))
  BY <1>5 DEF Sync!Holds
<1>7. \A v \in Workers, o \in Sync!Ops : Sync!Holds(v, o) => r1[o].state = "IN_FLIGHT" /\ o \notin Sync!Due
  BY <1>1 DEF Sync!WorkersStand, Sync!Due
<1>8. Sync!WorkersStand'
  <2>1. \A v \in Workers, o \in Sync!Ops : Sync!Holds(v, o)' => r1'[o].state = "IN_FLIGHT"
    BY <1>4, <1>6, <1>7
  <2>2. \A u, v \in Workers, o \in Sync!Ops : Sync!Holds(u, o)' /\ Sync!Holds(v, o)' => u = v
    BY <1>1, <1>6, <1>7 DEF Sync!WorkersStand
  <2>3. \A v \in Workers : r3'[v].pc # "idle" => r3'[v].op \in r3'[v].batch
    BY <1>1, <1>5 DEF Sync!WorkersStand
  <2> QED BY <1>5, <2>1, <2>2, <2>3 DEF Sync!WorkersStand
<1>9. Sync!Create \in Sync!Ops
  BY DEF Sync!Ops
<1>10. Sync!CreateStands'
  <2>1. \A v \in Workers : Sync!Answered(v)' = Sync!Answered(v)
    BY <1>5 DEF Sync!Answered
  <2>2. \A o \in Sync!Ops : r1'[o].gid = r1[o].gid
    BY <1>4
  <2>3. ASSUME r2.fulfillments > r6.lost PROVE Sync!Create \notin Sync!Due
    BY <1>1, <1>4, <2>3 DEF Sync!CreateStands
  <2> QED BY <1>1, <1>2, <1>4, <1>6, <1>9, <2>1, <2>2, <2>3 DEF Sync!CreateStands
<1>11. Sync!FilingStands'
  <2> SUFFICES ASSUME NEW v \in Workers, r3'[v].pc = "file"
               PROVE  r1'[r3'[v].op].state = "DEAD" \/ r6'.replays > 0
    BY DEF Sync!FilingStands
  <2>1. v # w /\ r3[v].op \in Sync!Ops /\ (r1[r3[v].op].state = "DEAD" \/ r6.replays > 0)
    BY <1>1, <1>5 DEF Sync!FilingStands, Sync!WorkersStand
  <2> QED BY <1>2, <1>4, <1>5, <2>1, Zenon
<1>12. Sync!OneFulfillment' /\ Sync!EventsFollowCreate'
  BY <1>1, <1>2 DEF Sync!OneFulfillment, Sync!EventsFollowCreate
<1>13. Sync!DeadIsFiled'
  <2> SUFFICES ASSUME NEW o \in Sync!Ops
               PROVE  /\ r1'[o].state = "DEAD" /\ r6'.crashes = 0 /\ o \notin r6'.late
                           => o \in r5' \/ \E v \in Workers : r3'[v].op = o /\ r3'[v].pc = "file"
                      /\ o \in r5' => r1'[o].state = "DEAD" \/ r6'.replays > 0
    BY DEF Sync!DeadIsFiled
  <2>1. \A v \in Workers : r3[v].pc = "file" => r3'[v] = r3[v]
    BY <1>5
  <2>2. r1'[o].state = "DEAD" => r1'[o] = r1[o]
    BY <1>4
  <2>3. r1[o].state = "DEAD" => r1'[o] = r1[o]
    BY <1>4
  <2> QED BY <1>1, <1>2, <2>1, <2>2, <2>3 DEF Sync!DeadIsFiled
<1> QED BY <1>2, <1>4, <1>8, <1>10, <1>11, <1>12, <1>13, SyncSays DEF Sync!SyncInv

\* A row is put back for the next window, succeeded, or failed and is retried.
LEMMA RowsPutDown ==
  ASSUME Sync!SyncInv, NEW w \in Workers, NEW o \in Sync!Ops, Sync!Put(w, o), Sync!Holds(w, o),
         \/ r3[w].pc = "idle"
         \/ r3[w].op = o,
         r3[w].pc # "file",
         r1' \in [Sync!Ops -> [state : {"PENDING", "RETRYING", "SUCCEEDED", "DEAD", "NONE", "IN_FLIGHT"},
                               attempts : Nat, gid : BOOLEAN]],
         r1'[o].state \in {"PENDING", "RETRYING", "SUCCEEDED"},
         \A p \in Sync!Ops : p # o => r1'[p] = r1[p],
         r1'[o].gid => r1[o].gid \/ Sync!Answered(w),
         r1'[o].state = "SUCCEEDED" \/ ~Sync!Answered(w),
         UNCHANGED <<r2, r5, r6>>
  PROVE  Sync!SyncInv'
<1>1. /\ Sync!WorkersStand /\ Sync!CreateStands /\ Sync!FilingStands
      /\ Sync!OneFulfillment /\ Sync!EventsFollowCreate /\ Sync!DeadIsFiled
  BY SyncSays
<1>2. o \in r3[w].batch
  BY DEF Sync!Holds
<1>3. Sync!WorkersStand'
  BY RowDone
<1>4. r1[o].state = "IN_FLIGHT"
  BY <1>1 DEF Sync!WorkersStand
<1>5. \A v \in Workers : v # w => r3'[v] = r3[v]
  BY <1>2, PutDown
<1>6. r3'[w].pc = "idle"
  BY <1>2, PutDown
<1>7. \A v \in Workers : Sync!Holds(v, Sync!Create)' => Sync!Holds(v, Sync!Create) /\ (v # w \/ Sync!Create # o)
  BY <1>2, PutDown DEF Sync!Holds, Sync!Ops
<1>8. Sync!Create \in Sync!Ops
  BY DEF Sync!Ops
<1>9. Sync!CreateStands'
  <2>1. \A v \in Workers : Sync!Answered(v)' => Sync!Answered(v)
    BY <1>5, <1>6 DEF Sync!Answered
  <2>2. (\E p \in Sync!Ops : r1'[p].gid) => (\E p \in Sync!Ops : r1[p].gid) \/ Sync!Answered(w)
    OBVIOUS
  <2>3. ASSUME r2.fulfillments > r6.lost
        PROVE  /\ r1'[Sync!Create].state \in {"SUCCEEDED", "IN_FLIGHT"}
               /\ \A v \in Workers : Sync!Holds(v, Sync!Create)' => Sync!Answered(v)'
    <3>1. r1[Sync!Create].state \in {"SUCCEEDED", "IN_FLIGHT"}
          /\ \A v \in Workers : Sync!Holds(v, Sync!Create) => Sync!Answered(v)
      BY <1>1, <2>3 DEF Sync!CreateStands
    <3>2. CASE o = Sync!Create
      <4>1. Sync!Answered(w) /\ r1'[o].state = "SUCCEEDED"
        BY <3>1, <3>2
      <4>2. \A v \in Workers : ~Sync!Holds(v, Sync!Create)'
        BY <1>1, <1>7, <1>8, <3>2 DEF Sync!WorkersStand
      <4> QED BY <3>2, <4>1, <4>2
    <3>3. CASE o # Sync!Create
      <4>1. \A v \in Workers : v # w => Sync!Answered(v)' = Sync!Answered(v)
        BY <1>5 DEF Sync!Answered
      <4>2. ~Sync!Holds(w, Sync!Create)
        <5>1. ~Sync!Answered(w)
          BY <3>3, <1>6 DEF Sync!Answered
        <5> QED BY <3>1, <5>1
      <4> QED BY <1>7, <1>8, <3>1, <3>3, <4>1, <4>2
    <3> QED BY <3>2, <3>3
  <2> QED BY <1>1, <2>1, <2>2, <2>3 DEF Sync!CreateStands
<1>10. Sync!FilingStands'
  <2> SUFFICES ASSUME NEW v \in Workers, r3'[v].pc = "file"
               PROVE  r1'[r3'[v].op].state = "DEAD" \/ r6'.replays > 0
    BY DEF Sync!FilingStands
  <2>1. v # w /\ r3[v].op \in Sync!Ops /\ (r1[r3[v].op].state = "DEAD" \/ r6.replays > 0)
    BY <1>1, <1>5, <1>6 DEF Sync!FilingStands, Sync!WorkersStand
  <2> QED BY <1>4, <1>5, <2>1
<1>11. Sync!OneFulfillment' /\ Sync!EventsFollowCreate'
  BY <1>1 DEF Sync!OneFulfillment, Sync!EventsFollowCreate
<1>12. Sync!DeadIsFiled'
  <2> SUFFICES ASSUME NEW p \in Sync!Ops
               PROVE  /\ r1'[p].state = "DEAD" /\ r6'.crashes = 0 /\ p \notin r6'.late
                           => p \in r5' \/ \E v \in Workers : r3'[v].op = p /\ r3'[v].pc = "file"
                      /\ p \in r5' => r1'[p].state = "DEAD" \/ r6'.replays > 0
    BY DEF Sync!DeadIsFiled
  <2>1. \A v \in Workers : r3[v].pc = "file" => r3'[v] = r3[v]
    BY <1>5
  <2> QED BY <1>1, <1>4, <2>1 DEF Sync!DeadIsFiled
<1> QED BY <1>3, <1>9, <1>10, <1>11, <1>12, SyncSays DEF Sync!SyncInv

LEMMA WorkersPutDown ==
  ASSUME Sync!SyncInv, NEW w \in Workers,
         Sync!MarkSucceeded(w) \/ \E o \in Sync!Ops : Sync!Defer(w, o)
  PROVE  Sync!SyncInv'
<1>1. /\ Sync!WorkersStand
      /\ r1 \in [Sync!Ops -> [state : {"NONE", "PENDING", "IN_FLIGHT", "RETRYING", "SUCCEEDED", "DEAD"},
                              attempts : Nat, gid : BOOLEAN]]
      /\ r3 \in [Workers -> [batch : SUBSET Sync!Ops, op : Sync!Ops \cup {"none"},
                             pc : {"idle", "ok", "error", "file"}]]
  BY SyncSays
<1>2. ASSUME NEW o \in Sync!Ops, Sync!Defer(w, o) PROVE Sync!SyncInv'
  <2> DEFINE next == IF r1[o].attempts > 0 THEN "RETRYING" ELSE "PENDING"
  <2>1. /\ r1' = [r1 EXCEPT ![o].state = next] /\ Sync!Put(w, o)
        /\ r3[w].pc = "idle" /\ o \in r3[w].batch /\ UNCHANGED <<r2, r5, r6>>
    BY <1>2 DEF Sync!Defer
  <2>2. Sync!Holds(w, o) /\ ~Sync!Answered(w)
    BY <2>1 DEF Sync!Holds, Sync!Answered
  <2>3. next \in {"PENDING", "RETRYING"}
    OBVIOUS
  <2> HIDE DEF next
  <2>4. /\ r1' \in [Sync!Ops -> [state : {"PENDING", "RETRYING", "SUCCEEDED", "DEAD", "NONE", "IN_FLIGHT"},
                                 attempts : Nat, gid : BOOLEAN]]
        /\ r1'[o].state = next /\ r1'[o].gid = r1[o].gid
        /\ \A p \in Sync!Ops : p # o => r1'[p] = r1[p]
    BY <1>1, <2>1, <2>3
  <2> QED BY <2>1, <2>2, <2>3, <2>4, RowsPutDown
<1>3. ASSUME Sync!MarkSucceeded(w) PROVE Sync!SyncInv'
  <2> DEFINE o == r3[w].op
             last == r3[w].op = Sync!Create
  <2>1. /\ r1' = [r1 EXCEPT ![o].state = "SUCCEEDED", ![o].gid = @ \/ last]
        /\ Sync!Put(w, o) /\ r3[w].pc = "ok" /\ UNCHANGED <<r2, r5, r6>>
    BY <1>3 DEF Sync!MarkSucceeded
  <2>2. o \in r3[w].batch /\ o \in Sync!Ops
    BY <1>1, <2>1 DEF Sync!WorkersStand
  <2>3. Sync!Holds(w, o) /\ (last => Sync!Answered(w))
    BY <2>1, <2>2 DEF Sync!Holds, Sync!Answered
  <2>4. PICK g \in BOOLEAN : g <=> (r1[o].gid \/ last)
    BY Zenon
  <2>5. (r1[o].gid \/ last) = g
    <3>1. r1[o].gid \in BOOLEAN
      BY <1>1, <2>2
    <3> QED BY <2>4, <3>1, Zenon
  <2> HIDE DEF o, last
  <2>6. r1' = [r1 EXCEPT ![o].state = "SUCCEEDED", ![o].gid = g]
    BY <2>1, <2>5, <2>2, <1>1, Zenon
  <2>7. /\ r1' \in [Sync!Ops -> [state : {"PENDING", "RETRYING", "SUCCEEDED", "DEAD", "NONE", "IN_FLIGHT"},
                                 attempts : Nat, gid : BOOLEAN]]
        /\ r1'[o].state = "SUCCEEDED" /\ r1'[o].gid = g
        /\ \A p \in Sync!Ops : p # o => r1'[p] = r1[p]
    BY <1>1, <2>2, <2>4, <2>6, Zenon
  <2>8. o = r3[w].op
    BY DEF o
  <2>9. (r1'[o].gid => r1[o].gid \/ Sync!Answered(w)) /\ r3[w].pc # "file"
    BY <2>1, <2>3, <2>4, <2>7
  <2>10. Sync!Put(w, o) /\ Sync!Holds(w, o) /\ o \in Sync!Ops /\ UNCHANGED <<r2, r5, r6>>
    BY <2>1, <2>2, <2>3
  <2>11. r1'[o].state = "SUCCEEDED" /\ \A p \in Sync!Ops : p # o => r1'[p] = r1[p]
    BY <2>7
  <2>12. r1' \in [Sync!Ops -> [state : {"PENDING", "RETRYING", "SUCCEEDED", "DEAD", "NONE", "IN_FLIGHT"},
                               attempts : Nat, gid : BOOLEAN]]
    BY <2>7
  <2> QED BY <2>8, <2>9, <2>10, <2>11, <2>12, RowsPutDown
<1> QED BY <1>2, <1>3

\* The tenth failure: the row is DEAD, and its worker has it to file.
LEMMA RowsFail ==
  ASSUME Sync!SyncInv, NEW w \in Workers, Sync!HandleFailure(w)
  PROVE  Sync!SyncInv'
<1> DEFINE o == r3[w].op
           n == r1[o].attempts + 1
           next == IF Sync!GivesUp(n) THEN "DEAD" ELSE "RETRYING"
<1>1. /\ Sync!WorkersStand /\ Sync!CreateStands /\ Sync!FilingStands
      /\ Sync!OneFulfillment /\ Sync!EventsFollowCreate /\ Sync!DeadIsFiled
      /\ r1 \in [Sync!Ops -> [state : {"NONE", "PENDING", "IN_FLIGHT", "RETRYING", "SUCCEEDED", "DEAD"},
                              attempts : Nat, gid : BOOLEAN]]
      /\ r3 \in [Workers -> [batch : SUBSET Sync!Ops, op : Sync!Ops \cup {"none"},
                             pc : {"idle", "ok", "error", "file"}]]
  BY SyncSays
<1>2. /\ r1' = [r1 EXCEPT ![o].attempts = n, ![o].state = next]
      /\ IF Sync!GivesUp(n) THEN r3' = [r3 EXCEPT ![w].pc = "file"] ELSE Sync!Put(w, o)
      /\ r3[w].pc = "error" /\ UNCHANGED <<r2, r5, r6>>
  BY DEF Sync!HandleFailure
<1>3. o \in r3[w].batch /\ o \in Sync!Ops
  BY <1>1, <1>2 DEF Sync!WorkersStand
<1>4. Sync!Holds(w, o) /\ ~Sync!Answered(w)
  BY <1>2, <1>3 DEF Sync!Holds, Sync!Answered
<1>5. n \in Nat /\ next \in {"DEAD", "RETRYING"} /\ (Sync!GivesUp(n) => next = "DEAD")
      /\ (~Sync!GivesUp(n) => next = "RETRYING")
  BY <1>1, <1>3
<1>6. o = r3[w].op
  OBVIOUS
<1> HIDE DEF o, n, next
<1>7. /\ r1' \in [Sync!Ops -> [state : {"PENDING", "RETRYING", "SUCCEEDED", "DEAD", "NONE", "IN_FLIGHT"},
                               attempts : Nat, gid : BOOLEAN]]
      /\ r1'[o].state = next /\ r1'[o].gid = r1[o].gid
      /\ \A p \in Sync!Ops : p # o => r1'[p] = r1[p]
  BY <1>1, <1>2, <1>3, <1>5, Zenon
<1>8. CASE ~Sync!GivesUp(n)
  <2>1. Sync!Put(w, o) /\ Sync!Holds(w, o) /\ o \in Sync!Ops /\ ~Sync!Answered(w)
    BY <1>2, <1>3, <1>4, <1>8
  <2>2. r1'[o].state = "RETRYING" /\ r3[w].pc # "file" /\ UNCHANGED <<r2, r5, r6>>
    BY <1>2, <1>5, <1>7, <1>8
  <2> QED BY <1>6, <1>7, <2>1, <2>2, RowsPutDown
<1>9. CASE Sync!GivesUp(n)
  <2>1. /\ r3' \in [Workers -> [batch : SUBSET Sync!Ops, op : Sync!Ops \cup {"none"},
                                pc : {"idle", "ok", "error", "file"}]]
        /\ \A v \in Workers : v # w => r3'[v] = r3[v]
        /\ r3'[w].pc = "file" /\ r3'[w].op = o /\ r3'[w].batch = r3[w].batch
        /\ r1'[o].state = "DEAD"
    BY <1>1, <1>2, <1>5, <1>6, <1>7, <1>9
  <2>2. r1[o].state = "IN_FLIGHT"
    BY <1>1, <1>3, <1>4 DEF Sync!WorkersStand
  <2>3. \A v \in Workers, p \in Sync!Ops : Sync!Holds(v, p)' => Sync!Holds(v, p) /\ (v # w \/ p # o)
    BY <1>2, <1>6, <2>1 DEF Sync!Holds
  <2>4. \A v \in Workers, p \in Sync!Ops : Sync!Holds(v, p)' => Sync!Holds(v, p) /\ p # o
    BY <1>1, <1>3, <1>4, <2>3 DEF Sync!WorkersStand
  <2>5. Sync!WorkersStand'
    <3>1. \A v \in Workers, p \in Sync!Ops : Sync!Holds(v, p)' => r1'[p].state = "IN_FLIGHT"
      BY <1>1, <1>7, <2>4 DEF Sync!WorkersStand
    <3>2. \A u, v \in Workers, p \in Sync!Ops : Sync!Holds(u, p)' /\ Sync!Holds(v, p)' => u = v
      BY <1>1, <2>4 DEF Sync!WorkersStand
    <3>3. \A v \in Workers : r3'[v].pc # "idle" => r3'[v].op \in r3'[v].batch
      BY <1>1, <1>3, <2>1 DEF Sync!WorkersStand
    <3> QED BY <2>1, <3>1, <3>2, <3>3 DEF Sync!WorkersStand
  <2>6. Sync!Create \in Sync!Ops
    BY DEF Sync!Ops
  <2>7. Sync!CreateStands'
    <3>1. \A v \in Workers : Sync!Answered(v)' = Sync!Answered(v)
      BY <1>2, <2>1 DEF Sync!Answered
    <3>2. \A p \in Sync!Ops : r1'[p].gid = r1[p].gid
      BY <1>7
    <3>3. ASSUME r2.fulfillments > r6.lost PROVE o # Sync!Create
      BY <1>1, <1>4, <3>3 DEF Sync!CreateStands
    <3> QED BY <1>1, <1>2, <1>7, <2>4, <2>6, <3>1, <3>2, <3>3 DEF Sync!CreateStands
  <2>8. Sync!FilingStands'
    <3> SUFFICES ASSUME NEW v \in Workers, r3'[v].pc = "file"
                 PROVE  r1'[r3'[v].op].state = "DEAD" \/ r6'.replays > 0
      BY DEF Sync!FilingStands
    <3>1. CASE v = w
      BY <2>1, <3>1
    <3>2. CASE v # w
      <4>1. r3[v].op \in Sync!Ops /\ (r1[r3[v].op].state = "DEAD" \/ r6.replays > 0)
        BY <1>1, <2>1, <3>2 DEF Sync!FilingStands, Sync!WorkersStand
      <4> QED BY <1>2, <1>7, <2>1, <3>2, <4>1
    <3> QED BY <3>1, <3>2
  <2>9. Sync!OneFulfillment' /\ Sync!EventsFollowCreate'
    BY <1>1, <1>2 DEF Sync!OneFulfillment, Sync!EventsFollowCreate
  <2>10. Sync!DeadIsFiled'
    <3> SUFFICES ASSUME NEW p \in Sync!Ops
                 PROVE  /\ r1'[p].state = "DEAD" /\ r6'.crashes = 0 /\ p \notin r6'.late
                             => p \in r5' \/ \E v \in Workers : r3'[v].op = p /\ r3'[v].pc = "file"
                        /\ p \in r5' => r1'[p].state = "DEAD" \/ r6'.replays > 0
      BY DEF Sync!DeadIsFiled
    <3>1. CASE p = o
      BY <2>1, <3>1
    <3>2. CASE p # o
      <4>1. \A v \in Workers : r3[v].pc = "file" => r3'[v] = r3[v]
        BY <1>2, <2>1
      <4> QED BY <1>1, <1>2, <1>7, <3>2, <4>1 DEF Sync!DeadIsFiled
    <3> QED BY <3>1, <3>2
  <2> QED BY <1>2, <1>7, <2>5, <2>7, <2>8, <2>9, <2>10, SyncSays DEF Sync!SyncInv
<1> QED BY <1>8, <1>9

\* The call to Shopify: a fulfillment only while none was answered, an event
\* only with the create's.
LEMMA RowExecuted ==
  ASSUME Sync!SyncInv, NEW w \in Workers, NEW o \in Sync!Ops, Sync!Execute(w, o)
  PROVE  Sync!SyncInv'
<1>1. /\ Sync!WorkersStand /\ Sync!CreateStands /\ Sync!FilingStands
      /\ Sync!OneFulfillment /\ Sync!EventsFollowCreate /\ Sync!DeadIsFiled
      /\ r2 \in [fulfillments : Nat, events : SUBSET {Sync!ShopifyStatus(p) : p \in Sync!Ops}]
      /\ r3 \in [Workers -> [batch : SUBSET Sync!Ops, op : Sync!Ops \cup {"none"},
                             pc : {"idle", "ok", "error", "file"}]]
      /\ r6 \in [crashes : Nat, lost : Nat, replays : Nat, late : SUBSET Sync!Ops]
  BY SyncSays
<1>2. r3[w].pc = "idle" /\ o \in r3[w].batch /\ UNCHANGED <<r1, r5>>
  BY DEF Sync!Execute
<1>3. PICK answer \in {"ok", "error", "lost"} :
        /\ answer # "error" => Sync!Known(o)
        /\ r3' = [r3 EXCEPT ![w].op = o, ![w].pc = IF answer = "ok" THEN "ok" ELSE "error"]
        /\ r6' = IF answer = "lost" THEN [r6 EXCEPT !.lost = @ + 1] ELSE r6
        /\ r2' = IF answer = "error" THEN r2
                 ELSE IF o = Sync!Create THEN [r2 EXCEPT !.fulfillments = @ + 1]
                 ELSE [r2 EXCEPT !.events = @ \cup {Sync!ShopifyStatus(o)}]
  BY Zenon DEF Sync!Execute
<1>4. /\ r3' \in [Workers -> [batch : SUBSET Sync!Ops, op : Sync!Ops \cup {"none"},
                              pc : {"idle", "ok", "error", "file"}]]
      /\ \A v \in Workers : v # w => r3'[v] = r3[v]
      /\ r3'[w].op = o /\ r3'[w].batch = r3[w].batch
      /\ r3'[w].pc = IF answer = "ok" THEN "ok" ELSE "error"
  <2>1. (IF answer = "ok" THEN "ok" ELSE "error") \in {"idle", "ok", "error", "file"}
    OBVIOUS
  <2> QED BY <1>1, <1>3, <2>1, Zenon
<1>5. \A v \in Workers, p \in Sync!Ops : Sync!Holds(v, p)' <=> Sync!Holds(v, p)
  BY <1>2, <1>4 DEF Sync!Holds
<1>6. Sync!Holds(w, o) /\ ~Sync!Answered(w)
  BY <1>2 DEF Sync!Holds, Sync!Answered
<1>7. Sync!WorkersStand'
  <2>1. \A v \in Workers : r3'[v].pc # "idle" => r3'[v].op \in r3'[v].batch
    BY <1>1, <1>2, <1>4 DEF Sync!WorkersStand
  <2> QED BY <1>1, <1>2, <1>4, <1>5, <2>1 DEF Sync!WorkersStand
<1>8. /\ r6' \in [crashes : Nat, lost : Nat, replays : Nat, late : SUBSET Sync!Ops]
      /\ r6'.crashes = r6.crashes /\ r6'.replays = r6.replays /\ r6'.late = r6.late
      /\ r6'.lost = IF answer = "lost" THEN r6.lost + 1 ELSE r6.lost
  BY <1>1, <1>3
<1>9. /\ r2' \in [fulfillments : Nat, events : SUBSET {Sync!ShopifyStatus(p) : p \in Sync!Ops}]
      /\ r2'.fulfillments = IF answer # "error" /\ o = Sync!Create THEN r2.fulfillments + 1 ELSE r2.fulfillments
      /\ r2'.events # r2.events => answer # "error" /\ o # Sync!Create
  BY <1>1, <1>3
<1>10. Sync!Create \in Sync!Ops
  BY DEF Sync!Ops
<1>11. o = Sync!Create => r2.fulfillments <= r6.lost
  BY <1>1, <1>6, <1>8, <1>9 DEF Sync!CreateStands
<1>12. Sync!OneFulfillment'
  BY <1>1, <1>8, <1>9, <1>11 DEF Sync!OneFulfillment
<1>13. Sync!Known(o) /\ o # Sync!Create => r2.fulfillments > 0
  BY <1>1, <1>10 DEF Sync!Known, Sync!Created, Sync!CreateStands
<1>14. Sync!EventsFollowCreate'
  <2>1. r2.fulfillments > 0 => r2'.fulfillments > 0
    BY <1>1, <1>9
  <2> QED BY <1>1, <1>3, <1>9, <1>13, <2>1 DEF Sync!EventsFollowCreate
<1>15. Sync!CreateStands'
  <2>1. \A v \in Workers : Sync!Answered(v)' =>
          Sync!Answered(v) \/ (v = w /\ o = Sync!Create /\ answer = "ok")
    BY <1>4 DEF Sync!Answered
  <2>2. (\E p \in Sync!Ops : r1'[p].gid) \/ (\E v \in Workers : Sync!Answered(v)') => r2'.fulfillments > 0
    BY <1>1, <1>2, <1>9, <2>1 DEF Sync!CreateStands
  <2>3. ASSUME r2'.fulfillments > r6'.lost
        PROVE  /\ r1'[Sync!Create].state \in {"SUCCEEDED", "IN_FLIGHT"}
               /\ \A v \in Workers : Sync!Holds(v, Sync!Create)' => Sync!Answered(v)'
    <3>1. CASE o = Sync!Create
      <4>1. answer = "ok"
        BY <1>1, <1>3, <1>8, <1>9, <1>11, <2>3, <3>1
      <4>2. Sync!Answered(w)'
        BY <1>4, <3>1, <4>1 DEF Sync!Answered
      <4>3. r1[o].state = "IN_FLIGHT"
        BY <1>1, <1>6 DEF Sync!WorkersStand
      <4>4. \A v \in Workers : Sync!Holds(v, Sync!Create)' => v = w
        BY <1>1, <1>5, <1>6, <1>10, <3>1 DEF Sync!WorkersStand
      <4> QED BY <1>2, <3>1, <4>2, <4>3, <4>4
    <3>2. CASE o # Sync!Create
      <4>1. r2.fulfillments > r6.lost
        BY <1>1, <1>8, <1>9, <2>3, <3>2
      <4>2. \A v \in Workers : Sync!Answered(v) => Sync!Answered(v)'
        BY <1>4, <1>6 DEF Sync!Answered
      <4> QED BY <1>1, <1>2, <1>5, <1>10, <4>1, <4>2 DEF Sync!CreateStands
    <3> QED BY <3>1, <3>2
  <2> QED BY <2>2, <2>3 DEF Sync!CreateStands
<1>16. \A v \in Workers : r3'[v].pc = "file" \/ r3[v].pc = "file" => r3'[v] = r3[v]
  BY <1>2, <1>4
<1>17. Sync!FilingStands'
  BY <1>1, <1>2, <1>8, <1>16 DEF Sync!FilingStands
<1>18. Sync!DeadIsFiled'
  <2> SUFFICES ASSUME NEW p \in Sync!Ops
               PROVE  /\ r1'[p].state = "DEAD" /\ r6'.crashes = 0 /\ p \notin r6'.late
                           => p \in r5' \/ \E v \in Workers : r3'[v].op = p /\ r3'[v].pc = "file"
                      /\ p \in r5' => r1'[p].state = "DEAD" \/ r6'.replays > 0
    BY DEF Sync!DeadIsFiled
  <2> QED BY <1>1, <1>2, <1>8, <1>16 DEF Sync!DeadIsFiled
<1> QED BY <1>2, <1>7, <1>8, <1>9, <1>12, <1>14, <1>15, <1>17, <1>18, SyncSays DEF Sync!SyncInv

\* What gave up is filed, or its worker dies first.
LEMMA WorkersLeave ==
  ASSUME Sync!SyncInv, NEW w \in Workers, Sync!FileDlqItem(w) \/ Sync!Crash(w)
  PROVE  Sync!SyncInv'
<1>1. /\ Sync!WorkersStand /\ Sync!CreateStands /\ Sync!FilingStands
      /\ Sync!OneFulfillment /\ Sync!EventsFollowCreate /\ Sync!DeadIsFiled
      /\ r3 \in [Workers -> [batch : SUBSET Sync!Ops, op : Sync!Ops \cup {"none"},
                             pc : {"idle", "ok", "error", "file"}]]
      /\ r6 \in [crashes : Nat, lost : Nat, replays : Nat, late : SUBSET Sync!Ops]
  BY SyncSays
<1>2. /\ r3' \in [Workers -> [batch : SUBSET Sync!Ops, op : Sync!Ops \cup {"none"},
                              pc : {"idle", "ok", "error", "file"}]]
      /\ \A v \in Workers : v # w => r3'[v] = r3[v]
      /\ r3'[w].pc = "idle" /\ UNCHANGED <<r1, r2>>
      /\ \A p \in Sync!Ops : p \in r3'[w].batch => Sync!Holds(w, p)
  <2>1. CASE Sync!FileDlqItem(w)
    <3>1. Sync!Put(w, r3[w].op) /\ r3[w].pc = "file" /\ UNCHANGED <<r1, r2>>
      BY <2>1 DEF Sync!FileDlqItem
    <3>2. r3[w].op \in Sync!Ops /\ r3[w].op \in r3[w].batch
      BY <1>1, <3>1 DEF Sync!WorkersStand
    <3> QED BY <3>1, <3>2, PutDown DEF Sync!Holds
  <2>2. CASE Sync!Crash(w)
    <3>1. r3' = [r3 EXCEPT ![w] = Sync!Resting] /\ UNCHANGED <<r1, r2>>
      BY <2>2 DEF Sync!Crash
    <3> QED BY <1>1, <3>1 DEF Sync!Resting
  <2> QED BY <2>1, <2>2
<1>3. /\ r6' \in [crashes : Nat, lost : Nat, replays : Nat, late : SUBSET Sync!Ops]
      /\ r6'.lost = r6.lost /\ r6'.replays = r6.replays /\ r6'.late = r6.late
      /\ \/ Sync!FileDlqItem(w) /\ r6'.crashes = r6.crashes /\ r5' = r5 \cup {r3[w].op} /\ r3[w].pc = "file"
         \/ r6'.crashes > 0 /\ r5' = r5
  BY <1>1 DEF Sync!FileDlqItem, Sync!Crash
<1>4. \A v \in Workers, p \in Sync!Ops : Sync!Holds(v, p)' => Sync!Holds(v, p)
  BY <1>2 DEF Sync!Holds
<1>5. \A v \in Workers : Sync!Answered(v)' <=> Sync!Answered(v) /\ v # w
  BY <1>2 DEF Sync!Answered
<1>6. Sync!WorkersStand'
  <2>1. \A v \in Workers : r3'[v].pc # "idle" => r3'[v].op \in r3'[v].batch
    BY <1>1, <1>2 DEF Sync!WorkersStand
  <2>2. \A v \in Workers, p \in Sync!Ops : Sync!Holds(v, p)' => r1'[p].state = "IN_FLIGHT"
    BY <1>1, <1>2, <1>4 DEF Sync!WorkersStand
  <2>3. \A u, v \in Workers, p \in Sync!Ops : Sync!Holds(u, p)' /\ Sync!Holds(v, p)' => u = v
    BY <1>1, <1>4 DEF Sync!WorkersStand
  <2> QED BY <1>2, <2>1, <2>2, <2>3 DEF Sync!WorkersStand
<1>7. Sync!Create \in Sync!Ops
  BY DEF Sync!Ops
<1>8. Sync!CreateStands'
  <2>1. Sync!Answered(w) => ~Sync!Holds(w, Sync!Create)'
    <3>1. CASE Sync!FileDlqItem(w)
      BY <3>1 DEF Sync!FileDlqItem, Sync!Answered
    <3>2. CASE Sync!Crash(w)
      <4>1. r3' = [r3 EXCEPT ![w] = Sync!Resting]
        BY <3>2 DEF Sync!Crash
      <4> QED BY <1>1, <4>1 DEF Sync!Resting, Sync!Holds
    <3> QED BY <3>1, <3>2
  <2> QED BY <1>1, <1>2, <1>3, <1>4, <1>5, <1>7, <2>1 DEF Sync!CreateStands
<1>9. Sync!FilingStands'
  BY <1>1, <1>2, <1>3 DEF Sync!FilingStands
<1>10. Sync!OneFulfillment' /\ Sync!EventsFollowCreate'
  BY <1>1, <1>2, <1>3 DEF Sync!OneFulfillment, Sync!EventsFollowCreate
<1>11. Sync!DeadIsFiled'
  <2> SUFFICES ASSUME NEW p \in Sync!Ops
               PROVE  /\ r1'[p].state = "DEAD" /\ r6'.crashes = 0 /\ p \notin r6'.late
                           => p \in r5' \/ \E v \in Workers : r3'[v].op = p /\ r3'[v].pc = "file"
                      /\ p \in r5' => r1'[p].state = "DEAD" \/ r6'.replays > 0
    BY DEF Sync!DeadIsFiled
  <2>1. r1'[p] = r1[p]
    BY <1>2
  <2>2. p \in r5' => r1[p].state = "DEAD" \/ r6.replays > 0
    BY <1>1, <1>3 DEF Sync!DeadIsFiled, Sync!FilingStands
  <2>3. r1[p].state = "DEAD" /\ r6'.crashes = 0 /\ p \notin r6'.late
          => p \in r5' \/ \E v \in Workers : r3'[v].op = p /\ r3'[v].pc = "file"
    BY <1>1, <1>2, <1>3 DEF Sync!DeadIsFiled
  <2> QED BY <1>3, <2>1, <2>2, <2>3
<1> QED BY <1>2, <1>3, <1>6, <1>8, <1>9, <1>10, <1>11, SyncSays DEF Sync!SyncInv

\* The close takes an item away: of a row that is DEAD again, it is a late one.
LEMMA ItemCloses ==
  ASSUME Sync!SyncInv, NEW o \in Sync!Ops, NEW a, Sync!CloseItem(a, o)
  PROVE  Sync!SyncInv'
<1>1. /\ Sync!WorkersStand /\ Sync!CreateStands /\ Sync!FilingStands
      /\ Sync!OneFulfillment /\ Sync!EventsFollowCreate /\ Sync!DeadIsFiled
      /\ r6 \in [crashes : Nat, lost : Nat, replays : Nat, late : SUBSET Sync!Ops]
  BY SyncSays
<1>2. UNCHANGED <<r1, r2, r3>> /\ r5' = r5 \ {o}
  BY DEF Sync!CloseItem
<1>3. /\ r6' \in [crashes : Nat, lost : Nat, replays : Nat, late : SUBSET Sync!Ops]
      /\ r6'.crashes = r6.crashes /\ r6'.lost = r6.lost /\ r6'.replays = r6.replays
      /\ r6'.late = IF o \in r5 /\ r1[o].state = "DEAD" THEN r6.late \cup {o} ELSE r6.late
  BY <1>1 DEF Sync!CloseItem
<1>4. Sync!WorkersStand' /\ Sync!CreateStands' /\ Sync!FilingStands'
  BY <1>1, <1>2, <1>3 DEF Sync!WorkersStand, Sync!Holds, Sync!CreateStands, Sync!Answered, Sync!FilingStands
<1>5. Sync!OneFulfillment' /\ Sync!EventsFollowCreate'
  BY <1>1, <1>2, <1>3 DEF Sync!OneFulfillment, Sync!EventsFollowCreate
<1>6. Sync!DeadIsFiled'
  <2> SUFFICES ASSUME NEW p \in Sync!Ops
               PROVE  /\ r1'[p].state = "DEAD" /\ r6'.crashes = 0 /\ p \notin r6'.late
                           => p \in r5' \/ \E v \in Workers : r3'[v].op = p /\ r3'[v].pc = "file"
                      /\ p \in r5' => r1'[p].state = "DEAD" \/ r6'.replays > 0
    BY DEF Sync!DeadIsFiled
  <2> QED BY <1>1, <1>2, <1>3 DEF Sync!DeadIsFiled
<1> QED BY <1>2, <1>3, <1>4, <1>5, <1>6, SyncSays DEF Sync!SyncInv

LEMMA SyncIdles ==
  ASSUME Sync!SyncInv, UNCHANGED <<r1, r2, r3, r5, r6>>
  PROVE  Sync!SyncInv'
BY DEF Sync!SyncInv, Sync!WorkersStand, Sync!Holds, Sync!CreateStands, Sync!Answered, Sync!FilingStands,
       Sync!OneFulfillment, Sync!EventsFollowCreate, Sync!DeadIsFiled

LEMMA SyncKept ==
  ASSUME Sync!SyncInv, [Sync!Next]_<<r1, r2, r3, r4, r5, r6, r7>>
  PROVE  Sync!SyncInv'
<1>1. CASE UNCHANGED <<r1, r2, r3, r4, r5, r6, r7>>
  BY <1>1, SyncIdles
<1>2. CASE Sync!NextWindow
  BY <1>2, SyncIdles DEF Sync!NextWindow
<1>3. ASSUME NEW o \in Sync!Ops, NEW a, Sync!ReadDead(a, o) \/ Sync!MissRow(a, o) PROVE Sync!SyncInv'
  BY <1>3, SyncIdles DEF Sync!ReadDead, Sync!MissRow
<1> QED BY <1>1, <1>2, <1>3, RowsBegin, ItemCloses, BatchClaimed, WorkersPutDown, RowsFail, RowExecuted, WorkersLeave DEF Sync!Next

----------------------------------------------------------------------------
(* Intake.  r1 are the grants, r2 the shop, r3 the inbox, r4 the requests. *)

\* What may become of a shop.
TenantGrows ==
  /\ r2' \in [row : BOOLEAN, seeds : [Arrival!Kinds -> {"none", "seed", "edited"}], edited : SUBSET Arrival!Kinds,
              trials : Nat, subs : [Topics -> {"none", "ours", "stale"}]]
  /\ \A k \in Arrival!Kinds : r2.seeds[k] # "none" => r2'.seeds[k] # "none"
  /\ r2'.trials >= r2.trials
  /\ \A k \in r2'.edited : r2'.seeds[k] = "edited"

LEMMA IntakeSays ==
  ASSUME Arrival!IntakeInv
  PROVE  /\ r2 \in [row : BOOLEAN, seeds : [Arrival!Kinds -> {"none", "seed", "edited"}],
                    edited : SUBSET Arrival!Kinds, trials : Nat, subs : [Topics -> {"none", "ours", "stale"}]]
         /\ Arrival!PortersStand /\ Arrival!GrantsStand /\ Arrival!LettersStand
         /\ r4 \in [Workers -> [pc : {"free"} \cup Arrival!Installing \cup Arrival!Receiving,
                                of : {"none"} \cup Nonces \cup Events, left : SUBSET Topics,
                                seen : SUBSET (Topics \X {"none", "ours", "stale"})]]
         /\ r1 \in [Nonces -> [nonce : {"none", "live", "spent"}, token : {"none", "live", "spent"}, opened : {0, 1}]]
         /\ r3 \in [Events -> [state : {"none", "RECEIVED", "PROCESSED", "FAILED"}, runs : {0, 1},
                               acks : {"none", "unknown", "stored"}]]
         /\ \A n \in Nonces : r1[n].token # "none" =>
              r2.trials > 0 /\ \A k \in Arrival!Kinds : r2.seeds[k] # "none"
         /\ \A k \in r2.edited : r2.seeds[k] = "edited"
BY DEF Arrival!IntakeInv, Arrival!PortersStand, Arrival!GrantsStand, Arrival!LettersStand, Arrival!IntakeStands

LEMMA IntakeInitially == Arrival!Init => Arrival!IntakeInv
<1> SUFFICES ASSUME Arrival!Init PROVE Arrival!IntakeInv
  OBVIOUS
<1>1. /\ r1 = [n \in Nonces |-> [nonce |-> "none", token |-> "none", opened |-> 0]]
      /\ r2 = [row |-> FALSE, seeds |-> [k \in Arrival!Kinds |-> "none"], edited |-> {}, trials |-> 0,
               subs |-> [t \in Topics |-> "none"]]
      /\ r3 = [e \in Events |-> [state |-> "none", runs |-> 0, acks |-> "none"]]
      /\ r4 = [h \in Workers |-> Arrival!Free]
  BY DEF Arrival!Init
<1>2. r2 \in [row : BOOLEAN, seeds : [Arrival!Kinds -> {"none", "seed", "edited"}],
              edited : SUBSET Arrival!Kinds, trials : Nat, subs : [Topics -> {"none", "ours", "stale"}]]
  BY <1>1
<1>3. \A h \in Workers : r4[h].pc = "free" /\ r4[h].of = "none" /\ r4[h].left = {} /\ r4[h].seen = {}
  BY <1>1 DEF Arrival!Free
<1>4. Arrival!PortersStand
  <2>1. Arrival!SeededBy("free") = {}
    BY DEF Arrival!SeededBy
  <2>2. r4 \in [Workers -> [pc : {"free"} \cup Arrival!Installing \cup Arrival!Receiving,
                            of : {"none"} \cup Nonces \cup Events, left : SUBSET Topics,
                            seen : SUBSET (Topics \X {"none", "ours", "stale"})]]
    BY <1>1 DEF Arrival!Free
  <2> QED BY <1>3, <2>1, <2>2 DEF Arrival!PortersStand, Arrival!Installing, Arrival!Receiving
<1>5. Arrival!GrantsStand
  BY <1>1, <1>3 DEF Arrival!GrantsStand, Arrival!Installing
<1>6. Arrival!LettersStand
  BY <1>1, <1>3 DEF Arrival!LettersStand, Arrival!Receiving
<1>7. Arrival!IntakeStands
  BY <1>1 DEF Arrival!IntakeStands
<1> QED BY <1>2, <1>4, <1>5, <1>6, <1>7 DEF Arrival!IntakeInv

\* The pieces of a step: a request that moved, and what it left behind.
LEMMA IntakeMoves ==
  ASSUME Arrival!IntakeInv, TenantGrows,
         Arrival!PortersStand', Arrival!GrantsStand', Arrival!LettersStand',
         \A n \in Nonces : r1'[n].token # "none" =>
           r2'.trials > 0 /\ \A k \in Arrival!Kinds : r2'.seeds[k] # "none"
  PROVE  Arrival!IntakeInv'
<1>1. /\ r2' \in [row : BOOLEAN, seeds : [Arrival!Kinds -> {"none", "seed", "edited"}],
                  edited : SUBSET Arrival!Kinds, trials : Nat, subs : [Topics -> {"none", "ours", "stale"}]]
      /\ \A k \in r2'.edited : r2'.seeds[k] = "edited"
  BY DEF TenantGrows
<1>2. \A n \in Nonces : r1'[n].opened <= 1
  BY DEF Arrival!GrantsStand
<1>3. \A e \in Events : /\ r3'[e].acks = "stored" => r3'[e].state # "none"
                        /\ r3'[e].runs <= 1
                        /\ r3'[e].state = "PROCESSED" => r3'[e].runs = 1
  BY DEF Arrival!LettersStand
<1>4. Arrival!IntakeStands'
  BY <1>1, <1>2, <1>3 DEF Arrival!IntakeStands
<1> QED BY <1>1, <1>4 DEF Arrival!IntakeInv

LEMMA TenantStays ==
  ASSUME Arrival!IntakeInv, r2' = r2
  PROVE  TenantGrows
<1>1. r2.trials \in Nat
  BY IntakeSays
<1> QED BY <1>1, IntakeSays DEF TenantGrows

\* The seeds that were there are there when the shop has grown.
LEMMA SeedsStay ==
  ASSUME Arrival!IntakeInv, TenantGrows
  PROVE  /\ \A n \in Nonces : r1[n].token # "none" =>
              r2'.trials > 0 /\ \A k \in Arrival!Kinds : r2'.seeds[k] # "none"
         /\ \A h \in Workers : \A k \in Arrival!SeededBy(r4[h].pc) : r2'.seeds[k] # "none"
         /\ \A h \in Workers : r4[h].pc \in {"subscribe", "topics", "mint"} => r2'.trials > 0
<1>1. \A h \in Workers : /\ \A k \in Arrival!SeededBy(r4[h].pc) : r2.seeds[k] # "none"
                         /\ r4[h].pc \in {"subscribe", "topics", "mint"} => r2.trials > 0
  BY IntakeSays DEF Arrival!PortersStand
<1>2. \A pc : Arrival!SeededBy(pc) \subseteq Arrival!Kinds
  BY DEF Arrival!SeededBy, Arrival!Kinds
<1>3. r2.trials \in Nat /\ r2'.trials \in Nat /\ r2'.trials >= r2.trials
  BY IntakeSays DEF TenantGrows
<1>4. \A n \in Nonces : r1[n].token # "none" =>
        r2.trials > 0 /\ \A k \in Arrival!Kinds : r2.seeds[k] # "none"
  BY IntakeSays
<1>5. r2.trials > 0 => r2'.trials > 0
  BY <1>3
<1>6. \A k \in Arrival!Kinds : r2.seeds[k] # "none" => r2'.seeds[k] # "none"
  BY DEF TenantGrows
<1> QED BY <1>1, <1>2, <1>4, <1>5, <1>6

\* One request moved.
LEMMA PorterMoves ==
  ASSUME Arrival!IntakeInv, TenantGrows, NEW h \in Workers,
         r4' \in [Workers -> [pc : {"free"} \cup Arrival!Installing \cup Arrival!Receiving,
                              of : {"none"} \cup Nonces \cup Events, left : SUBSET Topics,
                              seen : SUBSET (Topics \X {"none", "ours", "stale"})]],
         \A g \in Workers : g # h => r4'[g] = r4[g],
         r4'[h].pc \in Arrival!Installing => r4'[h].of \in Nonces,
         r4'[h].pc \in Arrival!Receiving => r4'[h].of \in Events,
         \A k \in Arrival!SeededBy(r4'[h].pc) : r2'.seeds[k] # "none",
         r4'[h].pc \in {"subscribe", "topics", "mint"} => r2'.trials > 0
  PROVE  Arrival!PortersStand'
<1> SUFFICES ASSUME NEW g \in Workers
             PROVE  /\ r4'[g].pc \in Arrival!Installing => r4'[g].of \in Nonces
                    /\ r4'[g].pc \in Arrival!Receiving => r4'[g].of \in Events
                    /\ \A k \in Arrival!SeededBy(r4'[g].pc) : r2'.seeds[k] # "none"
                    /\ r4'[g].pc \in {"subscribe", "topics", "mint"} => r2'.trials > 0
  BY DEF Arrival!PortersStand
<1>1. CASE g = h
  BY <1>1
<1>2. CASE g # h
  <2>1. r4'[g] = r4[g]
    BY <1>2
  <2>2. /\ r4[g].pc \in Arrival!Installing => r4[g].of \in Nonces
        /\ r4[g].pc \in Arrival!Receiving => r4[g].of \in Events
    BY IntakeSays DEF Arrival!PortersStand
  <2> QED BY <2>1, <2>2, SeedsStay
<1> QED BY <1>1, <1>2

LEMMA GrantsWait ==
  ASSUME Arrival!IntakeInv, r1' = r1,
         \A g \in Workers : r4'[g].pc \in Arrival!Installing =>
           r4[g].pc \in Arrival!Installing /\ r4'[g].of = r4[g].of
  PROVE  Arrival!GrantsStand'
BY IntakeSays DEF Arrival!GrantsStand

LEMMA LettersWait ==
  ASSUME Arrival!IntakeInv, r3' = r3,
         \A g \in Workers : r4'[g].pc \in Arrival!Receiving =>
           r4'[g].pc = r4[g].pc /\ r4'[g].of = r4[g].of
  PROVE  Arrival!LettersStand'
BY IntakeSays DEF Arrival!LettersStand

LEMMA InstallAdvances ==
  ASSUME Arrival!IntakeInv, TenantGrows, NEW h \in Workers, UNCHANGED <<r1, r3>>,
         r4' \in [Workers -> [pc : {"free"} \cup Arrival!Installing \cup Arrival!Receiving,
                              of : {"none"} \cup Nonces \cup Events, left : SUBSET Topics,
                              seen : SUBSET (Topics \X {"none", "ours", "stale"})]],
         \A g \in Workers : g # h => r4'[g] = r4[g],
         r4[h].pc \in Arrival!Installing, r4'[h].pc \in Arrival!Installing, r4'[h].of = r4[h].of,
         \A k \in Arrival!SeededBy(r4'[h].pc) : r2'.seeds[k] # "none",
         r4'[h].pc \in {"subscribe", "topics", "mint"} => r2'.trials > 0
  PROVE  Arrival!IntakeInv'
<1>1. r4[h].of \in Nonces
  BY IntakeSays DEF Arrival!PortersStand
<1>2. \A pc \in Arrival!Receiving : pc \notin Arrival!Installing
  BY DEF Arrival!Receiving, Arrival!Installing
<1>3. Arrival!PortersStand'
  BY <1>1, <1>2, PorterMoves
<1>4. Arrival!GrantsStand'
  BY GrantsWait
<1>5. Arrival!LettersStand'
  <2>1. \A g \in Workers : r4'[g].pc \in Arrival!Receiving => g # h
    BY <1>2
  <2> QED BY <2>1, LettersWait
<1> QED BY <1>3, <1>4, <1>5, SeedsStay, IntakeMoves

\* The shop's row, its seeds in their order, the trial and the subscriptions.
LEMMA InstallGoesOn ==
  ASSUME Arrival!IntakeInv, NEW h \in Workers,
         \/ Arrival!UpsertShop(h) \/ (\E k \in Arrival!Kinds : Arrival!Seed(h, k))
         \/ Arrival!SeedTrial(h) \/ Arrival!ReadExisting(h)
         \/ (\E t \in Topics : Arrival!SyncTopic(h, t)) \/ Arrival!GoesOn(h)
  PROVE  Arrival!IntakeInv'
<1>1. /\ r2 \in [row : BOOLEAN, seeds : [Arrival!Kinds -> {"none", "seed", "edited"}],
                 edited : SUBSET Arrival!Kinds, trials : Nat, subs : [Topics -> {"none", "ours", "stale"}]]
      /\ r4 \in [Workers -> [pc : {"free"} \cup Arrival!Installing \cup Arrival!Receiving,
                             of : {"none"} \cup Nonces \cup Events, left : SUBSET Topics,
                             seen : SUBSET (Topics \X {"none", "ours", "stale"})]]
      /\ \A k \in r2.edited : r2.seeds[k] = "edited"
  BY IntakeSays
<1>2. \A k \in Arrival!SeededBy(r4[h].pc) : r2.seeds[k] # "none"
  BY IntakeSays DEF Arrival!PortersStand
<1>3. r4[h].pc \in {"subscribe", "topics", "mint"} => r2.trials > 0
  BY IntakeSays DEF Arrival!PortersStand
<1>4. /\ Arrival!SeededBy("settings") = {} /\ Arrival!SeededBy("sync") = {"settings"}
      /\ Arrival!SeededBy("profile") = {"settings", "sync"}
      /\ Arrival!SeededBy("trial") = Arrival!Kinds /\ Arrival!SeededBy("subscribe") = Arrival!Kinds
      /\ Arrival!SeededBy("topics") = Arrival!Kinds /\ Arrival!SeededBy("mint") = Arrival!Kinds
  BY DEF Arrival!SeededBy
<1>5. Arrival!Kinds = {"settings", "sync", "profile"}
  BY DEF Arrival!Kinds
<1>6. {"exchange", "settings", "sync", "profile", "trial", "subscribe", "topics", "mint"} = Arrival!Installing
  BY DEF Arrival!Installing
<1>7. CASE Arrival!UpsertShop(h)
  <2>1. /\ r4[h].pc = "exchange" /\ r2' = [r2 EXCEPT !.row = TRUE]
        /\ r4' = [r4 EXCEPT ![h].pc = "settings"] /\ UNCHANGED <<r1, r3>>
    BY <1>7 DEF Arrival!UpsertShop, Arrival!At
  <2>2. TenantGrows
    <3>1. /\ r2' \in [row : BOOLEAN, seeds : [Arrival!Kinds -> {"none", "seed", "edited"}],
                      edited : SUBSET Arrival!Kinds, trials : Nat, subs : [Topics -> {"none", "ours", "stale"}]]
          /\ r2'.seeds = r2.seeds /\ r2'.trials = r2.trials /\ r2'.edited = r2.edited
      BY <1>1, <2>1, Zenon
    <3>2. r2'.trials >= r2.trials
      BY <3>1
    <3> QED BY <1>1, <3>1, <3>2 DEF TenantGrows
  <2> QED BY <1>1, <1>4, <1>6, <2>1, <2>2, InstallAdvances
<1>8. ASSUME NEW k \in Arrival!Kinds, Arrival!Seed(h, k) PROVE Arrival!IntakeInv'
  <2>1. /\ r4[h].pc = k /\ UNCHANGED <<r1, r3>>
        /\ r2' = IF r2.seeds[k] = "none" THEN [r2 EXCEPT !.seeds[k] = "seed"] ELSE r2
        /\ r4' = [r4 EXCEPT ![h].pc = Arrival!AfterSeed[k]]
    BY <1>8 DEF Arrival!Seed, Arrival!At, Arrival!Goto, Arrival!Absent
  <2>2. TenantGrows /\ r2'.seeds[k] # "none"
    <3>1. CASE r2.seeds[k] # "none"
      BY <2>1, <3>1, TenantStays
    <3>2. CASE r2.seeds[k] = "none"
      <4>1. r2' = [r2 EXCEPT !.seeds[k] = "seed"]
        BY <2>1, <3>2
      <4>2. /\ r2' \in [row : BOOLEAN, seeds : [Arrival!Kinds -> {"none", "seed", "edited"}],
                        edited : SUBSET Arrival!Kinds, trials : Nat, subs : [Topics -> {"none", "ours", "stale"}]]
            /\ r2'.trials = r2.trials /\ r2'.edited = r2.edited
        BY <1>1, <4>1, Zenon
      <4>3. r2'.seeds[k] = "seed" /\ \A j \in Arrival!Kinds : j # k => r2'.seeds[j] = r2.seeds[j]
        BY <1>1, <4>1
      <4>4. r2'.trials >= r2.trials
        BY <4>2
      <4>5. \A j \in r2.edited : j \in Arrival!Kinds /\ j # k
        BY <1>1, <3>2
      <4> QED BY <1>1, <4>2, <4>3, <4>4, <4>5 DEF TenantGrows
    <3> QED BY <2>1, <3>1, <3>2
  <2>3. /\ k = "settings" => Arrival!AfterSeed[k] = "sync"
        /\ k = "sync" => Arrival!AfterSeed[k] = "profile"
        /\ k = "profile" => Arrival!AfterSeed[k] = "trial"
    BY DEF Arrival!AfterSeed
  <2>4. \A j \in Arrival!SeededBy(r4[h].pc) : r2'.seeds[j] # "none"
    BY <2>2, SeedsStay
  <2>5. \A j \in Arrival!SeededBy(Arrival!AfterSeed[k]) : r2'.seeds[j] # "none"
    BY <1>4, <1>5, <2>1, <2>2, <2>3, <2>4
  <2>6. Arrival!AfterSeed[k] \in {"sync", "profile", "trial"}
    BY <1>5, <2>3
  <2>7. /\ r4' \in [Workers -> [pc : {"free"} \cup Arrival!Installing \cup Arrival!Receiving,
                              of : {"none"} \cup Nonces \cup Events, left : SUBSET Topics,
                              seen : SUBSET (Topics \X {"none", "ours", "stale"})]]
        /\ \A g \in Workers : g # h => r4'[g] = r4[g]
        /\ r4'[h].pc = Arrival!AfterSeed[k] /\ r4'[h].of = r4[h].of
    BY <1>1, <1>6, <2>1, <2>6
  <2> QED BY <1>5, <1>6, <2>1, <2>2, <2>5, <2>6, <2>7, InstallAdvances
<1>9. CASE Arrival!SeedTrial(h)
  <2>1. /\ r4[h].pc = "trial" /\ r2' = [r2 EXCEPT !.trials = @ + 1]
        /\ r4' = [r4 EXCEPT ![h].pc = "subscribe"] /\ UNCHANGED <<r1, r3>>
    BY <1>9 DEF Arrival!SeedTrial, Arrival!At, Arrival!Goto
  <2>2. TenantGrows /\ r2'.trials > 0
    BY <1>1, <2>1 DEF TenantGrows
  <2>3. \A j \in Arrival!SeededBy(r4[h].pc) : r2'.seeds[j] # "none"
    BY <2>2, SeedsStay
  <2> QED BY <1>1, <1>4, <1>6, <2>1, <2>2, <2>3, InstallAdvances
<1>10. CASE Arrival!ReadExisting(h)
  <2> DEFINE read == {<<t, r2.subs[t]>> : t \in Topics}
  <2>1. /\ r4[h].pc = "subscribe" /\ r2' = r2 /\ UNCHANGED <<r1, r3>>
        /\ r4' = [r4 EXCEPT ![h] = [r4[h] EXCEPT !.pc = "topics", !.left = Topics, !.seen = read]]
    BY <1>10 DEF Arrival!ReadExisting, Arrival!At
  <2>2. TenantGrows
    BY <2>1, TenantStays
  <2>3. read \in SUBSET (Topics \X {"none", "ours", "stale"})
    BY <1>1
  <2> HIDE DEF read
  <2> DEFINE moved == [r4[h] EXCEPT !.pc = "topics", !.left = Topics, !.seen = read]
  <2>5. /\ moved \in [pc : {"topics"}, of : {"none"} \cup Nonces \cup Events, left : SUBSET Topics,
                      seen : SUBSET (Topics \X {"none", "ours", "stale"})]
        /\ moved.of = r4[h].of
    <3>1. r4[h] \in [pc : {"free"} \cup Arrival!Installing \cup Arrival!Receiving,
                     of : {"none"} \cup Nonces \cup Events, left : SUBSET Topics,
                     seen : SUBSET (Topics \X {"none", "ours", "stale"})]
      BY <1>1
    <3>2. {} \subseteq Topics \X {"none", "ours", "stale"}
      OBVIOUS
    <3> QED BY <3>1, <3>2, <2>3, Zenon
  <2>6. r4' = [r4 EXCEPT ![h] = moved]
    BY <2>1
  <2> HIDE DEF moved
  <2>4. /\ r4' \in [Workers -> [pc : {"free"} \cup Arrival!Installing \cup Arrival!Receiving,
                              of : {"none"} \cup Nonces \cup Events, left : SUBSET Topics,
                              seen : SUBSET (Topics \X {"none", "ours", "stale"})]]
        /\ \A g \in Workers : g # h => r4'[g] = r4[g]
        /\ r4'[h].pc = "topics" /\ r4'[h].of = r4[h].of
    BY <1>1, <1>6, <2>5, <2>6
  <2> QED BY <1>2, <1>3, <1>4, <1>6, <2>1, <2>2, <2>4, InstallAdvances
<1>11. ASSUME NEW t \in Topics, Arrival!SyncTopic(h, t) PROVE Arrival!IntakeInv'
  <2>1. /\ r4[h].pc = "topics" /\ UNCHANGED <<r1, r3>>
        /\ r2' = [r2 EXCEPT !.subs[t] = "ours"] \/ r2' = r2
        /\ r4' = [r4 EXCEPT ![h].left = @ \ {t}]
    BY <1>11 DEF Arrival!SyncTopic, Arrival!At
  <2>2. TenantGrows
    <3>1. CASE r2' = r2
      BY <3>1, TenantStays
    <3>2. CASE r2' = [r2 EXCEPT !.subs[t] = "ours"]
      BY <1>1, <3>2 DEF TenantGrows
    <3> QED BY <2>1, <3>1, <3>2
  <2>3. /\ r4' \in [Workers -> [pc : {"free"} \cup Arrival!Installing \cup Arrival!Receiving,
                              of : {"none"} \cup Nonces \cup Events, left : SUBSET Topics,
                              seen : SUBSET (Topics \X {"none", "ours", "stale"})]]
        /\ \A g \in Workers : g # h => r4'[g] = r4[g]
        /\ r4'[h].pc = "topics" /\ r4'[h].of = r4[h].of
    BY <1>1, <2>1
  <2>4. /\ \A j \in Arrival!SeededBy(r4[h].pc) : r2'.seeds[j] # "none"
        /\ r2'.trials > 0
    BY <2>1, <2>2, SeedsStay
  <2> QED BY <1>6, <2>1, <2>2, <2>3, <2>4, InstallAdvances
<1>12. CASE Arrival!GoesOn(h)
  <2>1. /\ r4[h].pc \in {"subscribe", "topics"} /\ r2' = r2 /\ UNCHANGED <<r1, r3>>
        /\ r4' = [r4 EXCEPT ![h] = [r4[h] EXCEPT !.pc = "mint", !.left = {}, !.seen = {}]]
    BY <1>12 DEF Arrival!GoesOn, Arrival!At
  <2>2. TenantGrows
    BY <2>1, TenantStays
  <2> DEFINE moved == [r4[h] EXCEPT !.pc = "mint", !.left = {}, !.seen = {}]
  <2>4. /\ moved \in [pc : {"mint"}, of : {"none"} \cup Nonces \cup Events, left : SUBSET Topics,
                      seen : SUBSET (Topics \X {"none", "ours", "stale"})]
        /\ moved.of = r4[h].of
    <3>1. r4[h] \in [pc : {"free"} \cup Arrival!Installing \cup Arrival!Receiving,
                     of : {"none"} \cup Nonces \cup Events, left : SUBSET Topics,
                     seen : SUBSET (Topics \X {"none", "ours", "stale"})]
      BY <1>1
    <3>2. {} \subseteq Topics \X {"none", "ours", "stale"}
      OBVIOUS
    <3> QED BY <3>1, <3>2, Zenon
  <2>5. r4' = [r4 EXCEPT ![h] = moved]
    BY <2>1
  <2> HIDE DEF moved
  <2>3. /\ r4' \in [Workers -> [pc : {"free"} \cup Arrival!Installing \cup Arrival!Receiving,
                              of : {"none"} \cup Nonces \cup Events, left : SUBSET Topics,
                              seen : SUBSET (Topics \X {"none", "ours", "stale"})]]
        /\ \A g \in Workers : g # h => r4'[g] = r4[g]
        /\ r4'[h].pc = "mint" /\ r4'[h].of = r4[h].of
    BY <1>1, <1>6, <2>4, <2>5
  <2> QED BY <1>2, <1>3, <1>4, <1>6, <2>1, <2>2, <2>3, InstallAdvances
<1> QED BY <1>7, <1>8, <1>9, <1>10, <1>11, <1>12

\* Nobody moved.
LEMMA PortersWait ==
  ASSUME Arrival!IntakeInv, TenantGrows, r4' = r4
  PROVE  Arrival!PortersStand'
BY IntakeSays, SeedsStay DEF Arrival!PortersStand

\* The merchant's own settings, and the app under another address.
LEMMA ShopMoves ==
  ASSUME Arrival!IntakeInv, Arrival!MoveUrl \/ \E k \in Arrival!Kinds : Arrival!Edit(k)
  PROVE  Arrival!IntakeInv'
<1>1. /\ r2 \in [row : BOOLEAN, seeds : [Arrival!Kinds -> {"none", "seed", "edited"}], edited : SUBSET Arrival!Kinds,
                 trials : Nat, subs : [Topics -> {"none", "ours", "stale"}]]
      /\ \A k \in r2.edited : r2.seeds[k] = "edited"
  BY IntakeSays
<1>2. UNCHANGED <<r1, r3, r4>>
  BY Zenon DEF Arrival!MoveUrl, Arrival!Edit
<1>3. TenantGrows
  <2>1. ASSUME NEW k \in Arrival!Kinds, Arrival!Edit(k) PROVE TenantGrows
    <3>1. r2' = [r2 EXCEPT !.seeds[k] = "edited", !.edited = @ \cup {k}]
      BY <2>1, Zenon DEF Arrival!Edit
    <3>2. /\ r2' \in [row : BOOLEAN, seeds : [Arrival!Kinds -> {"none", "seed", "edited"}],
                      edited : SUBSET Arrival!Kinds, trials : Nat, subs : [Topics -> {"none", "ours", "stale"}]]
          /\ r2'.trials = r2.trials /\ r2'.edited = r2.edited \cup {k}
      BY <1>1, <3>1, Zenon
    <3>3. r2'.seeds[k] = "edited" /\ \A j \in Arrival!Kinds : j # k => r2'.seeds[j] = r2.seeds[j]
      BY <1>1, <3>1
    <3>4. r2'.trials >= r2.trials
      BY <3>2
    <3>5. \A j \in r2.edited : j \in Arrival!Kinds
      BY <1>1
    <3> QED BY <1>1, <3>2, <3>3, <3>4, <3>5 DEF TenantGrows
  <2>2. CASE Arrival!MoveUrl
    <3> DEFINE moved == [t \in Topics |-> IF r2.subs[t] = "ours" THEN "stale" ELSE r2.subs[t]]
    <3>1. r2' = [r2 EXCEPT !.subs = moved]
      BY <2>2 DEF Arrival!MoveUrl
    <3>2. moved \in [Topics -> {"none", "ours", "stale"}]
      BY <1>1
    <3> HIDE DEF moved
    <3>3. /\ r2' \in [row : BOOLEAN, seeds : [Arrival!Kinds -> {"none", "seed", "edited"}],
                      edited : SUBSET Arrival!Kinds, trials : Nat, subs : [Topics -> {"none", "ours", "stale"}]]
          /\ r2'.seeds = r2.seeds /\ r2'.trials = r2.trials /\ r2'.edited = r2.edited
      BY <1>1, <3>1, <3>2
    <3>4. r2'.trials >= r2.trials
      BY <3>3
    <3> QED BY <1>1, <3>3, <3>4 DEF TenantGrows
  <2> QED BY <2>1, <2>2
<1>4. Arrival!GrantsStand' /\ Arrival!LettersStand'
  BY <1>2, GrantsWait, LettersWait
<1> QED BY <1>2, <1>3, <1>4, PortersWait, SeedsStay, IntakeMoves

\* An install is begun, runs out, or lets its one visitor in.
LEMMA GrantsMove ==
  ASSUME Arrival!IntakeInv, NEW n \in Nonces,
         Arrival!BeginInstall(n) \/ Arrival!Lapse(n) \/ Arrival!Enter(n)
  PROVE  Arrival!IntakeInv'
<1>1. /\ r1 \in [Nonces -> [nonce : {"none", "live", "spent"}, token : {"none", "live", "spent"}, opened : {0, 1}]]
      /\ Arrival!GrantsStand
  BY IntakeSays
<1>2. UNCHANGED <<r2, r3, r4>>
  BY DEF Arrival!BeginInstall, Arrival!Lapse, Arrival!Enter
<1>3. TenantGrows
  BY <1>2, TenantStays
<1>4. /\ r1[n].nonce # "spent" => r1[n].token = "none"
      /\ r1[n].token # "spent" => r1[n].opened = 0
  BY <1>1 DEF Arrival!GrantsStand
<1>5. /\ r1' \in [Nonces -> [nonce : {"none", "live", "spent"}, token : {"none", "live", "spent"}, opened : {0, 1}]]
      /\ \A m \in Nonces : m # n => r1'[m] = r1[m]
      /\ r1'[n].nonce # "spent" => r1'[n].token = "none"
      /\ r1'[n].token # "spent" => r1'[n].opened = 0
      /\ r1'[n].token # "none" => r1[n].token # "none"
      /\ r1[n].nonce = "spent" => r1'[n].nonce = "spent"
  <2>1. CASE Arrival!BeginInstall(n)
    <3>1. r1[n].nonce = "none" /\ r1' = [r1 EXCEPT ![n].nonce = "live"]
      BY <2>1 DEF Arrival!BeginInstall
    <3> QED BY <1>1, <1>4, <3>1
  <2>2. CASE Arrival!Lapse(n)
    <3>1. \/ r1[n].nonce = "live" /\ r1' = [r1 EXCEPT ![n].nonce = "spent"]
          \/ r1[n].token = "live" /\ r1' = [r1 EXCEPT ![n].token = "spent"]
      BY <2>2 DEF Arrival!Lapse, Arrival!Taken
    <3>2. CASE r1[n].nonce = "live" /\ r1' = [r1 EXCEPT ![n].nonce = "spent"]
      BY <1>1, <1>4, <3>2
    <3>3. CASE r1[n].token = "live" /\ r1' = [r1 EXCEPT ![n].token = "spent"]
      BY <1>1, <1>4, <3>3
    <3> QED BY <3>1, <3>2, <3>3
  <2>3. CASE Arrival!Enter(n)
    <3>1. r1[n].token = "live" /\ r1' = [r1 EXCEPT ![n].token = "spent", ![n].opened = r1[n].opened + 1]
      BY <2>3 DEF Arrival!Enter
    <3>2. r1[n].opened + 1 = 1
      BY <1>4, <3>1
    <3>3. r1' = [r1 EXCEPT ![n].token = "spent", ![n].opened = 1]
      BY <3>1, <3>2, Zenon
    <3> QED BY <1>1, <1>4, <3>1, <3>3
  <2> QED BY <2>1, <2>2, <2>3
<1>6. Arrival!GrantsStand'
  <2>1. ASSUME NEW h \in Workers, r4'[h].pc \in Arrival!Installing
        PROVE  /\ r1'[r4'[h].of].nonce = "spent" /\ r1'[r4'[h].of].token = "none"
               /\ \A g \in Workers : r4'[g].pc \in Arrival!Installing /\ r4'[g].of = r4'[h].of => g = h
    <3>1. /\ r1[r4[h].of].nonce = "spent" /\ r1[r4[h].of].token = "none"
          /\ \A g \in Workers : r4[g].pc \in Arrival!Installing /\ r4[g].of = r4[h].of => g = h
      BY <1>1, <1>2, <2>1 DEF Arrival!GrantsStand
    <3>2. r4[h].of \in Nonces
      BY <1>2, <2>1, IntakeSays DEF Arrival!PortersStand
    <3> QED BY <1>2, <1>5, <3>1, <3>2
  <2>2. \A m \in Nonces : /\ r1'[m].nonce # "spent" => r1'[m].token = "none"
                          /\ r1'[m].token # "spent" => r1'[m].opened = 0
    BY <1>1, <1>5 DEF Arrival!GrantsStand
  <2> QED BY <1>5, <2>1, <2>2 DEF Arrival!GrantsStand
<1>7. Arrival!LettersStand'
  BY <1>2, LettersWait
<1>8. \A m \in Nonces : r1'[m].token # "none" => r1[m].token # "none"
  BY <1>5
<1> QED BY <1>2, <1>3, <1>6, <1>7, <1>8, PortersWait, SeedsStay, IntakeMoves

\* A request that is free is nowhere.
LEMMA FreeIs ==
  /\ Arrival!Free.pc = "free" /\ Arrival!SeededBy("free") = {} /\ Arrival!SeededBy("exchange") = {}
  /\ Arrival!SeededBy("dispatch") = {} /\ Arrival!SeededBy("handled") = {} /\ Arrival!SeededBy("threw") = {}
  /\ Arrival!Free \in [pc : {"free"}, of : {"none"}, left : SUBSET Topics,
                       seen : SUBSET (Topics \X {"none", "ours", "stale"})]
  /\ \A pc \in Arrival!Installing : pc # "free" /\ pc \notin Arrival!Receiving
  /\ \A pc \in Arrival!Receiving : pc # "free"
<1>1. {} \subseteq Topics \X {"none", "ours", "stale"}
  OBVIOUS
<1>2. /\ Arrival!Free.pc = "free"
      /\ Arrival!Free \in [pc : {"free"}, of : {"none"}, left : SUBSET Topics,
                           seen : SUBSET (Topics \X {"none", "ours", "stale"})]
  BY <1>1 DEF Arrival!Free
<1>3. /\ Arrival!SeededBy("free") = {} /\ Arrival!SeededBy("exchange") = {}
      /\ Arrival!SeededBy("dispatch") = {} /\ Arrival!SeededBy("handled") = {} /\ Arrival!SeededBy("threw") = {}
  BY DEF Arrival!SeededBy
<1> QED BY <1>2, <1>3 DEF Arrival!Installing, Arrival!Receiving

\* A nonce is taken, and is nobody else's.
LEMMA CallbackTaken ==
  ASSUME Arrival!IntakeInv, NEW h \in Workers, NEW n \in Nonces, Arrival!HandleCallback(h, n)
  PROVE  Arrival!IntakeInv'
<1> DEFINE begun == [Arrival!Free EXCEPT !.pc = "exchange", !.of = n]
<1>1. /\ r4[h].pc = "free" /\ r1[n].nonce = "live" /\ UNCHANGED <<r2, r3>>
      /\ r1' = [r1 EXCEPT ![n].nonce = "spent"] /\ r4' = [r4 EXCEPT ![h] = begun]
  BY DEF Arrival!HandleCallback, Arrival!At, Arrival!Taken
<1>2. /\ r1 \in [Nonces -> [nonce : {"none", "live", "spent"}, token : {"none", "live", "spent"}, opened : {0, 1}]]
      /\ Arrival!GrantsStand
      /\ r4 \in [Workers -> [pc : {"free"} \cup Arrival!Installing \cup Arrival!Receiving,
                             of : {"none"} \cup Nonces \cup Events, left : SUBSET Topics,
                             seen : SUBSET (Topics \X {"none", "ours", "stale"})]]
  BY IntakeSays
<1>3. begun \in [pc : {"exchange"}, of : {n}, left : SUBSET Topics, seen : SUBSET (Topics \X {"none", "ours", "stale"})]
  BY FreeIs, Zenon
<1> HIDE DEF begun
<1>4. /\ r4' \in [Workers -> [pc : {"free"} \cup Arrival!Installing \cup Arrival!Receiving,
                              of : {"none"} \cup Nonces \cup Events, left : SUBSET Topics,
                              seen : SUBSET (Topics \X {"none", "ours", "stale"})]]
      /\ \A g \in Workers : g # h => r4'[g] = r4[g]
      /\ r4'[h].pc = "exchange" /\ r4'[h].of = n
  BY <1>1, <1>2, <1>3 DEF Arrival!Installing
<1>5. TenantGrows
  BY <1>1, TenantStays
<1>6. Arrival!PortersStand'
  <2>1. "exchange" \in Arrival!Installing /\ "exchange" \notin Arrival!Receiving
    BY DEF Arrival!Installing, Arrival!Receiving
  <2> QED BY <1>4, <1>5, <2>1, FreeIs, PorterMoves
<1>7. /\ r1' \in [Nonces -> [nonce : {"none", "live", "spent"}, token : {"none", "live", "spent"}, opened : {0, 1}]]
      /\ \A m \in Nonces : m # n => r1'[m] = r1[m]
      /\ r1'[n].nonce = "spent" /\ r1'[n].token = r1[n].token /\ r1'[n].opened = r1[n].opened
  BY <1>1, <1>2
<1>8. r1[n].token = "none"
  BY <1>1, <1>2 DEF Arrival!GrantsStand
<1>9. \A g \in Workers : r4[g].pc \in Arrival!Installing => r4[g].of # n /\ r4[g].of \in Nonces
  BY <1>1, <1>2, IntakeSays DEF Arrival!GrantsStand, Arrival!PortersStand
<1>10. Arrival!GrantsStand'
  <2>1. \A m \in Nonces : /\ r1'[m].nonce # "spent" => r1'[m].token = "none"
                          /\ r1'[m].token # "spent" => r1'[m].opened = 0
    BY <1>2, <1>7 DEF Arrival!GrantsStand
  <2>2. ASSUME NEW f \in Workers, r4'[f].pc \in Arrival!Installing
        PROVE  /\ r1'[r4'[f].of].nonce = "spent" /\ r1'[r4'[f].of].token = "none"
               /\ \A g \in Workers : r4'[g].pc \in Arrival!Installing /\ r4'[g].of = r4'[f].of => g = f
    <3>1. CASE f = h
      BY <1>4, <1>7, <1>8, <1>9, <3>1
    <3>2. CASE f # h
      <4>1. /\ r1[r4[f].of].nonce = "spent" /\ r1[r4[f].of].token = "none"
            /\ \A g \in Workers : r4[g].pc \in Arrival!Installing /\ r4[g].of = r4[f].of => g = f
        BY <1>2, <1>4, <2>2, <3>2 DEF Arrival!GrantsStand
      <4> QED BY <1>4, <1>7, <1>9, <2>2, <3>2, <4>1
    <3> QED BY <3>1, <3>2
  <2> QED BY <1>7, <2>1, <2>2 DEF Arrival!GrantsStand
<1>11. Arrival!LettersStand'
  <2>1. "exchange" \in Arrival!Installing
    BY DEF Arrival!Installing
  <2>2. \A g \in Workers : r4'[g].pc \in Arrival!Receiving => g # h
    BY <1>4, <2>1, FreeIs
  <2> QED BY <1>1, <1>4, <2>2, LettersWait
<1>12. \A m \in Nonces : r1'[m].token # "none" => r1[m].token # "none"
  BY <1>7
<1> QED BY <1>5, <1>6, <1>10, <1>11, <1>12, SeedsStay, IntakeMoves

\* A request that ends.
LEMMA PorterDone ==
  ASSUME Arrival!IntakeInv, NEW h \in Workers, Arrival!Done(h), TenantGrows
  PROVE  /\ r4' \in [Workers -> [pc : {"free"} \cup Arrival!Installing \cup Arrival!Receiving,
                                 of : {"none"} \cup Nonces \cup Events, left : SUBSET Topics,
                                 seen : SUBSET (Topics \X {"none", "ours", "stale"})]]
         /\ \A g \in Workers : g # h => r4'[g] = r4[g]
         /\ r4'[h].pc = "free" /\ Arrival!PortersStand'
<1>1. r4' = [r4 EXCEPT ![h] = Arrival!Free]
  BY DEF Arrival!Done
<1>2. r4 \in [Workers -> [pc : {"free"} \cup Arrival!Installing \cup Arrival!Receiving,
                          of : {"none"} \cup Nonces \cup Events, left : SUBSET Topics,
                          seen : SUBSET (Topics \X {"none", "ours", "stale"})]]
  BY IntakeSays
<1>3. /\ r4' \in [Workers -> [pc : {"free"} \cup Arrival!Installing \cup Arrival!Receiving,
                              of : {"none"} \cup Nonces \cup Events, left : SUBSET Topics,
                              seen : SUBSET (Topics \X {"none", "ours", "stale"})]]
      /\ \A g \in Workers : g # h => r4'[g] = r4[g]
      /\ r4'[h].pc = "free"
  BY <1>1, <1>2, FreeIs
<1>4. Arrival!PortersStand'
  BY <1>3, FreeIs, PorterMoves
<1> QED BY <1>3, <1>4

\* The entry token, or the refusal; or the request dies.
LEMMA InstallEnds ==
  ASSUME Arrival!IntakeInv, NEW h \in Workers, Arrival!Mint(h) \/ Arrival!Dies(h)
  PROVE  Arrival!IntakeInv'
<1>1. /\ r1 \in [Nonces -> [nonce : {"none", "live", "spent"}, token : {"none", "live", "spent"}, opened : {0, 1}]]
      /\ Arrival!GrantsStand
  BY IntakeSays
<1>2. UNCHANGED <<r2, r3>> /\ Arrival!Done(h)
  BY DEF Arrival!Mint, Arrival!Dies
<1>3. TenantGrows
  BY <1>2, TenantStays
<1>4. \A g \in Workers : r4'[g].pc \in Arrival!Installing \cup Arrival!Receiving => g # h /\ r4'[g] = r4[g]
  BY <1>2, <1>3, PorterDone, FreeIs
<1>5. Arrival!PortersStand' /\ Arrival!LettersStand'
  BY <1>2, <1>3, <1>4, PorterDone, LettersWait
<1>6. CASE r1' = r1
  BY <1>3, <1>4, <1>5, <1>6, GrantsWait, SeedsStay, IntakeMoves
<1>7. CASE Arrival!Mint(h) /\ r1' # r1
  <2> DEFINE n == r4[h].of
  <2>1. r4[h].pc = "mint" /\ r1' = [r1 EXCEPT ![n].token = "live"]
    BY <1>7 DEF Arrival!Mint, Arrival!At
  <2>2. r4[h].pc \in Arrival!Installing /\ n \in Nonces
    BY <2>1, IntakeSays DEF Arrival!Installing, Arrival!PortersStand
  <2>3. /\ r1[n].nonce = "spent" /\ r1[n].token = "none" /\ r1[n].opened = 0
        /\ \A g \in Workers : r4[g].pc \in Arrival!Installing /\ r4[g].of = n => g = h
    BY <1>1, <2>2 DEF Arrival!GrantsStand
  <2> HIDE DEF n
  <2>4. /\ r1' \in [Nonces -> [nonce : {"none", "live", "spent"}, token : {"none", "live", "spent"}, opened : {0, 1}]]
        /\ \A m \in Nonces : m # n => r1'[m] = r1[m]
        /\ r1'[n].nonce = "spent" /\ r1'[n].token = "live" /\ r1'[n].opened = 0
    BY <1>1, <2>1, <2>2, <2>3
  <2>5. Arrival!GrantsStand'
    <3>1. \A m \in Nonces : /\ r1'[m].nonce # "spent" => r1'[m].token = "none"
                            /\ r1'[m].token # "spent" => r1'[m].opened = 0
      BY <1>1, <2>4 DEF Arrival!GrantsStand
    <3>2. ASSUME NEW f \in Workers, r4'[f].pc \in Arrival!Installing
          PROVE  /\ r1'[r4'[f].of].nonce = "spent" /\ r1'[r4'[f].of].token = "none"
                 /\ \A g \in Workers : r4'[g].pc \in Arrival!Installing /\ r4'[g].of = r4'[f].of => g = f
      <4>1. f # h /\ r4'[f] = r4[f]
        BY <1>4, <3>2
      <4>2. r4[f].of # n /\ r4[f].of \in Nonces
        BY <2>3, <3>2, <4>1, IntakeSays DEF Arrival!PortersStand
      <4>3. /\ r1[r4[f].of].nonce = "spent" /\ r1[r4[f].of].token = "none"
            /\ \A g \in Workers : r4[g].pc \in Arrival!Installing /\ r4[g].of = r4[f].of => g = f
        BY <1>1, <3>2, <4>1 DEF Arrival!GrantsStand
      <4> QED BY <1>4, <2>4, <4>1, <4>2, <4>3
    <3> QED BY <2>4, <3>1, <3>2 DEF Arrival!GrantsStand
  <2>6. r2'.trials > 0
    BY <1>3, <2>1, SeedsStay
  <2>7. Arrival!SeededBy("mint") = Arrival!Kinds
    BY DEF Arrival!SeededBy
  <2>8. \A k \in Arrival!Kinds : r2'.seeds[k] # "none"
    BY <1>3, <2>1, <2>7, SeedsStay
  <2> QED BY <1>3, <1>5, <2>5, <2>6, <2>8, IntakeMoves
<1> QED BY <1>6, <1>7 DEF Arrival!Mint, Arrival!Dies

\* A webhook that comes for the first time has its row before its handler.
LEMMA WebhookComes ==
  ASSUME Arrival!IntakeInv, NEW h \in Workers, NEW e \in Events, Arrival!Ingest(h, e)
  PROVE  Arrival!IntakeInv'
<1>1. /\ r3 \in [Events -> [state : {"none", "RECEIVED", "PROCESSED", "FAILED"}, runs : {0, 1},
                            acks : {"none", "unknown", "stored"}]]
      /\ Arrival!LettersStand
      /\ r4 \in [Workers -> [pc : {"free"} \cup Arrival!Installing \cup Arrival!Receiving,
                             of : {"none"} \cup Nonces \cup Events, left : SUBSET Topics,
                             seen : SUBSET (Topics \X {"none", "ours", "stale"})]]
  BY IntakeSays
<1>2. r4[h].pc = "free" /\ UNCHANGED <<r1, r2>>
  BY DEF Arrival!Ingest, Arrival!At
<1>3. TenantGrows
  BY <1>2, TenantStays
<1>4. /\ r3[e].state = "none" => r3[e].runs = 0
      /\ r3[e].state = "PROCESSED" => r3[e].runs = 1
      /\ r3[e].acks = "stored" => r3[e].state # "none"
  BY <1>1 DEF Arrival!LettersStand
<1>5. \A g \in Workers : r4[g].pc \in Arrival!Receiving => r4[g].of \in Events /\ r3[r4[g].of].state = "RECEIVED"
  BY <1>1, IntakeSays DEF Arrival!LettersStand, Arrival!PortersStand
<1>6. \/ /\ r4' = r4
         /\ \E a \in {"unknown", "stored"} : /\ r3' = [r3 EXCEPT ![e].acks = a]
                                             /\ a = "stored" => r3[e].state # "none"
      \/ /\ r3[e].state = "none" /\ r3' = [r3 EXCEPT ![e].state = "RECEIVED"]
         /\ r4' = [r4 EXCEPT ![h] = [Arrival!Free EXCEPT !.pc = "dispatch", !.of = e]]
  <2>1. CASE ~r2.row
    <3>1. r3' = [r3 EXCEPT ![e].acks = "unknown"] /\ r4' = r4
      BY <2>1 DEF Arrival!Ingest
    <3> QED BY <3>1
  <2>2. CASE r2.row /\ r3[e].state = "none"
    <3>1. /\ r3' = [r3 EXCEPT ![e].state = "RECEIVED"]
          /\ r4' = [r4 EXCEPT ![h] = [Arrival!Free EXCEPT !.pc = "dispatch", !.of = e]]
      BY <2>2 DEF Arrival!Ingest, Arrival!FirstCopy
    <3> QED BY <2>2, <3>1
  <2>3. CASE r2.row /\ r3[e].state # "none"
    <3>1. r3' = [r3 EXCEPT ![e].acks = "stored"] /\ r4' = r4
      BY <2>3 DEF Arrival!Ingest, Arrival!FirstCopy
    <3> QED BY <2>3, <3>1
  <2> QED BY <2>1, <2>2, <2>3
<1>7. CASE r4' = r4 /\ \E a \in {"unknown", "stored"} : /\ r3' = [r3 EXCEPT ![e].acks = a]
                                                        /\ a = "stored" => r3[e].state # "none"
  <2>1. PICK a \in {"unknown", "stored"} : r3' = [r3 EXCEPT ![e].acks = a] /\ (a = "stored" => r3[e].state # "none")
    BY <1>7, Zenon
  <2>2. /\ r3' \in [Events -> [state : {"none", "RECEIVED", "PROCESSED", "FAILED"}, runs : {0, 1},
                              acks : {"none", "unknown", "stored"}]]
        /\ \A d \in Events : r3'[d].state = r3[d].state /\ r3'[d].runs = r3[d].runs
        /\ \A d \in Events : d # e => r3'[d] = r3[d]
        /\ r3'[e].acks = a
    BY <1>1, <2>1
  <2>3. Arrival!LettersStand'
    <3>1. \A d \in Events : /\ r3'[d].state = "none" => r3'[d].runs = 0
                            /\ r3'[d].state = "PROCESSED" => r3'[d].runs = 1
                            /\ r3'[d].acks = "stored" => r3'[d].state # "none"
      BY <1>1, <2>1, <2>2 DEF Arrival!LettersStand
    <3>2. ASSUME NEW f \in Workers, r4'[f].pc \in Arrival!Receiving
          PROVE  /\ r3'[r4'[f].of].state = "RECEIVED"
                 /\ r3'[r4'[f].of].runs = IF r4'[f].pc = "handled" THEN 1 ELSE 0
                 /\ \A g \in Workers : r4'[g].pc \in Arrival!Receiving /\ r4'[g].of = r4'[f].of => g = f
      <4>1. /\ r3[r4[f].of].state = "RECEIVED"
            /\ r3[r4[f].of].runs = IF r4[f].pc = "handled" THEN 1 ELSE 0
            /\ \A g \in Workers : r4[g].pc \in Arrival!Receiving /\ r4[g].of = r4[f].of => g = f
        BY <1>1, <1>7, <3>2 DEF Arrival!LettersStand
      <4> QED BY <1>5, <1>7, <2>2, <3>2, <4>1
    <3> QED BY <2>2, <3>1, <3>2 DEF Arrival!LettersStand
  <2> QED BY <1>2, <1>3, <1>7, <2>3, PortersWait, GrantsWait, SeedsStay, IntakeMoves
<1>8. CASE /\ r3[e].state = "none" /\ r3' = [r3 EXCEPT ![e].state = "RECEIVED"]
           /\ r4' = [r4 EXCEPT ![h] = [Arrival!Free EXCEPT !.pc = "dispatch", !.of = e]]
  <2> DEFINE begun == [Arrival!Free EXCEPT !.pc = "dispatch", !.of = e]
  <2>1. begun \in [pc : {"dispatch"}, of : {e}, left : SUBSET Topics, seen : SUBSET (Topics \X {"none", "ours", "stale"})]
    BY FreeIs, Zenon
  <2>2. r4' = [r4 EXCEPT ![h] = begun]
    BY <1>8
  <2> HIDE DEF begun
  <2>3. /\ r4' \in [Workers -> [pc : {"free"} \cup Arrival!Installing \cup Arrival!Receiving,
                                of : {"none"} \cup Nonces \cup Events, left : SUBSET Topics,
                                seen : SUBSET (Topics \X {"none", "ours", "stale"})]]
        /\ \A g \in Workers : g # h => r4'[g] = r4[g]
        /\ r4'[h].pc = "dispatch" /\ r4'[h].of = e
    BY <1>1, <2>1, <2>2 DEF Arrival!Receiving
  <2>4. "dispatch" \in Arrival!Receiving /\ "dispatch" \notin Arrival!Installing
    BY DEF Arrival!Receiving, Arrival!Installing
  <2>5. Arrival!PortersStand'
    BY <1>3, <2>3, <2>4, FreeIs, PorterMoves
  <2>6. Arrival!GrantsStand'
    <3>1. \A g \in Workers : r4'[g].pc \in Arrival!Installing => r4'[g] = r4[g]
      BY <2>3, <2>4
    <3> QED BY <1>2, <3>1, GrantsWait
  <2>7. /\ r3' \in [Events -> [state : {"none", "RECEIVED", "PROCESSED", "FAILED"}, runs : {0, 1},
                              acks : {"none", "unknown", "stored"}]]
        /\ \A d \in Events : d # e => r3'[d] = r3[d]
        /\ r3'[e].state = "RECEIVED" /\ r3'[e].runs = 0
    BY <1>1, <1>4, <1>8
  <2>8. Arrival!LettersStand'
    <3>1. \A d \in Events : /\ r3'[d].state = "none" => r3'[d].runs = 0
                            /\ r3'[d].state = "PROCESSED" => r3'[d].runs = 1
                            /\ r3'[d].acks = "stored" => r3'[d].state # "none"
      BY <1>1, <2>7 DEF Arrival!LettersStand
    <3>2. ASSUME NEW f \in Workers, r4'[f].pc \in Arrival!Receiving
          PROVE  /\ r3'[r4'[f].of].state = "RECEIVED"
                 /\ r3'[r4'[f].of].runs = IF r4'[f].pc = "handled" THEN 1 ELSE 0
                 /\ \A g \in Workers : r4'[g].pc \in Arrival!Receiving /\ r4'[g].of = r4'[f].of => g = f
      <4>1. \A g \in Workers : g # h /\ r4'[g].pc \in Arrival!Receiving => r4'[g].of # e /\ r4'[g].of \in Events
        BY <1>5, <1>8, <2>3
      <4>2. CASE f = h
        BY <2>3, <2>7, <4>1, <4>2
      <4>3. CASE f # h
        <5>1. /\ r3[r4[f].of].state = "RECEIVED"
              /\ r3[r4[f].of].runs = IF r4[f].pc = "handled" THEN 1 ELSE 0
              /\ \A g \in Workers : r4[g].pc \in Arrival!Receiving /\ r4[g].of = r4[f].of => g = f
          BY <1>1, <2>3, <3>2, <4>3 DEF Arrival!LettersStand
        <5> QED BY <2>3, <2>7, <3>2, <4>1, <4>3, <5>1
      <4> QED BY <4>2, <4>3
    <3> QED BY <2>7, <3>1, <3>2 DEF Arrival!LettersStand
  <2> QED BY <1>2, <1>3, <2>5, <2>6, <2>8, SeedsStay, IntakeMoves
<1> QED BY <1>6, <1>7, <1>8

\* The handler runs, or throws; the row is marked when it is done.
LEMMA WebhookHandled ==
  ASSUME Arrival!IntakeInv, NEW h \in Workers, Arrival!Dispatch(h) \/ Arrival!Mark(h)
  PROVE  Arrival!IntakeInv'
<1> DEFINE e == r4[h].of
<1>1. /\ r3 \in [Events -> [state : {"none", "RECEIVED", "PROCESSED", "FAILED"}, runs : {0, 1},
                            acks : {"none", "unknown", "stored"}]]
      /\ Arrival!LettersStand
      /\ r4 \in [Workers -> [pc : {"free"} \cup Arrival!Installing \cup Arrival!Receiving,
                             of : {"none"} \cup Nonces \cup Events, left : SUBSET Topics,
                             seen : SUBSET (Topics \X {"none", "ours", "stale"})]]
  BY IntakeSays
<1>2. r4[h].pc \in Arrival!Receiving /\ UNCHANGED <<r1, r2>>
  BY DEF Arrival!Dispatch, Arrival!Mark, Arrival!At, Arrival!Receiving
<1>3. TenantGrows
  BY <1>2, TenantStays
<1>4. /\ e \in Events /\ r3[e].state = "RECEIVED"
      /\ r3[e].runs = IF r4[h].pc = "handled" THEN 1 ELSE 0
      /\ \A g \in Workers : r4[g].pc \in Arrival!Receiving /\ r4[g].of = e => g = h
  BY <1>1, <1>2, IntakeSays DEF Arrival!LettersStand, Arrival!PortersStand
<1>5. \A g \in Workers : g # h /\ r4[g].pc \in Arrival!Receiving => r4[g].of # e /\ r4[g].of \in Events
  BY <1>4, IntakeSays DEF Arrival!PortersStand
<1>6. ASSUME \A d \in Events : d # e => r3'[d] = r3[d],
             \A g \in Workers : g # h => r4'[g] = r4[g],
             r3' \in [Events -> [state : {"none", "RECEIVED", "PROCESSED", "FAILED"}, runs : {0, 1},
                                 acks : {"none", "unknown", "stored"}]],
             r3'[e].state # "none", r3'[e].state = "PROCESSED" => r3'[e].runs = 1,
             r4'[h].pc \in Arrival!Receiving =>
               /\ r4'[h].of = e /\ r3'[e].state = "RECEIVED"
               /\ r3'[e].runs = IF r4'[h].pc = "handled" THEN 1 ELSE 0
      PROVE  Arrival!LettersStand'
  <2>1. \A d \in Events : /\ r3'[d].state = "none" => r3'[d].runs = 0
                          /\ r3'[d].state = "PROCESSED" => r3'[d].runs = 1
                          /\ r3'[d].acks = "stored" => r3'[d].state # "none"
    BY <1>1, <1>6 DEF Arrival!LettersStand
  <2>2. ASSUME NEW f \in Workers, r4'[f].pc \in Arrival!Receiving
        PROVE  /\ r3'[r4'[f].of].state = "RECEIVED"
               /\ r3'[r4'[f].of].runs = IF r4'[f].pc = "handled" THEN 1 ELSE 0
               /\ \A g \in Workers : r4'[g].pc \in Arrival!Receiving /\ r4'[g].of = r4'[f].of => g = f
    <3>1. CASE f = h
      BY <1>5, <1>6, <2>2, <3>1
    <3>2. CASE f # h
      <4>1. /\ r3[r4[f].of].state = "RECEIVED"
            /\ r3[r4[f].of].runs = IF r4[f].pc = "handled" THEN 1 ELSE 0
            /\ \A g \in Workers : r4[g].pc \in Arrival!Receiving /\ r4[g].of = r4[f].of => g = f
        BY <1>1, <1>6, <2>2, <3>2 DEF Arrival!LettersStand
      <4>2. r4'[f] = r4[f] /\ r4[f].of # e /\ r4[f].of \in Events
        BY <1>5, <1>6, <2>2, <3>2
      <4>3. \A g \in Workers : r4'[g].pc \in Arrival!Receiving /\ r4'[g].of = r4[f].of => g # h
        BY <1>6, <4>2
      <4> QED BY <1>6, <4>1, <4>2, <4>3
    <3> QED BY <3>1, <3>2
  <2> QED BY <1>6, <2>1, <2>2 DEF Arrival!LettersStand
<1>7. CASE Arrival!Dispatch(h)
  <2>1. /\ r4[h].pc = "dispatch"
        /\ \/ r3' = [r3 EXCEPT ![e].runs = r3[e].runs + 1] /\ r4' = [r4 EXCEPT ![h].pc = "handled"]
           \/ r3' = r3 /\ r4' = [r4 EXCEPT ![h].pc = "threw"]
    BY <1>7 DEF Arrival!Dispatch, Arrival!At, Arrival!Goto
  <2>2. r3[e].runs = 0 /\ r3[e].runs + 1 = 1
    BY <1>4, <2>1
  <2>3. PICK pc \in {"handled", "threw"} :
          /\ r4' = [r4 EXCEPT ![h].pc = pc]
          /\ pc = "handled" => r3' = [r3 EXCEPT ![e].runs = 1]
          /\ pc = "threw" => r3' = r3
    <3>1. CASE r3' = [r3 EXCEPT ![e].runs = r3[e].runs + 1] /\ r4' = [r4 EXCEPT ![h].pc = "handled"]
      BY <2>2, <3>1
    <3>2. CASE r3' = r3 /\ r4' = [r4 EXCEPT ![h].pc = "threw"]
      BY <3>2
    <3> QED BY <2>1, <3>1, <3>2
  <2>4. {"handled", "threw", "dispatch"} = Arrival!Receiving
    BY DEF Arrival!Receiving
  <2> HIDE DEF e
  <2>5. /\ r4' \in [Workers -> [pc : {"free"} \cup Arrival!Installing \cup Arrival!Receiving,
                                of : {"none"} \cup Nonces \cup Events, left : SUBSET Topics,
                                seen : SUBSET (Topics \X {"none", "ours", "stale"})]]
        /\ \A g \in Workers : g # h => r4'[g] = r4[g]
        /\ r4'[h].pc = pc /\ r4'[h].of = r4[h].of
    <3>1. pc \in Arrival!Receiving /\ r4' = [r4 EXCEPT ![h].pc = pc]
      BY <2>3, <2>4
    <3> HIDE DEF e
    <3> QED BY <1>1, <3>1
  <2>6. /\ r3' \in [Events -> [state : {"none", "RECEIVED", "PROCESSED", "FAILED"}, runs : {0, 1},
                              acks : {"none", "unknown", "stored"}]]
        /\ \A d \in Events : d # e => r3'[d] = r3[d]
        /\ r3'[e].state = "RECEIVED" /\ r3'[e].runs = IF pc = "handled" THEN 1 ELSE 0
    <3>1. CASE pc = "handled"
      BY <1>1, <1>4, <2>3, <3>1
    <3>2. CASE pc = "threw"
      BY <1>1, <1>4, <2>2, <2>3, <3>2
    <3> QED BY <3>1, <3>2
  <2>7. r4[h].of = e
    BY DEF e
  <2>8. Arrival!LettersStand'
    BY <1>6, <2>5, <2>6, <2>7
  <2>9. r4[h].of \in Events /\ pc \notin Arrival!Installing /\ pc \in Arrival!Receiving
    BY <1>4, <2>4, <2>7, FreeIs
  <2>10. Arrival!PortersStand'
    BY <1>3, <2>5, <2>9, FreeIs, PorterMoves
  <2>11. Arrival!GrantsStand'
    <3>1. \A g \in Workers : r4'[g].pc \in Arrival!Installing => r4'[g] = r4[g]
      BY <2>5, <2>9
    <3> QED BY <1>2, <3>1, GrantsWait
  <2> QED BY <1>2, <1>3, <2>8, <2>10, <2>11, SeedsStay, IntakeMoves
<1>8. CASE Arrival!Mark(h)
  <2> DEFINE state == IF r4[h].pc = "handled" THEN "PROCESSED" ELSE "FAILED"
             marked == [r3[e] EXCEPT !.state = state, !.acks = "stored"]
  <2>1. r3' = [r3 EXCEPT ![e] = marked] /\ Arrival!Done(h)
    BY <1>8 DEF Arrival!Mark, Arrival!At
  <2>2. /\ marked \in [state : {"PROCESSED", "FAILED"}, runs : {0, 1}, acks : {"stored"}]
        /\ marked.runs = r3[e].runs /\ marked.state = state
    <3>1. r3[e] \in [state : {"none", "RECEIVED", "PROCESSED", "FAILED"}, runs : {0, 1},
                     acks : {"none", "unknown", "stored"}]
      BY <1>1, <1>4
    <3>2. state \in {"PROCESSED", "FAILED"}
      OBVIOUS
    <3> HIDE DEF state, e
    <3> QED BY <3>1, <3>2, Zenon
  <2>3. state = "PROCESSED" => r3[e].runs = 1
    BY <1>4
  <2> HIDE DEF state, marked, e
  <2>4. /\ r3' \in [Events -> [state : {"none", "RECEIVED", "PROCESSED", "FAILED"}, runs : {0, 1},
                              acks : {"none", "unknown", "stored"}]]
        /\ \A d \in Events : d # e => r3'[d] = r3[d]
        /\ r3'[e] = marked
    BY <1>1, <1>4, <2>1, <2>2
  <2>5. \A g \in Workers : g # h => r4'[g] = r4[g]
    BY <1>3, <2>1, PorterDone
  <2>6. r4'[h].pc = "free" /\ Arrival!PortersStand'
    BY <1>3, <2>1, PorterDone
  <2>7. Arrival!LettersStand'
    BY <1>6, <2>2, <2>3, <2>4, <2>5, <2>6, FreeIs
  <2>8. Arrival!GrantsStand'
    <3>1. \A g \in Workers : r4'[g].pc \in Arrival!Installing => r4'[g] = r4[g]
      BY <2>5, <2>6, FreeIs
    <3> QED BY <1>2, <3>1, GrantsWait
  <2> QED BY <1>2, <1>3, <2>6, <2>7, <2>8, SeedsStay, IntakeMoves
<1> QED BY <1>7, <1>8

LEMMA IntakeKept ==
  ASSUME Arrival!IntakeInv, [Arrival!Next]_<<r1, r2, r3, r4, r5>>
  PROVE  Arrival!IntakeInv'
<1>1. CASE UNCHANGED <<r1, r2, r3, r4, r5>>
  <2>1. TenantGrows
    BY <1>1, TenantStays
  <2> QED BY <1>1, <2>1, PortersWait, GrantsWait, LettersWait, SeedsStay, IntakeMoves
<1>2. ASSUME NEW h \in Workers,
             \/ \E n \in Nonces : Arrival!HandleCallback(h, n)
             \/ Arrival!UpsertShop(h) \/ (\E k \in Arrival!Kinds : Arrival!Seed(h, k))
             \/ Arrival!SeedTrial(h) \/ Arrival!ReadExisting(h)
             \/ (\E t \in Topics : Arrival!SyncTopic(h, t)) \/ Arrival!GoesOn(h) \/ Arrival!Mint(h)
             \/ \E e \in Events : Arrival!Ingest(h, e)
             \/ Arrival!Dispatch(h) \/ Arrival!Mark(h) \/ Arrival!Dies(h)
      PROVE  Arrival!IntakeInv'
  BY <1>2, CallbackTaken, InstallGoesOn, InstallEnds, WebhookComes, WebhookHandled
<1> QED BY <1>1, <1>2, GrantsMove, ShopMoves DEF Arrival!Next

LEMMA IntakeInvStands == Arrival!IntakeInv => Arrival!IntakeStands
BY DEF Arrival!IntakeInv

\* sync-back.service.ts, oauth.service.ts and webhook-ingest.service.ts: for any
\* workers, carrier events, attempts, budget, installs and webhooks, whoever dies
\* and whatever answer is lost: one fulfillment but for the lost answers, no event
\* before it, what gave up is filed but for a death and a replay's late close; one
\* entry for an install into a shop that has its seeds, one run of its handler for
\* a webhook.
THEOREM ExchangeIsSound == Spec => []ExchangeStands
<1> DEFINE I == (focus = "sync" => Sync!SyncInv) /\ (focus = "intake" => Arrival!IntakeInv)
<1>1. Init => I
  BY SyncInitially, IntakeInitially, Zenon DEF Init
<1>2. I /\ [Next]_vars => I'
  <2> SUFFICES ASSUME I, [Next]_vars PROVE I'
    OBVIOUS
  <2>1. UNCHANGED focus
    BY DEF Next, vars
  <2>2. CASE focus = "sync"
    <3>1. [Sync!Next]_<<r1, r2, r3, r4, r5, r6, r7>>
      BY <2>2 DEF Next, vars
    <3> QED BY <2>1, <2>2, <3>1, SyncKept
  <2>3. CASE focus = "intake"
    <3>1. [Arrival!Next]_<<r1, r2, r3, r4, r5>>
      BY <2>3 DEF Next, vars
    <3> QED BY <2>1, <2>3, <3>1, IntakeKept
  <2> QED BY <2>1, <2>2, <2>3
<1>3. I => ExchangeStands
  BY SyncSays, IntakeInvStands DEF ExchangeStands
<1> QED BY <1>1, <1>2, <1>3, PTL DEF Spec

----------------------------------------------------------------------------
(* Reports.  r1 is now, r2 the schedule, r3 the jobs, r4 the queue, r5 the *)
(* processes.                                                              *)

LEMMA ReportsCount ==
  /\ \A S : Report!Cardinality(S) = Cardinality(S)
  /\ \A S : Report!IsFiniteSet(S) <=> IsFiniteSet(S)
<1>1. \A S : Report!Cardinality(S) = Cardinality(S)
  BY Zenon DEF Report!Cardinality, Cardinality
<1>2. \A S : Report!IsFiniteSet(S) <=> IsFiniteSet(S)
  BY Zenon DEF Report!IsFiniteSet, IsFiniteSet
<1> QED BY <1>1, <1>2

ScheduleRow == [exists : BOOLEAN, next : Int, step : {1, Week}, edits : Nat]

LEMMA ReportsSay ==
  ASSUME Report!ReportsInv
  PROVE  /\ r1 \in Nat /\ r2 \in ScheduleRow
         /\ r3 = [j \in 1..MaxJobs |-> r3[j]] /\ \A j \in 1..MaxJobs : Report!JobStands(r3[j])
         /\ r4 \subseteq {j \in 1..MaxJobs : r3[j].state # "NONE"}
         /\ r5 = [p \in Workers |-> r5[p]] /\ \A p \in Workers : Report!HandStands(r5[p])
         /\ \A day \in 1..ReportDays : Report!OccurrenceStands(day)
<1>1. r3 = [j \in 1..MaxJobs |-> r3[j]]
  BY DEF Report!ReportsInv
<1>2. DOMAIN r3 = 1..MaxJobs
  BY <1>1
<1> QED BY <1>1, <1>2, Zenon DEF Report!ReportsInv, ScheduleRow

\* What the jobs may become: none is lost, nor its file, nor its success.
JobsGo ==
  /\ r3' = [j \in 1..MaxJobs |-> r3'[j]]
  /\ \A j \in 1..MaxJobs :
       /\ Report!JobStands(r3'[j])
       /\ r3[j].state # "NONE" => r3'[j].state # "NONE"
       /\ r3[j].file => r3'[j].file
       /\ r3[j].state = "SUCCEEDED" => r3'[j].state = "SUCCEEDED"
\* And of what occurrence each is.
SameOccurrences == \A j \in 1..MaxJobs : r3'[j].occurrence = r3[j].occurrence

LEMMA HandsKept ==
  ASSUME Report!ReportsInv, JobsGo, NEW q \in Workers, r5'[q] = r5[q]
  PROVE  Report!HandStands(r5[q])'
<1>1. Report!HandStands(r5[q]) /\ DOMAIN r3 = 1..MaxJobs /\ DOMAIN r3' = 1..MaxJobs
  BY ReportsSay DEF JobsGo
<1> QED BY <1>1 DEF Report!HandStands, JobsGo

\* The invariant, from what became of each part.
LEMMA ReportsMove ==
  ASSUME Report!ReportsInv, r1' \in Nat, r2' \in ScheduleRow, JobsGo,
         r4' \subseteq {j \in 1..MaxJobs : r3'[j].state # "NONE"},
         r5' = [q \in Workers |-> r5'[q]],
         \A q \in Workers : r5'[q] = r5[q] \/ Report!HandStands(r5[q])',
         \A day \in 1..ReportDays : Report!OccurrenceStands(day)'
  PROVE  Report!ReportsInv'
<1>1. DOMAIN r3' = 1..MaxJobs
  BY DEF JobsGo
<1>2. \A q \in Workers : Report!HandStands(r5[q])'
  BY HandsKept
<1>3. \A j \in DOMAIN r3' : Report!JobStands(r3[j])'
  BY <1>1 DEF JobsGo, Report!JobStands
<1> QED BY <1>1, <1>2, <1>3 DEF Report!ReportsInv, ScheduleRow, JobsGo

LEMMA Counted ==
  ASSUME Report!ReportsInv, NEW day \in 1..ReportDays
  PROVE  /\ day \in Nat \ {0}
         /\ IsFiniteSet(Report!Of(day)) /\ Cardinality(Report!Of(day)) \in Nat
         /\ IsFiniteSet(Report!Claimed(day)) /\ Cardinality(Report!Claimed(day)) \in Nat
         /\ Report!Awaited(day) \in {0, 1} /\ r2.edits \in Nat
         /\ Cardinality(Report!Of(day)) + Cardinality(Report!Claimed(day)) + Report!Awaited(day) <= 1 + r2.edits
<1>1. IsFiniteSet(1..MaxJobs)
  BY FS_Interval, PapersAssumption
<1>2. Report!Of(day) \subseteq 1..MaxJobs
  BY ReportsSay DEF Report!Of
<1>3. IsFiniteSet(Report!Of(day))
  BY <1>1, <1>2, FS_Subset, Zenon
<1>4. Report!OccurrenceStands(day)
  BY ReportsSay
<1>5. /\ IsFiniteSet(Report!Claimed(day))
      /\ Cardinality(Report!Of(day)) + Cardinality(Report!Claimed(day)) + Report!Awaited(day) <= 1 + r2.edits
  BY <1>4, ReportsCount DEF Report!OccurrenceStands
<1>6. Report!Awaited(day) \in {0, 1} /\ r2.edits \in Nat
  BY ReportsSay DEF Report!Awaited, ScheduleRow
<1>7. day \in Nat \ {0}
  OBVIOUS
<1> QED BY <1>3, <1>5, <1>6, <1>7, FS_CardinalityType

\* The occurrences, when none is claimed, reported or scheduled anew.
LEMMA OccurrencesWait ==
  ASSUME Report!ReportsInv, JobsGo, SameOccurrences,
         r2'.edits = r2.edits, \A day \in 1..ReportDays : Report!Awaited(day)' <= Report!Awaited(day),
         \A q \in Workers : r5'[q] = r5[q] \/ r5'[q].pc # "insert"
  PROVE  \A day \in 1..ReportDays : Report!OccurrenceStands(day)'
<1> SUFFICES ASSUME NEW day \in 1..ReportDays PROVE Report!OccurrenceStands(day)'
  OBVIOUS
<1>1. Report!Of(day)' \subseteq Report!Of(day)
  <2> SUFFICES ASSUME NEW j \in Report!Of(day)' PROVE j \in Report!Of(day)
    OBVIOUS
  <2>1. j \in DOMAIN r3' /\ r3'[j].occurrence = day
    BY DEF Report!Of
  <2>2. j \in 1..MaxJobs /\ DOMAIN r3 = 1..MaxJobs
    BY <2>1, ReportsSay DEF JobsGo
  <2>3. r3[j].occurrence = day /\ day # 0 /\ Report!JobStands(r3[j])
    BY <2>1, <2>2, ReportsSay, Counted DEF SameOccurrences
  <2> QED BY <2>2, <2>3 DEF Report!Of, Report!JobStands
<1>2. Report!Claimed(day)' \subseteq Report!Claimed(day)
  BY DEF Report!Claimed
<1> DEFINE o == Report!Of(day)
           c == Report!Claimed(day)
<1>3. IsFiniteSet(o) /\ IsFiniteSet(c)
  BY Counted
<1>4. /\ IsFiniteSet(o') /\ Cardinality(o') <= Cardinality(o) /\ Cardinality(o') \in Nat
  BY <1>1, <1>3, FS_Subset, FS_CardinalityType
<1>5. /\ IsFiniteSet(c') /\ Cardinality(c') <= Cardinality(c) /\ Cardinality(c') \in Nat
  BY <1>2, <1>3, FS_Subset, FS_CardinalityType
<1>6. Report!Awaited(day)' \in {0, 1}
  BY DEF Report!Awaited
<1>7. Report!Awaited(day)' <= Report!Awaited(day)
  OBVIOUS
<1>8. Cardinality(o') + Cardinality(c') + Report!Awaited(day)' <= 1 + r2'.edits
  BY <1>4, <1>5, <1>6, <1>7, Counted
<1> QED BY <1>5, <1>8, ReportsCount DEF Report!OccurrenceStands

\* One process goes on, and what it has in hand stands.
LEMMA HandMoves ==
  ASSUME Report!ReportsInv, JobsGo, SameOccurrences, UNCHANGED <<r1, r2>>,
         r4' \subseteq {j \in 1..MaxJobs : r3'[j].state # "NONE"},
         NEW p \in Workers, NEW c, r5' = [r5 EXCEPT ![p] = c], c.pc # "insert", r5'[p] = c => Report!HandStands(r5[p])'
  PROVE  Report!ReportsInv'
<1>1. /\ r5' = [q \in Workers |-> r5'[q]] /\ r5'[p] = c
      /\ \A q \in Workers : q # p => r5'[q] = r5[q]
  BY ReportsSay, Zenon
<1>2. \A q \in Workers : r5'[q] = r5[q] \/ r5'[q].pc # "insert"
  BY <1>1
<1>3. \A day \in 1..ReportDays : Report!Awaited(day)' <= Report!Awaited(day)
  BY DEF Report!Awaited
<1>4. \A q \in Workers : r5'[q] = r5[q] \/ Report!HandStands(r5[q])'
  BY <1>1
<1>5. r1' \in Nat /\ r2' \in ScheduleRow /\ r2'.edits = r2.edits
  BY ReportsSay
<1>6. \A day \in 1..ReportDays : Report!OccurrenceStands(day)'
  BY <1>2, <1>3, <1>5, OccurrencesWait
<1> QED BY <1>1, <1>4, <1>5, <1>6, ReportsMove

LEMMA JobsWait ==
  ASSUME Report!ReportsInv, r3' = r3
  PROVE  JobsGo /\ SameOccurrences
BY ReportsSay DEF JobsGo, SameOccurrences

LEMMA JobGoes ==
  ASSUME Report!ReportsInv, NEW j \in 1..MaxJobs, NEW x, r3' = [r3 EXCEPT ![j] = x], Report!JobStands(x),
         x.state # "NONE", x.occurrence = r3[j].occurrence, r3[j].file => x.file,
         r3[j].state = "SUCCEEDED" => x.state = "SUCCEEDED"
  PROVE  JobsGo /\ SameOccurrences /\ r3'[j] = x
<1>1. /\ r3' = [k \in 1..MaxJobs |-> r3'[k]] /\ r3'[j] = x
      /\ \A k \in 1..MaxJobs : k # j => r3'[k] = r3[k]
  BY ReportsSay, Zenon
<1> QED BY <1>1, ReportsSay DEF JobsGo, SameOccurrences

LEMMA ReportsInitially == Report!Init => Report!ReportsInv
<1> SUFFICES ASSUME Report!Init PROVE Report!ReportsInv
  OBVIOUS
<1>1. /\ r1 = 1 /\ r2 = [exists |-> TRUE, next |-> 2, step |-> 1, edits |-> 0]
      /\ r3 = [j \in 1..MaxJobs |-> Report!NoJob] /\ r4 = {} /\ r5 = [p \in Workers |-> Report!Resting]
  BY DEF Report!Init
<1>2. Report!JobStands(Report!NoJob) /\ Report!HandStands(Report!Resting)
  BY DEF Report!JobStands, Report!NoJob, Report!HandStands, Report!Resting, Report!Open
<1>3. ASSUME NEW day \in 1..ReportDays PROVE Report!OccurrenceStands(day)
  <2>1. Report!Of(day) = {} /\ Report!Claimed(day) = {}
    BY <1>1 DEF Report!Of, Report!Claimed, Report!NoJob, Report!Resting
  <2>2. Report!Awaited(day) \in {0, 1}
    BY DEF Report!Awaited
  <2>3. IsFiniteSet({}) /\ Cardinality({}) = 0
    BY FS_EmptySet
  <2> QED BY <1>1, <2>1, <2>2, <2>3, ReportsCount DEF Report!OccurrenceStands
<1>4. r2 \in [exists : BOOLEAN, next : Int, step : {1, Week}, edits : Nat]
  BY <1>1
<1>5. r3 = [j \in 1..MaxJobs |-> r3[j]] /\ r5 = [p \in Workers |-> r5[p]]
  BY <1>1
<1> QED BY <1>1, <1>2, <1>3, <1>4, <1>5 DEF Report!ReportsInv

\* Whole steps from a day that has come lead past it.
LEMMA RunsAdvance ==
  ASSUME r1 \in Nat, NEW day \in Int, day <= r1, NEW step \in {1, Week}
  PROVE  Report!AdvanceNextRun(day, step) \in Int /\ day < Report!AdvanceNextRun(day, step)
<1>1. step \in Nat /\ step > 0 /\ r1 - day \in Nat
  BY PapersAssumption
<1> DEFINE k == (r1 - day) \div step
<1>2. k \in Int /\ k >= 0
  BY <1>1
<1> HIDE DEF k
<1>3. k + 1 \in Nat /\ k + 1 > 0
  BY <1>2
<1>4. step * (k + 1) \in Int /\ step * (k + 1) > 0
  BY <1>1, <1>3
<1> DEFINE far == step * (k + 1)
<1> HIDE DEF far
<1>5. day + far \in Int /\ day < day + far
  BY <1>4 DEF far
<1> QED BY <1>5 DEF far, k, Report!AdvanceNextRun

LEMMA InitialRuns ==
  ASSUME r1 \in Nat, NEW step \in {1, Week}
  PROVE  Report!ComputeInitialNextRun(step) \in Int
<1>1. step \in Int /\ step > 0 /\ r1 \in Int
  BY PapersAssumption
<1>2. r1 \div step \in Int
  BY <1>1
<1> QED BY <1>1, <1>2 DEF Report!ComputeInitialNextRun

LEMMA AtRest ==
  ASSUME NEW p \in Workers, r5'[p] = Report!Resting
  PROVE  Report!HandStands(r5[p])'
BY DEF Report!HandStands, Report!Resting

\* Time passes, and the schedule is removed.
LEMMA ScheduleGoes ==
  ASSUME Report!ReportsInv, Report!Tick \/ Report!Remove
  PROVE  Report!ReportsInv'
<1>1. UNCHANGED <<r3, r4, r5>> /\ r1' \in Nat
  BY ReportsSay DEF Report!Tick, Report!Remove
<1>2. JobsGo /\ SameOccurrences /\ r4' \subseteq {j \in 1..MaxJobs : r3'[j].state # "NONE"}
  BY <1>1, JobsWait, ReportsSay
<1>3. r2' \in ScheduleRow /\ r2'.edits = r2.edits
  BY ReportsSay, Zenon DEF Report!Tick, Report!Remove, ScheduleRow
<1>4. r2' = r2 \/ r2'.exists = FALSE
  BY ReportsSay DEF Report!Tick, Report!Remove, ScheduleRow
<1>5. \A day \in 1..ReportDays : Report!Awaited(day)' <= Report!Awaited(day)
  BY <1>4 DEF Report!Awaited
<1>6. \A day \in 1..ReportDays : Report!OccurrenceStands(day)'
  BY <1>1, <1>2, <1>3, <1>5, OccurrencesWait
<1>7. r5' = [q \in Workers |-> r5'[q]]
  BY <1>1, ReportsSay
<1> QED BY <1>1, <1>2, <1>3, <1>6, <1>7, ReportsMove

\* An edit may bring an occurrence back, and is counted.
LEMMA ScheduleEdited ==
  ASSUME Report!ReportsInv, NEW p \in Workers, NEW step \in {1, Week}, Report!Update(p, step)
  PROVE  Report!ReportsInv'
<1>1. /\ UNCHANGED <<r1, r3, r4>> /\ r5' = [r5 EXCEPT ![p] = Report!Resting]
      /\ r2' = IF ~r2.exists THEN r2
           ELSE [r2 EXCEPT !.step = step, !.edits = @ + 1,
                   !.next = IF step # r5[p].next THEN Report!ComputeInitialNextRun(step) ELSE r5[p].day]
  BY DEF Report!Update, Report!Rest
<1>2. JobsGo /\ SameOccurrences /\ r4' \subseteq {j \in 1..MaxJobs : r3'[j].state # "NONE"}
  BY <1>1, JobsWait, ReportsSay
<1>3. /\ r5' = [q \in Workers |-> r5'[q]] /\ r5'[p] = Report!Resting
      /\ \A q \in Workers : q # p => r5'[q] = r5[q]
  BY <1>1, ReportsSay, Zenon
<1>4. \A q \in Workers : r5'[q] = r5[q] \/ Report!HandStands(r5[q])'
  BY <1>3, AtRest
<1>5. r1' \in Nat
  BY <1>1, ReportsSay
<1>6. CASE ~r2.exists
  <2>1. r2' = r2
    BY <1>1, <1>6
  <2>2. r5'[p].pc # "insert"
    BY <1>3 DEF Report!Resting
  <2>3. \A q \in Workers : r5'[q] = r5[q] \/ r5'[q].pc # "insert"
    BY <1>3, <2>2
  <2>4. \A day \in 1..ReportDays : Report!Awaited(day)' <= Report!Awaited(day)
    BY <2>1 DEF Report!Awaited
  <2>5. \A day \in 1..ReportDays : Report!OccurrenceStands(day)'
    BY <1>2, <2>1, <2>3, <2>4, OccurrencesWait
  <2> QED BY <1>2, <1>3, <1>4, <1>5, <2>1, <2>5, ReportsMove, ReportsSay
<1>7. CASE r2.exists
  <2> DEFINE n == IF step # r5[p].next THEN Report!ComputeInitialNextRun(step) ELSE r5[p].day
  <2>1. n \in Int
    BY InitialRuns, ReportsSay DEF Report!HandStands
  <2> HIDE DEF n
  <2>2. r2' = [r2 EXCEPT !.step = step, !.edits = @ + 1, !.next = n]
    BY <1>1, <1>7 DEF n
  <2>3. r2' \in ScheduleRow /\ r2'.edits = r2.edits + 1
    <3>1. r2 \in [exists : BOOLEAN, next : Int, step : {1, Week}, edits : Nat]
      BY ReportsSay DEF ScheduleRow
    <3> DEFINE e == r2.edits + 1
    <3>2. e \in Nat /\ r2' = [r2 EXCEPT !.step = step, !.edits = e, !.next = n]
      BY <2>2, <3>1
    <3>3. r2'.edits = r2.edits + 1
      BY <2>2, <3>1
    <3> HIDE DEF e
    <3>4. r2' \in [exists : BOOLEAN, next : Int, step : {1, Week}, edits : Nat]
      BY <2>1, <3>1, <3>2, Zenon
    <3> QED BY <3>3, <3>4 DEF ScheduleRow
  <2>4. ASSUME NEW day \in 1..ReportDays PROVE Report!OccurrenceStands(day)'
    <3> DEFINE o == Report!Of(day)
               c == Report!Claimed(day)
    <3>1. o' = o
      BY <1>1 DEF Report!Of
    <3>2. c' \subseteq c
      BY <1>3 DEF Report!Claimed, Report!Resting
    <3>3. IsFiniteSet(c)
      BY Counted
    <3>4. IsFiniteSet(c') /\ Cardinality(c') <= Cardinality(c) /\ Cardinality(c') \in Nat
      BY <3>2, <3>3, FS_Subset, FS_CardinalityType
    <3>5. Report!Awaited(day)' \in {0, 1}
      BY DEF Report!Awaited
    <3>6. Cardinality(o') + Cardinality(c') + Report!Awaited(day)' <= 1 + r2'.edits
      BY <2>3, <3>1, <3>4, <3>5, Counted
    <3> QED BY <3>4, <3>6, ReportsCount DEF Report!OccurrenceStands
  <2> QED BY <1>2, <1>3, <1>4, <1>5, <2>3, <2>4, ReportsMove
<1> QED BY <1>6, <1>7

\* A claim that goes through moves the schedule past the day it has read.
LEMMA OccurrenceClaimed ==
  ASSUME Report!ReportsInv, NEW p \in Workers, Report!Claim(p)
  PROVE  Report!ReportsInv'
<1>1. r5[p].pc = "claim" /\ UNCHANGED <<r1, r3, r4>>
  BY DEF Report!Claim, Report!At
<1>2. JobsGo /\ SameOccurrences /\ r4' \subseteq {j \in 1..MaxJobs : r3'[j].state # "NONE"}
  BY <1>1, JobsWait, ReportsSay
<1>3. CASE ~Report!Unmoved(p)
  <2>1. UNCHANGED r2 /\ r5' = [r5 EXCEPT ![p] = Report!Resting]
    BY <1>3 DEF Report!Claim, Report!Rest
  <2>2. Report!Resting.pc # "insert"
    BY DEF Report!Resting
  <2> QED BY <1>1, <1>2, <2>1, <2>2, AtRest, HandMoves, Zenon
<1>4. CASE Report!Unmoved(p)
  <2>1. /\ r2.exists /\ r2.next = r5[p].day /\ r2' = [r2 EXCEPT !.next = r5[p].next]
        /\ r5' = [r5 EXCEPT ![p].pc = "insert"]
    BY <1>4 DEF Report!Claim, Report!Unmoved, Report!Go
  <2>2. Report!HandStands(r5[p])
    BY ReportsSay
  <2>3. r5[p].day \in Int /\ r5[p].next \in Int /\ r5[p].day < r5[p].next
    BY <1>1, <2>2 DEF Report!HandStands
  <2>4. r2' \in ScheduleRow /\ r2'.next = r5[p].next /\ r2'.edits = r2.edits
    BY <2>1, <2>3, ReportsSay DEF ScheduleRow
  <2>5. /\ r5' = [q \in Workers |-> r5'[q]] /\ r5'[p] = [r5[p] EXCEPT !.pc = "insert"]
        /\ \A q \in Workers : q # p => r5'[q] = r5[q]
    BY <2>1, ReportsSay, Zenon
  <2>6. Report!HandStands(r5[p])'
    BY <2>2, <2>5 DEF Report!HandStands
  <2>7. r5'[p].pc = "insert" /\ r5'[p].day = r5[p].day
    BY <2>2, <2>5 DEF Report!HandStands
  <2>8. \A q \in Workers : r5'[q] = r5[q] \/ Report!HandStands(r5[q])'
    BY <2>5, <2>6
  <2>9. ASSUME NEW day \in 1..ReportDays PROVE Report!OccurrenceStands(day)'
    <3> DEFINE o == Report!Of(day)
               c == Report!Claimed(day)
    <3>1. o' = o
      BY <1>1 DEF Report!Of
    <3>2. p \notin c
      BY <1>1 DEF Report!Claimed
    <3>3. IsFiniteSet(c) /\ Cardinality(c) \in Nat /\ Cardinality(o) \in Nat /\ day \in Nat /\ r2.edits \in Nat
      BY Counted
    <3>4. CASE r5[p].day = day
      <4>1. c' \subseteq c \cup {p}
        BY <2>5 DEF Report!Claimed
      <4>2. IsFiniteSet(c \cup {p}) /\ Cardinality(c \cup {p}) = Cardinality(c) + 1
        BY <3>2, <3>3, FS_AddElement
      <4>3. IsFiniteSet(c') /\ Cardinality(c') <= Cardinality(c) + 1 /\ Cardinality(c') \in Nat
        BY <4>1, <4>2, FS_Subset, FS_CardinalityType
      <4>4. Report!Awaited(day) = 1
        BY <2>1, <3>3, <3>4 DEF Report!Awaited
      <4>5. Report!Awaited(day)' = 0
        BY <2>3, <2>4, <3>3, <3>4 DEF Report!Awaited
      <4>6. Cardinality(o) + Cardinality(c) + 1 <= 1 + r2.edits
        BY <4>4, Counted
      <4>7. Cardinality(o') + Cardinality(c') + Report!Awaited(day)' <= 1 + r2'.edits
        BY <2>4, <3>1, <3>3, <4>3, <4>5, <4>6
      <4> QED BY <4>3, <4>7, ReportsCount DEF Report!OccurrenceStands
    <3>5. CASE r5[p].day # day
      <4>1. c' \subseteq c
        BY <2>5, <2>7, <3>5, Zenon DEF Report!Claimed
      <4>2. IsFiniteSet(c') /\ Cardinality(c') <= Cardinality(c) /\ Cardinality(c') \in Nat
        BY <3>3, <4>1, FS_Subset, FS_CardinalityType
      <4>3. Report!Awaited(day)' <= Report!Awaited(day) /\ Report!Awaited(day)' \in {0, 1}
        <5>1. r2'.exists = r2.exists
          BY <2>1, ReportsSay, Zenon DEF ScheduleRow
        <5>2. r2'.next <= day => r2.next <= day
          BY <2>1, <2>3, <2>4, <3>3
        <5> QED BY <5>1, <5>2 DEF Report!Awaited
      <4>4. Cardinality(o') + Cardinality(c') + Report!Awaited(day)' <= 1 + r2'.edits
        BY <2>4, <3>1, <4>2, <4>3, Counted
      <4> QED BY <4>2, <4>4, ReportsCount DEF Report!OccurrenceStands
    <3> QED BY <3>4, <3>5
  <2>10. r1' \in Nat
    BY <1>1, ReportsSay
  <2> QED BY <1>2, <2>4, <2>5, <2>8, <2>9, <2>10, ReportsMove
<1> QED BY <1>3, <1>4

\* A row is there to be inserted.
LEMMA FreeJobs ==
  ASSUME Report!ReportsInv, Report!FreeJob # {}
  PROVE  LET j == Report!Min(Report!FreeJob) IN j \in 1..MaxJobs /\ r3[j] = Report!NoJob
<1>1. Report!FreeJob \in SUBSET Nat /\ \A j \in Report!FreeJob : j \in 1..MaxJobs /\ r3[j] = Report!NoJob
  BY ReportsSay DEF Report!FreeJob
<1>2. \E x \in Report!FreeJob : \A y \in Report!FreeJob : x <= y
  BY <1>1, HasLeast, Zenon
<1>3. Report!Min(Report!FreeJob) \in Report!FreeJob
  BY <1>2 DEF Report!Min
<1> QED BY <1>1, <1>3, Zenon

\* The claimed occurrence becomes a job; a member's request is of none.
LEMMA JobInserted ==
  ASSUME Report!ReportsInv, NEW p \in Workers, Report!InsertJob(p)
  PROVE  Report!ReportsInv'
<1> DEFINE occ == IF r5[p].pc = "insert" THEN r5[p].day ELSE 0
           j == Report!Min(Report!FreeJob)
           x == [Report!NoJob EXCEPT !.state = "QUEUED", !.occurrence = occ]
           c == [Report!Resting EXCEPT !.pc = "enqueue", !.job = j]
<1>1. /\ r5[p].pc \in {"insert", "rest"} /\ Report!FreeJob # {} /\ UNCHANGED <<r1, r2, r4>>
      /\ r3' = [r3 EXCEPT ![j] = x] /\ r5' = [r5 EXCEPT ![p] = c]
  BY Zenon DEF Report!InsertJob, Report!InsertRow, Report!At
<1>2. j \in 1..MaxJobs /\ r3[j] = Report!NoJob
  BY <1>1, FreeJobs
<1> HIDE DEF j
<1>3. Report!HandStands(r5[p])
  BY ReportsSay
<1>4. occ \in Int
  BY <1>3 DEF Report!HandStands
<1>5. (r5[p].pc = "insert" => occ = r5[p].day) /\ (r5[p].pc # "insert" => occ = 0)
  OBVIOUS
<1> HIDE DEF occ
<1>6. /\ Report!JobStands(x) /\ x.state = "QUEUED" /\ x.occurrence = occ
      /\ ~r3[j].file /\ r3[j].state = "NONE"
  <2>1. /\ Report!NoJob \in [state : Report!Open \cup {"NONE", "SUCCEEDED", "FAILED"}, occurrence : Int,
                            file : BOOLEAN, mailed : BOOLEAN, attempts : Nat]
        /\ Report!NoJob.mailed = FALSE /\ Report!NoJob.file = FALSE /\ Report!NoJob.state = "NONE"
    BY DEF Report!NoJob
  <2>2. "QUEUED" \in Report!Open
    BY DEF Report!Open
  <2>3. x \in [state : Report!Open \cup {"NONE", "SUCCEEDED", "FAILED"}, occurrence : Int,
              file : BOOLEAN, mailed : BOOLEAN, attempts : Nat]
    BY <1>4, <2>1, <2>2, Zenon
  <2>4. x.state = "QUEUED" /\ x.occurrence = occ /\ x.mailed = FALSE
    BY <2>1
  <2> HIDE DEF x
  <2>5. Report!JobStands(x)
    BY <2>3, <2>4 DEF Report!JobStands
  <2> QED BY <1>2, <2>1, <2>4, <2>5
<1>7. c.pc = "enqueue" /\ c.job = j /\ c \in [pc : {"enqueue"}, job : Int, day : Int, next : Int]
  <2>1. Report!Resting \in [pc : {"rest"}, job : Int, day : Int, next : Int]
    BY DEF Report!Resting
  <2>2. j \in Int
    BY <1>2
  <2>3. c.pc = "enqueue" /\ c.job = j
    BY <2>1
  <2>4. c \in [pc : {"enqueue"}, job : Int, day : Int, next : Int]
    BY <2>1, <2>2, Zenon
  <2> QED BY <2>3, <2>4
<1> HIDE DEF x, c
<1>8. /\ r3' = [k \in 1..MaxJobs |-> r3'[k]] /\ r3'[j] = x
      /\ \A k \in 1..MaxJobs : k # j => r3'[k] = r3[k]
  BY <1>1, <1>2, ReportsSay, Zenon
<1>9. JobsGo
  BY <1>6, <1>8, ReportsSay DEF JobsGo
<1>10. r4' \subseteq {k \in 1..MaxJobs : r3'[k].state # "NONE"}
  BY <1>1, <1>9, ReportsSay DEF JobsGo
<1>11. /\ r5' = [q \in Workers |-> r5'[q]] /\ r5'[p] = c
       /\ \A q \in Workers : q # p => r5'[q] = r5[q]
  BY <1>1, ReportsSay, Zenon
<1>12. Report!HandStands(r5[p])'
  <2>1. j \in DOMAIN r3' /\ r3'[j].state # "NONE"
    BY <1>2, <1>6, <1>8
  <2> QED BY <1>7, <1>11, <2>1 DEF Report!HandStands
<1>13. \A q \in Workers : r5'[q] = r5[q] \/ Report!HandStands(r5[q])'
  BY <1>11, <1>12
<1>14. ASSUME NEW day \in 1..ReportDays PROVE Report!OccurrenceStands(day)'
  <2> DEFINE o == Report!Of(day)
             d == Report!Claimed(day)
  <2>1. /\ IsFiniteSet(d) /\ Cardinality(d) \in Nat /\ IsFiniteSet(o) /\ Cardinality(o) \in Nat
        /\ day \in Nat /\ day # 0 /\ r2.edits \in Nat /\ Report!Awaited(day) \in {0, 1}
        /\ Cardinality(o) + Cardinality(d) + Report!Awaited(day) <= 1 + r2.edits
    BY Counted
  <2>2. Report!Awaited(day)' = Report!Awaited(day) /\ r2'.edits = r2.edits
    BY <1>1 DEF Report!Awaited
  <2>3. DOMAIN r3 = 1..MaxJobs /\ DOMAIN r3' = 1..MaxJobs
    BY <1>8, ReportsSay
  <2>4. CASE r5[p].pc = "insert" /\ r5[p].day = day
    <3>1. o' \subseteq o \cup {j}
      BY <1>8, <2>3 DEF Report!Of
    <3>2. j \notin o
      BY <1>6 DEF Report!Of
    <3>3. IsFiniteSet(o \cup {j}) /\ Cardinality(o \cup {j}) = Cardinality(o) + 1
      BY <2>1, <3>2, FS_AddElement
    <3>4. Cardinality(o') <= Cardinality(o) + 1 /\ Cardinality(o') \in Nat
      BY <3>1, <3>3, FS_Subset, FS_CardinalityType
    <3>5. d' \subseteq d \ {p} /\ p \in d
      BY <1>7, <1>11, <2>4 DEF Report!Claimed
    <3>6. IsFiniteSet(d \ {p}) /\ Cardinality(d \ {p}) = Cardinality(d) - 1
      BY <2>1, <3>5, FS_RemoveElement
    <3>7. IsFiniteSet(d') /\ Cardinality(d') <= Cardinality(d) - 1 /\ Cardinality(d') \in Nat
      BY <3>5, <3>6, FS_Subset, FS_CardinalityType
    <3>8. Cardinality(o') + Cardinality(d') + Report!Awaited(day)' <= 1 + r2'.edits
      BY <2>1, <2>2, <3>4, <3>7
    <3> QED BY <3>7, <3>8, ReportsCount DEF Report!OccurrenceStands
  <2>5. CASE ~(r5[p].pc = "insert" /\ r5[p].day = day)
    <3>1. occ # day
      BY <1>5, <2>1, <2>5
    <3>2. o' \subseteq o
      BY <1>6, <1>8, <2>3, <3>1 DEF Report!Of
    <3>3. d' \subseteq d
      BY <1>7, <1>11 DEF Report!Claimed
    <3>4. Cardinality(o') <= Cardinality(o) /\ Cardinality(o') \in Nat
      BY <2>1, <3>2, FS_Subset, FS_CardinalityType
    <3>5. IsFiniteSet(d') /\ Cardinality(d') <= Cardinality(d) /\ Cardinality(d') \in Nat
      BY <2>1, <3>3, FS_Subset, FS_CardinalityType
    <3>6. Cardinality(o') + Cardinality(d') + Report!Awaited(day)' <= 1 + r2'.edits
      BY <2>1, <2>2, <3>4, <3>5
    <3> QED BY <3>5, <3>6, ReportsCount DEF Report!OccurrenceStands
  <2> QED BY <2>4, <2>5
<1>15. r1' \in Nat /\ r2' \in ScheduleRow
  BY <1>1, ReportsSay
<1> QED BY <1>9, <1>10, <1>11, <1>13, <1>14, <1>15, ReportsMove

\* What a worker writes to a job that was inserted.
LEMMA JobWritten ==
  ASSUME Report!ReportsInv, NEW j \in 1..MaxJobs, r3[j].state # "NONE",
         \/ r3' = [r3 EXCEPT ![j].file = TRUE]
         \/ r3[j].state \in Report!Open /\ r3' = [r3 EXCEPT ![j].state = "RUNNING"]
         \/ r3[j].file /\ r3' = [r3 EXCEPT ![j].state = "SUCCEEDED"]
         \/ r3[j].state = "SUCCEEDED" /\ r3' = [r3 EXCEPT ![j].mailed = TRUE]
         \/ r3' = [r3 EXCEPT ![j].state = IF @ \in Report!Open THEN "FAILED" ELSE @]
         \/ r3' = [r3 EXCEPT ![j].attempts = @ + 1]
  PROVE  JobsGo /\ SameOccurrences
<1> DEFINE o == r3[j]
<1>1. /\ o \in [state : Report!Open \cup {"NONE", "SUCCEEDED", "FAILED"}, occurrence : Int, file : BOOLEAN,
               mailed : BOOLEAN, attempts : Nat]
      /\ o.mailed => o.state = "SUCCEEDED"
      /\ o.state = "SUCCEEDED" => o.file
      /\ o.state # "NONE"
  BY ReportsSay DEF Report!JobStands
<1>2. "SUCCEEDED" \notin Report!Open /\ "RUNNING" \in Report!Open /\ "NONE" \notin Report!Open
  BY DEF Report!Open
<1>3. ASSUME NEW x, r3' = [r3 EXCEPT ![j] = x], Report!JobStands(x), x.state # "NONE", x.occurrence = o.occurrence,
             o.file => x.file, o.state = "SUCCEEDED" => x.state = "SUCCEEDED"
      PROVE  JobsGo /\ SameOccurrences
  BY <1>3, JobGoes, Zenon
<1>4. r3 = [k \in 1..MaxJobs |-> r3[k]]
  BY ReportsSay
<1>5. CASE r3' = [r3 EXCEPT ![j].file = TRUE]
  <2> DEFINE x == [o EXCEPT !.file = TRUE]
  <2>1. r3' = [r3 EXCEPT ![j] = x]
    BY <1>4, <1>5
  <2> HIDE DEF o
  <2>2. Report!JobStands(x) /\ x.state = o.state /\ x.occurrence = o.occurrence /\ x.file
    BY <1>1, Zenon DEF Report!JobStands
  <2> QED BY <1>1, <1>3, <2>1, <2>2, Zenon
<1>6. ASSUME NEW s \in Report!Open \cup {"SUCCEEDED", "FAILED"}, r3' = [r3 EXCEPT ![j].state = s],
             s = "SUCCEEDED" => o.file, o.state = "SUCCEEDED" => s = "SUCCEEDED"
      PROVE  JobsGo /\ SameOccurrences
  <2> DEFINE x == [o EXCEPT !.state = s]
  <2>1. r3' = [r3 EXCEPT ![j] = x]
    BY <1>4, <1>6
  <2> HIDE DEF o
  <2>2. s # "NONE"
    BY <1>2
  <2>3. Report!JobStands(x) /\ x.state = s /\ x.occurrence = o.occurrence /\ x.file = o.file
    BY <1>1, <1>6, <2>2 DEF Report!JobStands
  <2> QED BY <1>3, <1>6, <2>1, <2>2, <2>3, Zenon
<1>7. CASE o.state = "SUCCEEDED" /\ r3' = [r3 EXCEPT ![j].mailed = TRUE]
  <2> DEFINE x == [o EXCEPT !.mailed = TRUE]
  <2>1. r3' = [r3 EXCEPT ![j] = x]
    BY <1>4, <1>7
  <2> HIDE DEF o
  <2>2. Report!JobStands(x) /\ x.state = o.state /\ x.occurrence = o.occurrence /\ x.file = o.file
    BY <1>1, <1>7, Zenon DEF Report!JobStands
  <2> QED BY <1>1, <1>3, <2>1, <2>2, Zenon
<1>8. CASE r3' = [r3 EXCEPT ![j].attempts = @ + 1]
  <2> DEFINE n == o.attempts + 1
             x == [o EXCEPT !.attempts = n]
  <2>1. r3' = [r3 EXCEPT ![j] = x]
    BY <1>4, <1>8
  <2>2. n \in Nat
    BY <1>1
  <2> HIDE DEF o, n
  <2>3. Report!JobStands(x) /\ x.state = o.state /\ x.occurrence = o.occurrence /\ x.file = o.file
    BY <1>1, <2>2 DEF Report!JobStands
  <2> QED BY <1>1, <1>3, <2>1, <2>3, Zenon
<1>9. CASE r3' = [r3 EXCEPT ![j].state = IF @ \in Report!Open THEN "FAILED" ELSE @]
  <2>1. CASE o.state \in Report!Open
    <3>1. r3' = [r3 EXCEPT ![j].state = "FAILED"]
      BY <1>9, <2>1
    <3> QED BY <1>2, <1>6, <2>1, <3>1, Zenon
  <2>2. CASE o.state \notin Report!Open
    <3>1. r3' = [r3 EXCEPT ![j].state = o.state]
      BY <1>9, <2>2
    <3>2. o.state \in Report!Open \cup {"SUCCEEDED", "FAILED"}
      BY <1>1
    <3> QED BY <1>1, <1>6, <3>1, <3>2, Zenon
  <2> QED BY <2>1, <2>2
<1> QED BY <1>2, <1>5, <1>6, <1>7, <1>8, <1>9

\* What a process has in hand is a job that was inserted.
LEMMA JobInHand ==
  ASSUME Report!ReportsInv, NEW p \in Workers,
         r5[p].pc \in {"enqueue", "generate", "finish", "notify", "markFailed"}
  PROVE  /\ r5[p].job \in 1..MaxJobs /\ r3[r5[p].job].state # "NONE"
         /\ r5[p].pc \in {"finish", "notify"} => r3[r5[p].job].file
         /\ r5[p].pc = "notify" => r3[r5[p].job].state = "SUCCEEDED"
<1>1. Report!HandStands(r5[p]) /\ DOMAIN r3 = 1..MaxJobs
  BY ReportsSay
<1> QED BY <1>1 DEF Report!HandStands

\* The queue, once the jobs went on.
LEMMA QueueWaits ==
  ASSUME Report!ReportsInv, JobsGo, \A j \in r4' : j \in r4 \/ (j \in 1..MaxJobs /\ r3[j].state # "NONE")
  PROVE  r4' \subseteq {j \in 1..MaxJobs : r3'[j].state # "NONE"}
BY ReportsSay DEF JobsGo

\* A request begins, and a job is queued or claimed.
LEMMA RequestsBegin ==
  ASSUME Report!ReportsInv, NEW p \in Workers,
         Report!ReadForUpdate(p) \/ Report!SelectDue(p) \/ Report!Enqueue(p) \/ \E j \in DOMAIN r3 : Report!ClaimJob(p, j)
  PROVE  Report!ReportsInv'
<1>1. /\ r2 \in [exists : BOOLEAN, next : Int, step : {1, Week}, edits : Nat] /\ r1 \in Nat
      /\ DOMAIN r3 = 1..MaxJobs /\ DOMAIN r5 = Workers
      /\ Report!Resting \in [pc : {"rest"}, job : Int, day : Int, next : Int]
  BY ReportsSay DEF ScheduleRow, Report!Resting
<1>2. CASE Report!ReadForUpdate(p)
  <2> DEFINE c == [Report!Resting EXCEPT !.pc = "update", !.day = r2.next, !.next = r2.step]
  <2>1. UNCHANGED <<r1, r2, r3, r4>> /\ r5' = [r5 EXCEPT ![p] = c]
    BY <1>2 DEF Report!ReadForUpdate
  <2>2. r2.next \in Int /\ r2.step \in Int
    BY <1>1, PapersAssumption
  <2>3. c \in [pc : {"update"}, job : Int, day : Int, next : Int]
    BY <1>1, <2>2, Zenon
  <2> HIDE DEF c
  <2>4. r5'[p] = c => Report!HandStands(r5[p])'
    BY <2>3 DEF Report!HandStands
  <2>5. JobsGo /\ SameOccurrences /\ r4' \subseteq {j \in 1..MaxJobs : r3'[j].state # "NONE"}
    BY <2>1, JobsWait, QueueWaits
  <2> QED BY <2>1, <2>3, <2>4, <2>5, HandMoves, Zenon
<1>3. CASE Report!SelectDue(p)
  <2> DEFINE n == Report!AdvanceNextRun(r2.next, r2.step)
             c == [Report!Resting EXCEPT !.pc = "claim", !.day = r2.next, !.next = n]
  <2>1. UNCHANGED <<r1, r2, r3, r4>> /\ r5' = [r5 EXCEPT ![p] = c] /\ r2.next <= r1
    BY <1>3 DEF Report!SelectDue
  <2>2. r2.next \in Int /\ n \in Int /\ r2.next < n
    BY <1>1, <2>1, RunsAdvance
  <2> HIDE DEF n
  <2>3. c \in [pc : {"claim"}, job : Int, day : Int, next : Int]
    BY <1>1, <2>2, Zenon
  <2>4. c.day = r2.next /\ c.next = n
    BY <1>1
  <2> HIDE DEF c
  <2>5. r5'[p] = c => Report!HandStands(r5[p])'
    BY <2>2, <2>3, <2>4 DEF Report!HandStands
  <2>6. JobsGo /\ SameOccurrences /\ r4' \subseteq {j \in 1..MaxJobs : r3'[j].state # "NONE"}
    BY <2>1, JobsWait, QueueWaits
  <2> QED BY <2>1, <2>3, <2>5, <2>6, HandMoves, Zenon
<1>4. CASE Report!Enqueue(p)
  <2>1. /\ r5[p].pc = "enqueue" /\ UNCHANGED <<r1, r2, r3>> /\ r4' = r4 \cup {r5[p].job}
        /\ r5' = [r5 EXCEPT ![p] = Report!Resting]
    BY <1>4 DEF Report!Enqueue, Report!At, Report!Rest
  <2>2. r5[p].job \in 1..MaxJobs /\ r3[r5[p].job].state # "NONE"
    BY <2>1, JobInHand
  <2>3. JobsGo /\ SameOccurrences /\ r4' \subseteq {j \in 1..MaxJobs : r3'[j].state # "NONE"}
    BY <2>1, <2>2, JobsWait, QueueWaits
  <2>4. Report!Resting.pc # "insert"
    BY DEF Report!Resting
  <2> QED BY <2>1, <2>3, <2>4, AtRest, HandMoves, Zenon
<1>5. ASSUME NEW j \in DOMAIN r3, Report!ClaimJob(p, j) PROVE Report!ReportsInv'
  <2>1. UNCHANGED <<r1, r2>> /\ j \in r4 /\ r4' = r4 \ {j} /\ j \in 1..MaxJobs
    BY <1>1, <1>5, Zenon DEF Report!ClaimJob
  <2>2. r3[j].state # "NONE"
    BY <2>1, ReportsSay
  <2>3. CASE Report!Claimable(j)
    <3> DEFINE c == [Report!Resting EXCEPT !.pc = "generate", !.job = j]
    <3>1. /\ r3[j].state \in Report!Open /\ r3' = [r3 EXCEPT ![j].state = "RUNNING"]
          /\ r5' = [r5 EXCEPT ![p] = c]
      BY <1>5, <2>3, Zenon DEF Report!ClaimJob, Report!Claimable
    <3>2. JobsGo /\ SameOccurrences
      BY <2>1, <2>2, <3>1, JobWritten, Zenon
    <3>3. r4' \subseteq {k \in 1..MaxJobs : r3'[k].state # "NONE"}
      BY <2>1, <3>2, QueueWaits
    <3>4. c.job = j /\ c.pc = "generate"
      BY <1>1
    <3>5. j \in Int
      BY <2>1
    <3>6. c \in [pc : {"generate"}, job : Int, day : Int, next : Int]
      BY <1>1, <3>5, Zenon
    <3> HIDE DEF c
    <3>7. j \in DOMAIN r3' /\ r3'[j].state # "NONE"
      BY <2>1, <2>2, <3>2 DEF JobsGo
    <3>8. r5'[p] = c => Report!HandStands(r5[p])'
      BY <3>4, <3>6, <3>7 DEF Report!HandStands
    <3> QED BY <2>1, <3>1, <3>2, <3>3, <3>4, <3>8, HandMoves, Zenon
  <2>4. CASE ~Report!Claimable(j)
    <3>1. UNCHANGED <<r3, r5>>
      BY <1>5, <2>4, Zenon DEF Report!ClaimJob
    <3>2. JobsGo /\ SameOccurrences /\ r4' \subseteq {k \in 1..MaxJobs : r3'[k].state # "NONE"}
      BY <2>1, <3>1, JobsWait, QueueWaits
    <3>3. \A day \in 1..ReportDays : Report!OccurrenceStands(day)'
      BY <2>1, <3>1, <3>2, OccurrencesWait DEF Report!Awaited
    <3> QED BY <2>1, <3>1, <3>2, <3>3, ReportsMove, ReportsSay
  <2> QED BY <2>3, <2>4
<1> QED BY <1>2, <1>3, <1>4, <1>5

\* A worker goes on with its job, to the file, the state and the e-mail.
LEMMA ReportMade ==
  ASSUME Report!ReportsInv, NEW p \in Workers, Report!StoreFile(p) \/ Report!Finish(p) \/ Report!NotifyReady(p)
  PROVE  Report!ReportsInv'
<1> DEFINE j == r5[p].job
<1>1. r5[p].pc \in {"generate", "finish", "notify"} /\ UNCHANGED <<r1, r2, r4>>
  BY DEF Report!StoreFile, Report!Finish, Report!NotifyReady, Report!At
<1>2. /\ j \in 1..MaxJobs /\ r3[j].state # "NONE"
      /\ r5[p].pc \in {"finish", "notify"} => r3[j].file
      /\ r5[p].pc = "notify" => r3[j].state = "SUCCEEDED"
  BY <1>1, JobInHand
<1>3. Report!HandStands(r5[p]) /\ r5 = [q \in Workers |-> r5[q]] /\ r3 = [k \in 1..MaxJobs |-> r3[k]]
  BY ReportsSay
<1>4. CASE Report!StoreFile(p) \/ Report!Finish(p)
  <2> DEFINE s == IF r5[p].pc = "generate" THEN "finish" ELSE "notify"
             c == [r5[p] EXCEPT !.pc = s]
  <2>1. /\ s \in {"finish", "notify"} /\ r5' = [r5 EXCEPT ![p].pc = s]
        /\ s = "finish" => r3' = [r3 EXCEPT ![j].file = TRUE]
        /\ s = "notify" => r3[j].file /\ r3' = [r3 EXCEPT ![j].state = "SUCCEEDED"]
    BY <1>2, <1>4 DEF Report!StoreFile, Report!Finish, Report!At, Report!Go
  <2> HIDE DEF s
  <2>2. JobsGo /\ SameOccurrences
    BY <1>2, <2>1, JobWritten
  <2>3. r4' \subseteq {k \in 1..MaxJobs : r3'[k].state # "NONE"}
    BY <1>1, <2>2, QueueWaits
  <2>4. r5' = [r5 EXCEPT ![p] = c]
    BY <1>3, <2>1
  <2>5. c.pc = s /\ c.job = j /\ c \in [pc : {"finish", "notify"}, job : Int, day : Int, next : Int]
    BY <1>3, <2>1 DEF Report!HandStands
  <2> HIDE DEF c, j
  <2>6. j \in DOMAIN r3' /\ r3'[j].state # "NONE"
    BY <1>2, <2>2 DEF JobsGo
  <2>7. r3'[j].file /\ (s = "notify" => r3'[j].state = "SUCCEEDED")
    <3>1. \A k \in 1..MaxJobs : Report!JobStands(r3[k])
      BY ReportsSay
    <3>2. CASE s = "finish"
      BY <1>2, <1>3, <2>1, <3>1, <3>2, Zenon DEF Report!JobStands
    <3>3. CASE s = "notify"
      <4>1. r3'[j] = [r3[j] EXCEPT !.state = "SUCCEEDED"] /\ r3[j].file
        BY <1>2, <1>3, <2>1, <3>3, Zenon
      <4>2. Report!JobStands(r3[j])
        BY <1>2, <3>1
      <4> QED BY <4>1, <4>2 DEF Report!JobStands
    <3> QED BY <2>1, <3>2, <3>3
  <2>8. r5'[p] = c => Report!HandStands(r5[p])'
    BY <2>5, <2>6, <2>7 DEF Report!HandStands
  <2> QED BY <1>1, <2>1, <2>2, <2>3, <2>4, <2>5, <2>8, HandMoves, Zenon
<1>5. CASE Report!NotifyReady(p)
  <2>1. /\ r3[j].state = "SUCCEEDED" /\ r3' = [r3 EXCEPT ![j].mailed = TRUE]
        /\ r5' = [r5 EXCEPT ![p] = Report!Resting]
    BY <1>2, <1>5 DEF Report!NotifyReady, Report!At, Report!Rest
  <2>2. JobsGo /\ SameOccurrences
    BY <1>2, <2>1, JobWritten, Zenon
  <2>3. r4' \subseteq {k \in 1..MaxJobs : r3'[k].state # "NONE"}
    BY <1>1, <2>2, QueueWaits
  <2>4. Report!Resting.pc # "insert"
    BY DEF Report!Resting
  <2> QED BY <1>1, <2>1, <2>2, <2>3, <2>4, AtRest, HandMoves, Zenon
<1> QED BY <1>4, <1>5

\* A job fails, an attempt throws, a worker stalls or dies.
LEMMA ReportFails ==
  ASSUME Report!ReportsInv, NEW p \in Workers,
         Report!SourceUnavailable(p) \/ Report!MarkFailed(p) \/ Report!Throw(p) \/ Report!Stall(p) \/ Report!Crash(p)
  PROVE  Report!ReportsInv'
<1> DEFINE j == r5[p].job
<1>1. Report!Resting.pc # "insert"
  BY DEF Report!Resting
<1>2. UNCHANGED <<r1, r2>>
  BY DEF Report!SourceUnavailable, Report!MarkFailed, Report!Throw, Report!Stall, Report!Crash
<1>3. CASE Report!SourceUnavailable(p) \/ Report!MarkFailed(p)
  <2>1. /\ r5[p].pc \in {"generate", "markFailed"} /\ r4' = r4
        /\ r3' = [r3 EXCEPT ![j].state = IF @ \in Report!Open THEN "FAILED" ELSE @]
        /\ r5' = [r5 EXCEPT ![p] = Report!Resting]
    BY <1>3 DEF Report!SourceUnavailable, Report!MarkFailed, Report!At, Report!Rest, Report!Failed
  <2>2. j \in 1..MaxJobs /\ r3[j].state # "NONE"
    BY <2>1, JobInHand
  <2>3. JobsGo /\ SameOccurrences
    BY <2>1, <2>2, JobWritten, Zenon
  <2>4. r4' \subseteq {k \in 1..MaxJobs : r3'[k].state # "NONE"}
    BY <2>1, <2>3, QueueWaits
  <2> QED BY <1>1, <1>2, <2>1, <2>3, <2>4, AtRest, HandMoves, Zenon
<1>4. CASE Report!Throw(p)
  <2>1. /\ r5[p].pc \in {"generate", "finish", "notify"} /\ r4' \subseteq r4 \cup {j}
        /\ r3' = [r3 EXCEPT ![j].attempts = @ + 1]
        /\ \/ r5' = [r5 EXCEPT ![p].pc = "markFailed"]
           \/ r5' = [r5 EXCEPT ![p] = Report!Resting]
    BY <1>4 DEF Report!Throw, Report!Rest, Report!Go
  <2>2. j \in 1..MaxJobs /\ r3[j].state # "NONE"
    BY <2>1, JobInHand
  <2>3. JobsGo /\ SameOccurrences
    BY <2>1, <2>2, JobWritten, Zenon
  <2>4. r4' \subseteq {k \in 1..MaxJobs : r3'[k].state # "NONE"}
    BY <2>1, <2>2, <2>3, QueueWaits
  <2>5. CASE r5' = [r5 EXCEPT ![p].pc = "markFailed"]
    <3> DEFINE c == [r5[p] EXCEPT !.pc = "markFailed"]
    <3>1. Report!HandStands(r5[p]) /\ r5 = [q \in Workers |-> r5[q]]
      BY ReportsSay
    <3>2. r5' = [r5 EXCEPT ![p] = c]
      BY <2>5, <3>1
    <3>3. c.job = j /\ c \in [pc : {"markFailed"}, job : Int, day : Int, next : Int]
      BY <3>1 DEF Report!HandStands
    <3> HIDE DEF c, j
    <3>4. j \in DOMAIN r3' /\ r3'[j].state # "NONE"
      BY <2>2, <2>3 DEF JobsGo
    <3>5. r5'[p] = c => Report!HandStands(r5[p])'
      BY <3>3, <3>4 DEF Report!HandStands
    <3> QED BY <1>2, <2>3, <2>4, <3>2, <3>3, <3>5, HandMoves, Zenon
  <2>6. CASE r5' = [r5 EXCEPT ![p] = Report!Resting]
    BY <1>1, <1>2, <2>3, <2>4, <2>6, AtRest, HandMoves, Zenon
  <2> QED BY <2>1, <2>5, <2>6
<1>5. CASE Report!Stall(p)
  <2>1. r5[p].pc \in {"generate", "finish", "notify"} /\ r4' = r4 \cup {j} /\ UNCHANGED <<r3, r5>>
    BY <1>5 DEF Report!Stall
  <2>2. j \in 1..MaxJobs /\ r3[j].state # "NONE"
    BY <2>1, JobInHand
  <2>3. JobsGo /\ SameOccurrences /\ r4' \subseteq {k \in 1..MaxJobs : r3'[k].state # "NONE"}
    BY <2>1, <2>2, JobsWait, QueueWaits
  <2>4. \A day \in 1..ReportDays : Report!OccurrenceStands(day)'
    BY <1>2, <2>1, <2>3, OccurrencesWait DEF Report!Awaited
  <2> QED BY <1>2, <2>1, <2>3, <2>4, ReportsMove, ReportsSay
<1>6. CASE Report!Crash(p)
  <2>1. /\ UNCHANGED r3 /\ r5' = [r5 EXCEPT ![p] = Report!Resting]
        /\ r4' = IF r5[p].pc \in {"generate", "finish", "notify"} THEN r4 \cup {j} ELSE r4
    BY <1>6 DEF Report!Crash, Report!Rest
  <2>2. r5[p].pc \in {"generate", "finish", "notify"} => j \in 1..MaxJobs /\ r3[j].state # "NONE"
    BY JobInHand
  <2>3. JobsGo /\ SameOccurrences /\ r4' \subseteq {k \in 1..MaxJobs : r3'[k].state # "NONE"}
    BY <2>1, <2>2, JobsWait, QueueWaits
  <2> QED BY <1>1, <1>2, <2>1, <2>3, AtRest, HandMoves, Zenon
<1> QED BY <1>3, <1>4, <1>5, <1>6

LEMMA ReportsKept ==
  ASSUME Report!ReportsInv, [Report!Next]_<<r1, r2, r3, r4, r5, r6>>
  PROVE  Report!ReportsInv'
<1>1. CASE UNCHANGED <<r1, r2, r3, r4, r5, r6>>
  <2>1. JobsGo /\ SameOccurrences /\ r4' \subseteq {k \in 1..MaxJobs : r3'[k].state # "NONE"}
    BY <1>1, JobsWait, QueueWaits
  <2>2. \A day \in 1..ReportDays : Report!OccurrenceStands(day)'
    BY <1>1, <2>1, OccurrencesWait DEF Report!Awaited
  <2> QED BY <1>1, <2>1, <2>2, ReportsMove, ReportsSay
<1> QED BY <1>1, ScheduleGoes, ScheduleEdited, OccurrenceClaimed, JobInserted, RequestsBegin, ReportMade, ReportFails
        DEF Report!Next

LEMMA ReportsInvStands == Report!ReportsInv => Report!ReportsStand
<1> SUFFICES ASSUME Report!ReportsInv PROVE Report!ReportsStand
  OBVIOUS
<1>1. ASSUME NEW day \in 1..ReportDays PROVE Report!Cardinality(Report!Of(day)) <= 1 + r2.edits
  BY Counted, ReportsCount
<1>2. \A j \in DOMAIN r3 : Report!JobStands(r3[j])
  BY DEF Report!ReportsInv
<1> QED BY <1>1, <1>2 DEF Report!ReportsStand, Report!JobStands

----------------------------------------------------------------------------
(* Labels.  r1 is the account, r2 the file of the bulk job, r3 the         *)
(* documents, r4 the job, r5 its place in the queue, r6 the processes.     *)

DocRow == [of : Labelled \cup {"none", "bulk"}, drawn : Nat]
HandRow == [pc : {"free", "draw", "insert", "run", "collect", "document", "settle"},
            of : Labelled \cup {"none"}, drawn : Nat, doc : Nat]
BulkRow == [state : {"NONE", "QUEUED", "RUNNING"} \cup Label!Terminal, result : Nat]
TaskRow == [queued : BOOLEAN, attempts : Nat, stalls : Nat]
OfBulk == Label!Existing("bulk")

LEMMA LabelsSay ==
  ASSUME Label!LabelsInv
  PROVE  /\ r1 \in [blocked : BOOLEAN, template : Nat \ {0}] /\ r2 \in Nat
         /\ r3 \in [1..LabelDocs -> DocRow] /\ OfBulk = {d \in 1..LabelDocs : r3[d].of = "bulk"}
         /\ r4 \in BulkRow /\ r5 \in TaskRow
         /\ r4.state \in {"SUCCEEDED", "PARTIAL"} => r4.result # 0
         /\ r4.result # 0 => r4.result \in OfBulk /\ r2 # 0
         /\ r6 = [p \in Workers |-> r6[p]] /\ \A p \in Workers : Label!HandStands(r6[p]) /\ r6[p] \in HandRow
         /\ r5.stalls = 0 => Label!RunStands
<1>1. Label!RowsStand
  BY DEF Label!LabelsInv
<1>2. r3 \in [1..LabelDocs -> DocRow]
  BY <1>1 DEF Label!RowsStand, DocRow
<1>3. OfBulk = {d \in 1..LabelDocs : r3[d].of = "bulk"}
  BY <1>2 DEF OfBulk, Label!Existing
<1>4. \A p \in Workers : Label!HandStands(r6[p]) /\ r6[p] \in HandRow
  BY DEF Label!LabelsInv, Label!HandStands, HandRow
<1> QED BY <1>1, <1>2, <1>3, <1>4 DEF Label!LabelsInv, Label!RowsStand, BulkRow, TaskRow, OfBulk

\* Documents of the job stay, and so does its file.
DocsGo ==
  /\ r3' \in [1..LabelDocs -> DocRow] /\ r2' \in Nat
  /\ OfBulk \subseteq OfBulk' /\ (r2 # 0 => r2' # 0)

\* The invariant, from what became of each part.
LEMMA LabelsMove ==
  ASSUME Label!LabelsInv, DocsGo,
         r1' \in [blocked : BOOLEAN, template : Nat \ {0}], r4' \in BulkRow, r5' \in TaskRow,
         r4'.state \in {"SUCCEEDED", "PARTIAL"} => r4'.result # 0,
         r4'.result # 0 => r4'.result \in OfBulk' /\ r2' # 0,
         r6' = [q \in Workers |-> r6'[q]],
         \A q \in Workers : r6'[q] = r6[q] \/ Label!HandStands(r6[q])',
         r5'.stalls = 0 => Label!RunStands'
  PROVE  Label!LabelsInv'
<1>1. Label!RowsStand'
  BY DEF Label!RowsStand, DocsGo, DocRow, BulkRow, TaskRow, OfBulk
<1>2. ASSUME NEW q \in Workers, r6'[q] = r6[q] PROVE Label!HandStands(r6[q])'
  <2>1. Label!HandStands(r6[q])
    BY LabelsSay
  <2>2. r6[q].doc \in OfBulk => r6[q].doc \in OfBulk'
    BY DEF DocsGo
  <2> QED BY <1>2, <2>1, <2>2 DEF Label!HandStands, DocsGo, OfBulk
<1> QED BY <1>1, <1>2 DEF Label!LabelsInv

LEMMA DocsWait ==
  ASSUME Label!LabelsInv, r3' = r3, r2' \in Nat, r2 # 0 => r2' # 0
  PROVE  DocsGo /\ OfBulk' = OfBulk
BY LabelsSay DEF DocsGo, OfBulk, Label!Existing

\* The job's run, when neither it nor its worker moves.
LEMMA RunWaits ==
  ASSUME Label!RunStands, OfBulk' = OfBulk, r5'.queued = r5.queued, r4'.state = r4.state,
         \A q \in Workers : (Label!Running(q)' <=> Label!Running(q)) /\ (Label!Running(q) => r6'[q] = r6[q])
  PROVE  Label!RunStands'
<1>1. Label!Existing("bulk")' = Label!Existing("bulk")
  BY DEF OfBulk
<1> QED BY <1>1 DEF Label!RunStands

LEMMA LabelsInitially == Label!Init => Label!LabelsInv
<1> SUFFICES ASSUME Label!Init PROVE Label!LabelsInv
  OBVIOUS
<1>1. /\ r1 = [blocked |-> FALSE, template |-> 1] /\ r2 = 0
      /\ r3 = [d \in 1..LabelDocs |-> Label!NoDoc] /\ r4 = [state |-> "NONE", result |-> 0]
      /\ r5 = [queued |-> FALSE, attempts |-> 0, stalls |-> 0] /\ r6 = [p \in Workers |-> Label!Free]
  BY DEF Label!Init
<1>2. Label!RowsStand
  BY <1>1 DEF Label!RowsStand, Label!NoDoc
<1>3. Label!Existing("bulk") = {}
  BY <1>1 DEF Label!Existing, Label!NoDoc
<1>4. \A p \in Workers : Label!HandStands(r6[p]) /\ ~Label!Running(p)
  BY <1>1 DEF Label!HandStands, Label!Running, Label!Free
<1>5. r6 = [p \in Workers |-> r6[p]]
  BY <1>1
<1>6. Label!RunStands
  BY <1>1, <1>3, <1>4 DEF Label!RunStands
<1> QED BY <1>2, <1>4, <1>5, <1>6 DEF Label!LabelsInv

\* The account changes; the job is created.
LEMMA JobBegins ==
  ASSUME Label!LabelsInv, Label!EditTemplate \/ Label!Block \/ Label!CreateBulkJob
  PROVE  Label!LabelsInv'
<1>1. UNCHANGED <<r2, r3, r6>>
  BY DEF Label!EditTemplate, Label!Block, Label!CreateBulkJob
<1>2. DocsGo /\ OfBulk' = OfBulk
  BY <1>1, DocsWait, LabelsSay
<1>3. r6' = [q \in Workers |-> r6'[q]] /\ \A q \in Workers : Label!Running(q)' <=> Label!Running(q)
  BY <1>1, LabelsSay DEF Label!Running
<1>4. CASE Label!EditTemplate \/ Label!Block
  <2>1. UNCHANGED <<r4, r5>> /\ r1' \in [blocked : BOOLEAN, template : Nat \ {0}]
    <3>1. r1 \in [blocked : BOOLEAN, template : Nat \ {0}]
      BY LabelsSay
    <3>2. UNCHANGED <<r4, r5>>
      BY <1>4 DEF Label!EditTemplate, Label!Block
    <3>3. CASE Label!EditTemplate
      <4> DEFINE t == r1.template + 1
      <4>1. t \in Nat \ {0} /\ r1' = [r1 EXCEPT !.template = t]
        BY <3>1, <3>3 DEF Label!EditTemplate
      <4> HIDE DEF t
      <4> QED BY <3>1, <3>2, <4>1
    <3>4. CASE Label!Block
      BY <3>1, <3>2, <3>4, Zenon DEF Label!Block
    <3> QED BY <1>4, <3>3, <3>4
  <2>2. r5'.stalls = 0 => Label!RunStands'
    BY <1>1, <1>2, <1>3, <2>1, RunWaits, LabelsSay
  <2> QED BY <1>1, <1>2, <1>3, <2>1, <2>2, LabelsMove, LabelsSay
<1>5. CASE Label!CreateBulkJob
  <2>1. /\ r4.state = "NONE" /\ r4' = [r4 EXCEPT !.state = "QUEUED"] /\ r1' = r1
        /\ \E queued \in BOOLEAN : r5' = [r5 EXCEPT !.queued = queued]
    BY <1>5 DEF Label!CreateBulkJob
  <2>2. r4' \in BulkRow /\ r4'.state = "QUEUED" /\ r4'.result = r4.result
    BY <2>1, LabelsSay DEF BulkRow
  <2>3. r5' \in TaskRow /\ r5'.stalls = r5.stalls
    BY <2>1, LabelsSay DEF TaskRow
  <2>4. ASSUME r5'.stalls = 0 PROVE Label!RunStands'
    <3>1. Label!RunStands
      BY <2>3, <2>4, LabelsSay
    <3>2. \A q \in Workers : ~Label!Running(q)
      BY <2>1, <3>1 DEF Label!RunStands
    <3>3. Label!Existing("bulk") = {}
      BY <2>1, <3>1, <3>2 DEF Label!RunStands, Label!Terminal
    <3>4. Label!Existing("bulk")' = {}
      BY <1>2, <3>3 DEF OfBulk
    <3> QED BY <1>3, <2>2, <3>2, <3>4 DEF Label!RunStands
  <2> QED BY <1>1, <1>2, <1>3, <2>1, <2>2, <2>3, <2>4, LabelsMove, LabelsSay
<1> QED BY <1>4, <1>5

\* A row is there to be inserted.
LEMMA FreeDocs ==
  ASSUME Label!LabelsInv, Label!FreeDoc # {}
  PROVE  LET d == Label!Min(Label!FreeDoc) IN d \in 1..LabelDocs /\ d \notin OfBulk
<1>1. Label!FreeDoc \in SUBSET Nat /\ \A d \in Label!FreeDoc : d \in 1..LabelDocs /\ d \notin OfBulk
  BY LabelsSay DEF Label!FreeDoc, Label!NoDoc
<1>2. \E x \in Label!FreeDoc : \A y \in Label!FreeDoc : x <= y
  BY <1>1, HasLeast, Zenon
<1>3. Label!Min(Label!FreeDoc) \in Label!FreeDoc
  BY <1>2 DEF Label!Min
<1> QED BY <1>1, <1>3, Zenon

LEMMA DocInserted ==
  ASSUME Label!LabelsInv, NEW d \in 1..LabelDocs, d \notin OfBulk, NEW x \in DocRow, r3' = [r3 EXCEPT ![d] = x],
         r2' = r2
  PROVE  DocsGo /\ OfBulk' = IF x.of = "bulk" THEN OfBulk \cup {d} ELSE OfBulk
<1>1. /\ r3' \in [1..LabelDocs -> DocRow] /\ r3'[d] = x
      /\ \A k \in 1..LabelDocs : k # d => r3'[k] = r3[k]
  BY LabelsSay
<1>2. OfBulk' = {k \in 1..LabelDocs : r3'[k].of = "bulk"}
  BY <1>1 DEF OfBulk, Label!Existing
<1>3. OfBulk = {k \in 1..LabelDocs : r3[k].of = "bulk"} /\ r2 \in Nat
  BY LabelsSay
<1>4. OfBulk' = IF x.of = "bulk" THEN OfBulk \cup {d} ELSE OfBulk
  BY <1>1, <1>2, <1>3
<1> QED BY <1>1, <1>3, <1>4 DEF DocsGo

\* One process goes on.
LEMMA HandGoes ==
  ASSUME Label!LabelsInv, NEW p \in Workers, NEW c, r6' = [r6 EXCEPT ![p] = c]
  PROVE  /\ r6' = [q \in Workers |-> r6'[q]] /\ r6'[p] = c
         /\ \A q \in Workers : q # p => r6'[q] = r6[q] /\ (Label!Running(q)' <=> Label!Running(q))
         /\ Label!Running(p)' <=> c.pc \in {"run", "collect", "document", "settle"}
BY LabelsSay, Zenon DEF Label!Running

\* A label of one shipment: a request does not touch the job.
LEMMA LabelMade ==
  ASSUME Label!LabelsInv, NEW p \in Workers,
         (\E s \in Labelled : Label!AskLabel(p, s)) \/ Label!DrawLabel(p) \/ Label!InsertLabel(p)
  PROVE  Label!LabelsInv'
<1>1. ~Label!Running(p) /\ UNCHANGED <<r1, r2, r4, r5>>
  BY Zenon DEF Label!AskLabel, Label!DrawLabel, Label!InsertLabel, Label!At, Label!Running
<1>2. /\ r6[p] \in HandRow /\ r6 = [q \in Workers |-> r6[q]]
      /\ r1 \in [blocked : BOOLEAN, template : Nat \ {0}] /\ r2 \in Nat
      /\ Label!Free \in HandRow /\ Label!Free.pc = "free"
  BY LabelsSay DEF HandRow, Label!Free
<1>3. ASSUME DocsGo, OfBulk' = OfBulk, NEW c \in HandRow, c.pc \in {"free", "draw", "insert"}, r6' = [r6 EXCEPT ![p] = c]
      PROVE  Label!LabelsInv'
  <2>1. /\ r6' = [q \in Workers |-> r6'[q]] /\ r6'[p] = c /\ ~Label!Running(p)'
        /\ \A q \in Workers : q # p => r6'[q] = r6[q] /\ (Label!Running(q)' <=> Label!Running(q))
    BY <1>3, HandGoes, Zenon
  <2>2. Label!HandStands(r6[p])'
    BY <1>3, <2>1 DEF Label!HandStands, HandRow
  <2>3. \A q \in Workers : r6'[q] = r6[q] \/ Label!HandStands(r6[q])'
    BY <2>1, <2>2
  <2>4. r5'.stalls = 0 => Label!RunStands'
    BY <1>1, <1>3, <2>1, RunWaits, LabelsSay
  <2> QED BY <1>1, <1>2, <1>3, <2>1, <2>3, <2>4, LabelsMove, LabelsSay
<1>4. ASSUME NEW s \in Labelled, Label!AskLabel(p, s) PROVE Label!LabelsInv'
  <2> DEFINE c == [Label!Free EXCEPT !.pc = "draw", !.of = s]
  <2>1. r3' = r3 /\ r6' = [r6 EXCEPT ![p] = c]
    BY <1>4, Zenon DEF Label!AskLabel
  <2>2. c \in HandRow /\ c.pc = "draw"
    BY <1>2, Zenon DEF HandRow
  <2> QED BY <1>1, <1>2, <1>3, <2>1, <2>2, DocsWait, Zenon
<1>5. CASE Label!DrawLabel(p)
  <2> DEFINE c == [r6[p] EXCEPT !.pc = "insert", !.drawn = r1.template]
  <2>1. r3' = r3 /\ r6' = [r6 EXCEPT ![p] = c]
    BY <1>2, <1>5, Zenon DEF Label!DrawLabel
  <2>2. c \in HandRow /\ c.pc = "insert"
    BY <1>2, Zenon DEF HandRow
  <2> QED BY <1>1, <1>2, <1>3, <2>1, <2>2, DocsWait, Zenon
<1>6. CASE Label!InsertLabel(p)
  <2> DEFINE d == Label!Min(Label!FreeDoc)
             x == [of |-> r6[p].of, drawn |-> r6[p].drawn]
  <2>1. Label!FreeDoc # {} /\ r3' = [r3 EXCEPT ![d] = x] /\ r6' = [r6 EXCEPT ![p] = Label!Free]
    BY <1>6 DEF Label!InsertLabel, Label!Done
  <2>2. x \in DocRow /\ x.of # "bulk"
    BY <1>2, PapersAssumption DEF HandRow, DocRow
  <2>3. d \in 1..LabelDocs /\ d \notin OfBulk
    BY <2>1, FreeDocs
  <2> HIDE DEF d, x
  <2>4. DocsGo /\ OfBulk' = OfBulk
    BY <1>1, <2>1, <2>2, <2>3, DocInserted, Zenon
  <2> QED BY <1>2, <1>3, <2>1, <2>4
<1> QED BY <1>4, <1>5, <1>6

\* A worker takes the job from the queue, which held its only copy.
LEMMA RunTaken ==
  ASSUME Label!LabelsInv, NEW p \in Workers, Label!TakeTask(p)
  PROVE  Label!LabelsInv'
<1>1. /\ UNCHANGED <<r1, r2, r3, r4>> /\ r5.queued /\ r5' = [r5 EXCEPT !.queued = FALSE] /\ r6[p].pc = "free"
  BY DEF Label!TakeTask, Label!At
<1>2. DocsGo /\ OfBulk' = OfBulk
  BY <1>1, DocsWait, LabelsSay
<1>3. r5' \in TaskRow /\ ~r5'.queued /\ r5'.stalls = r5.stalls
  BY <1>1, LabelsSay, Zenon DEF TaskRow
<1>4. Label!Existing("bulk")' = Label!Existing("bulk")
  BY <1>2 DEF OfBulk
<1>5. CASE Label!Reopenable
  <2> DEFINE c == [Label!Free EXCEPT !.pc = "run"]
  <2>1. r6' = [r6 EXCEPT ![p] = c] /\ r4.state \notin Label!Terminal
    BY <1>5 DEF Label!TakeTask, Label!Reopenable
  <2>2. c \in HandRow /\ c.pc = "run"
    BY DEF HandRow, Label!Free
  <2> HIDE DEF c
  <2>3. /\ r6' = [q \in Workers |-> r6'[q]] /\ r6'[p] = c /\ Label!Running(p)'
        /\ \A q \in Workers : q # p => r6'[q] = r6[q] /\ (Label!Running(q)' <=> Label!Running(q))
    BY <2>1, <2>2, HandGoes, Zenon
  <2>4. Label!HandStands(r6[p])'
    BY <2>2, <2>3 DEF Label!HandStands, HandRow
  <2>5. \A q \in Workers : r6'[q] = r6[q] \/ Label!HandStands(r6[q])'
    BY <2>3, <2>4
  <2>6. ASSUME r5'.stalls = 0 PROVE Label!RunStands'
    <3>1. Label!RunStands
      BY <1>3, <2>6, LabelsSay
    <3>2. \A q \in Workers : ~Label!Running(q)
      BY <1>1, <3>1 DEF Label!RunStands
    <3>3. r4.state # "NONE" /\ Label!Existing("bulk") = {}
      BY <1>1, <2>1, <3>1, <3>2 DEF Label!RunStands
    <3> QED BY <1>1, <1>3, <1>4, <2>1, <2>3, <3>2, <3>3 DEF Label!RunStands
  <2> QED BY <1>1, <1>2, <1>3, <2>3, <2>5, <2>6, LabelsMove, LabelsSay
<1>6. CASE ~Label!Reopenable
  <2>1. r6' = r6 /\ r4.state \in Label!Terminal
    BY <1>6 DEF Label!TakeTask, Label!Reopenable
  <2>2. ASSUME r5'.stalls = 0 PROVE Label!RunStands'
    <3>1. Label!RunStands
      BY <1>3, <2>2, LabelsSay
    <3>2. \A q \in Workers : Label!Running(q)' <=> Label!Running(q)
      BY <2>1 DEF Label!Running
    <3>3. \A q \in Workers : ~Label!Running(q)
      BY <1>1, <3>1 DEF Label!RunStands
    <3> QED BY <1>1, <1>3, <1>4, <2>1, <3>1, <3>2, <3>3 DEF Label!RunStands
  <2> QED BY <1>1, <1>2, <1>3, <2>1, <2>2, LabelsMove, LabelsSay
<1> QED BY <1>5, <1>6

\* A run goes on to its document; nobody else runs, unless a worker stalled.
LEMMA RunGoesOn ==
  ASSUME Label!LabelsInv, NEW p \in Workers,
         Label!StartRun(p) \/ Label!SaveProgress(p) \/ Label!StorePages(p) \/ Label!InsertDocument(p)
  PROVE  Label!LabelsInv'
<1>1. /\ UNCHANGED <<r1, r5>> /\ Label!Running(p) /\ r6[p].pc # "settle"
      /\ r6[p] \in HandRow /\ Label!HandStands(r6[p]) /\ r6 = [q \in Workers |-> r6[q]]
      /\ r1 \in [blocked : BOOLEAN, template : Nat \ {0}] /\ r2 \in Nat /\ r4 \in BulkRow
  BY LabelsSay DEF Label!StartRun, Label!SaveProgress, Label!StorePages, Label!InsertDocument, Label!At, Label!Running
<1>2. ASSUME DocsGo, NEW c \in HandRow, c.pc \in {"collect", "document", "settle"}, r6' = [r6 EXCEPT ![p] = c],
             r4'.state \in {r4.state, "RUNNING"}, r4' \in BulkRow, r4'.result = r4.result,
             c.pc \in {"document", "settle"} => r2' # 0,
             IF c.pc = "settle" THEN c.doc # 0 /\ OfBulk' = OfBulk \cup {c.doc} ELSE OfBulk' = OfBulk
      PROVE  Label!LabelsInv'
  <2>1. /\ r6' = [q \in Workers |-> r6'[q]] /\ r6'[p] = c /\ Label!Running(p)'
        /\ \A q \in Workers : q # p => r6'[q] = r6[q] /\ (Label!Running(q)' <=> Label!Running(q))
    BY <1>2, HandGoes, Zenon
  <2>2. Label!HandStands(r6[p])'
    BY <1>2, <2>1 DEF Label!HandStands, HandRow, OfBulk
  <2>3. \A q \in Workers : r6'[q] = r6[q] \/ Label!HandStands(r6[q])'
    BY <2>1, <2>2
  <2>4. ASSUME r5'.stalls = 0 PROVE Label!RunStands'
    <3>1. Label!RunStands
      BY <1>1, <2>4, LabelsSay
    <3>2. /\ \A q \in Workers : Label!Running(q) => q = p
          /\ ~r5.queued /\ r4.state \notin Label!Terminal \cup {"NONE"} /\ OfBulk = {}
      BY <1>1, <3>1 DEF Label!RunStands, OfBulk
    <3>3. /\ \A q \in Workers : Label!Running(q)' => q = p
          /\ ~r5'.queued /\ r4'.state \notin Label!Terminal \cup {"NONE"}
      BY <1>1, <1>2, <2>1, <3>2 DEF Label!Terminal
    <3>4. /\ r6'[p].pc # "settle" => Label!Existing("bulk")' = {}
          /\ \A d, e \in Label!Existing("bulk")' : d = e
      BY <1>2, <2>1, <3>2 DEF OfBulk
    <3> QED BY <2>1, <3>3, <3>4 DEF Label!RunStands
  <2>5. r4.result # 0 => r4.result \in OfBulk' /\ r2' # 0
    BY <1>2, LabelsSay DEF DocsGo
  <2>6. r4'.state \in {"SUCCEEDED", "PARTIAL"} => r4'.result # 0
    BY <1>2, LabelsSay
  <2> QED BY <1>1, <1>2, <2>1, <2>3, <2>4, <2>5, <2>6, LabelsMove, LabelsSay
<1>3. CASE Label!StartRun(p) \/ Label!SaveProgress(p)
  <2> DEFINE c == [r6[p] EXCEPT !.pc = "collect"]
  <2>1. UNCHANGED <<r2, r3>> /\ r4' = [r4 EXCEPT !.state = "RUNNING"] /\ r6' = [r6 EXCEPT ![p] = c]
    <3>1. CASE Label!StartRun(p)
      BY <1>1, <3>1 DEF Label!StartRun, Label!Go
    <3>2. CASE Label!SaveProgress(p)
      <4>1. r6[p].pc = "collect" /\ r6' = r6
        BY <3>2 DEF Label!SaveProgress, Label!At
      <4>2. c = r6[p]
        BY <1>1, <4>1 DEF HandRow
      <4>3. r6' = [r6 EXCEPT ![p] = c]
        BY <1>1, <4>1, <4>2
      <4> QED BY <3>2, <4>3, Zenon DEF Label!SaveProgress
    <3> QED BY <1>3, <3>1, <3>2
  <2>2. r4' \in BulkRow /\ r4'.state = "RUNNING" /\ r4'.result = r4.result
    BY <1>1, <2>1 DEF BulkRow
  <2>3. c \in HandRow /\ c.pc = "collect"
    BY <1>1 DEF HandRow
  <2> HIDE DEF c
  <2> QED BY <1>1, <1>2, <2>1, <2>2, <2>3, DocsWait
<1>4. CASE Label!StorePages(p)
  <2> DEFINE c == [r6[p] EXCEPT !.pc = "document", !.drawn = r1.template]
  <2>1. r3' = r3 /\ r4' = r4 /\ r2' = r1.template /\ r6' = [r6 EXCEPT ![p] = c]
    BY <1>1, <1>4, Zenon DEF Label!StorePages
  <2>2. r1.template \in Nat /\ r1.template # 0
    BY <1>1
  <2>3. c \in HandRow /\ c.pc = "document"
    BY <1>1, <2>2, Zenon DEF HandRow
  <2> HIDE DEF c
  <2> QED BY <1>1, <1>2, <2>1, <2>2, <2>3, DocsWait
<1>5. CASE Label!InsertDocument(p)
  <2> DEFINE d == Label!Min(Label!FreeDoc)
             x == [of |-> "bulk", drawn |-> r6[p].drawn]
             c == [r6[p] EXCEPT !.pc = "settle", !.doc = d]
  <2>1. /\ Label!FreeDoc # {} /\ r3' = [r3 EXCEPT ![d] = x] /\ r6' = [r6 EXCEPT ![p] = c]
        /\ r2' = r2 /\ r4' = r4 /\ r6[p].pc = "document"
    BY <1>1, <1>5, Zenon DEF Label!InsertDocument, Label!At
  <2>2. d \in 1..LabelDocs /\ d \notin OfBulk
    BY <2>1, FreeDocs
  <2> HIDE DEF d
  <2>3. x \in DocRow /\ x.of = "bulk"
    BY <1>1 DEF HandRow, DocRow
  <2> HIDE DEF x
  <2>4. d \in Nat /\ d # 0
    BY <2>2
  <2>5. c \in HandRow /\ c.pc = "settle" /\ c.doc = d
    BY <1>1, <2>4, Zenon DEF HandRow
  <2> HIDE DEF c
  <2>6. DocsGo /\ OfBulk' = OfBulk \cup {d}
    BY <2>1, <2>2, <2>3, DocInserted, Zenon
  <2>7. r2' # 0
    BY <1>1, <2>1 DEF Label!HandStands
  <2> QED BY <1>1, <1>2, <2>1, <2>4, <2>5, <2>6, <2>7
<1> QED BY <1>3, <1>4, <1>5

\* A run ends, well or not, or is left to another worker.
LEMMA RunEnds ==
  ASSUME Label!LabelsInv, NEW p \in Workers, Label!SettleJob(p) \/ Label!FailRun(p) \/ Label!Stall(p)
  PROVE  Label!LabelsInv'
<1>1. /\ UNCHANGED <<r1, r2, r3>> /\ Label!Running(p)
      /\ r6[p] \in HandRow /\ Label!HandStands(r6[p]) /\ r6 = [q \in Workers |-> r6[q]] /\ r5 \in TaskRow /\ r4 \in BulkRow
      /\ r1 \in [blocked : BOOLEAN, template : Nat \ {0}]
  BY LabelsSay DEF Label!SettleJob, Label!FailRun, Label!Stall, Label!InRun, Label!At, Label!Running
<1>2. DocsGo /\ OfBulk' = OfBulk
  BY <1>1, DocsWait, LabelsSay
<1>3. Label!Free.pc = "free" /\ Label!Free \in HandRow
  BY DEF HandRow, Label!Free
<1>4. ASSUME r6' = [r6 EXCEPT ![p] = Label!Free], r4'.state \in Label!Terminal, r5'.stalls = r5.stalls, r5'.stalls = 0
      PROVE  Label!RunStands'
  <2>1. Label!RunStands
    BY <1>4, LabelsSay
  <2>2. /\ ~Label!Running(p)'
        /\ \A q \in Workers : q # p => (Label!Running(q)' <=> Label!Running(q))
    BY <1>3, <1>4, HandGoes, Zenon
  <2>3. \A q \in Workers : ~Label!Running(q)'
    BY <1>1, <2>1, <2>2 DEF Label!RunStands
  <2>4. \A d, e \in Label!Existing("bulk")' : d = e
    BY <1>2, <2>1 DEF Label!RunStands, OfBulk
  <2> QED BY <1>4, <2>3, <2>4 DEF Label!RunStands, Label!Terminal
<1>5. ASSUME r6' = [r6 EXCEPT ![p] = Label!Free] \/ r6' = r6
      PROVE  /\ r6' = [q \in Workers |-> r6'[q]]
             /\ \A q \in Workers : r6'[q] = r6[q] \/ Label!HandStands(r6[q])'
  <2>1. CASE r6' = r6
    BY <1>1, <2>1
  <2>2. CASE r6' = [r6 EXCEPT ![p] = Label!Free]
    <3>1. /\ r6' = [q \in Workers |-> r6'[q]] /\ r6'[p] = Label!Free
          /\ \A q \in Workers : q # p => r6'[q] = r6[q]
      BY <2>2, HandGoes, Zenon
    <3>2. Label!HandStands(r6[p])'
      BY <3>1 DEF Label!HandStands, Label!Free
    <3> QED BY <3>1, <3>2
  <2> QED BY <1>5, <2>1, <2>2
<1>6. CASE Label!SettleJob(p)
  <2>1. /\ r6[p].pc = "settle" /\ r6' = [r6 EXCEPT ![p] = Label!Free] /\ r5' = r5
        /\ \E state \in {"SUCCEEDED", "PARTIAL"} : r4' = [state |-> state, result |-> r6[p].doc]
    BY <1>6 DEF Label!SettleJob, Label!At, Label!Done
  <2>2. r6[p].doc \in Nat /\ r6[p].doc # 0 /\ r6[p].doc \in OfBulk /\ r2 # 0
    BY <1>1, <2>1 DEF Label!HandStands, HandRow, OfBulk
  <2>3. r4' \in BulkRow /\ r4'.state \in {"SUCCEEDED", "PARTIAL"} /\ r4'.result = r6[p].doc
    BY <2>1, <2>2 DEF BulkRow, Label!Terminal
  <2>4. r5'.stalls = 0 => Label!RunStands'
    BY <1>4, <2>1, <2>3 DEF Label!Terminal
  <2> QED BY <1>1, <1>2, <1>5, <2>1, <2>2, <2>3, <2>4, LabelsMove
<1>7. CASE Label!FailRun(p)
  <2> DEFINE n == r5.attempts + 1
             g == r5.queued \/ r5.attempts + 1 < MaxAttempts
  <2>1. /\ r4' = [r4 EXCEPT !.state = "FAILED"] /\ r6' = [r6 EXCEPT ![p] = Label!Free]
        /\ r5' = [r5 EXCEPT !.attempts = @ + 1, !.queued = @ \/ r5.attempts + 1 < MaxAttempts]
    BY <1>7 DEF Label!FailRun, Label!Done
  <2>2. n \in Nat /\ r5' = [r5 EXCEPT !.attempts = n, !.queued = g]
    BY <1>1, <2>1 DEF TaskRow
  <2>3. g \in BOOLEAN
    BY <1>1 DEF TaskRow
  <2> HIDE DEF n, g
  <2>4. r5' \in TaskRow /\ r5'.stalls = r5.stalls
    BY <1>1, <2>2, <2>3, Zenon DEF TaskRow
  <2>5. r4' \in BulkRow /\ r4'.state = "FAILED" /\ r4'.result = r4.result
    BY <1>1, <2>1 DEF BulkRow, Label!Terminal
  <2>6. r5'.stalls = 0 => Label!RunStands'
    BY <1>4, <2>1, <2>4, <2>5 DEF Label!Terminal
  <2> QED BY <1>1, <1>2, <1>5, <2>1, <2>4, <2>5, <2>6, LabelsMove, LabelsSay
<1>8. CASE Label!Stall(p)
  <2> DEFINE n == r5.stalls + 1
  <2>1. /\ r4' = r4 /\ (r6' = r6 \/ r6' = [r6 EXCEPT ![p] = Label!Free])
        /\ r5' = [r5 EXCEPT !.stalls = n, !.queued = TRUE]
    BY <1>8 DEF Label!Stall, Label!Done
  <2>2. n \in Nat /\ n # 0
    BY <1>1 DEF TaskRow
  <2> HIDE DEF n
  <2>3. r5' \in TaskRow /\ r5'.stalls # 0
    BY <1>1, <2>1, <2>2, Zenon DEF TaskRow
  <2> QED BY <1>1, <1>2, <1>5, <2>1, <2>3, LabelsMove, LabelsSay
<1> QED BY <1>6, <1>7, <1>8

LEMMA LabelsKept ==
  ASSUME Label!LabelsInv, [Label!Next]_<<r1, r2, r3, r4, r5, r6>>
  PROVE  Label!LabelsInv'
<1>1. CASE UNCHANGED <<r1, r2, r3, r4, r5, r6>>
  <2>1. DocsGo /\ OfBulk' = OfBulk
    BY <1>1, DocsWait, LabelsSay
  <2>2. \A q \in Workers : Label!Running(q)' <=> Label!Running(q)
    BY <1>1 DEF Label!Running
  <2>3. r5'.stalls = 0 => Label!RunStands'
    BY <1>1, <2>1, <2>2, RunWaits, LabelsSay
  <2> QED BY <1>1, <2>1, <2>3, LabelsMove, LabelsSay
<1> QED BY <1>1, JobBegins, LabelMade, RunTaken, RunGoesOn, RunEnds DEF Label!Next

LEMMA LabelsInvStands == Label!LabelsInv => Label!LabelsStand
<1> SUFFICES ASSUME Label!LabelsInv PROVE Label!LabelsStand
  OBVIOUS
<1>1. /\ r4.state \in {"SUCCEEDED", "PARTIAL"} => r4.result # 0
      /\ r4.result # 0 => r3[r4.result].of = "bulk" /\ r2 # 0
  BY LabelsSay
<1>2. ASSUME r5.stalls = 0 PROVE Label!Cardinality(Label!Existing("bulk")) <= 1
  <2> DEFINE S == Label!Existing("bulk")
  <2>1. \A d, e \in S : d = e
    BY <1>2, LabelsSay DEF Label!RunStands
  <2>2. Label!Cardinality(S) = Cardinality(S)
    BY Zenon DEF Label!Cardinality, Cardinality
  <2>3. CASE S = {}
    BY <2>2, <2>3, FS_EmptySet
  <2>4. CASE S # {}
    <3>1. PICK d \in S : S = {d}
      BY <2>1, <2>4
    <3> QED BY <2>2, <3>1, FS_Singleton
  <2> QED BY <2>3, <2>4
<1> QED BY <1>1, <1>2 DEF Label!LabelsStand

\* report-schedule.service.ts, report-runner.service.ts and bulk-labels.service.ts:
\* for any processes, days, edits, jobs, attempts and faults: an occurrence is
\* reported once and once more for an edit, a link that was mailed is of a job that
\* succeeded and has its file; a bulk job that succeeded names its document, whose
\* file is there, and has no other until a worker stalls.
THEOREM PapersAreGood == Spec => []PapersStand
<1> DEFINE I == (focus = "reports" => Report!ReportsInv) /\ (focus = "labels" => Label!LabelsInv)
<1>1. Init => I
  BY ReportsInitially, LabelsInitially, Zenon DEF Init
<1>2. I /\ [Next]_vars => I'
  <2> SUFFICES ASSUME I, [Next]_vars PROVE I'
    OBVIOUS
  <2>1. UNCHANGED focus
    BY DEF Next, vars
  <2>2. CASE focus = "reports"
    <3>1. [Report!Next]_<<r1, r2, r3, r4, r5, r6>>
      BY <2>2 DEF Next, vars
    <3> QED BY <2>1, <2>2, <3>1, ReportsKept
  <2>3. CASE focus = "labels"
    <3>1. [Label!Next]_<<r1, r2, r3, r4, r5, r6>>
      BY <2>3 DEF Next, vars
    <3> QED BY <2>1, <2>3, <3>1, LabelsKept
  <2> QED BY <2>1, <2>2, <2>3
<1>3. I => PapersStand
  BY ReportsInvStands, LabelsInvStands DEF PapersStand
<1> QED BY <1>1, <1>2, <1>3, PTL DEF Spec

----------------------------------------------------------------------------
(* Console.  r1 is the admin, r2 the sessions, r5 the requests, r6 the     *)
(* departures.                                                             *)

AdminRow == [active : BOOLEAN, secret : Nat, confirmed : BOOLEAN, verified : Nat]

\* The inductive invariant, read with the vocabulary of this section.
LEMMA ConsoleSays ==
  Desk!ConsoleInv =>
    /\ r1 \in AdminRow /\ (r1.confirmed => r1.secret > 0)
    /\ r2 = [s \in ConsoleSessions |-> r2[s]] /\ r5 = [p \in Workers |-> r5[p]]
    /\ \A s \in ConsoleSessions : r2[s] \in [state : {"none", "live", "dead"}, born : {r2[s].born}]
    /\ \A s \in ConsoleSessions : r2[s].state = "live" => r2[s].born = r6
    /\ \A p \in Workers : r5[p] \in [pc : {r5[p].pc}, secret : 0 .. r1.secret]
BY DEF Desk!ConsoleInv, Desk!ConsoleStands, AdminRow

LEMMA ConsoleFrom ==
  ASSUME r1' \in AdminRow, r1'.confirmed => r1'.secret > 0,
         r2' = [s \in ConsoleSessions |-> r2'[s]], r5' = [p \in Workers |-> r5'[p]],
         \A s \in ConsoleSessions : r2'[s] \in [state : {"none", "live", "dead"}, born : {r2'[s].born}],
         \A s \in ConsoleSessions : r2'[s].state = "live" => r2'[s].born = r6',
         \A p \in Workers : r5'[p] \in [pc : {r5'[p].pc}, secret : 0 .. r1'.secret]
  PROVE  Desk!ConsoleInv'
BY DEF Desk!ConsoleInv, Desk!ConsoleStands, AdminRow

LEMMA ConsoleInitially == Desk!Init => Desk!ConsoleInv
BY DEF Desk!Init, Desk!ConsoleInv, Desk!ConsoleStands, Desk!NoRow, Desk!NoCall

\* A request goes on; the admin's secret only grows.
LEMMA CallGoes ==
  ASSUME Desk!ConsoleInv, r1' \in AdminRow, r1.secret <= r1'.secret,
         \/ r5' = r5
         \/ \E p \in Workers : r5' = [r5 EXCEPT ![p] = Desk!NoCall]
         \/ \E p \in Workers : \E pc : r5' = [r5 EXCEPT ![p].pc = pc]
         \/ \E p \in Workers : \E pc : r5' = [r5 EXCEPT ![p] = [pc |-> pc, secret |-> r1.secret]]
  PROVE  /\ r5' = [p \in Workers |-> r5'[p]]
         /\ \A p \in Workers : r5'[p] \in [pc : {r5'[p].pc}, secret : 0 .. r1'.secret]
<1>1. /\ r5 = [p \in Workers |-> r5[p]] /\ r1.secret \in Nat /\ r1'.secret \in Nat
      /\ \A p \in Workers : r5[p] \in [pc : {r5[p].pc}, secret : 0 .. r1.secret]
  BY ConsoleSays DEF AdminRow
<1>2. 0 .. r1.secret \subseteq 0 .. r1'.secret /\ 0 \in 0 .. r1'.secret /\ r1.secret \in 0 .. r1'.secret
  BY <1>1
<1>3. CASE r5' = r5
  BY <1>1, <1>2, <1>3
<1>4. ASSUME NEW p \in Workers, r5' = [r5 EXCEPT ![p] = Desk!NoCall]
      PROVE  /\ r5' = [q \in Workers |-> r5'[q]]
             /\ \A q \in Workers : r5'[q] \in [pc : {r5'[q].pc}, secret : 0 .. r1'.secret]
  BY <1>1, <1>2, <1>4 DEF Desk!NoCall
<1>5. ASSUME NEW p \in Workers, NEW pc, r5' = [r5 EXCEPT ![p].pc = pc]
      PROVE  /\ r5' = [q \in Workers |-> r5'[q]]
             /\ \A q \in Workers : r5'[q] \in [pc : {r5'[q].pc}, secret : 0 .. r1'.secret]
  BY <1>1, <1>2, <1>5
<1>6. ASSUME NEW p \in Workers, NEW pc, r5' = [r5 EXCEPT ![p] = [pc |-> pc, secret |-> r1.secret]]
      PROVE  /\ r5' = [q \in Workers |-> r5'[q]]
             /\ \A q \in Workers : r5'[q] \in [pc : {r5'[q].pc}, secret : 0 .. r1'.secret]
  BY <1>1, <1>2, <1>6
<1> QED BY <1>3, <1>4, <1>5, <1>6

\* What an administrator does about the secret and the account.
LEMMA AdminChanges ==
  ASSUME Desk!ConsoleInv,
         \/ \E p \in Workers : Desk!EnrollTotp(p) \/ Desk!ConfirmTotp(p) \/ Desk!Deactivate(p)
         \/ Desk!Reactivate
  PROVE  Desk!ConsoleInv'
<1>1. /\ r1 \in AdminRow /\ (r1.confirmed => r1.secret > 0) /\ r1.secret \in Nat
      /\ \A p \in Workers : r5[p].secret \in 0 .. r1.secret
      /\ r2 = [s \in ConsoleSessions |-> r2[s]]
      /\ \A s \in ConsoleSessions : r2[s] \in [state : {"none", "live", "dead"}, born : {r2[s].born}]
      /\ \A s \in ConsoleSessions : r2[s].state = "live" => r2[s].born = r6
  BY ConsoleSays DEF AdminRow
<1>2. UNCHANGED <<r2, r6>>
  BY Zenon DEF Desk!EnrollTotp, Desk!ConfirmTotp, Desk!Deactivate, Desk!Reactivate
<1>3. /\ r1' \in AdminRow /\ r1.secret <= r1'.secret
      /\ r1'.confirmed => r1'.secret > 0
  <2>1. ASSUME NEW p \in Workers, Desk!EnrollTotp(p)
        PROVE  r1' \in AdminRow /\ r1.secret <= r1'.secret /\ ~r1'.confirmed
    <3> DEFINE n == r1.secret + 1
    <3>1. r1' = [r1 EXCEPT !.secret = n, !.confirmed = FALSE]
      BY <2>1 DEF Desk!EnrollTotp
    <3>2. n \in Nat /\ r1.secret <= n
      BY <1>1
    <3> HIDE DEF n
    <3>3. r1' \in AdminRow
      BY <1>1, <3>1, <3>2, Zenon DEF AdminRow
    <3> QED BY <1>1, <3>1, <3>2, <3>3 DEF AdminRow
  <2>2. ASSUME NEW p \in Workers, Desk!ConfirmTotp(p), r1' # r1
        PROVE  r1' \in AdminRow /\ r1'.secret = r1.secret /\ r1.secret > 0
    <3> DEFINE n == r5[p].secret
    <3>1. n # 0 /\ r1' = [r1 EXCEPT !.confirmed = TRUE, !.verified = n]
      BY <2>2, Zenon DEF Desk!ConfirmTotp
    <3>2. n \in 0 .. r1.secret
      BY <1>1
    <3> HIDE DEF n
    <3>3. n \in Nat /\ r1.secret > 0
      BY <1>1, <3>1, <3>2
    <3> QED BY <1>1, <3>1, <3>3, Zenon DEF AdminRow
  <2>3. ASSUME Desk!Reactivate \/ \E p \in Workers : Desk!Deactivate(p)
        PROVE  r1' \in AdminRow /\ r1'.secret = r1.secret /\ r1'.confirmed = r1.confirmed
    <3>1. r1' = [r1 EXCEPT !.active = TRUE] \/ r1' = [r1 EXCEPT !.active = FALSE]
      BY <2>3 DEF Desk!Deactivate, Desk!Reactivate
    <3> QED BY <1>1, <3>1, Zenon DEF AdminRow
  <2> QED BY <1>1, <2>1, <2>2, <2>3
<1>4. \/ r5' = r5
      \/ \E p \in Workers : r5' = [r5 EXCEPT ![p] = Desk!NoCall]
      \/ \E p \in Workers : \E pc : r5' = [r5 EXCEPT ![p].pc = pc]
  BY Zenon DEF Desk!EnrollTotp, Desk!ConfirmTotp, Desk!Deactivate, Desk!Reactivate, Desk!Free, Desk!Goto
<1>5. /\ r5' = [q \in Workers |-> r5'[q]]
      /\ \A q \in Workers : r5'[q] \in [pc : {r5'[q].pc}, secret : 0 .. r1'.secret]
  BY <1>3, <1>4, CallGoes
<1> QED BY <1>1, <1>2, <1>3, <1>5, ConsoleFrom

\* Sessions are made, ended, and taken from who departs.
LEMMA SessionsChange ==
  ASSUME Desk!ConsoleInv,
         \/ \E p \in Workers : Desk!CreateSession(p) \/ Desk!InvalidateSessions(p)
         \/ \E s \in ConsoleSessions : Desk!EndSession(s)
  PROVE  Desk!ConsoleInv'
<1> DEFINE Held == /\ r2' = [t \in ConsoleSessions |-> r2'[t]]
                   /\ \A t \in ConsoleSessions : r2'[t] \in [state : {"none", "live", "dead"}, born : {r2'[t].born}]
                   /\ \A t \in ConsoleSessions : r2'[t].state = "live" => r2'[t].born = r6'
<1>1. /\ r1 \in AdminRow /\ (r1.confirmed => r1.secret > 0) /\ r1.secret \in Nat
      /\ r2 = [s \in ConsoleSessions |-> r2[s]]
      /\ \A s \in ConsoleSessions : r2[s] \in [state : {"none", "live", "dead"}, born : {r2[s].born}]
      /\ \A s \in ConsoleSessions : r2[s].state = "live" => r2[s].born = r6
  BY ConsoleSays DEF AdminRow
<1>2. ASSUME NEW p \in Workers, Desk!CreateSession(p) PROVE Held
  <2>1. PICK s \in ConsoleSessions : r2' = [r2 EXCEPT ![s] = [state |-> "live", born |-> r6]]
    BY <1>2, Zenon DEF Desk!CreateSession
  <2>2. r6' = r6
    BY <1>2 DEF Desk!CreateSession
  <2> QED BY <1>1, <2>1, <2>2
<1>3. ASSUME NEW p \in Workers, Desk!InvalidateSessions(p) PROVE Held
  <2>1. r2' = [s \in ConsoleSessions |-> IF r2[s].state = "live" THEN [r2[s] EXCEPT !.state = "dead"] ELSE r2[s]]
    BY <1>3 DEF Desk!InvalidateSessions, Desk!Invalidated
  <2>2. ASSUME NEW s \in ConsoleSessions
        PROVE  r2'[s] \in [state : {"none", "dead"}, born : {r2'[s].born}]
    BY <1>1, <2>1
  <2> QED BY <2>1, <2>2
<1>4. ASSUME NEW s \in ConsoleSessions, Desk!EndSession(s) PROVE Held
  <2>1. r2' = [r2 EXCEPT ![s].state = "dead"] /\ r6' = r6
    BY <1>4 DEF Desk!EndSession
  <2> QED BY <1>1, <2>1
<1>5. r1' = r1 /\ (r5' = r5 \/ \E p \in Workers : r5' = [r5 EXCEPT ![p] = Desk!NoCall])
  BY DEF Desk!CreateSession, Desk!InvalidateSessions, Desk!EndSession, Desk!Free
<1>6. /\ r5' = [q \in Workers |-> r5'[q]]
      /\ \A q \in Workers : r5'[q] \in [pc : {r5'[q].pc}, secret : 0 .. r1'.secret]
  BY <1>1, <1>5, CallGoes
<1> QED BY <1>1, <1>2, <1>3, <1>4, <1>5, <1>6, ConsoleFrom

LEMMA ConsoleKept ==
  ASSUME Desk!ConsoleInv, [Desk!Next]_<<r1, r2, r3, r4, r5, r6>>
  PROVE  Desk!ConsoleInv'
<1>1. ASSUME UNCHANGED <<r1, r2, r6>>,
             \/ r5' = r5
             \/ \E p \in Workers : r5' = [r5 EXCEPT ![p] = Desk!NoCall]
             \/ \E p \in Workers : \E pc : r5' = [r5 EXCEPT ![p].pc = pc]
             \/ \E p \in Workers : \E pc : r5' = [r5 EXCEPT ![p] = [pc |-> pc, secret |-> r1.secret]]
      PROVE  Desk!ConsoleInv'
  <2>1. /\ r1' \in AdminRow /\ r1.secret <= r1'.secret
    BY <1>1, ConsoleSays DEF AdminRow
  <2>2. /\ r5' = [q \in Workers |-> r5'[q]]
        /\ \A q \in Workers : r5'[q] \in [pc : {r5'[q].pc}, secret : 0 .. r1'.secret]
    BY <1>1, <2>1, CallGoes
  <2> QED BY <1>1, <2>1, <2>2, ConsoleSays, ConsoleFrom
<1>2. CASE UNCHANGED <<r1, r2, r3, r4, r5, r6>> \/ Desk!ExpireContext
  BY <1>1, <1>2 DEF Desk!ExpireContext
<1>3. ASSUME NEW p \in Workers,
             \/ \E pc \in {"enroll", "confirm"} : Desk!Reads(p, pc)
             \/ Desk!Login(p) \/ \E s \in ConsoleSessions : Desk!ResolveSession(p, s)
             \/ Desk!OpenContext(p) \/ Desk!EndContext(p) \/ Desk!Serve(p)
             \/ Desk!ReadItem(p) \/ Desk!Replay(p)
      PROVE  Desk!ConsoleInv'
  BY <1>1, <1>3 DEF Desk!Reads, Desk!Login, Desk!ResolveSession, Desk!OpenContext, Desk!EndContext,
       Desk!Serve, Desk!ReadItem, Desk!Replay, Desk!Free, Desk!Goto
<1> QED BY <1>2, <1>3, AdminChanges, SessionsChange DEF Desk!Next

----------------------------------------------------------------------------
(* NativeAuth.  r1 are the invites, r2 those that became members, r3 the   *)
(* credential, r4 the magic links, r5 the requests, r6 the failures.       *)

CredRow(failed) == [secret : Nat, confirmed : BOOLEAN, verified : SUBSET Nat, failed : {failed},
                    locked : BOOLEAN, reset : Nat, resets : Nat]
LinkRow == [state : {"NONE", "ISSUED", "USED"}, sessions : {0, 1}]
\* The requests, and what AuthInv says of them and of the links.
CallsStand ==
  /\ r5 = [c \in Workers |-> r5[c]] /\ r4 = [l \in Links |-> r4[l]]
  /\ \A c \in Workers : r5[c].pc = "session" => r5[c].token \in Links
  /\ \A l \in Links : Logins!LinkStands(l)

LEMMA AuthSays ==
  Logins!AuthInv <=> /\ r3 \in CredRow(r3.failed) /\ r3.failed = r6
                     /\ \A i, j \in r2 : i = j
                     /\ CallsStand
BY DEF Logins!AuthInv, CredRow, CallsStand

LEMMA AuthFrom ==
  ASSUME r3' \in CredRow(r3'.failed), r3'.failed = r6', \A i, j \in r2' : i = j, CallsStand'
  PROVE  Logins!AuthInv'
BY DEF Logins!AuthInv, CredRow, CallsStand

LEMMA AuthInitially == Logins!Init => Logins!AuthInv
BY DEF Logins!Init, Logins!AuthInv, Logins!LinkStands, Logins!Making, Logins!Waiting

\* A request that is about no magic link goes on.
LEMMA CallsWait ==
  ASSUME CallsStand, r4' = r4,
         \/ r5' = r5
         \/ \E c \in Workers, pc \in {"idle", "resend", "accept", "confirm", "wrong", "right", "reset"} : \E t :
              r5[c].pc # "session" /\ r5' = [r5 EXCEPT ![c] = [pc |-> pc, token |-> t]]
  PROVE  CallsStand'
<1>1. /\ r5' = [c \in Workers |-> r5'[c]]
      /\ \A c \in Workers : r5'[c] = r5[c] \/ (r5'[c].pc # "session" /\ r5[c].pc # "session")
  <2>1. CASE r5' = r5
    BY <2>1 DEF CallsStand
  <2>2. ASSUME NEW c \in Workers, NEW pc \in {"idle", "resend", "accept", "confirm", "wrong", "right", "reset"}, NEW t,
               r5[c].pc # "session", r5' = [r5 EXCEPT ![c] = [pc |-> pc, token |-> t]]
        PROVE  /\ r5' = [d \in Workers |-> r5'[d]]
               /\ \A d \in Workers : r5'[d] = r5[d] \/ (r5'[d].pc # "session" /\ r5[d].pc # "session")
    BY <2>2 DEF CallsStand
  <2> QED BY <2>1, <2>2
<1>2. \A c \in Workers, l \in Links : Logins!Making(c, l)' <=> Logins!Making(c, l)
  BY <1>1 DEF Logins!Making
<1>3. \A l \in Links : Logins!LinkStands(l)'
  BY <1>2 DEF Logins!LinkStands, CallsStand
<1> QED BY <1>1, <1>3 DEF CallsStand

\* The moves of a request that has no link in hand.
LEMMA Idling ==
  ASSUME NEW c \in Workers, NEW pc \in {"resend", "accept", "confirm", "wrong", "right", "reset"}, NEW t,
         \/ r5[c] = Logins!Waiting /\ Logins!Start(c, pc, t)
         \/ r5[c].pc = pc /\ Logins!Finish(c)
  PROVE  \E qc \in {"idle", "resend", "accept", "confirm", "wrong", "right", "reset"} : \E u :
           r5[c].pc # "session" /\ r5' = [r5 EXCEPT ![c] = [pc |-> qc, token |-> u]]
BY DEF Logins!Start, Logins!Finish, Logins!Waiting

\* Invites come and go; one of them makes the member.
LEMMA InvitesGo ==
  ASSUME Logins!AuthInv,
         \/ \E i \in Invites : Logins!CreateInvite(i) \/ Logins!RevokeInvite(i)
         \/ \E c \in Workers : \/ \E i \in Invites : Logins!ReadForResend(c, i) \/ Logins!ReadInvite(c, i)
                               \/ Logins!ResendInvite(c) \/ Logins!AcceptInvite(c)
  PROVE  Logins!AuthInv'
<1>1. UNCHANGED <<r3, r4, r6>>
  BY DEF Logins!CreateInvite, Logins!RevokeInvite, Logins!ReadForResend, Logins!ReadInvite,
         Logins!ResendInvite, Logins!AcceptInvite
<1>2. \A i, j \in r2' : i = j
  <2>1. r2' = r2 \/ (r2 = {} /\ \E c \in Workers : r2' = r2 \cup {r5[c].token})
    BY DEF Logins!CreateInvite, Logins!RevokeInvite, Logins!ReadForResend, Logins!ReadInvite,
           Logins!ResendInvite, Logins!AcceptInvite, Logins!EmailFree, Logins!Member
  <2> QED BY <2>1, AuthSays
<1>3. \/ r5' = r5
      \/ \E c \in Workers, pc \in {"resend", "accept", "confirm", "wrong", "right", "reset"} : \E t :
           (r5[c] = Logins!Waiting /\ Logins!Start(c, pc, t)) \/ (r5[c].pc = pc /\ Logins!Finish(c))
  BY DEF Logins!CreateInvite, Logins!RevokeInvite, Logins!ReadForResend, Logins!ReadInvite,
         Logins!ResendInvite, Logins!AcceptInvite
<1>4. CallsStand'
  BY <1>1, <1>3, Idling, CallsWait, AuthSays
<1> QED BY <1>1, <1>2, <1>4, AuthSays, AuthFrom

\* The credential: enrolment, the count of failures, the lock, the reset.
LEMMA CredentialGoes ==
  ASSUME Logins!AuthInv,
         \/ Logins!EnrollTotp \/ Logins!LockExpires \/ Logins!RequestPasswordReset
         \/ \E c \in Workers : \/ Logins!VerifyCode(c) \/ Logins!ConfirmTotp(c) \/ Logins!ReadCredential(c)
                               \/ Logins!RecordFailure(c) \/ Logins!LoginSucceeds(c)
                               \/ Logins!ReadResetToken(c) \/ Logins!ConsumePasswordReset(c)
  PROVE  Logins!AuthInv'
<1>1. UNCHANGED <<r1, r2, r4>>
  BY Zenon DEF Logins!EnrollTotp, Logins!LockExpires, Logins!RequestPasswordReset, Logins!VerifyCode,
         Logins!ConfirmTotp, Logins!ReadCredential, Logins!RecordFailure, Logins!LoginSucceeds,
         Logins!ReadResetToken, Logins!ConsumePasswordReset
<1>2. /\ r3 \in CredRow(r3.failed) /\ r3.failed = r6 /\ r3.secret \in Nat /\ r3.resets \in Nat
      /\ r3.verified \in SUBSET Nat /\ r3.locked \in BOOLEAN
  BY AuthSays DEF CredRow
<1>3. r3' \in CredRow(r3'.failed) /\ r3'.failed = r6'
  <2>1. CASE UNCHANGED <<r3, r6>>
    BY <1>2, <2>1
  <2>2. ASSUME Logins!EnrollTotp PROVE r3' \in CredRow(r3'.failed) /\ r3'.failed = r6'
    <3> DEFINE n == r3.secret + 1
    <3>1. r3' = [r3 EXCEPT !.secret = n, !.confirmed = FALSE] /\ r6' = r6
      BY <2>2 DEF Logins!EnrollTotp
    <3>2. n \in Nat
      BY <1>2
    <3> HIDE DEF n
    <3> QED BY <1>2, <3>1, <3>2, Zenon DEF CredRow
  <2>3. ASSUME Logins!LockExpires PROVE r3' \in CredRow(r3'.failed) /\ r3'.failed = r6'
    <3>1. r3' = [r3 EXCEPT !.locked = FALSE] /\ r6' = r6
      BY <2>3 DEF Logins!LockExpires
    <3> QED BY <1>2, <3>1, Zenon DEF CredRow
  <2>4. ASSUME Logins!RequestPasswordReset PROVE r3' \in CredRow(r3'.failed) /\ r3'.failed = r6'
    <3> DEFINE n == r3.resets + 1
    <3>1. r3' = [r3 EXCEPT !.resets = n, !.reset = n] /\ r6' = r6
      BY <2>4 DEF Logins!RequestPasswordReset
    <3>2. n \in Nat
      BY <1>2
    <3> HIDE DEF n
    <3> QED BY <1>2, <3>1, <3>2, Zenon DEF CredRow
  <2>5. ASSUME NEW c \in Workers, Logins!VerifyCode(c) PROVE r3' \in CredRow(r3'.failed) /\ r3'.failed = r6'
    <3> DEFINE V == r3.verified \cup {r3.secret}
    <3>1. r3' = [r3 EXCEPT !.verified = V] /\ r6' = r6
      BY <2>5 DEF Logins!VerifyCode
    <3>2. V \in SUBSET Nat
      BY <1>2
    <3> HIDE DEF V
    <3> QED BY <1>2, <3>1, <3>2 DEF CredRow
  <2>6. ASSUME NEW c \in Workers, Logins!ConfirmTotp(c) PROVE r3' \in CredRow(r3'.failed) /\ r3'.failed = r6'
    <3>1. r3' = [r3 EXCEPT !.confirmed = TRUE] /\ r6' = r6
      BY <2>6 DEF Logins!ConfirmTotp
    <3> QED BY <1>2, <3>1, Zenon DEF CredRow
  <2>7. ASSUME NEW c \in Workers, Logins!RecordFailure(c) PROVE r3' \in CredRow(r3'.failed) /\ r3'.failed = r6'
    <3> DEFINE n == r3.failed + 1
               g == r3.locked \/ r3.failed + 1 >= LockThreshold
    <3>1. r3' = [r3 EXCEPT !.failed = n, !.locked = g] /\ r6' = n
      BY <1>2, <2>7 DEF Logins!RecordFailure, Logins!CountFailure
    <3>2. g \in BOOLEAN
      BY <1>2
    <3> HIDE DEF n, g
    <3> QED BY <1>2, <3>1, <3>2, Zenon DEF CredRow
  <2>8. ASSUME NEW c \in Workers, Logins!LoginSucceeds(c) PROVE r3' \in CredRow(r3'.failed) /\ r3'.failed = r6'
    <3>1. r3' = [r3 EXCEPT !.failed = 0, !.locked = FALSE] /\ r6' = 0
      BY <2>8 DEF Logins!LoginSucceeds
    <3> QED BY <1>2, <3>1, Zenon DEF CredRow
  <2>9. ASSUME NEW c \in Workers, Logins!ConsumePasswordReset(c) PROVE r3' \in CredRow(r3'.failed) /\ r3'.failed = r6'
    <3>1. r3' = [r3 EXCEPT !.reset = 0, !.failed = 0, !.locked = FALSE] /\ r6' = 0
      BY <2>9 DEF Logins!ConsumePasswordReset
    <3> QED BY <1>2, <3>1, Zenon DEF CredRow
  <2> QED BY <2>1, <2>2, <2>3, <2>4, <2>5, <2>6, <2>7, <2>8, <2>9 DEF Logins!ReadCredential, Logins!ReadResetToken
<1>4. \/ r5' = r5
      \/ \E c \in Workers, pc \in {"resend", "accept", "confirm", "wrong", "right", "reset"} : \E t :
           (r5[c] = Logins!Waiting /\ Logins!Start(c, pc, t)) \/ (r5[c].pc = pc /\ Logins!Finish(c))
  BY Zenon DEF Logins!EnrollTotp, Logins!LockExpires, Logins!RequestPasswordReset, Logins!VerifyCode,
         Logins!ConfirmTotp, Logins!ReadCredential, Logins!RecordFailure, Logins!LoginSucceeds,
         Logins!ReadResetToken, Logins!ConsumePasswordReset
<1>5. CallsStand'
  BY <1>1, <1>4, Idling, CallsWait, AuthSays
<1> QED BY <1>1, <1>3, <1>5, AuthSays, AuthFrom

\* A magic link: issued, claimed by one UPDATE, and the session made of it.
LEMMA LinksGo ==
  ASSUME Logins!AuthInv,
         \/ \E l \in Links : Logins!RequestMagicLink(l)
         \/ \E c \in Workers : Logins!MakeSession(c) \/ \E l \in Links : Logins!ConsumeMagicLink(c, l)
  PROVE  Logins!AuthInv'
<1>1. UNCHANGED <<r1, r2, r3, r6>>
  BY Zenon DEF Logins!RequestMagicLink, Logins!MakeSession, Logins!ConsumeMagicLink
<1>2. /\ CallsStand /\ r5 = [c \in Workers |-> r5[c]] /\ r4 = [l \in Links |-> r4[l]]
      /\ \A c \in Workers : r5[c].pc = "session" => r5[c].token \in Links
      /\ \A l \in Links : Logins!LinkStands(l) /\ r4[l] \in LinkRow
  BY AuthSays DEF CallsStand, Logins!LinkStands, LinkRow
<1>3. ASSUME NEW l \in Links, Logins!RequestMagicLink(l) PROVE CallsStand'
  <2>1. r4' = [r4 EXCEPT ![l].state = "ISSUED"] /\ r5' = r5 /\ r4[l].state = "NONE"
    BY <1>3 DEF Logins!RequestMagicLink
  <2>2. /\ r4' = [k \in Links |-> r4'[k]] /\ \A k \in Links : k # l => r4'[k] = r4[k]
        /\ r4'[l] \in LinkRow /\ r4'[l].sessions = r4[l].sessions
    BY <1>2, <2>1 DEF LinkRow
  <2>3. \A c \in Workers, k \in Links : Logins!Making(c, k)' <=> Logins!Making(c, k)
    BY <2>1 DEF Logins!Making
  <2>4. r4[l].sessions = 0 /\ \A c \in Workers : ~Logins!Making(c, l)
    BY <1>2, <2>1 DEF Logins!LinkStands, LinkRow
  <2>5. ASSUME NEW k \in Links PROVE Logins!LinkStands(k)'
    BY <1>2, <2>2, <2>3, <2>4 DEF Logins!LinkStands, LinkRow
  <2> QED BY <1>2, <2>1, <2>2, <2>5 DEF CallsStand
<1>4. ASSUME NEW c \in Workers, NEW l \in Links, Logins!ConsumeMagicLink(c, l) PROVE CallsStand'
  <2>1. /\ r4[l].state = "ISSUED" /\ r4' = [r4 EXCEPT ![l].state = "USED"]
        /\ r5' = [r5 EXCEPT ![c] = [pc |-> "session", token |-> l]] /\ r5[c].pc = "idle"
    <3>1. Logins!Claim(l) # "REFUSED" /\ r4' = [r4 EXCEPT ![l].state = Logins!Claim(l)]
      BY <1>4 DEF Logins!ConsumeMagicLink
    <3>2. r4[l].state = "ISSUED" /\ Logins!Claim(l) = "USED"
      BY <3>1 DEF Logins!Claim
    <3>3. r5[c] = Logins!Waiting /\ Logins!Start(c, "session", l)
      BY <1>4 DEF Logins!ConsumeMagicLink
    <3> QED BY <3>1, <3>2, <3>3 DEF Logins!Start, Logins!Waiting
  <2>2. /\ r4' = [k \in Links |-> r4'[k]] /\ \A k \in Links : k # l => r4'[k] = r4[k]
        /\ r4'[l] \in LinkRow /\ r4'[l].sessions = r4[l].sessions /\ r4'[l].state = "USED"
    BY <1>2, <2>1 DEF LinkRow
  <2>3. /\ r5' = [d \in Workers |-> r5'[d]] /\ r5'[c].pc = "session" /\ r5'[c].token = l
        /\ \A d \in Workers : d # c => r5'[d] = r5[d]
    BY <1>2, <2>1
  <2>4. r4[l].sessions = 0 /\ \A d \in Workers : ~Logins!Making(d, l)
    BY <1>2, <2>1 DEF Logins!LinkStands, LinkRow
  <2>5. \A d \in Workers, k \in Links : Logins!Making(d, k)' <=> Logins!Making(d, k) \/ (d = c /\ k = l)
    BY <2>1, <2>3 DEF Logins!Making
  <2>6. ASSUME NEW k \in Links PROVE Logins!LinkStands(k)'
    BY <1>2, <2>2, <2>4, <2>5 DEF Logins!LinkStands, LinkRow
  <2> QED BY <1>2, <2>2, <2>3, <2>6 DEF CallsStand
<1>5. ASSUME NEW c \in Workers, Logins!MakeSession(c) PROVE CallsStand'
  <2> DEFINE l == r5[c].token
  <2>1. /\ r5[c].pc = "session" /\ l \in Links /\ Logins!Making(c, l)
        /\ r4' = [r4 EXCEPT ![l].sessions = r4[l].sessions + 1]
        /\ r5' = [r5 EXCEPT ![c] = [pc |-> "idle", token |-> 0]]
    BY <1>2, <1>5 DEF Logins!MakeSession, Logins!Finish, Logins!Waiting, Logins!Making
  <2> HIDE DEF l
  <2>2. r4[l].state = "USED" /\ r4[l].sessions = 0 /\ \A d \in Workers : Logins!Making(d, l) => d = c
    BY <1>2, <2>1 DEF Logins!LinkStands
  <2>3. /\ r4' = [k \in Links |-> r4'[k]] /\ \A k \in Links : k # l => r4'[k] = r4[k]
        /\ r4'[l] \in LinkRow /\ r4'[l].state = "USED"
    BY <1>2, <2>1, <2>2 DEF LinkRow
  <2>4. /\ r5' = [d \in Workers |-> r5'[d]] /\ r5'[c].pc = "idle"
        /\ \A d \in Workers : d # c => r5'[d] = r5[d]
    BY <1>2, <2>1
  <2>5. \A d \in Workers, k \in Links : Logins!Making(d, k)' <=> Logins!Making(d, k) /\ d # c
    BY <2>1, <2>4 DEF Logins!Making
  <2>6. ASSUME NEW k \in Links PROVE Logins!LinkStands(k)'
    BY <1>2, <2>2, <2>3, <2>5 DEF Logins!LinkStands, LinkRow
  <2> QED BY <1>2, <2>3, <2>4, <2>6 DEF CallsStand
<1>6. CallsStand'
  BY <1>3, <1>4, <1>5
<1> QED BY <1>1, <1>6, AuthSays, AuthFrom

LEMMA AuthKept ==
  ASSUME Logins!AuthInv, [Logins!Next]_<<r1, r2, r3, r4, r5, r6>>
  PROVE  Logins!AuthInv'
<1>1. CASE UNCHANGED <<r1, r2, r3, r4, r5, r6>>
  BY <1>1, CallsWait, AuthSays, AuthFrom
<1> QED BY <1>1, InvitesGo, CredentialGoes, LinksGo DEF Logins!Next

LEMMA AuthInvStands == Logins!AuthInv => Logins!TokensSpentOnce /\ Logins!FailuresCounted
<1> SUFFICES ASSUME Logins!AuthInv PROVE Logins!TokensSpentOnce /\ Logins!FailuresCounted
  OBVIOUS
<1>1. Logins!Cardinality(r2) = Cardinality(r2) /\ \A i, j \in r2 : i = j
  BY AuthSays, Zenon DEF Logins!Cardinality, Cardinality
<1>2. Cardinality(r2) <= 1
  <2>1. CASE r2 = {}
    BY <2>1, FS_EmptySet
  <2>2. CASE r2 # {}
    <3>1. PICK i \in r2 : r2 = {i}
      BY <1>1, <2>2
    <3> QED BY <3>1, FS_Singleton
  <2> QED BY <2>1, <2>2
<1>3. \A l \in Links : r4[l].sessions <= 1
  BY AuthSays DEF CallsStand, Logins!LinkStands
<1> QED BY <1>1, <1>2, <1>3, AuthSays DEF Logins!TokensSpentOnce, Logins!FailuresCounted

----------------------------------------------------------------------------
(* Access.  r1 is the shop, r2 the members, r4 the tokens, r5 the          *)
(* sessions, r7 the requests.                                              *)

\* The members and their Owner, the requests, and the sessions' rows.
MembersStand ==
  /\ r2 \in [Entry!People -> Entry!MemberRow]
  /\ Entry!ActiveOwners \subseteq StaffUsers /\ \A u, v \in Entry!ActiveOwners : u = v
HandsStand == r7 = [r \in Workers |-> r7[r]] /\ \A r \in Workers : Entry!HandStands(r7[r])
ShopStands == r1 \in [state : {"NONE", "TRIALING", "UNINSTALLED"}, installs : {r1.installs}]
RowsTyped == r5 \in [EntrySessions -> Entry!SessionRow]
             /\ \A s \in EntrySessions : r5[s].live => r5[s].of \in Entry!People
Inside(u) == r2[u].live /\ r1.state # "UNINSTALLED"
Taken(u) == \E r \in Workers : r7[r].pc = "rows" /\ u \in r7[r].targets

LEMMA AccessSays ==
  Entry!AccessInv <=> /\ MembersStand /\ HandsStand /\ ShopStands /\ RowsTyped /\ r4 \subseteq StaffUsers
                      /\ \A s \in EntrySessions : r5[s].live /\ r5[s].fresh => Inside(r5[s].of) \/ Taken(r5[s].of)
BY DEF Entry!AccessInv, MembersStand, HandsStand, ShopStands, RowsTyped, Inside, Taken,
       Entry!SessionStands, Entry!Doomed

LEMMA AccessFrom ==
  ASSUME MembersStand', HandsStand', ShopStands', RowsTyped', r4' \subseteq StaffUsers,
         \A s \in EntrySessions : (r5[s].live /\ r5[s].fresh => Inside(r5[s].of) \/ Taken(r5[s].of))'
  PROVE  Entry!AccessInv'
BY DEF Entry!AccessInv, MembersStand, HandsStand, ShopStands, RowsTyped, Inside, Taken,
       Entry!SessionStands, Entry!Doomed

LEMMA NobodyStands == Entry!HandStands(Entry!Free) /\ Entry!NoMember \in Entry!MemberRow
BY DEF Entry!HandStands, Entry!Free, Entry!MemberRow, Entry!NoMember

LEMMA AccessInitially == Entry!Init => Entry!AccessInv
<1> SUFFICES ASSUME Entry!Init PROVE Entry!AccessInv
  OBVIOUS
<1>1. MembersStand
  BY NobodyStands DEF Entry!Init, MembersStand, Entry!ActiveOwners, Entry!NoMember
<1>2. HandsStand /\ ShopStands /\ r4 \subseteq StaffUsers
  BY NobodyStands DEF Entry!Init, HandsStand, ShopStands
<1>3. RowsTyped /\ \A s \in EntrySessions : ~r5[s].live
  BY DEF Entry!Init, RowsTyped, Entry!NoSession, Entry!SessionRow
<1> QED BY <1>1, <1>2, <1>3, AccessSays

\* The requests one of which goes on, or that wait.
LEMMA HandleGoes ==
  ASSUME HandsStand, NEW r \in Workers, NEW h, Entry!HandStands(h), r7' = [r7 EXCEPT ![r] = h]
  PROVE  /\ HandsStand' /\ r7'[r] = h
         /\ \A q \in Workers : q # r => r7'[q] = r7[q]
<1>1. r7' = [q \in Workers |-> r7'[q]] /\ r7'[r] = h /\ \A q \in Workers : q # r => r7'[q] = r7[q]
  BY DEF HandsStand
<1>2. \A q \in Workers : Entry!HandStands(r7'[q])
  BY <1>1 DEF HandsStand
<1>3. \A q \in Workers : Entry!HandStands(r7[q])'
  BY <1>2 DEF Entry!HandStands, Entry!MemberRow, Entry!People, Entry!Grantable
<1> QED BY <1>1, <1>3 DEF HandsStand

\* Whoever loses access without a request that takes the sessions keeps none.
LEMMA AccessMoves ==
  ASSUME Entry!AccessInv, MembersStand', ShopStands', r4' \subseteq StaffUsers, r5' = r5,
         NEW r \in Workers, NEW h, Entry!HandStands(h), r7' = [r7 EXCEPT ![r] = h], r7[r].pc # "rows",
         \A u \in Entry!People : Inside(u) => Inside(u)' \/ (h.pc = "rows" /\ u \in h.targets)
  PROVE  Entry!AccessInv'
<1>1. HandsStand /\ RowsTyped
      /\ \A s \in EntrySessions : r5[s].live /\ r5[s].fresh => Inside(r5[s].of) \/ Taken(r5[s].of)
  BY AccessSays
<1>2. HandsStand' /\ r7'[r] = h /\ \A q \in Workers : q # r => r7'[q] = r7[q]
  BY <1>1, HandleGoes, Zenon
<1>3. \A u : Taken(u) => Taken(u)'
  BY <1>2 DEF Taken
<1>4. \A u : h.pc = "rows" /\ u \in h.targets => Taken(u)'
  BY <1>2 DEF Taken
<1>5. RowsTyped'
  BY <1>1 DEF RowsTyped, Entry!SessionRow, Entry!People
<1>6. ASSUME NEW s \in EntrySessions, r5'[s].live, r5'[s].fresh
      PROVE  (Inside(r5[s].of) \/ Taken(r5[s].of))'
  <2>1. PICK u \in Entry!People : u = r5[s].of
    BY <1>1, <1>6 DEF RowsTyped
  <2>2. Inside(u) \/ Taken(u)
    BY <1>1, <1>6, <2>1
  <2>3. Inside(u)' \/ Taken(u)'
    BY <1>3, <1>4, <2>2
  <2> QED BY <2>1, <2>3 DEF Inside, Taken
<1> QED BY <1>2, <1>5, <1>6, AccessFrom

\* The same of what no request does.
LEMMA AccessGrows ==
  ASSUME Entry!AccessInv, MembersStand', r1' = r1, r4' = r4, r5' = r5, r7' = r7,
         \A u \in Entry!People : r2[u].live => r2'[u].live
  PROVE  Entry!AccessInv'
<1>1. HandsStand /\ RowsTyped /\ ShopStands /\ r4 \subseteq StaffUsers
      /\ \A s \in EntrySessions : r5[s].live /\ r5[s].fresh => Inside(r5[s].of) \/ Taken(r5[s].of)
  BY AccessSays
<1>2. HandsStand' /\ RowsTyped' /\ ShopStands'
  BY <1>1 DEF HandsStand, RowsTyped, ShopStands, Entry!HandStands, Entry!MemberRow, Entry!People,
              Entry!Grantable, Entry!SessionRow
<1>3. ASSUME NEW s \in EntrySessions, r5'[s].live, r5'[s].fresh
      PROVE  (Inside(r5[s].of) \/ Taken(r5[s].of))'
  BY <1>1, <1>3 DEF Inside, Taken, RowsTyped
<1> QED BY <1>1, <1>2, <1>3, AccessFrom

\* One row of the members is written.
LEMMA MemberWritten ==
  ASSUME MembersStand, NEW u \in Entry!People, NEW m \in Entry!MemberRow, r2' = [r2 EXCEPT ![u] = m],
         m.role = "OWNER" /\ m.live => u \in StaffUsers /\ Entry!ActiveOwners \subseteq {u}
  PROVE  /\ MembersStand' /\ r2'[u] = m
         /\ \A v \in Entry!People : v # u => r2'[v] = r2[v]
<1>1. /\ r2' \in [Entry!People -> Entry!MemberRow] /\ r2'[u] = m
      /\ \A v \in Entry!People : v # u => r2'[v] = r2[v]
  BY DEF MembersStand
<1>2. \A v \in Entry!People : v \in Entry!ActiveOwners' => (v \in Entry!ActiveOwners /\ v # u) \/ (v = u /\ m.role = "OWNER" /\ m.live)
  BY <1>1 DEF Entry!ActiveOwners, Entry!People
<1>3. Entry!ActiveOwners' \subseteq Entry!People
  BY DEF Entry!ActiveOwners, Entry!People
<1>4. (Entry!MemberRow)' = Entry!MemberRow /\ (Entry!People)' = Entry!People
  BY DEF Entry!MemberRow, Entry!Grantable, Entry!People
<1>5. Entry!ActiveOwners' \subseteq StaffUsers /\ \A v, w \in Entry!ActiveOwners' : v = w
  BY <1>2, <1>3 DEF MembersStand
<1> QED BY <1>1, <1>4, <1>5 DEF MembersStand

\* What is in a request's hand after it has begun, or ends with the sessions.
LEMMA HandsMade ==
  /\ \A pc \in {"staff", "create"}, u \in Entry!People, m \in Entry!MemberRow :
       (pc = "staff" => u \in StaffUsers) /\ (pc = "create" => m.live) =>
         Entry!HandStands([Entry!Free EXCEPT !.pc = pc, !.who = u, !.read = m])
  /\ \A pc \in {"rows", "evict"} : \A people : Entry!HandStands([Entry!Free EXCEPT !.pc = pc, !.targets = people])
<1>1. Entry!Free \in [pc : {"free"}, who : {"none"}, read : {Entry!NoMember}, sid : {0}, targets : {{}}]
  BY DEF Entry!Free
<1>2. ASSUME NEW pc \in {"staff", "create"}, NEW u \in Entry!People, NEW m \in Entry!MemberRow,
             pc = "staff" => u \in StaffUsers, pc = "create" => m.live
      PROVE  Entry!HandStands([Entry!Free EXCEPT !.pc = pc, !.who = u, !.read = m])
  <2> DEFINE h == [Entry!Free EXCEPT !.pc = pc, !.who = u, !.read = m]
  <2>1. /\ h \in [pc : {pc}, who : {u}, read : {m}, sid : {0}, targets : {h.targets}]
        /\ h.pc = pc /\ h.who = u /\ h.read = m
    BY <1>1, Zenon
  <2> HIDE DEF h
  <2>2. Entry!HandStands(h)
    BY <1>2, <2>1 DEF Entry!HandStands
  <2> QED BY <2>2 DEF h
<1>3. ASSUME NEW pc \in {"rows", "evict"}, NEW people
      PROVE  Entry!HandStands([Entry!Free EXCEPT !.pc = pc, !.targets = people])
  <2> DEFINE h == [Entry!Free EXCEPT !.pc = pc, !.targets = people]
  <2>1. /\ h \in [pc : {pc}, who : {"none"}, read : {Entry!NoMember}, sid : {0}, targets : {h.targets}]
        /\ h.pc = pc
    BY <1>1, Zenon
  <2> HIDE DEF h
  <2>2. Entry!HandStands(h)
    BY <2>1, NobodyStands DEF Entry!HandStands
  <2> QED BY <2>2 DEF h
<1> QED BY <1>2, <1>3, Zenon

\* The install callback, in three steps.
LEMMA InstallsGo ==
  ASSUME Entry!AccessInv, NEW r \in Workers,
         Entry!CountMembers(r) \/ Entry!InsertOwner(r) \/ \E u \in StaffUsers : Entry!UpsertShop(r, u)
  PROVE  Entry!AccessInv'
<1>1. /\ MembersStand /\ HandsStand /\ ShopStands /\ r4 \subseteq StaffUsers /\ Entry!HandStands(r7[r])
  BY AccessSays DEF HandsStand
<1>2. ASSUME NEW u \in StaffUsers, Entry!UpsertShop(r, u) PROVE Entry!AccessInv'
  <2> DEFINE h == [Entry!Free EXCEPT !.pc = "staff", !.who = u, !.read = Entry!NoMember]
  <2>1. /\ r1' = [state |-> "TRIALING", installs |-> r1.installs + 1] /\ UNCHANGED <<r2, r4, r5>>
        /\ r7' = [r7 EXCEPT ![r] = h]
    BY <1>2, Zenon DEF Entry!UpsertShop, Entry!Begin
  <2>4. r7[r].pc # "rows"
    BY <1>2 DEF Entry!UpsertShop, Entry!Free
  <2>2. Entry!HandStands(h)
    BY NobodyStands, HandsMade, Zenon DEF Entry!People
  <2> HIDE DEF h
  <2>3. MembersStand' /\ ShopStands' /\ \A v : Inside(v) => Inside(v)'
    BY <1>1, <2>1 DEF MembersStand, ShopStands, Inside, Entry!ActiveOwners, Entry!MemberRow, Entry!Grantable, Entry!People
  <2> QED BY <1>1, <2>1, <2>2, <2>3, <2>4, AccessMoves, Zenon
<1>3. CASE Entry!CountMembers(r)
  <2>1. r7[r].pc = "staff" /\ r7[r].who \in StaffUsers /\ UNCHANGED <<r1, r2, r5>>
    BY <1>1, <1>3 DEF Entry!CountMembers, Entry!HandStands
  <2>2. \E h : Entry!HandStands(h) /\ r7' = [r7 EXCEPT ![r] = h]
    <3>1. CASE r7' = [r7 EXCEPT ![r].pc = "first"]
      <4> DEFINE h == [r7[r] EXCEPT !.pc = "first"]
      <4>1. Entry!HandStands(h) /\ r7' = [r7 EXCEPT ![r] = h]
        BY <1>1, <2>1, <3>1 DEF Entry!HandStands
      <4> QED BY <4>1, Zenon
    <3>2. CASE r7' = [r7 EXCEPT ![r] = Entry!Free]
      BY <3>2, NobodyStands, Zenon
    <3> QED BY <1>3, <3>1, <3>2 DEF Entry!CountMembers, Entry!End
  <2>3. r4' \subseteq StaffUsers
    BY <1>1, <1>3, <2>1 DEF Entry!CountMembers
  <2>4. MembersStand' /\ ShopStands' /\ \A v : Inside(v) => Inside(v)'
    BY <1>1, <2>1 DEF MembersStand, ShopStands, Inside, Entry!ActiveOwners, Entry!MemberRow, Entry!Grantable, Entry!People
  <2> QED BY <2>1, <2>2, <2>3, <2>4, AccessMoves, Zenon
<1>4. CASE Entry!InsertOwner(r)
  <2> DEFINE u == r7[r].who
             m == [role |-> "OWNER", live |-> TRUE]
  <2>1. /\ r7[r].pc = "first" /\ u \in StaffUsers /\ u \in Entry!People /\ UNCHANGED <<r1, r5>>
        /\ r7' = [r7 EXCEPT ![r] = Entry!Free] /\ r4' \subseteq StaffUsers
        /\ r2' = r2 \/ (r2' = [r2 EXCEPT ![u] = m] /\ Entry!ActiveOwners = {})
    BY <1>1, <1>4 DEF Entry!InsertOwner, Entry!HandStands, Entry!End, Entry!People
  <2>2. m \in Entry!MemberRow
    BY DEF Entry!MemberRow
  <2> HIDE DEF u
  <2>3. MembersStand' /\ ShopStands' /\ \A v \in Entry!People : Inside(v) => Inside(v)'
    <3>1. CASE r2' = r2
      BY <1>1, <2>1, <3>1 DEF MembersStand, ShopStands, Inside, Entry!ActiveOwners, Entry!MemberRow, Entry!Grantable, Entry!People
    <3>2. CASE r2' = [r2 EXCEPT ![u] = m] /\ Entry!ActiveOwners = {}
      <4>1. /\ MembersStand' /\ r2'[u].live
            /\ \A v \in Entry!People : v # u => r2'[v] = r2[v]
        <5>1. m.role = "OWNER" /\ m.live => u \in StaffUsers /\ Entry!ActiveOwners \subseteq {u}
          BY <2>1, <3>2
        <5>2. m.live
          OBVIOUS
        <5> HIDE DEF m
        <5> QED BY <1>1, <2>1, <2>2, <3>2, <5>1, <5>2, MemberWritten, Zenon
      <4> QED BY <1>1, <2>1, <4>1 DEF ShopStands, Inside
    <3> QED BY <2>1, <3>1, <3>2
  <2> QED BY <2>1, <2>3, NobodyStands, AccessMoves, Zenon
<1> QED BY <1>2, <1>3, <1>4

\* Nothing of the members, the shop or the tokens changes.
LEMMA Unmoved ==
  ASSUME Entry!AccessInv, UNCHANGED <<r1, r2>>
  PROVE  MembersStand' /\ ShopStands' /\ \A u : Inside(u) <=> Inside(u)'
<1>1. MembersStand /\ ShopStands
  BY AccessSays
<1> QED BY <1>1 DEF MembersStand, ShopStands, Inside, Entry!ActiveOwners, Entry!MemberRow, Entry!Grantable, Entry!People

\* A request that has no bearing on the rows of the sessions.
LEMMA AccessIdles ==
  ASSUME Entry!AccessInv, UNCHANGED <<r1, r2, r5>>, r4' \subseteq StaffUsers,
         NEW r \in Workers, NEW h, Entry!HandStands(h), r7' = [r7 EXCEPT ![r] = h], r7[r].pc # "rows"
  PROVE  Entry!AccessInv'
BY Unmoved, AccessMoves, Zenon

\* Logins: the token or the password, and what is cached of a session.
LEMMA GuestsEnter ==
  ASSUME Entry!AccessInv, NEW r \in Workers,
         \/ \E n \in NativeUsers : Entry!NativeLogin(r, n) \/ Entry!PasswordReset(r, n)
         \/ \E s \in EntrySessions : Entry!Resolve(r, s)
         \/ Entry!CacheSession(r) \/ Entry!Evict(r)
  PROVE  Entry!AccessInv'
<1>1. /\ MembersStand /\ HandsStand /\ r4 \subseteq StaffUsers /\ RowsTyped
      /\ \A u \in Entry!People : r2[u] \in Entry!MemberRow
  BY AccessSays DEF MembersStand
<1>2. ASSUME NEW n \in NativeUsers, Entry!NativeLogin(r, n) PROVE Entry!AccessInv'
  <2> DEFINE h == [Entry!Free EXCEPT !.pc = "create", !.who = n, !.read = r2[n]]
  <2>1. /\ r7' = [r7 EXCEPT ![r] = h] /\ UNCHANGED <<r1, r2, r4, r5>> /\ r2[n].live /\ n \in Entry!People
    BY <1>2, Zenon DEF Entry!NativeLogin, Entry!Begin, Entry!People
  <2>2. Entry!HandStands(h)
    BY <1>1, <2>1, HandsMade, Zenon
  <2>3. r7[r].pc # "rows"
    BY <1>2 DEF Entry!NativeLogin, Entry!Free
  <2> QED BY <1>1, <2>1, <2>2, <2>3, AccessIdles, Zenon
<1>3. ASSUME NEW n \in NativeUsers, Entry!PasswordReset(r, n) PROVE Entry!AccessInv'
  <2>1. /\ r7' = [r7 EXCEPT ![r] = [Entry!Free EXCEPT !.pc = "rows", !.targets = {n}]] /\ UNCHANGED <<r1, r2, r4, r5>>
    BY <1>3, Zenon DEF Entry!PasswordReset, Entry!Invalidate
  <2>2. r7[r].pc # "rows"
    BY <1>3 DEF Entry!PasswordReset, Entry!Free
  <2> QED BY <1>1, <2>1, <2>2, HandsMade, AccessIdles, Zenon
<1>4. ASSUME NEW s \in EntrySessions, Entry!Resolve(r, s) PROVE Entry!AccessInv'
  <2> DEFINE m == r2[r5[s].of]
             h == [Entry!Free EXCEPT !.pc = "cache", !.sid = s, !.read = m]
  <2>1. /\ r7' = [r7 EXCEPT ![r] = h] /\ UNCHANGED <<r1, r2, r4, r5>> /\ r5[s].live
    BY <1>4, Zenon DEF Entry!Resolve, Entry!Valid
  <2>2. m \in Entry!MemberRow
    BY <1>1, <2>1 DEF RowsTyped
  <2>3. r7[r].pc # "rows"
    <3>1. r7[r] = Entry!Free
      BY <1>4, Zenon DEF Entry!Resolve
    <3> QED BY <3>1 DEF Entry!Free
  <2>4. Entry!Free \in [pc : {"free"}, who : {"none"}, read : {Entry!NoMember}, sid : {0}, targets : {{}}]
    BY DEF Entry!Free
  <2> HIDE DEF m
  <2>5. h \in [pc : {"cache"}, who : {"none"}, read : {m}, sid : {s}, targets : {{}}]
    BY <2>4, Zenon
  <2> HIDE DEF h
  <2>6. Entry!HandStands(h)
    BY <2>2, <2>5 DEF Entry!HandStands
  <2> QED BY <1>1, <2>1, <2>3, <2>6, AccessIdles, Zenon
<1>5. CASE Entry!CacheSession(r) \/ Entry!Evict(r)
  <2>1. /\ r7' = [r7 EXCEPT ![r] = Entry!Free] /\ UNCHANGED <<r1, r2, r4, r5>> /\ r7[r].pc # "rows"
    BY <1>5 DEF Entry!CacheSession, Entry!Evict, Entry!End
  <2> QED BY <1>1, <2>1, NobodyStands, AccessIdles, Zenon
<1> QED BY <1>2, <1>3, <1>4, <1>5

\* The rows of the sessions: made, taken away, left.
LEMMA SessionsGo ==
  ASSUME Entry!AccessInv, NEW r \in Workers,
         \/ Entry!CreateSession(r) \/ Entry!InvalidateRows(r)
         \/ \E s \in EntrySessions : Entry!Logout(r, s)
  PROVE  Entry!AccessInv'
<1>1. /\ HandsStand /\ r4 \subseteq StaffUsers /\ RowsTyped /\ Entry!HandStands(r7[r])
      /\ \A s \in EntrySessions : r5[s].live /\ r5[s].fresh => Inside(r5[s].of) \/ Taken(r5[s].of)
  BY AccessSays DEF HandsStand
<1>2. UNCHANGED <<r1, r2, r4>>
  BY Zenon DEF Entry!CreateSession, Entry!InvalidateRows, Entry!Logout
<1>3. MembersStand' /\ ShopStands' /\ \A u : Inside(u) <=> Inside(u)'
  BY <1>2, Unmoved
<1>4. CASE Entry!CreateSession(r)
  <2> DEFINE u == r7[r].who
             g == r2[u] = r7[r].read /\ r1.state # "UNINSTALLED"
             row == [of |-> u, live |-> TRUE, fresh |-> g]
             h == [r7[r] EXCEPT !.pc = "cache"]
  <2>1. r7[r].pc = "create" /\ u \in Entry!People /\ r7[r].read.live
    BY <1>1, <1>4 DEF Entry!CreateSession, Entry!HandStands
  <2>2. PICK s \in EntrySessions : /\ r5' = [r5 EXCEPT ![s] = row]
                                   /\ r7' = [r7 EXCEPT ![r].pc = "cache", ![r].sid = s]
    BY <1>4, Zenon DEF Entry!CreateSession
  <2> DEFINE k == [r7[r] EXCEPT !.pc = "cache", !.sid = s]
  <2>3. r7' = [r7 EXCEPT ![r] = k]
    BY <1>1, <2>2, Zenon DEF HandsStand
  <2>4. Entry!HandStands(k)
    BY <1>1, <2>1, Zenon DEF Entry!HandStands
  <2>5. g => Inside(u)
    BY <2>1 DEF Inside
  <2>6. g \in BOOLEAN /\ row.of = u /\ row.fresh = g
    OBVIOUS
  <2>7. row \in Entry!SessionRow
    BY <2>1 DEF Entry!SessionRow
  <2> HIDE DEF g, row, k
  <2>8. HandsStand' /\ r7'[r] = k /\ \A q \in Workers : q # r => r7'[q] = r7[q]
    BY <1>1, <2>3, <2>4, HandleGoes, Zenon
  <2>9. \A v : Taken(v) => Taken(v)'
    BY <2>1, <2>8 DEF Taken
  <2>10. /\ r5' \in [EntrySessions -> Entry!SessionRow] /\ r5'[s] = row
         /\ \A t \in EntrySessions : t # s => r5'[t] = r5[t]
    BY <1>1, <2>2, <2>7 DEF RowsTyped
  <2>11. RowsTyped'
    BY <1>1, <2>1, <2>6, <2>10 DEF RowsTyped, Entry!SessionRow, Entry!People
  <2>12. ASSUME NEW t \in EntrySessions, r5'[t].live, r5'[t].fresh
         PROVE  (Inside(r5[t].of) \/ Taken(r5[t].of))'
    <3>1. PICK v \in Entry!People : v = r5'[t].of /\ (Inside(v) \/ Taken(v))
      <4>1. CASE t = s
        BY <2>1, <2>5, <2>6, <2>10, <2>12, <4>1
      <4>2. CASE t # s
        BY <1>1, <2>10, <2>12, <4>2 DEF RowsTyped
      <4> QED BY <4>1, <4>2
    <3>2. Inside(v)' \/ Taken(v)'
      BY <1>3, <2>9, <3>1
    <3> QED BY <3>1, <3>2 DEF Inside, Taken
  <2> QED BY <1>1, <1>2, <1>3, <2>8, <2>11, <2>12, AccessFrom
<1>5. ASSUME \E h : Entry!HandStands(h) /\ r7' = [r7 EXCEPT ![r] = h], NEW gone,
             r5' = [s \in EntrySessions |-> IF s \in gone THEN [r5[s] EXCEPT !.live = FALSE] ELSE r5[s]],
             r7[r].pc = "rows" => \A s \in EntrySessions : r5[s].live /\ r5[s].of \in r7[r].targets => s \in gone
      PROVE  Entry!AccessInv'
  <2>1. HandsStand' /\ \A q \in Workers : q # r => r7'[q] = r7[q]
    BY <1>1, <1>5, HandleGoes, Zenon
  <2>2. \A s \in EntrySessions : /\ r5'[s] \in Entry!SessionRow /\ r5'[s].of = r5[s].of
                                 /\ r5'[s].live => r5'[s] = r5[s] /\ s \notin gone
    BY <1>1, <1>5, Zenon DEF RowsTyped, Entry!SessionRow
  <2>3. RowsTyped'
    BY <1>1, <1>5, <2>2 DEF RowsTyped, Entry!SessionRow, Entry!People
  <2>4. ASSUME NEW t \in EntrySessions, r5'[t].live, r5'[t].fresh
        PROVE  (Inside(r5[t].of) \/ Taken(r5[t].of))'
    <3>1. PICK v \in Entry!People : v = r5'[t].of /\ v = r5[t].of /\ (Inside(v) \/ Taken(v))
      BY <1>1, <2>2, <2>4 DEF RowsTyped
    <3>2. ~(r7[r].pc = "rows" /\ v \in r7[r].targets)
      BY <1>5, <2>2, <2>4, <3>1
    <3>3. Inside(v)' \/ Taken(v)'
      BY <1>3, <2>1, <3>1, <3>2 DEF Taken
    <3> QED BY <3>1, <3>3 DEF Inside, Taken
  <2> QED BY <1>1, <1>2, <1>3, <2>1, <2>3, <2>4, AccessFrom
<1>6. CASE Entry!InvalidateRows(r)
  <2> DEFINE hit == {s \in EntrySessions : r5[s].live /\ r5[s].of \in r7[r].targets}
  <2>1. /\ r5' = [s \in EntrySessions |-> IF s \in hit THEN [r5[s] EXCEPT !.live = FALSE] ELSE r5[s]]
        /\ r7' = [r7 EXCEPT ![r] = IF hit = {} THEN Entry!Free ELSE [Entry!Free EXCEPT !.pc = "evict", !.targets = hit]]
    BY <1>6 DEF Entry!InvalidateRows
  <2>2. \A s \in EntrySessions : r5[s].live /\ r5[s].of \in r7[r].targets => s \in hit
    OBVIOUS
  <2> HIDE DEF hit
  <2>3. \E h : Entry!HandStands(h) /\ r7' = [r7 EXCEPT ![r] = h]
    <3>1. CASE hit = {}
      BY <2>1, <3>1, NobodyStands, Zenon
    <3>2. CASE hit # {}
      BY <2>1, <3>2, HandsMade, Zenon
    <3> QED BY <3>1, <3>2
  <2> QED BY <1>5, <2>1, <2>2, <2>3, Zenon
<1>7. ASSUME NEW s \in EntrySessions, Entry!Logout(r, s) PROVE Entry!AccessInv'
  <2>1. /\ r5' = [r5 EXCEPT ![s].live = FALSE]
        /\ r7' = [r7 EXCEPT ![r] = [Entry!Free EXCEPT !.pc = "evict", !.targets = {s}]]
    BY <1>7, Zenon DEF Entry!Logout
  <2>2. r7[r].pc # "rows"
    <3>1. r7[r] = Entry!Free
      BY <1>7, Zenon DEF Entry!Logout
    <3> QED BY <3>1 DEF Entry!Free
  <2>3. r5' = [t \in EntrySessions |-> IF t \in {s} THEN [r5[t] EXCEPT !.live = FALSE] ELSE r5[t]]
    BY <1>1, <2>1, Zenon DEF RowsTyped
  <2>4. \E h : Entry!HandStands(h) /\ r7' = [r7 EXCEPT ![r] = h]
    BY <2>1, HandsMade, Zenon
  <2> QED BY <1>5, <2>2, <2>3, <2>4, Zenon
<1> QED BY <1>4, <1>6, <1>7

\* A member is made: by a grant of the Owner, or by an accepted invite.
LEMMA MembersJoin ==
  ASSUME Entry!AccessInv, NEW role \in Entry!Grantable,
         \/ \E u \in StaffUsers : Entry!GrantRole(u, role) \/ Entry!GrantAccess(u, role)
         \/ \E n \in NativeUsers : Entry!JoinNative(n, role)
  PROVE  Entry!AccessInv'
<1> DEFINE m == [role |-> role, live |-> TRUE]
<1>1. PICK u \in Entry!People : r2' = [r2 EXCEPT ![u] = m]
  BY DEF Entry!GrantRole, Entry!GrantAccess, Entry!JoinNative, Entry!People
<1>2. UNCHANGED <<r1, r4, r5, r7>>
  BY DEF Entry!GrantRole, Entry!GrantAccess, Entry!JoinNative
<1>3. m \in Entry!MemberRow /\ m.role # "OWNER" /\ m.live
  BY DEF Entry!MemberRow, Entry!Grantable
<1> HIDE DEF m
<1>4. /\ MembersStand' /\ r2'[u] = m
      /\ \A v \in Entry!People : v # u => r2'[v] = r2[v]
  BY <1>1, <1>3, AccessSays, MemberWritten, Zenon
<1> QED BY <1>2, <1>3, <1>4, AccessGrows

\* Roles and ownership, and what takes access away: each ends with the sessions of
\* the members it touched.
LEMMA MembersChange ==
  ASSUME Entry!AccessInv, NEW r \in Workers, NEW people,
         r7' = [r7 EXCEPT ![r] = [Entry!Free EXCEPT !.pc = "rows", !.targets = people]],
         r7[r] = Entry!Free, MembersStand', UNCHANGED <<r1, r5>>, r4' \subseteq StaffUsers,
         \A u \in Entry!People : u \in people \/ (r2[u].live => r2'[u].live)
  PROVE  Entry!AccessInv'
<1> DEFINE h == [Entry!Free EXCEPT !.pc = "rows", !.targets = people]
<1>1. Entry!Free \in [pc : {"free"}, who : {"none"}, read : {Entry!NoMember}, sid : {0}, targets : {{}}]
  BY DEF Entry!Free
<1>2. h.pc = "rows" /\ h.targets = people /\ r7[r].pc # "rows"
  BY <1>1
<1>3. Entry!HandStands(h)
  BY HandsMade, Zenon
<1> HIDE DEF h
<1>4. ShopStands'
  BY AccessSays DEF ShopStands
<1>5. \A u \in Entry!People : Inside(u) => Inside(u)' \/ (h.pc = "rows" /\ u \in h.targets)
  BY <1>2 DEF Inside
<1>6. r7' = [r7 EXCEPT ![r] = h]
  BY DEF h
<1> QED BY <1>2, <1>3, <1>4, <1>5, <1>6, AccessMoves, Zenon

LEMMA RolesChange ==
  ASSUME Entry!AccessInv, NEW r \in Workers,
         \/ \E u \in Entry!People : Entry!RevokeMember(r, u) \/ \E role \in Entry!Grantable : Entry!ChangeRole(r, u, role)
         \/ \E owner, u \in Entry!People, role \in Entry!Grantable : Entry!TransferOwnership(r, owner, u, role)
         \/ \E u \in StaffUsers : Entry!ClaimOwnership(r, u)
  PROVE  Entry!AccessInv'
<1>1. /\ MembersStand /\ r2 \in [Entry!People -> Entry!MemberRow] /\ r4 \subseteq StaffUsers
      /\ Entry!ActiveOwners \subseteq StaffUsers /\ \A u, v \in Entry!ActiveOwners : u = v
      /\ (Entry!MemberRow)' = Entry!MemberRow /\ (Entry!People)' = Entry!People
  BY AccessSays DEF MembersStand, Entry!MemberRow, Entry!Grantable, Entry!People
<1>2. ASSUME NEW u \in Entry!People,
             Entry!RevokeMember(r, u) \/ \E role \in Entry!Grantable : Entry!ChangeRole(r, u, role)
      PROVE  Entry!AccessInv'
  <2>1. /\ r7' = [r7 EXCEPT ![r] = [Entry!Free EXCEPT !.pc = "rows", !.targets = {u}]] /\ r7[r] = Entry!Free
        /\ UNCHANGED <<r1, r4, r5>> /\ r2[u].role # "OWNER"
    BY <1>2, Zenon DEF Entry!RevokeMember, Entry!ChangeRole, Entry!Invalidate
  <2>2. \E m \in Entry!MemberRow : m.role # "OWNER" /\ r2' = [r2 EXCEPT ![u] = m]
    <3>1. CASE Entry!RevokeMember(r, u)
      <4> DEFINE m == [r2[u] EXCEPT !.live = FALSE]
      <4>1. r2' = [r2 EXCEPT ![u] = m]
        BY <3>1 DEF Entry!RevokeMember
      <4>2. m \in Entry!MemberRow /\ m.role # "OWNER"
        BY <1>1, <2>1, Zenon DEF Entry!MemberRow
      <4> QED BY <4>1, <4>2, Zenon
    <3>2. ASSUME NEW role \in Entry!Grantable, Entry!ChangeRole(r, u, role)
          PROVE  \E m \in Entry!MemberRow : m.role # "OWNER" /\ r2' = [r2 EXCEPT ![u] = m]
      <4> DEFINE m == [r2[u] EXCEPT !.role = role]
      <4>1. r2' = [r2 EXCEPT ![u] = m]
        BY <3>2 DEF Entry!ChangeRole
      <4>2. m \in Entry!MemberRow /\ m.role # "OWNER"
        BY <1>1 DEF Entry!MemberRow, Entry!Grantable
      <4> QED BY <4>1, <4>2, Zenon
    <3> QED BY <1>2, <3>1, <3>2
  <2>3. MembersStand' /\ \A v \in Entry!People : v # u => r2'[v] = r2[v]
    BY <1>1, <2>2, MemberWritten, Zenon
  <2> QED BY <1>1, <2>1, <2>3, MembersChange, Zenon
<1>3. ASSUME NEW owner \in Entry!People, NEW u \in Entry!People, NEW role \in Entry!Grantable,
             Entry!TransferOwnership(r, owner, u, role)
      PROVE  Entry!AccessInv'
  <2>1. /\ r7' = [r7 EXCEPT ![r] = [Entry!Free EXCEPT !.pc = "rows", !.targets = {owner, u}]] /\ r7[r] = Entry!Free
        /\ UNCHANGED <<r1, r4, r5>> /\ owner \in Entry!ActiveOwners /\ u # owner /\ u \in StaffUsers
        /\ r2' = [r2 EXCEPT ![owner].role = role, ![u].role = "OWNER"]
    BY <1>3, Zenon DEF Entry!TransferOwnership, Entry!Invalidate, Entry!MayOwn
  <2>2. /\ r2' \in [Entry!People -> Entry!MemberRow] /\ r2'[owner].role # "OWNER"
        /\ \A v \in Entry!People : v # u /\ v # owner => r2'[v] = r2[v]
    BY <1>1, <2>1 DEF Entry!MemberRow, Entry!Grantable
  <2>3. \A v \in Entry!ActiveOwners' : v = u
    BY <1>1, <2>1, <2>2 DEF Entry!ActiveOwners
  <2>4. MembersStand'
    BY <1>1, <2>1, <2>2, <2>3 DEF MembersStand
  <2>5. \A v \in Entry!People : v \in {owner, u} \/ (r2[v].live => r2'[v].live)
    BY <2>2
  <2> QED BY <1>1, <2>1, <2>4, <2>5, MembersChange, Zenon
<1>4. ASSUME NEW u \in StaffUsers, Entry!ClaimOwnership(r, u) PROVE Entry!AccessInv'
  <2> DEFINE Owners == Entry!ActiveOwners
             m == [role |-> "OWNER", live |-> TRUE]
  <2>1. /\ r7' = [r7 EXCEPT ![r] = [Entry!Free EXCEPT !.pc = "rows", !.targets = Owners \cup {u}]]
        /\ r7[r] = Entry!Free /\ UNCHANGED <<r1, r4, r5>>
        /\ r2' = [v \in Entry!People |-> IF v = u THEN m
                                         ELSE IF v \in Owners THEN [r2[v] EXCEPT !.live = FALSE] ELSE r2[v]]
    BY <1>4, Zenon DEF Entry!ClaimOwnership, Entry!Invalidate, Entry!Deposed
  <2>2. m \in Entry!MemberRow
    BY DEF Entry!MemberRow
  <2>3. \A v \in Entry!People : v \in Owners <=> (r2[v].role = "OWNER" /\ r2[v].live)
    BY DEF Entry!ActiveOwners
  <2> HIDE DEF Owners, m
  <2>4. ASSUME NEW v \in Entry!People, v # u
        PROVE  /\ r2'[v] \in Entry!MemberRow /\ ~(r2'[v].role = "OWNER" /\ r2'[v].live)
               /\ v \in Owners \/ r2'[v] = r2[v]
    BY <1>1, <2>1, <2>3, <2>4, Zenon DEF Entry!MemberRow
  <2>5. r2' \in [Entry!People -> Entry!MemberRow]
    BY <2>1, <2>2, <2>4
  <2>6. \A v \in Entry!ActiveOwners' : v = u
    BY <1>1, <2>4 DEF Entry!ActiveOwners
  <2>7. MembersStand'
    BY <1>1, <2>5, <2>6 DEF MembersStand
  <2>8. \A v \in Entry!People : v \in Owners \cup {u} \/ (r2[v].live => r2'[v].live)
    BY <2>4
  <2> QED BY <1>1, <2>1, <2>7, <2>8, MembersChange, Zenon
<1> QED BY <1>2, <1>3, <1>4

\* The shop leaves; a token is exchanged, or finds its user gone.
LEMMA ShopLeaves ==
  ASSUME Entry!AccessInv, NEW r \in Workers,
         Entry!Uninstall(r) \/ \E u \in StaffUsers : Entry!Exchange(r, u)
  PROVE  Entry!AccessInv'
<1>1. /\ MembersStand /\ ShopStands /\ r2 \in [Entry!People -> Entry!MemberRow] /\ r4 \subseteq StaffUsers
  BY AccessSays DEF MembersStand
<1>2. CASE Entry!Uninstall(r)
  <2> DEFINE h == [Entry!Free EXCEPT !.pc = "rows", !.targets = Entry!People]
  <2>1. /\ r7' = [r7 EXCEPT ![r] = h] /\ UNCHANGED <<r2, r4, r5>> /\ r1' = [r1 EXCEPT !.state = "UNINSTALLED"]
        /\ r7[r] = Entry!Free
    BY <1>2 DEF Entry!Uninstall, Entry!Invalidate
  <2>2. Entry!Free \in [pc : {"free"}, who : {"none"}, read : {Entry!NoMember}, sid : {0}, targets : {{}}]
    BY DEF Entry!Free
  <2>3. h.pc = "rows" /\ h.targets = Entry!People /\ r7[r].pc # "rows"
    BY <2>1, <2>2
  <2>4. Entry!HandStands(h)
    BY HandsMade, Zenon
  <2> HIDE DEF h
  <2>5. MembersStand' /\ ShopStands'
    BY <1>1, <2>1 DEF MembersStand, ShopStands, Entry!ActiveOwners, Entry!MemberRow, Entry!Grantable, Entry!People
  <2> QED BY <1>1, <2>1, <2>3, <2>4, <2>5, AccessMoves, Zenon
<1>3. ASSUME NEW u \in StaffUsers, Entry!Exchange(r, u) PROVE Entry!AccessInv'
  <2>1. UNCHANGED <<r1, r5>> /\ r4' \subseteq StaffUsers /\ r7[r] = Entry!Free /\ u \in Entry!People
    BY <1>1, <1>3 DEF Entry!Exchange, Entry!People
  <2>2. r7[r].pc # "rows" /\ Entry!HandStands(r7[r]) /\ r7 = [r7 EXCEPT ![r] = r7[r]]
    BY <2>1, NobodyStands, AccessSays DEF Entry!Free, HandsStand
  <2>3. CASE r7' = r7 /\ r2' = r2
    BY <2>1, <2>2, <2>3, AccessIdles
  <2>4. CASE Entry!Begin(r, "create", u, r2[u]) /\ r2' = r2 /\ r2[u].live
    <3> DEFINE h == [Entry!Free EXCEPT !.pc = "create", !.who = u, !.read = r2[u]]
    <3>1. r7' = [r7 EXCEPT ![r] = h] /\ r2[u] \in Entry!MemberRow
      BY <1>1, <2>1, <2>4 DEF Entry!Begin
    <3>2. Entry!HandStands(h)
      BY <2>1, <2>4, <3>1, HandsMade, Zenon
    <3> HIDE DEF h
    <3> QED BY <2>1, <2>2, <2>4, <3>1, <3>2, AccessIdles, Zenon
  <2>5. CASE r2' = [r2 EXCEPT ![u].live = FALSE] /\ Entry!Invalidate(r, {u})
    <3> DEFINE m == [r2[u] EXCEPT !.live = FALSE]
    <3>1. /\ m \in Entry!MemberRow /\ ~m.live /\ r2' = [r2 EXCEPT ![u] = m]
      BY <1>1, <2>1, <2>5, Zenon DEF Entry!MemberRow
    <3> HIDE DEF m
    <3>2. MembersStand' /\ \A v \in Entry!People : v # u => r2'[v] = r2[v]
      BY <1>1, <2>1, <3>1, MemberWritten, Zenon
    <3>3. r7' = [r7 EXCEPT ![r] = [Entry!Free EXCEPT !.pc = "rows", !.targets = {u}]]
      BY <2>5 DEF Entry!Invalidate
    <3> QED BY <2>1, <3>2, <3>3, MembersChange, Zenon
  <2> QED BY <1>3, <2>3, <2>4, <2>5 DEF Entry!Exchange
<1> QED BY <1>2, <1>3

LEMMA AccessKept ==
  ASSUME Entry!AccessInv, [Entry!Next]_<<r1, r2, r3, r4, r5, r6, r7>>
  PROVE  Entry!AccessInv'
<1>1. ASSUME UNCHANGED <<r1, r2, r4, r5, r7>> PROVE Entry!AccessInv'
  BY <1>1, Unmoved, AccessGrows
<1>2. CASE UNCHANGED <<r1, r2, r3, r4, r5, r6, r7>> \/ (\E s \in EntrySessions : Entry!Expire(s))
           \/ (\E u \in StaffUsers : Entry!RequestAccess(u) \/ Entry!ResolveRequest(u))
  BY <1>1, <1>2 DEF Entry!Expire, Entry!RequestAccess, Entry!ResolveRequest
<1> QED BY <1>2, InstallsGo, GuestsEnter, SessionsGo, MembersJoin, RolesChange, ShopLeaves DEF Entry!Next

LEMMA AccessInvStands == Entry!AccessInv => Entry!OneStaffOwner /\ Entry!AccessTakenAway
<1> SUFFICES ASSUME Entry!AccessInv PROVE Entry!OneStaffOwner /\ Entry!AccessTakenAway
  OBVIOUS
<1> DEFINE S == Entry!ActiveOwners
<1>1. Entry!Cardinality(S) = Cardinality(S) /\ S \subseteq StaffUsers /\ \A u, v \in S : u = v
  BY AccessSays, Zenon DEF Entry!Cardinality, Cardinality, MembersStand
<1> HIDE DEF S
<1>2. Cardinality(S) <= 1
  <2>1. CASE S = {}
    BY <2>1, FS_EmptySet
  <2>2. CASE S # {}
    <3>1. PICK u \in S : S = {u}
      BY <1>1, <2>2
    <3> QED BY <3>1, FS_Singleton
  <2> QED BY <2>1, <2>2
<1>3. Entry!OneStaffOwner
  BY <1>1, <1>2 DEF S, Entry!OneStaffOwner
<1>4. Entry!AccessTakenAway
  BY AccessSays DEF Entry!AccessTakenAway, Entry!Quiet, Inside, Taken
<1> QED BY <1>3, <1>4

----------------------------------------------------------------------------
(* Settings.  r1 is the table, r2 the row, r3 the forms, r4 the keys.      *)

\* Of the doors: who merges and is not the NDR settings is versioned.
LEMMA DoorsAre ==
  \A d \in DOMAIN Form!Doors : d = "ndr" \/ Form!Doors[d].versioned \/ ~Form!Doors[d].merges
<1>1. DOMAIN Form!Doors = {"store", "track", "label", "recon", "cod", "overrides", "ndr", "plan", "courier"}
  BY DEF Form!Doors
<1>2. /\ Form!Doors["store"].versioned /\ Form!Doors["track"].versioned /\ Form!Doors["label"].versioned
      /\ Form!Doors["recon"].versioned /\ Form!Doors["cod"].versioned /\ Form!Doors["overrides"].versioned
      /\ ~Form!Doors["plan"].merges /\ ~Form!Doors["courier"].merges
  BY DEF Form!Doors, Form!Door
<1> QED BY <1>1, <1>2

RowStands == r2 \in Form!Rows /\ (~r2.there => r2 = Form!Fresh) /\ (r2.version = 0 => ~r2.there)
KeysStand == /\ r4 = [k \in Keys |-> r4[k]] /\ \A k \in Keys : Form!KeyStands(k)
             /\ \A k, l \in Keys : r4[k].state = "live" /\ r4[l].state = "live" => k = l
FormsStand == r3 = [m \in Workers |-> r3[m]] /\ \A m \in Workers : Form!FormStands(m)

LEMMA SettingsSay ==
  Form!SettingsInv <=> RowStands /\ KeysStand /\ FormsStand /\ Form!OnlyWhatWasAsked
BY DEF Form!SettingsInv, RowStands, KeysStand, FormsStand

LEMMA FreshIs == /\ Form!Fresh \in Form!Rows /\ ~Form!Fresh.there /\ Form!Fresh.version = 0
                 /\ Form!Blank \in [pc : {"rest"}, door : {"none"}, patch : {{}}, shown : {Form!Fresh},
                                    before : {Form!Fresh}, replaced : {Form!Fresh}, after : {Form!Fresh}]
BY DEF Form!Fresh, Form!Rows, Form!Blank

LEMMA RowCounted ==
  ASSUME NEW r \in Form!Rows, NEW b \in BOOLEAN, NEW n \in Nat
  PROVE  [r EXCEPT !.there = b, !.version = n] \in Form!Rows
BY Zenon DEF Form!Rows

\* The row that the first read makes.
LEMMA MadeIs ==
  ASSUME NEW r \in Form!Rows, ~r.there => r = Form!Fresh, r.version = 0 => ~r.there
  PROVE  /\ Form!Made(r) \in Form!Rows /\ Form!Made(r).there /\ Form!Made(r).version # 0
         /\ Form!Made(r).val = r.val /\ r.version <= Form!Made(r).version
         /\ r.there => Form!Made(r) = r
         /\ ~r.there => r.version = 0 /\ Form!Made(r).version = 1
<1>1. CASE r.there
  BY <1>1 DEF Form!Made, Form!Rows
<1>2. CASE ~r.there
  <2>1. Form!Made(r) = [r EXCEPT !.there = TRUE, !.version = 1] /\ r.version = 0
    BY <1>2, FreshIs DEF Form!Made
  <2>2. Form!Made(r) \in Form!Rows
    <3>1. TRUE \in BOOLEAN /\ 1 \in Nat
      OBVIOUS
    <3>2. [r EXCEPT !.there = TRUE, !.version = 1] \in Form!Rows
      BY <3>1, RowCounted, Zenon
    <3> QED BY <2>1, <3>2, Zenon
  <2>3. Form!Made(r).there /\ Form!Made(r).version = 1 /\ Form!Made(r).val = r.val
    BY <2>1 DEF Form!Rows
  <2> QED BY <1>2, <2>1, <2>2, <2>3
<1> QED BY <1>1, <1>2

LEMMA SettingsInitially == Form!Init => Form!SettingsInv
<1> SUFFICES ASSUME Form!Init PROVE Form!SettingsInv
  OBVIOUS
<1>1. RowStands
  <2>1. r2 = Form!Fresh \/ r2 = Form!Made(Form!Fresh)
    BY DEF Form!Init
  <2> QED BY <2>1, FreshIs, MadeIs DEF RowStands
<1>2. KeysStand
  BY FormAssumption DEF Form!Init, KeysStand, Form!KeyStands
<1>3. \A m \in Workers : r3[m] = Form!Blank /\ r3[m].pc = "rest"
  BY FreshIs DEF Form!Init
<1>4. FormsStand
  <2>1. r3 = [m \in Workers |-> r3[m]]
    BY DEF Form!Init
  <2> QED BY <2>1, <1>3, FreshIs DEF FormsStand, Form!FormStands, Form!At
<1>5. Form!OnlyWhatWasAsked
  BY <1>3 DEF Form!OnlyWhatWasAsked, Form!Asked, Form!At
<1> QED BY <1>1, <1>2, <1>4, <1>5, SettingsSay

\* What was seen of the row stays what the row was at its version.
RowGoesOn == \A v : Form!Seized(v) => Form!Seized(v)'

\* One form changes, the row goes on, and no key in hand is lost.
LEMMA FormMoves ==
  ASSUME Form!SettingsInv, NEW m \in Workers, NEW f, r3' = [r3 EXCEPT ![m] = f],
         RowStands', KeysStand', RowGoesOn, r3'[m] = f => Form!FormStands(m)' /\ Form!Asked(m)',
         \A q \in Workers : q # m /\ r3[q].pc = "rotating" =>
           r4'[r3[q].door].state = "live" /\ r4'[r3[q].door].lock = q
  PROVE  Form!SettingsInv'
<1>1. FormsStand /\ Form!OnlyWhatWasAsked
  BY SettingsSay
<1>2. r3' = [q \in Workers |-> r3'[q]] /\ r3'[m] = f /\ \A q \in Workers : q # m => r3'[q] = r3[q]
  BY <1>1 DEF FormsStand
<1>3. ASSUME NEW q \in Workers, q # m PROVE Form!FormStands(q)' /\ Form!Asked(q)'
  <2>1. Form!FormStands(q) /\ Form!Asked(q) /\ r3'[q] = r3[q]
    BY <1>1, <1>2, <1>3 DEF FormsStand, Form!OnlyWhatWasAsked
  <2>2. Form!Asked(q)'
    BY <2>1 DEF Form!Asked, Form!At, Form!Through
  <2>3. Form!FormStands(q)'
    BY <1>3, <2>1 DEF Form!FormStands, Form!At, RowGoesOn
  <2> QED BY <2>2, <2>3
<1>4. FormsStand' /\ Form!OnlyWhatWasAsked'
  BY <1>2, <1>3 DEF FormsStand, Form!OnlyWhatWasAsked
<1> QED BY <1>4, SettingsSay, PTL

\* A form that is put away.
LEMMA FormRests ==
  ASSUME NEW m \in Workers, r3'[m] = Form!Blank
  PROVE  Form!FormStands(m)' /\ Form!Asked(m)'
BY FreshIs DEF Form!FormStands, Form!Asked, Form!At

\* The row does not change.
LEMMA RowWaits ==
  ASSUME r2' = r2, RowStands
  PROVE  RowStands' /\ RowGoesOn
BY DEF RowStands, RowGoesOn, Form!Seized

LEMMA KeysWait ==
  ASSUME r4' = r4, KeysStand
  PROVE  KeysStand'
BY DEF KeysStand, Form!KeyStands

\* The keys in the hands of the others, when the keys do not change.
LEMMA HeldStay ==
  ASSUME Form!SettingsInv, r4' = r4
  PROVE  \A q \in Workers : r3[q].pc = "rotating" =>
           r4'[r3[q].door].state = "live" /\ r4'[r3[q].door].lock = q
BY SettingsSay DEF FormsStand, Form!FormStands, Form!At

\* What a door shows, and makes of the row.
LEMMA SeenIs ==
  ASSUME RowStands, NEW d, r2' = Form!Seen(d)
  PROVE  /\ RowStands' /\ RowGoesOn
         /\ \E w \in Form!Rows : w = Form!Seen(d) /\ r2.version <= w.version /\ Form!Seized(w)'
<1>1. /\ r2 \in Form!Rows /\ r2.version \in Nat
      /\ (~r2.there => r2 = Form!Fresh) /\ (r2.version = 0 => ~r2.there)
  BY DEF RowStands, Form!Rows
<1>2. Form!Seen(d) = r2 \/ Form!Seen(d) = Form!Made(r2)
  BY DEF Form!Seen
<1>3. PICK w : w = Form!Seen(d)
  OBVIOUS
<1>4. /\ w \in Form!Rows /\ (~w.there => w = Form!Fresh) /\ (w.version = 0 => ~w.there)
      /\ w.val = r2.val /\ r2.version <= w.version
  BY <1>1, <1>2, <1>3, MadeIs
<1>5. RowStands'
  BY <1>3, <1>4 DEF RowStands
<1>6. ASSUME NEW v, Form!Seized(v) PROVE Form!Seized(v)'
  <2>1. v \in Form!Rows /\ v.version \in Nat /\ w.version \in Nat /\ r2' = w
        /\ v.version <= r2.version /\ (v.version = r2.version => v.val = r2.val)
    BY <1>3, <1>4, <1>6 DEF Form!Seized, Form!Rows
  <2>2. v.version <= w.version /\ (v.version = w.version => v.val = w.val)
    BY <1>1, <1>4, <2>1
  <2> QED BY <2>1, <2>2 DEF Form!Seized
<1>7. Form!Seized(w)'
  BY <1>3, <1>4 DEF Form!Seized, Form!Rows
<1> QED BY <1>3, <1>4, <1>5, <1>6, <1>7 DEF RowGoesOn

LEMMA FormsShown ==
  ASSUME Form!SettingsInv, NEW m \in Workers,
         (\E d \in DOMAIN Form!Doors : Form!View(m, d)) \/ Form!ReadBefore(m) \/ Form!Leave(m)
  PROVE  Form!SettingsInv'
<1>1. RowStands /\ KeysStand /\ r4' = r4 /\ KeysStand' /\ Form!FormStands(m) /\ FormsStand
  BY SettingsSay, KeysWait, Zenon DEF Form!View, Form!ReadBefore, Form!Leave, FormsStand
<1>2. ASSUME NEW d \in DOMAIN Form!Doors, Form!View(m, d) PROVE Form!SettingsInv'
  <2> DEFINE f == [Form!Blank EXCEPT !.pc = "shown", !.door = d, !.shown = Form!Seen(d)]
  <2>1. r2' = Form!Seen(d) /\ r3' = [r3 EXCEPT ![m] = f]
    BY <1>2, Zenon DEF Form!View
  <2>2. RowStands' /\ RowGoesOn
    BY <1>1, <2>1, SeenIs
  <2>3. PICK w \in Form!Rows : w = Form!Seen(d) /\ Form!Seized(w)'
    BY <1>1, <2>1, SeenIs
  <2>4. /\ f \in [pc : {"shown"}, door : {d}, patch : {f.patch}, shown : {w}, before : {Form!Fresh},
                  replaced : {Form!Fresh}, after : {Form!Fresh}]
    BY <2>3, FreshIs, Zenon
  <2> HIDE DEF f
  <2>6. r3'[m] = f => Form!FormStands(m)' /\ Form!Asked(m)'
    BY <2>3, <2>4, FreshIs DEF Form!FormStands, Form!Asked, Form!At
  <2> QED BY <1>1, <2>1, <2>2, <2>6, FormMoves, HeldStay, Zenon
<1>3. CASE Form!ReadBefore(m)
  <2> DEFINE d == r3[m].door
  <2>1. /\ r2' = Form!Seen(d) /\ r3[m].pc = "shown"
        /\ \E patch : r3' = [r3 EXCEPT ![m].pc = "before", ![m].patch = patch, ![m].before = Form!Seen(d)]
    BY <1>3, Zenon DEF Form!ReadBefore, Form!At
  <2> HIDE DEF d
  <2>2. RowStands' /\ RowGoesOn
    BY <1>1, <2>1, SeenIs
  <2>4. PICK w \in Form!Rows : w = Form!Seen(d) /\ r2.version <= w.version /\ Form!Seized(w)'
    BY <1>1, <2>1, SeenIs
  <2>5. PICK patch : r3' = [r3 EXCEPT ![m].pc = "before", ![m].patch = patch, ![m].before = w]
    BY <2>1, <2>4, Zenon
  <2> DEFINE f == [r3[m] EXCEPT !.pc = "before", !.patch = patch, !.before = w]
  <2>6. r3' = [r3 EXCEPT ![m] = f]
    BY <1>1, <2>5, Zenon DEF FormsStand
  <2>7. /\ f \in [pc : {"before"}, door : {r3[m].door}, patch : {patch}, shown : {r3[m].shown}, before : {w},
                  replaced : Form!Rows, after : Form!Rows]
        /\ r3[m].door \in DOMAIN Form!Doors /\ Form!Seized(r3[m].shown)
    BY <1>1, <2>1, Zenon DEF Form!FormStands, Form!At
  <2>8. PICK s : s = r3[m].shown
    OBVIOUS
  <2>9. s \in Form!Rows /\ s.version <= w.version /\ Form!Seized(s)'
    <3>1. Form!Seized(s)
      BY <2>7, <2>8
    <3> QED BY <1>1, <2>2, <2>4, <3>1 DEF Form!Seized, RowGoesOn, RowStands, Form!Rows
  <2> HIDE DEF f, d
  <2>10. r3'[m] = f => Form!FormStands(m)' /\ Form!Asked(m)'
    BY <2>4, <2>7, <2>8, <2>9 DEF Form!FormStands, Form!Asked, Form!At
  <2> QED BY <1>1, <2>2, <2>6, <2>10, FormMoves, HeldStay, Zenon
<1>4. CASE Form!Leave(m)
  <2>1. r3' = [r3 EXCEPT ![m] = Form!Blank] /\ r2' = r2
    BY <1>4 DEF Form!Leave
  <2> QED BY <1>1, <2>1, FormMoves, HeldStay, FormRests, RowWaits, Zenon
<1> QED BY <1>2, <1>3, <1>4

\* The statement that writes the row, or finds another version.
LEMMA FormWritten ==
  ASSUME Form!SettingsInv, NEW m \in Workers, Form!Write(m)
  PROVE  Form!SettingsInv'
<1> DEFINE w == [there |-> TRUE, version |-> r2.version + 1, val |-> [c \in Form!Columns |-> Form!Value(m, c)]]
           s == r3[m].shown
           b == r3[m].before
           d == r3[m].door
<1>1. /\ RowStands /\ KeysStand /\ r4' = r4 /\ KeysStand' /\ FormsStand /\ Form!FormStands(m) /\ r3[m].pc = "before"
  BY SettingsSay, KeysWait DEF Form!Write, FormsStand, Form!At
<1>2. /\ r2 \in Form!Rows /\ r2.version \in Nat /\ r2.val \in [Form!Columns -> Nat] /\ (~r2.there => r2.version = 0)
  BY <1>1, FreshIs DEF RowStands, Form!Rows
<1>3. /\ d \in DOMAIN Form!Doors /\ Form!Seized(s) /\ Form!Seized(b) /\ s.version <= b.version
      /\ r3[m] \in [pc : {"before"}, door : {d}, patch : {r3[m].patch}, shown : Form!Rows, before : Form!Rows,
                    replaced : Form!Rows, after : Form!Rows]
  BY <1>1 DEF Form!FormStands, Form!At
<1>4. CASE ~Form!Matches(m)
  <2>1. r3' = [r3 EXCEPT ![m] = Form!Blank] /\ r2' = r2
    BY <1>4 DEF Form!Write
  <2> QED BY <1>1, <2>1, FormMoves, HeldStay, FormRests, RowWaits, Zenon
<1>5. CASE Form!Matches(m)
  <2>1. /\ r2' = w
        /\ r3' = [r3 EXCEPT ![m].pc = "audit", ![m].replaced = r2, ![m].after = w]
    BY <1>5 DEF Form!Write
  <2>2. \A c \in Form!Columns : Form!Value(m, c) \in Nat
    <3>1. b.val \in [Form!Columns -> Nat]
      BY <1>3 DEF Form!Seized, Form!Rows
    <3>2. r2.version + 1 \in Nat
      BY <1>2
    <3> QED BY <1>2, <3>1, <3>2 DEF Form!Value
  <2>3. [c \in Form!Columns |-> Form!Value(m, c)] \in [Form!Columns -> Nat]
    BY <2>2
  <2>4. /\ w \in Form!Rows /\ w.there /\ w.version = r2.version + 1
        /\ \A c \in Form!Columns : w.val[c] = Form!Value(m, c)
    BY <1>2, <2>3 DEF Form!Rows
  <2>5. d # "ndr" => Form!Doors[d].versioned \/ ~Form!Doors[d].merges
    BY <1>3, DoorsAre
  <2>6. ASSUME Form!Doors[d].versioned PROVE s.val = r2.val /\ b.val = r2.val
    <3>1. r2.version = s.version \/ ~r2.there
      BY <1>5, <2>6 DEF Form!Matches, Form!Through
    <3>2. /\ s.version \in Nat /\ b.version \in Nat /\ s.version <= b.version /\ b.version <= r2.version
          /\ (s.version = r2.version => s.val = r2.val) /\ (b.version = r2.version => b.val = r2.val)
      BY <1>3 DEF Form!Seized, Form!Rows
    <3>3. s.version = r2.version /\ b.version = r2.version
      BY <1>2, <3>1, <3>2
    <3> QED BY <3>2, <3>3
  <2>7. ASSUME d # "ndr", NEW c \in Form!Columns, c \notin r3[m].patch PROVE w.val[c] = r2.val[c]
    <3>1. w.val[c] = Form!Value(m, c)
      BY <2>4
    <3>2. CASE Form!Doors[d].merges /\ c \in Form!Doors[d].columns
      <4>1. Form!Value(m, c) = b.val[c]
        BY <2>7, <3>2 DEF Form!Value, Form!Through
      <4> QED BY <2>5, <2>6, <2>7, <3>1, <3>2, <4>1
    <3>3. CASE ~(Form!Doors[d].merges /\ c \in Form!Doors[d].columns)
      BY <2>7, <3>1, <3>3 DEF Form!Value, Form!Through
    <3> QED BY <3>2, <3>3
  <2> HIDE DEF w
  <2> DEFINE f == [r3[m] EXCEPT !.pc = "audit", !.replaced = r2, !.after = w]
  <2>8. r3' = [r3 EXCEPT ![m] = f]
    BY <1>1, <2>1, Zenon DEF FormsStand
  <2>9. /\ f \in [pc : {"audit"}, door : {d}, patch : {r3[m].patch}, shown : {s}, before : {b},
                  replaced : {r2}, after : {w}]
        /\ s \in Form!Rows /\ b \in Form!Rows
    BY <1>3, Zenon
  <2> HIDE DEF f, d, s, b
  <2>10. RowStands'
    <3>1. w.version # 0
      BY <1>2, <2>4
    <3> QED BY <2>1, <2>4, <3>1 DEF RowStands
  <2>11. RowGoesOn
    <3>1. \A v \in Form!Rows : v.version \in Nat
      BY DEF Form!Rows
    <3>2. ASSUME NEW v, Form!Seized(v) PROVE v \in Form!Rows /\ v.version <= w.version /\ v.version # w.version
      <4>1. v \in Form!Rows /\ v.version <= r2.version /\ v.version \in Nat
        BY <3>1, <3>2 DEF Form!Seized
      <4> QED BY <1>2, <2>4, <4>1
    <3> QED BY <2>1, <3>2 DEF RowGoesOn, Form!Seized
  <2>12. r3'[m] = f => Form!FormStands(m)'
    BY <1>2, <1>3, <2>4, <2>9 DEF Form!FormStands, Form!At, d
  <2>13. r3'[m] = f => Form!Asked(m)'
    BY <2>6, <2>7, <2>9 DEF Form!Asked, Form!At, Form!Through
  <2> QED BY <1>1, <2>8, <2>10, <2>11, <2>12, <2>13, FormMoves, HeldStay, Zenon
<1> QED BY <1>4, <1>5

\* A key goes from hand to hand: it is taken, rotated, or let go.
LEMMA KeysHeld ==
  ASSUME Form!SettingsInv, NEW m \in Workers,
         Form!Rotate(m) \/ Form!RollBack(m) \/ \E k \in Keys : Form!Lock(m, k)
  PROVE  Form!SettingsInv'
<1>1. /\ RowStands /\ KeysStand /\ FormsStand /\ Form!FormStands(m)
      /\ r4 = [k \in Keys |-> r4[k]] /\ \A k \in Keys : Form!KeyStands(k)
      /\ \A k, l \in Keys : r4[k].state = "live" /\ r4[l].state = "live" => k = l
      /\ \A q \in Workers : r3[q].pc = "rotating" =>
           r3[q].door \in Keys /\ r4[r3[q].door].state = "live" /\ r4[r3[q].door].lock = q
      /\ \A k \in Keys : r4[k] \in [state : {"none", "live", "revoked"}, from : {r4[k].from}, lock : {r4[k].lock}]
  BY SettingsSay DEF KeysStand, FormsStand, Form!FormStands, Form!At, Form!KeyStands
<1>2. r2' = r2 /\ RowStands' /\ RowGoesOn
  BY <1>1, RowWaits, Zenon DEF Form!Rotate, Form!RollBack, Form!Lock
<1>3. ASSUME NEW k \in Keys, Form!Lock(m, k) PROVE Form!SettingsInv'
  <2> DEFINE f == [Form!Blank EXCEPT !.pc = "rotating", !.door = k]
  <2>1. /\ r4[k].lock = "none" /\ r4[k].state = "live" /\ r4' = [r4 EXCEPT ![k].lock = m] /\ r3' = [r3 EXCEPT ![m] = f]
    BY <1>3, Zenon DEF Form!Lock, Form!Unlocked
  <2>2. /\ r4' = [l \in Keys |-> r4'[l]] /\ \A l \in Keys : l # k => r4'[l] = r4[l]
        /\ r4'[k] \in [state : {"live"}, from : {r4[k].from}, lock : {m}]
    BY <1>1, <2>1
  <2>3. \A l \in Keys : r4'[l].state = r4[l].state /\ r4'[l].from = r4[l].from
    BY <2>1, <2>2
  <2>4. KeysStand'
    BY <1>1, <2>1, <2>2, <2>3 DEF KeysStand, Form!KeyStands
  <2>5. /\ f \in [pc : {"rotating"}, door : {k}, patch : {f.patch}, shown : Form!Rows, before : Form!Rows,
                  replaced : Form!Rows, after : Form!Rows]
    BY FreshIs, Zenon
  <2> HIDE DEF f
  <2>6. r3'[m] = f => Form!FormStands(m)' /\ Form!Asked(m)'
    BY <2>2, <2>5 DEF Form!FormStands, Form!Asked, Form!At
  <2>7. \A q \in Workers : q # m /\ r3[q].pc = "rotating" => r3[q].door # k /\ r4'[r3[q].door] = r4[r3[q].door]
    BY <1>1, <2>1, <2>2, FormAssumption
  <2>8. \A q \in Workers : q # m /\ r3[q].pc = "rotating" =>
          r4'[r3[q].door].state = "live" /\ r4'[r3[q].door].lock = q
    BY <1>1, <2>7
  <2> QED BY <1>2, <2>1, <2>4, <2>6, <2>8, FormMoves, Zenon
<1>4. CASE Form!Rotate(m)
  <2> DEFINE k == r3[m].door
  <2>1. PICK s \in Keys : /\ r4[s].state = "none"
                          /\ r4' = [r4 EXCEPT ![s] = [@ EXCEPT !.state = "live", !.from = k],
                                              ![k] = [@ EXCEPT !.state = "revoked", !.lock = "none"]]
    BY <1>4, Zenon DEF Form!Rotate
  <2>2. r3[m].pc = "rotating" /\ r3' = [r3 EXCEPT ![m] = Form!Blank]
    BY <1>4, Zenon DEF Form!Rotate, Form!At
  <2>3. k \in Keys /\ r4[k].state = "live" /\ r4[k].lock = m /\ s # k /\ r4[s].from = "none" /\ r4[s].lock = "none"
    BY <1>1, <2>1, <2>2 DEF Form!KeyStands
  <2> HIDE DEF k
  <2>4. /\ r4' = [l \in Keys |-> r4'[l]] /\ \A l \in Keys : l # k /\ l # s => r4'[l] = r4[l]
        /\ r4'[s] \in [state : {"live"}, from : {k}, lock : {"none"}]
        /\ r4'[k] \in [state : {"revoked"}, from : {r4[k].from}, lock : {"none"}]
    <3> DEFINE a == [r4[s] EXCEPT !.state = "live", !.from = k]
               b == [r4[k] EXCEPT !.state = "revoked", !.lock = "none"]
    <3>1. r4' = [r4 EXCEPT ![s] = a, ![k] = b]
      BY <1>1, <2>1, <2>3
    <3>2. /\ r4[s] \in [state : {"none", "live", "revoked"}, from : {"none"}, lock : {"none"}]
          /\ r4[k] \in [state : {"none", "live", "revoked"}, from : {r4[k].from}, lock : {r4[k].lock}]
      BY <1>1, <2>3
    <3>3. a \in [state : {"live"}, from : {k}, lock : {"none"}]
      BY <3>2, Zenon
    <3>4. b \in [state : {"revoked"}, from : {r4[k].from}, lock : {"none"}]
      BY <3>2, Zenon
    <3> HIDE DEF a, b
    <3> QED BY <1>1, <2>3, <3>1, <3>3, <3>4, Zenon
  <2>5. \A l \in Keys : r4[l].from # k
    BY <1>1, <2>3 DEF Form!KeyStands
  <2>6. \A l \in Keys : r4'[l].from = IF l = s THEN k ELSE r4[l].from
    BY <2>3, <2>4
  <2>7. \A l \in Keys : r4'[l].state = IF l = s THEN "live" ELSE IF l = k THEN "revoked" ELSE r4[l].state
    BY <2>3, <2>4
  <2>8. \A l \in Keys : l # s /\ r4[l].state = "live" => l = k
    BY <1>1, <2>3
  <2>9. \A l \in Keys : Form!KeyStands(l)'
    <3>1. ASSUME NEW l \in Keys PROVE Form!KeyStands(l)'
      <4>1. r4'[l] \in [state : {"none", "live", "revoked"}, from : {r4'[l].from}, lock : {r4'[l].lock}]
        BY <1>1, <2>4
      <4>2. r4'[l].state = "none" => r4'[l].from = "none" /\ r4'[l].lock = "none"
        BY <1>1, <2>3, <2>4, <2>7 DEF Form!KeyStands
      <4>3. \A t, u \in Keys : r4'[t].from = l /\ r4'[u].from = l => t = u
        BY <1>1, <2>5, <2>6 DEF Form!KeyStands
      <4>4. (\E t \in Keys : r4'[t].from = l) => r4'[l].state = "revoked"
        <5>1. ASSUME NEW t \in Keys, r4'[t].from = l PROVE r4'[l].state = "revoked"
          <6>1. CASE t = s
            BY <2>3, <2>6, <2>7, <5>1, <6>1
          <6>2. CASE t # s
            <7>1. r4[l].state = "revoked"
              BY <1>1, <2>6, <5>1, <6>2 DEF Form!KeyStands
            <7> QED BY <2>1, <2>7, <7>1, Zenon
          <6> QED BY <6>1, <6>2
        <5> QED BY <5>1
      <4> QED BY <4>1, <4>2, <4>3, <4>4 DEF Form!KeyStands
    <3> QED BY <3>1
  <2>10. KeysStand'
    BY <2>4, <2>7, <2>8, <2>9 DEF KeysStand
  <2>11. ASSUME NEW q \in Workers, q # m, r3[q].pc = "rotating"
         PROVE  r4'[r3[q].door].state = "live" /\ r4'[r3[q].door].lock = q
    <3>1. /\ r3[q].door \in Keys /\ r4[r3[q].door].state = "live" /\ r4[r3[q].door].lock = q
      BY <1>1, <2>11
    <3>2. r3[q].door # k /\ r3[q].door # s
      BY <2>1, <2>3, <2>11, <3>1
    <3> QED BY <2>4, <3>1, <3>2
  <2>12. r3'[m] = Form!Blank => Form!FormStands(m)' /\ Form!Asked(m)'
    BY FormRests
  <2> QED BY <1>2, <2>2, <2>10, <2>11, <2>12, FormMoves, Zenon
<1>5. CASE Form!RollBack(m)
  <2> DEFINE k == r3[m].door
  <2>1. /\ r3[m].pc = "rotating" /\ r3' = [r3 EXCEPT ![m] = Form!Blank] /\ r4' = [r4 EXCEPT ![k].lock = "none"]
    BY <1>5 DEF Form!RollBack, Form!At
  <2>2. k \in Keys /\ r4[k].state = "live" /\ r4[k].lock = m
    BY <1>1, <2>1
  <2> HIDE DEF k
  <2>3. /\ r4' = [l \in Keys |-> r4'[l]] /\ \A l \in Keys : l # k => r4'[l] = r4[l]
        /\ r4'[k] \in [state : {"live"}, from : {r4[k].from}, lock : {"none"}]
    BY <1>1, <2>1, <2>2
  <2>4. \A l \in Keys : r4'[l].state = r4[l].state /\ r4'[l].from = r4[l].from
    BY <2>2, <2>3
  <2>5. KeysStand'
    BY <1>1, <2>2, <2>3, <2>4 DEF KeysStand, Form!KeyStands
  <2>6. ASSUME NEW q \in Workers, q # m, r3[q].pc = "rotating"
        PROVE  r4'[r3[q].door].state = "live" /\ r4'[r3[q].door].lock = q
    <3>1. /\ r3[q].door \in Keys /\ r4[r3[q].door].state = "live" /\ r4[r3[q].door].lock = q
      BY <1>1, <2>6
    <3>2. r3[q].door # k
      BY <2>2, <2>6, <3>1
    <3> QED BY <2>3, <3>1, <3>2
  <2>7. r3'[m] = Form!Blank => Form!FormStands(m)' /\ Form!Asked(m)'
    BY FormRests
  <2> QED BY <1>2, <2>1, <2>5, <2>6, <2>7, FormMoves, Zenon
<1> QED BY <1>3, <1>4, <1>5

\* A key is made, when there is none; a key that nobody rotates is revoked.
LEMMA KeysComeAndGo ==
  ASSUME Form!SettingsInv, \E k \in Keys : Form!Create(k) \/ Form!Revoke(k)
  PROVE  Form!SettingsInv'
<1>1. /\ RowStands /\ FormsStand /\ Form!OnlyWhatWasAsked
      /\ r4 = [k \in Keys |-> r4[k]] /\ \A k \in Keys : Form!KeyStands(k)
      /\ \A k, l \in Keys : r4[k].state = "live" /\ r4[l].state = "live" => k = l
      /\ \A q \in Workers : r3[q].pc = "rotating" =>
           r3[q].door \in Keys /\ r4[r3[q].door].state = "live" /\ r4[r3[q].door].lock = q
      /\ \A k \in Keys : r4[k] \in [state : {"none", "live", "revoked"}, from : {r4[k].from}, lock : {r4[k].lock}]
  BY SettingsSay DEF KeysStand, FormsStand, Form!FormStands, Form!At, Form!KeyStands
<1>2. PICK k \in Keys : Form!Create(k) \/ Form!Revoke(k)
  OBVIOUS
<1>3. r2' = r2 /\ r3' = r3 /\ RowStands' /\ RowGoesOn
  BY <1>1, <1>2, RowWaits DEF Form!Create, Form!Revoke
<1>4. \/ /\ r4' = [r4 EXCEPT ![k].state = "live"] /\ \A l \in Keys : r4[l].state = "none"
      \/ /\ r4' = [r4 EXCEPT ![k].state = "revoked"] /\ r4[k].state = "live" /\ r4[k].lock = "none"
  BY <1>2 DEF Form!Create, Form!Revoke, Form!Unlocked
<1>5. /\ r4' = [l \in Keys |-> r4'[l]] /\ \A l \in Keys : l # k => r4'[l] = r4[l]
      /\ r4'[k] \in [state : {"live", "revoked"}, from : {r4[k].from}, lock : {r4[k].lock}]
  BY <1>1, <1>4
<1>6. \A l \in Keys : r4'[l].from = r4[l].from /\ (r4[l].state = "revoked" => r4'[l].state = "revoked")
  BY <1>4, <1>5
<1>7. \A l \in Keys : Form!KeyStands(l)'
  BY <1>1, <1>5, <1>6 DEF Form!KeyStands
<1>8. KeysStand'
  BY <1>1, <1>4, <1>5, <1>7 DEF KeysStand
<1>9. ASSUME NEW q \in Workers, r3[q].pc = "rotating"
      PROVE  r3[q].door # k /\ r4'[r3[q].door] = r4[r3[q].door]
  <2>1. /\ r3[q].door \in Keys /\ r4[r3[q].door].state = "live" /\ r4[r3[q].door].lock = q
    BY <1>1, <1>9
  <2>2. r3[q].door # k
    BY <1>4, <2>1, FormAssumption
  <2> QED BY <1>5, <2>1, <2>2
<1>10. ASSUME NEW q \in Workers PROVE Form!FormStands(q)' /\ Form!Asked(q)'
  <2>1. Form!FormStands(q) /\ Form!Asked(q) /\ r3'[q] = r3[q]
    BY <1>1, <1>3 DEF FormsStand, Form!OnlyWhatWasAsked
  <2>2. Form!Asked(q)'
    BY <2>1 DEF Form!Asked, Form!At, Form!Through
  <2>3. Form!FormStands(q)'
    BY <1>1, <1>3, <1>9, <2>1 DEF Form!FormStands, Form!At, RowGoesOn
  <2> QED BY <2>2, <2>3
<1>11. FormsStand' /\ Form!OnlyWhatWasAsked'
  BY <1>1, <1>3, <1>10 DEF FormsStand, Form!OnlyWhatWasAsked
<1> QED BY <1>3, <1>8, <1>11, SettingsSay, PTL

LEMMA SettingsKept ==
  ASSUME Form!SettingsInv, [Form!Next]_<<r1, r2, r3, r4>>
  PROVE  Form!SettingsInv'
<1>1. CASE UNCHANGED <<r1, r2, r3, r4>>
  BY <1>1 DEF Form!SettingsInv, Form!FormStands, Form!KeyStands, Form!At, Form!Seized, Form!OnlyWhatWasAsked,
              Form!Asked, Form!Through
<1> QED BY <1>1, FormsShown, FormWritten, KeysHeld, KeysComeAndGo DEF Form!Next

LEMMA SettingsInvStands == Form!SettingsInv => Form!SettingsStand
<1> SUFFICES ASSUME Form!SettingsInv PROVE Form!SettingsStand
  OBVIOUS
<1>1. ASSUME NEW S, \A x, y \in S : x = y PROVE Form!Cardinality(S) <= 1
  <2>1. Form!Cardinality(S) = Cardinality(S)
    BY Zenon DEF Form!Cardinality, Cardinality
  <2>2. CASE S = {}
    BY <2>1, <2>2, FS_EmptySet
  <2>3. CASE S # {}
    <3>1. PICK x \in S : S = {x}
      BY <1>1, <2>3
    <3> QED BY <2>1, <3>1, FS_Singleton
  <2> QED BY <2>2, <2>3
<1>2. \A k \in Keys : Form!Cardinality({s \in Keys : r4[s].from = k}) <= 1
  BY <1>1, SettingsSay DEF KeysStand, Form!KeyStands
<1>3. Form!Cardinality({k \in Keys : r4[k].state = "live"}) <= 1
  BY <1>1, SettingsSay DEF KeysStand
<1> QED BY <1>2, <1>3, SettingsSay DEF Form!SettingsStand, Form!OneLiveKey

----------------------------------------------------------------------------

\* access.service.ts, native-auth.service.ts, admin-auth.service.ts, the forms and
\* api-key.service.ts: for any users, requests, sessions, invites, links and keys: a
\* shop has one active Owner at most, a staff user; what takes access away reaches
\* the sessions; one member is made of an e-mail's invites and one session of a link,
\* and no failed password is lost from the count; a session from before a
\* deactivation is dead; a form replaces what it showed and only what it was asked
\* to, and of a key and those rotated from it one at most is live.
THEOREM PeopleAreSafe == Spec => []PeopleStand
<1> DEFINE I == /\ focus = "access" => Entry!AccessInv
                /\ focus = "native" => Logins!AuthInv
                /\ focus = "console" => Desk!ConsoleInv
                /\ focus = "settings" => Form!SettingsInv
<1>1. Init => I
  BY AccessInitially, AuthInitially, ConsoleInitially, SettingsInitially, Zenon DEF Init
<1>2. I /\ [Next]_vars => I'
  <2> SUFFICES ASSUME I, [Next]_vars PROVE I'
    OBVIOUS
  <2>1. UNCHANGED focus
    BY DEF Next, vars
  <2>2. CASE focus = "access"
    <3>1. [Entry!Next]_<<r1, r2, r3, r4, r5, r6, r7>>
      BY <2>2 DEF Next, vars
    <3> QED BY <2>1, <2>2, <3>1, AccessKept
  <2>3. CASE focus = "native"
    <3>1. [Logins!Next]_<<r1, r2, r3, r4, r5, r6>>
      BY <2>3 DEF Next, vars
    <3> QED BY <2>1, <2>3, <3>1, AuthKept
  <2>4. CASE focus = "console"
    <3>1. [Desk!Next]_<<r1, r2, r3, r4, r5, r6>>
      BY <2>4 DEF Next, vars
    <3> QED BY <2>1, <2>4, <3>1, ConsoleKept
  <2>5. CASE focus = "settings"
    <3>1. [Form!Next]_<<r1, r2, r3, r4>>
      BY <2>5 DEF Next, vars
    <3> QED BY <2>1, <2>5, <3>1, SettingsKept
  <2> QED BY <2>1, <2>2, <2>3, <2>4, <2>5
<1>3. I => PeopleStand
  BY AccessInvStands, AuthInvStands, SettingsInvStands DEF PeopleStand, Desk!ConsoleInv
<1> QED BY <1>1, <1>2, <1>3, PTL DEF Spec

=============================================================================
