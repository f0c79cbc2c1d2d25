------------------------------- MODULE Catalogue -------------------------------
(***************************************************************************)
(* What bookings are priced by: the courier master that each deploy seeds  *)
(* and administrators edit, and the rate cards and zone maps of a shop.    *)
(* A version a booking has used is sealed.  A task is one transaction, or  *)
(* one request, whose statements interleave with those of the others.      *)
(***************************************************************************)
EXTENDS Integers, Sequences, FiniteSets

CONSTANTS
  Couriers,      \* the couriers of the instance
  Tasks,         \* seeds, requests and bookings under way
  Days,          \* 1 .. the last day of the instance
  MaxReleases,   \* bound on the releases of the seed data
  MaxRows        \* bound on the version rows

VARIABLES
  courier,    \* the courier, and the release of its seed data
  lock,       \* the tasks that hold the courier row and the rate card row
  rows,       \* service_version, rate_card_version and commercial_zone_map rows
  card,       \* rate_card.version
  known,      \* courier_status_map: per raw text the carrier event, or none
  edited,     \* the texts an administrator made mean something else, or deleted,
              \* since the last seed
  task

catalogueVars == <<courier, lock, rows, card, known, edited, task>>

----------------------------------------------------------------------------
(* The seeds.  Raw texts are named by the event they mean.                 *)

Forward == {"PICKUP_SCHEDULED", "PICKED_UP", "IN_TRANSIT", "OUT_FOR_DELIVERY", "DELIVERED",
            "UNDELIVERED_ATTEMPT", "LOST_OR_DAMAGED", "CANCELLED_BY_COURIER"}
Endings == {"DELIVERED", "RTO_DELIVERED", "LOST_OR_DAMAGED", "CANCELLED_BY_COURIER"}
Texts == Forward \cup {"RTO_INITIATED", "RTO_IN_TRANSIT", "RTO_OUT_FOR_DELIVERY", "RTO_DELIVERED"}
Unmapped == "none"

DelhiveryStatuses == Forward \cup {"RTO_INITIATED", "RTO_DELIVERED"}
ShiprocketStatuses == Forward \cup {"RTO_INITIATED", "RTO_IN_TRANSIT", "RTO_OUT_FOR_DELIVERY", "RTO_DELIVERED"}
BluedartStatuses == Forward \cup {"RTO_INITIATED", "RTO_IN_TRANSIT", "RTO_DELIVERED"}
AmazonStatuses == Forward \cup {"RTO_INITIATED", "RTO_IN_TRANSIT", "RTO_OUT_FOR_DELIVERY", "RTO_DELIVERED"}
XpressbeesStatuses == Forward \cup {"RTO_IN_TRANSIT", "RTO_DELIVERED"}
DtdcStatuses == Forward \cup {"RTO_INITIATED", "RTO_DELIVERED"}
ShadowfaxStatuses == Forward \cup {"RTO_INITIATED", "RTO_IN_TRANSIT", "RTO_DELIVERED"}

----------------------------------------------------------------------------

Free == [pc |-> "free", ref |-> 0, saw |-> 0, from |-> 0, upto |-> 0]
Begin(t, r) == task' = [task EXCEPT ![t] = r]
End(t) == task' = [task EXCEPT ![t] = Free]

\* A version row; asSealed is what it said when it was sealed.
NewRow(kind, from, upto, terms, seeded) ==
  [kind |-> kind, from |-> from, upto |-> upto, terms |-> terms, seeded |-> seeded,
   sealed |-> FALSE, ver |-> 1, asSealed |-> 0]
Ids(kind) == {i \in DOMAIN rows : rows[i].kind = kind}

Init ==
  /\ courier \in [code : Couriers, release : {1}]
  /\ lock = [courier |-> {}, card |-> {}]
  /\ rows = <<NewRow("zones", 1, 0, 1, FALSE)>>
  /\ card = 1
  /\ known = [text \in Texts |-> Unmapped] /\ edited = {}
  /\ task = [t \in Tasks |-> Free]

----------------------------------------------------------------------------
(* A seed, and the trigger guard_sealed_version.                           *)

\* The upsert of the courier row holds it until the transaction ends.
RowFreeBug(holders) == TRUE
RowFree(holders) == holders = {}

BeginSeed(t) ==
  /\ task[t] = Free /\ RowFree(lock.courier)
  /\ lock' = [lock EXCEPT !.courier = @ \cup {t}]
  /\ Begin(t, [Free EXCEPT !.pc = "seed", !.saw = courier.release])
  /\ UNCHANGED <<courier, rows, card, known, edited>>

\* The oldest version of the starter's day: to be updated, left, or inserted.
ReadStarter(t) ==
  LET starters == {i \in Ids("service") : rows[i].from = 1}
      first == CHOOSE i \in starters : \A j \in starters : i <= j
  IN /\ task[t].pc = "seed"
     /\ task' = [task EXCEPT ![t].pc = "upsert",
          ![t].ref = IF starters = {} THEN 0 ELSE IF rows[first].sealed THEN -1 ELSE first]
     /\ UNCHANGED <<courier, lock, rows, card, known, edited>>

\* guard_sealed_version lets no UPDATE of a sealed row pass.
Guarded(i) == ~rows[i].sealed

\* The rest of the transaction: the status map is made the seed's again.  When
\* the trigger raises, all of it is rolled back.
FinishSeed(t, statuses) ==
  /\ task[t].pc = "upsert"
  /\ LET i == task[t].ref IN
     IF i > 0 /\ ~Guarded(i) THEN UNCHANGED <<rows, known, edited>>
     ELSE /\ i = 0 => Len(rows) < MaxRows
          /\ rows' = IF i = 0 THEN Append(rows, NewRow("service", 1, 0, task[t].saw, TRUE))
                     ELSE IF i > 0 THEN [rows EXCEPT ![i].terms = task[t].saw] ELSE rows
          /\ known' = [text \in Texts |-> IF text \in statuses THEN text ELSE known[text]]
          /\ edited' = edited \ statuses
  /\ lock' = [lock EXCEPT !.courier = @ \ {t}]
  /\ End(t)
  /\ UNCHANGED <<courier, card>>

RunDelhiverySeed(t) == courier.code = "delhivery" /\ FinishSeed(t, DelhiveryStatuses)
RunShiprocketSeed(t) == courier.code = "shiprocket" /\ FinishSeed(t, ShiprocketStatuses)
RunBluedartSeed(t) == courier.code = "bluedart" /\ FinishSeed(t, BluedartStatuses)
RunAmazonShippingSeed(t) == courier.code = "amazon_shipping" /\ FinishSeed(t, AmazonStatuses)
RunXpressbeesSeed(t) == courier.code = "xpressbees" /\ FinishSeed(t, XpressbeesStatuses)
RunDtdcSeed(t) == courier.code = "dtdc" /\ FinishSeed(t, DtdcStatuses)
RunShadowfaxSeed(t) == courier.code = "shadowfax" /\ FinishSeed(t, ShadowfaxStatuses)

\* A new release of the seed data.
Release ==
  /\ courier.release < MaxReleases
  /\ courier' = [courier EXCEPT !.release = @ + 1]
  /\ UNCHANGED <<lock, rows, card, known, edited, task>>

----------------------------------------------------------------------------
(* Administrators.                                                         *)

\* The courier row is there once a seed has committed.
Exists == \E i \in DOMAIN rows : rows[i].seeded

\* createServiceVersion: any number of versions of one day.
CreateServiceVersion(t) ==
  /\ Exists /\ task[t] = Free /\ Len(rows) < MaxRows
  /\ \E day \in Days : rows' = Append(rows, NewRow("service", day, 0, 0, FALSE))
  /\ UNCHANGED <<courier, lock, card, known, edited, task>>

\* upsertStatusMap adds a text, or overwrites what one meant;
\* deleteStatusMapEntry drops one.
UpsertStatusMap(text, event) ==
  /\ Exists
  /\ known' = [known EXCEPT ![text] = event]
  /\ edited' = IF event = text THEN edited \ {text} ELSE edited \cup {text}
  /\ UNCHANGED <<courier, lock, rows, card, task>>
DeleteStatusMapEntry(text) ==
  /\ known[text] # Unmapped
  /\ known' = [known EXCEPT ![text] = Unmapped]
  /\ edited' = edited \cup {text}
  /\ UNCHANGED <<courier, lock, rows, card, task>>

----------------------------------------------------------------------------
(* Rate cards and zone maps.                                               *)

Forever == 0
UptoOf(i) == rows[i].upto
Overlaps(i, from, upto) ==
  /\ upto # Forever => rows[i].from <= upto
  /\ UptoOf(i) # Forever => UptoOf(i) >= from

\* createVersion carries the card's version its writer read, takes the card FOR
\* UPDATE, and looks for a version its days overlap.
AskVersion(t) ==
  /\ task[t] = Free /\ Len(rows) < MaxRows
  /\ Begin(t, [Free EXCEPT !.pc = "ask", !.saw = card])
  /\ UNCHANGED <<courier, lock, rows, card, known, edited>>
LockCard(t) ==
  /\ task[t].pc = "ask" /\ RowFree(lock.card)
  /\ \E from \in Days : \E upto \in {d \in Days : d >= from} \cup {Forever} :
       IF card # task[t].saw \/ \E i \in Ids("tariff") : Overlaps(i, from, upto)
       THEN End(t) /\ UNCHANGED lock
       ELSE /\ Begin(t, [Free EXCEPT !.pc = "insert", !.from = from, !.upto = upto])
            /\ lock' = [lock EXCEPT !.card = @ \cup {t}]
  /\ UNCHANGED <<courier, rows, card, known, edited>>
CreateVersion(t) ==
  /\ task[t].pc = "insert"
  /\ Len(rows) < MaxRows
  /\ rows' = Append(rows, NewRow("tariff", task[t].from, task[t].upto, 1, FALSE))
  /\ card' = card + 1
  /\ lock' = [lock EXCEPT !.card = @ \ {t}]
  /\ End(t)
  /\ UNCHANGED <<courier, known, edited>>

CreateZoneMap(t) ==
  /\ task[t] = Free /\ Len(rows) < MaxRows
  /\ rows' = Append(rows, NewRow("zones", 1, 0, 1, FALSE))
  /\ UNCHANGED <<courier, lock, card, known, edited, task>>

Sealed(r) == IF r.sealed THEN r ELSE [r EXCEPT !.sealed = TRUE, !.ver = @ + 1, !.asSealed = r.terms]

\* seal: of the version its writer read, once.
Seal(i) ==
  /\ rows[i].kind # "service" /\ ~rows[i].sealed
  /\ rows' = [rows EXCEPT ![i] = Sealed(@)]
  /\ UNCHANGED <<courier, lock, card, known, edited, task>>

----------------------------------------------------------------------------
(* Bookings.                                                               *)

\* queueShipment reads the service version in force, and later seals it with
\* the rate card version and the zone map of its snapshot.
Current(day) ==
  {i \in Ids("service") : rows[i].from <= day /\ \A j \in Ids("service") : rows[j].from <= day => rows[j].from <= rows[i].from}
InForce(day) == {i \in Ids("tariff") : rows[i].from <= day /\ (UptoOf(i) = Forever \/ UptoOf(i) >= day)}

ReadVersions(t) ==
  /\ task[t] = Free
  /\ \E day \in Days : \E i \in Current(day) :
       Begin(t, [Free EXCEPT !.pc = "book", !.ref = i, !.saw = rows[i].terms, !.from = day])
  /\ UNCHANGED <<courier, lock, rows, card, known, edited>>
SealReferenced(t) ==
  /\ task[t].pc = "book"
  /\ \E tariff \in {{}} \cup {{i} : i \in InForce(task[t].from)} :
       rows' = [i \in DOMAIN rows |->
                  IF i = task[t].ref \/ i \in tariff \/ (tariff # {} /\ i = 1) THEN Sealed(rows[i]) ELSE rows[i]]
  /\ End(t)
  /\ UNCHANGED <<courier, lock, card, known, edited>>

----------------------------------------------------------------------------

Next ==
  \/ \E t \in Tasks :
       \/ BeginSeed(t) \/ ReadStarter(t)
       \/ RunDelhiverySeed(t) \/ RunShiprocketSeed(t) \/ RunBluedartSeed(t) \/ RunAmazonShippingSeed(t)
       \/ RunXpressbeesSeed(t) \/ RunDtdcSeed(t) \/ RunShadowfaxSeed(t)
       \/ CreateServiceVersion(t)
       \/ AskVersion(t) \/ LockCard(t) \/ CreateVersion(t) \/ CreateZoneMap(t)
       \/ ReadVersions(t) \/ SealReferenced(t)
  \/ Release
  \/ \E i \in DOMAIN rows : Seal(i)
  \/ \E event \in {"DELIVERED", "IN_TRANSIT"} : UpsertStatusMap("DELIVERED", event)
  \/ DeleteStatusMapEntry("DELIVERED")

Spec == Init /\ [][Next]_catalogueVars

----------------------------------------------------------------------------

\* What a sealed version says never changes again, although a seed had read it
\* before a booking sealed it (guard_sealed_version; INV-11).
SealedStands == \A i \in DOMAIN rows : rows[i].sealed => rows[i].terms = rows[i].asSealed

\* However many deploys seed at once, a service gets one starter version: the
\* table has no key that would refuse a second (run*Seed).
OneStarter == Cardinality({i \in DOMAIN rows : rows[i].seeded}) <= 1

\* On any day one version of the rate card is in force, whoever uploads at the
\* same time (createVersion; intervals do not overlap).
OneTariff == \A day \in Days : Cardinality(InForce(day)) <= 1

\* A seeded courier's texts tell every ending of a parcel as what it is, but for
\* those an administrator has deleted or mapped to another event since
\* (courier_status_map).
EndingsKnown == Exists => \A text \in Endings : known[text] = text \/ text \in edited

CatalogueStands == SealedStands /\ OneStarter /\ OneTariff /\ EndingsKnown

\* What a booking priced with is what the version it sealed says.  Not so: the
\* seed may update the row between the read and the seal.
BookedAsSealed == \A t \in Tasks : task[t].pc = "book" => task[t].saw = rows[task[t].ref].terms
=============================================================================
