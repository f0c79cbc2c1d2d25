-------------------------------- MODULE Rollup --------------------------------
(***************************************************************************)
(* The hourly figures of the dashboard: RollupService reads the tables,    *)
(* one query after another while parcels move, and writes rows keyed by    *)
(* hour and dimension over those that are there; DashboardService adds up  *)
(* rows and reads nothing else.  One shop; an hour is the unit of time.    *)
(***************************************************************************)
EXTENDS Integers, Sequences, FiniteSets, FiniteSetsExt, Functions

CONSTANTS
  Parcels, TestParcels,   \* shipments, those that are tests among them
  Hours,                  \* bound: the last hour
  Back,                   \* hours the sweep restates (COHORT_RESTATEMENT_DAYS)
  Promise,                \* hours after booking at which a parcel is delayed
  MaxScans,               \* bound: scans
  MaxSweeps               \* bound: sweeps

VARIABLES
  hour,     \* the hour it is
  parcel,   \* booked hour (0: none), movement state, hours of its scans
  rows,     \* rollup_hourly_stats: what is known of a key
  sweep,    \* where the sweep stands, the rows it has collected
  fresh,    \* "yes": nothing moved since the last sweep began
  bounds

rollupVars == <<hour, parcel, rows, sweep, fresh, bounds>>

Sides == {"live", "test"}
Side(p) == IF p \in TestParcels THEN "test" ELSE "live"
Key(kind, h, side) == [kind |-> kind, hour |-> h, side |-> side]
Booked == {p \in Parcels : parcel[p].booked > 0}
First(hours) == IF hours = {} THEN 0 ELSE Min(hours)

Init ==
  /\ hour = 1
  /\ parcel = [p \in Parcels |-> [booked |-> 0, state |-> "OPEN", picked |-> {}, delivered |-> {}]]
  /\ rows = << >>
  /\ sweep = [step |-> 0, hour |-> 0, got |-> << >>]
  /\ fresh = "no"
  /\ bounds = [scans |-> MaxScans, sweeps |-> MaxSweeps]

----------------------------------------------------------------------------
(* What the figures are about.                                             *)

Moved == fresh' = "no"

Book(p) ==
  /\ parcel[p].booked = 0
  /\ parcel' = [parcel EXCEPT ![p].booked = hour]
  /\ Moved /\ UNCHANGED <<hour, rows, sweep, bounds>>
Void(p) ==
  /\ parcel[p].booked > 0 /\ parcel[p].state = "OPEN" /\ parcel[p].picked = {}
  /\ parcel' = [parcel EXCEPT ![p].state = "VOID"]
  /\ Moved /\ UNCHANGED <<hour, rows, sweep, bounds>>
\* A scan may tell of an earlier hour than those already known.
Scan(p) ==
  /\ parcel[p].booked > 0 /\ parcel[p].state # "VOID" /\ bounds.scans > 0
  /\ \E h \in parcel[p].booked..hour :
       parcel' = [parcel EXCEPT ![p] =
         IF parcel[p].picked = {} THEN [parcel[p] EXCEPT !.picked = {h}]
         ELSE [parcel[p] EXCEPT !.delivered = @ \cup {h}, !.state = "DELIVERED"]]
  /\ bounds' = [bounds EXCEPT !.scans = @ - 1]
  /\ Moved /\ UNCHANGED <<hour, rows, sweep>>
Tick ==
  /\ hour < Hours /\ hour' = hour + 1
  /\ Moved /\ UNCHANGED <<parcel, rows, sweep, bounds>>

----------------------------------------------------------------------------
(* The queries: for a window of hours, the rows of the groups that are not *)
(* empty, where found pairs parcels with an hour; the cards always have    *)
(* both sides.                                                             *)

Groups(kind, window, found) ==
  LET counted(k) == {p \in Booked : Side(p) = k.side /\ <<p, k.hour>> \in found}
      keys == {k \in [kind : {kind}, hour : window, side : Sides] : counted(k) # {}}
  IN  [k \in keys |-> <<Cardinality(counted(k))>>]

PickupPending(side) ==
  {p \in Booked : Side(p) = side /\ parcel[p].state = "OPEN" /\ parcel[p].picked = {}}
\* listDelayed: live shipments only, not ended, past the day promised.
ListDelayed(now) ==
  {p \in Booked : Side(p) = "live" /\ parcel[p].state = "OPEN" /\ parcel[p].booked + Promise < now}
CardRows(h) ==
  [k \in [kind : {"pickup_pending", "delayed"}, hour : {h}, side : Sides] |->
     <<IF k.kind = "pickup_pending" THEN Cardinality(PickupPending(k.side))
       ELSE IF k.side = "test" THEN 0 ELSE Cardinality(ListDelayed(h))>>]

MovementRows(h, state) == Groups(state, {h}, {p \in Booked : parcel[p].state = state} \X {h})

Cohort(h, side) == {p \in Booked : parcel[p].booked = h /\ Side(p) = side}
Outcome(cohort) ==
  <<Cardinality(cohort), Cardinality({p \in cohort : parcel[p].state = "DELIVERED"}),
    Cardinality({p \in cohort : parcel[p].state = "VOID"}),
    Cardinality({p \in cohort : parcel[p].state = "OPEN"})>>
CohortRows(window) ==
  [k \in {c \in [kind : {"cohort"}, hour : window, side : Sides] : Cohort(c.hour, c.side) # {}} |->
     Outcome(Cohort(k.hour, k.side))]

PickupRows(window) == Groups("pickup", window, {<<p, First(parcel[p].picked)>> : p \in Booked})
\* The first delivery of the window, which need not be the first.
DeliveryRows(window) ==
  Groups("delivery", window, {<<p, First(parcel[p].delivered \cap window)>> : p \in Booked})

----------------------------------------------------------------------------
(* The sweep: the hour, then the window that is restated.                  *)

Restated(h) == {x \in 1..h : x >= h - Back}

Program ==
  << "snapshot", "events", "write", "events", "write" >>
Doing(what) == sweep.step > 0 /\ Program[sweep.step] = what
WindowNow == IF sweep.step <= 3 THEN {sweep.hour} ELSE Restated(sweep.hour)

Over(a, b) == [k \in DOMAIN a \cup DOMAIN b |-> IF k \in DOMAIN a THEN a[k] ELSE b[k]]
EventRows(window) == Over(CohortRows(window), Over(PickupRows(window), DeliveryRows(window)))
Collect(new) ==
  /\ sweep' = [sweep EXCEPT !.step = @ + 1, !.got = Over(new, @)]
  /\ UNCHANGED <<hour, parcel, rows, fresh, bounds>>

Begin ==
  /\ sweep.step = 0 /\ bounds.sweeps > 0
  /\ sweep' = [step |-> 1, hour |-> hour, got |-> << >>]
  /\ fresh' = "sweeping"
  /\ bounds' = [bounds EXCEPT !.sweeps = @ - 1]
  /\ UNCHANGED <<hour, parcel, rows>>
\* The queries of a family are taken together, the families apart.
ReadSnapshot ==
  /\ Doing("snapshot")
  /\ Collect(Over(CardRows(sweep.hour),
                  Over(MovementRows(sweep.hour, "OPEN"), MovementRows(sweep.hour, "DELIVERED"))))
ReadEvents ==
  /\ Doing("events")
  /\ Collect(EventRows(WindowNow))

\* One INSERT .. ON CONFLICT DO UPDATE: nothing is ever taken out.
Upsert ==
  /\ Doing("write")
  /\ rows' = Over(sweep.got, rows)
  /\ sweep' = IF sweep.step = Len(Program) THEN [step |-> 0, hour |-> sweep.hour, got |-> << >>]
              ELSE [sweep EXCEPT !.step = @ + 1, !.got = << >>]
  /\ fresh' = IF sweep.step = Len(Program) /\ fresh = "sweeping" THEN "yes" ELSE fresh
  /\ UNCHANGED <<hour, parcel, bounds>>

\* A query fails: the shop is left until the next sweep.
Fail ==
  /\ sweep.step > 0
  /\ sweep' = [step |-> 0, hour |-> 0, got |-> << >>]
  /\ fresh' = "no"
  /\ UNCHANGED <<hour, parcel, rows, bounds>>

Next ==
  \/ \E p \in Parcels : Book(p) \/ Void(p) \/ Scan(p)
  \/ Tick \/ Begin \/ ReadSnapshot \/ ReadEvents \/ Upsert \/ Fail

Spec == Init /\ [][Next]_rollupVars

----------------------------------------------------------------------------
(* The dashboard: the cards of the latest hour that has any, and sums over *)
(* the hours of a window.                                                  *)

CardHours(side) == {k.hour : k \in {x \in DOMAIN rows : x.kind = "pickup_pending" /\ x.side = side}}
Card(kind, side) == rows[Key(kind, Max(CardHours(side)), side)][1]
KeysOf(kinds, side, window) == {k \in DOMAIN rows : k.kind \in kinds /\ k.side = side /\ k.hour \in window}
SumOf(kinds, side, window, i) == SumFunction([k \in KeysOf(kinds, side, window) |-> rows[k][i]])
\* getServicePerformance and getTrend: booked, delivered, open, first pick-ups.
Performance(side, window) ==
  [booked |-> SumOf({"cohort"}, side, window, 1), delivered |-> SumOf({"cohort"}, side, window, 2),
   open |-> SumOf({"cohort"}, side, window, 4)]

BookedIn(side, window) == {p \in Booked : Side(p) = side /\ parcel[p].booked \in window}
Of(side, window, state) == Cardinality({p \in BookedIn(side, window) : parcel[p].state = state})
\* What this is for: once a sweep has run with nothing moving, the cards, and the
\* cohorts of the hours it restated, say what the parcels are, tests apart; no first
\* pick-up or delivery is left out of the hour it is of.
FiguresStand ==
  fresh = "yes" => \A side \in Sides :
    LET window == Restated(hour) IN
    /\ Card("pickup_pending", side) = Cardinality(PickupPending(side))
    /\ Card("delayed", side) = (IF side = "test" THEN 0 ELSE Cardinality(ListDelayed(hour)))
    /\ Performance(side, window) = [booked |-> Cardinality(BookedIn(side, window)),
                                    delivered |-> Of(side, window, "DELIVERED"), open |-> Of(side, window, "OPEN")]
    /\ \A p \in Booked : Side(p) = side =>
         /\ First(parcel[p].picked) \in window => Key("pickup", First(parcel[p].picked), side) \in DOMAIN rows
         /\ First(parcel[p].delivered) \in window =>
              Key("delivery", First(parcel[p].delivered), side) \in DOMAIN rows

\* The inductive invariant: what a sweep has read while nothing moved is what it
\* would read again, and no row tells of a cohort that is not.
Says(book, what) == \A k \in DOMAIN what : k \in DOMAIN book /\ book[k] = what[k]
EventKinds == {"cohort", "pickup", "delivery"}
RollupInv ==
  /\ hour \in Nat \ {0}
  /\ parcel \in [Parcels -> [booked : 0..hour, state : {"OPEN", "DELIVERED", "VOID"},
                            picked : SUBSET (1..hour), delivered : SUBSET (1..hour)]]
  /\ sweep = [step |-> sweep.step, hour |-> sweep.hour, got |-> sweep.got]
  /\ sweep.step \in 0..5 /\ (sweep.step > 0 => sweep.hour \in 1..hour)
  /\ sweep.step = 4 => sweep.got = << >>
  /\ sweep.step = 5 => \A k \in DOMAIN sweep.got : k.kind \in EventKinds
  /\ \A k \in DOMAIN rows \cup DOMAIN sweep.got :
       /\ k = Key(k.kind, k.hour, k.side) /\ k.hour \in 1..hour
       /\ k.kind = "cohort" => Cohort(k.hour, k.side) # {}
  /\ fresh = "sweeping" =>
       /\ sweep.step > 0 /\ sweep.hour = hour
       /\ sweep.step \in {2, 3} => Says(sweep.got, CardRows(hour))
       /\ sweep.step \in {4, 5} => Says(rows, CardRows(hour))
       /\ sweep.step = 5 => Says(sweep.got, EventRows(Restated(hour)))
  /\ fresh = "yes" =>
       sweep.step = 0 /\ Says(rows, CardRows(hour)) /\ Says(rows, EventRows(Restated(hour)))

\* Not so: a window longer than is restated (90 days against 45) is as up to date:
\* a parcel delivered since keeps its old cohort's row.
OldCohortsStand ==
  fresh = "yes" => \A side \in Sides : Performance(side, 1..hour).delivered = Of(side, 1..hour, "DELIVERED")

\* Not so: "late-ingested events backfill their occurred-at hours": the parcel
\* is then counted in both, for a group that is empty now keeps its row.
DeliveredOnce ==
  fresh = "yes" => \A side \in Sides :
    SumOf({"delivery"}, side, Restated(hour), 1) = Of(side, Restated(hour), "DELIVERED")

\* Not so: the states of the matrix add up to the parcels (a sweep that runs
\* again in its hour does not take out the state a parcel has left).
MatrixAddsUp ==
  fresh = "yes" => \A side \in Sides :
    SumOf({"OPEN", "DELIVERED"}, side, {Max(CardHours(side))}, 1)
      = Cardinality({p \in Booked : Side(p) = side /\ parcel[p].state \in {"OPEN", "DELIVERED"}})
=============================================================================
