------------------------------ MODULE MCConnections ------------------------------
(***************************************************************************)
(* What stands between a shipment and its courier, one at a time: the      *)
(* adapters (Couriers), the calls of one account (Transport), the courier  *)
(* catalogue (Catalogue) and the bookings that run by themselves           *)
(* (BulkBooking).  They share no state; focus says which moves.            *)
(***************************************************************************)
EXTENDS Integers, FiniteSets, TLC

CONSTANTS
  Processes,                                  \* what runs in each: instances, requests, transactions, orders
  Alone, MaxAdapterFaults,                    \* of Couriers
  Apps, Home,                                 \* of Transport
  Threshold, Capacity, Reserve, MaxReplaces,
  Couriers, LastDay, MaxReleases, MaxRows,    \* of Catalogue
  Batches, Runs, BulkLimit, JobAttempts, SweepCap,  \* of BulkBooking
  MaxTroubles

\* A request runs in one application process, and batches are numbered.
ASSUME ConnectionsAssumption ==
  /\ Home \in [Processes -> Apps] /\ MaxReplaces \in Nat /\ LastDay \in Nat
  /\ Batches \subseteq Nat \ {0} /\ IsFiniteSet(Batches) /\ Runs \subseteq Nat \ {0}

VARIABLES
  focus,
  courier, provider, creates, memory, redis, calls, told, intent, faults,
  row, registry, breaker, tokens, reqs,
  seeded, lock, rows, card, known, edited, task,
  parcel, slots, batch, job, worker, sweep, trouble

Adapters == INSTANCE Couriers WITH Instances <- Processes, MaxFaults <- MaxAdapterFaults
Account == INSTANCE Transport WITH Requests <- Processes, Processes <- Apps, HomeOf <- Home
Master == INSTANCE Catalogue WITH courier <- seeded, Tasks <- Processes, Days <- 1 .. LastDay
Bulk == INSTANCE BulkBooking WITH faults <- trouble, Orders <- Processes, MaxFaults <- MaxTroubles

----------------------------------------------------------------------------

Symmetry == Permutations(Processes)
OneApp == [p \in Processes |-> "app"]

courierVars == <<courier, provider, creates, memory, redis, calls, told, intent, faults>>
transportVars == <<row, registry, breaker, tokens, reqs>>
catalogueVars == <<seeded, lock, rows, card, known, edited, task>>
bulkVars == <<parcel, slots, batch, job, worker, sweep, trouble>>

Init ==
  /\ focus \in {"couriers", "transport", "catalogue", "bulk"}
  /\ Adapters!Init /\ Account!Init /\ Master!Init /\ Bulk!Init
  /\ focus # "couriers" => courier = "delhivery"
  /\ focus # "catalogue" => seeded = [code |-> "delhivery", release |-> 1]

Next ==
  \/ focus = "couriers" /\ Adapters!Next /\ UNCHANGED <<focus, transportVars, catalogueVars, bulkVars>>
  \/ focus = "transport" /\ Account!Next /\ UNCHANGED <<focus, courierVars, catalogueVars, bulkVars>>
  \/ focus = "catalogue" /\ Master!Next /\ UNCHANGED <<focus, courierVars, transportVars, bulkVars>>
  \/ focus = "bulk" /\ Bulk!Next /\ UNCHANGED <<focus, courierVars, transportVars, catalogueVars>>

Spec == Init /\ [][Next]_<<focus, courierVars, transportVars, catalogueVars, bulkVars>>

----------------------------------------------------------------------------

\* Couriers: what an adapter answers about a parcel is true, and what it is
\* declared to do it does.
AnswersAreTrue == focus = "couriers" => Adapters!AnswersAreTrue /\ Adapters!DeclaredIsServed
\* Transport: the calls in flight obey what the merchant did to the account.
AccountIsObeyed == focus = "transport" => Account!AccountIsObeyed
\* Catalogue: what the seeds, the administrators and the bookings leave stands.
CatalogueStands == focus = "catalogue" => Master!CatalogueStands
\* BulkBooking: no shipment is queued twice, and the batches' reports add up.
BulkStands == focus = "bulk" => Bulk!BulkStands
=============================================================================
