-------------------------- MODULE ShipmentMachines --------------------------
(***************************************************************************)
(* What the writers of a booked shipment promise together: the booking,    *)
(* custody and movement machines of the shipment row, and the reversal of  *)
(* its entitlement.  No process, queue or courier appears here: each step  *)
(* is one legal change of a row.  Module Transit implements it.            *)
(***************************************************************************)
CONSTANT Shipments

PrePickup == {"PICKUP_PENDING", "PICKUP_SCHEDULED"}

MovementStates == {"NOT_SHIPPED", "IN_TRANSIT", "OUT_FOR_DELIVERY", "NDR", "DELIVERED",
                   "RTO_INITIATED", "RTO_IN_TRANSIT", "RTO_OUT_FOR_DELIVERY",
                   "RTO_DELIVERED", "LOST_OR_DAMAGED", "CANCELLED_BY_COURIER"}
TerminalMovement == {"DELIVERED", "RTO_DELIVERED", "LOST_OR_DAMAGED", "CANCELLED_BY_COURIER"}

VARIABLES booking, custody, movement, reversed
vars == <<booking, custody, movement, reversed>>

Init ==
  /\ booking = [s \in Shipments |-> "CONFIRMED"]
  /\ custody = [s \in Shipments |-> "PICKUP_PENDING"]
  /\ movement = [s \in Shipments |-> "NOT_SHIPPED"]
  /\ reversed = {}

\* A pickup is acknowledged: the pending shipments of the group are scheduled.
Schedule(group) ==
  /\ \A s \in group : custody[s] = "PICKUP_PENDING"
  /\ custody' = [s \in Shipments |-> IF s \in group THEN "PICKUP_SCHEDULED" ELSE custody[s]]
  /\ UNCHANGED <<booking, movement, reversed>>

RequestCancel(s) ==
  /\ booking[s] = "CONFIRMED" /\ custody[s] \in PrePickup
  /\ custody' = [custody EXCEPT ![s] = "CANCEL_REQUESTED"]
  /\ UNCHANGED <<booking, movement, reversed>>

RejectCancel(s) ==
  /\ custody[s] = "CANCEL_REQUESTED"
  /\ \E previous \in PrePickup : custody' = [custody EXCEPT ![s] = previous]
  /\ UNCHANGED <<booking, movement, reversed>>

ConfirmCancel(s) ==
  /\ custody[s] = "CANCEL_REQUESTED"
  /\ custody' = [custody EXCEPT ![s] = "CANCELLED"]
  /\ booking' = [booking EXCEPT ![s] = "VOID"]
  /\ UNCHANGED <<movement, reversed>>

\* A carrier event moves a parcel that has not ended, and may take custody.
CarrierEvent(s) ==
  /\ movement[s] \notin TerminalMovement
  /\ \E m \in MovementStates \ {"NOT_SHIPPED"} : movement' = [movement EXCEPT ![s] = m]
  /\ \/ UNCHANGED custody
     \/ /\ custody[s] \in PrePickup \cup {"CANCEL_REQUESTED"}
        /\ custody' = [custody EXCEPT ![s] = "IN_CUSTODY"]
  /\ UNCHANGED <<booking, reversed>>

\* The entitlement returns only for a shipment whose cancellation is settled.
Reverse(s) ==
  /\ booking[s] = "VOID" /\ custody[s] = "CANCELLED"
  /\ reversed' = reversed \cup {s}
  /\ UNCHANGED <<booking, custody, movement>>

Next ==
  \/ \E group \in SUBSET Shipments : Schedule(group)
  \/ \E s \in Shipments :
       RequestCancel(s) \/ RejectCancel(s) \/ ConfirmCancel(s) \/ CarrierEvent(s) \/ Reverse(s)

Spec == Init /\ [][Next]_vars
=============================================================================
