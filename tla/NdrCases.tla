------------------------------ MODULE NdrCases ------------------------------
(***************************************************************************)
(* The NDR cases of a shop as machine F of the specification sees them:    *)
(* the rows, the attempts they count, and the shipments that have ended.   *)
(* Who moves a case, and how many try to at once, is module Ndr's.         *)
(***************************************************************************)
EXTENDS Naturals, Sequences

CONSTANT Shipments

VARIABLES
  state, count, of,   \* per case, in the order of creation; the shipment it is of
  ended               \* shipments in a terminal movement state

vars == <<state, count, of, ended>>

Init == state = <<>> /\ count = <<>> /\ of = <<>> /\ ended = {}

Open(s) ==
  /\ state' = Append(state, "OPEN") /\ count' = Append(count, 1) /\ of' = Append(of, s)
  /\ UNCHANGED ended

Move(c, from, to) ==
  /\ state[c] \in from
  /\ state' = [state EXCEPT ![c] = to]

Advance(c) ==
  /\ \/ Move(c, {"OPEN"}, "ACTION_SUBMITTED")
     \/ Move(c, {"ACTION_SUBMITTED"}, "REATTEMPT_SCHEDULED")
     \/ Move(c, {"ACTION_SUBMITTED"}, "RTO_REQUESTED")
     \/ Move(c, {"ACTION_SUBMITTED", "REATTEMPT_SCHEDULED"}, "OPEN")
  /\ UNCHANGED <<count, of, ended>>

\* A further attempt counts, and puts the case back to OPEN after a reattempt.
Attempt(c) ==
  /\ \/ Move(c, {"REATTEMPT_SCHEDULED", "ACTION_SUBMITTED"}, "OPEN")
     \/ state[c] # "CLOSED" /\ UNCHANGED state
  /\ count' = [count EXCEPT ![c] = @ + 1]
  /\ UNCHANGED <<of, ended>>

Close(c) ==
  /\ of[c] \in ended
  /\ state[c] # "CLOSED" /\ state' = [state EXCEPT ![c] = "CLOSED"]
  /\ UNCHANGED <<count, of, ended>>

End(s) == ended' = ended \cup {s} /\ UNCHANGED <<state, count, of>>

Next ==
  \/ \E s \in Shipments : Open(s) \/ End(s)
  \/ \E c \in DOMAIN state : Advance(c) \/ Attempt(c) \/ Close(c)

Spec == Init /\ [][Next]_vars
=============================================================================
