--------------------------------- MODULE Console ---------------------------------
(***************************************************************************)
(* The platform's staff: enrolment and login of one admin user, the        *)
(* sessions, a support context over a shop, and the replay of what a queue *)
(* gave up.                                                                *)
(***************************************************************************)
EXTENDS Integers, FiniteSets

CONSTANTS
  Procs,        \* requests
  Sessions,     \* bound: rows of admin_session
  RequireTotp,  \* ADMIN_REQUIRE_TOTP
  MaxSecrets,   \* bound: enrolments
  MaxDepartures \* bound: deactivations

VARIABLES
  admin,    \* admin_user: active, its TOTP secret, whether it is confirmed
  row,      \* admin_session; when it was born, in deactivations carried out
  context,  \* support_context
  item,     \* dlq_item and the outbox row it names
  call,     \* per request
  departed  \* deactivations carried out

consoleVars == <<admin, row, context, item, call, departed>>

NoRow == [state |-> "none", born |-> 0]
NoCall == [pc |-> "free", secret |-> 0]

Init ==
  /\ admin = [active |-> TRUE, secret |-> 0, confirmed |-> FALSE, verified |-> 0]
  /\ row = [s \in Sessions |-> NoRow]
  /\ context = "none"
  /\ item = [replays |-> 0, outbox |-> "DEAD"]
  /\ call = [p \in Procs |-> NoCall]
  /\ departed = 0

At(p, pc) == call[p].pc = pc
Goto(p, pc) == call' = [call EXCEPT ![p].pc = pc]
Free(p) == call' = [call EXCEPT ![p] = NoCall]

----------------------------------------------------------------------------
(* Enrolment: each step is gated by the password of an active admin.       *)

Reads(p, pc) ==
  /\ At(p, "free") /\ admin.active
  /\ call' = [call EXCEPT ![p] = [pc |-> pc, secret |-> admin.secret]]
  /\ UNCHANGED <<admin, row, context, item, departed>>

EnrollTotp(p) ==
  /\ At(p, "enroll") /\ admin.secret < MaxSecrets
  /\ admin' = [admin EXCEPT !.secret = @ + 1, !.confirmed = FALSE]
  /\ Free(p)
  /\ UNCHANGED <<row, context, item, departed>>

\* The code was right for the secret that was read.
ConfirmTotp(p) ==
  /\ At(p, "confirm")
  /\ IF call[p].secret = 0 THEN UNCHANGED admin
     ELSE admin' = [admin EXCEPT !.confirmed = TRUE, !.verified = call[p].secret]
  /\ Free(p)
  /\ UNCHANGED <<row, context, item, departed>>

----------------------------------------------------------------------------
(* Sessions.                                                               *)

\* Password and code are checked against what was read.
Login(p) ==
  /\ At(p, "free") /\ admin.active
  /\ RequireTotp => admin.confirmed
  /\ Goto(p, "login")
  /\ UNCHANGED <<admin, row, context, item, departed>>

CreateSession(p) ==
  /\ At(p, "login")
  /\ \E s \in Sessions :
       /\ row[s] = NoRow
       /\ row' = [row EXCEPT ![s] = [state |-> "live", born |-> departed]]
  /\ Free(p)
  /\ UNCHANGED <<admin, context, item, departed>>

\* Logout, or twelve hours.
EndSession(s) ==
  /\ row[s].state = "live"
  /\ row' = [row EXCEPT ![s].state = "dead"]
  /\ UNCHANGED <<admin, context, item, call, departed>>

Deactivate(p) ==
  /\ At(p, "free") /\ admin.active /\ departed < MaxDepartures
  /\ admin' = [admin EXCEPT !.active = FALSE]
  /\ Goto(p, "departing")
  /\ UNCHANGED <<row, context, item, departed>>

Invalidated == [s \in Sessions |-> IF row[s].state = "live" THEN [row[s] EXCEPT !.state = "dead"] ELSE row[s]]
InvalidateSessions(p) ==
  /\ At(p, "departing")
  /\ row' = Invalidated
  /\ departed' = departed + 1
  /\ Free(p)
  /\ UNCHANGED <<admin, context, item>>

Reactivate ==
  /\ ~admin.active
  /\ admin' = [admin EXCEPT !.active = TRUE]
  /\ UNCHANGED <<row, context, item, call, departed>>

----------------------------------------------------------------------------
(* A request: the session, then the support context it names, then the     *)
(* view.                                                                   *)

ResolveSession(p, s) ==
  /\ At(p, "free")
  /\ row[s].state = "live" /\ admin.active
  /\ Goto(p, "in")
  /\ UNCHANGED <<admin, row, context, item, departed>>

OpenContext(p) ==
  /\ At(p, "in") /\ context = "none"
  /\ context' = "open"
  /\ Free(p)
  /\ UNCHANGED <<admin, row, item, departed>>

\* Ended by an admin, or an hour after it was opened.
EndContext(p) ==
  /\ At(p, "in") /\ context = "open" /\ context' = "dead"
  /\ Free(p)
  /\ UNCHANGED <<admin, row, item, departed>>
ExpireContext ==
  /\ context = "open" /\ context' = "dead"
  /\ UNCHANGED <<admin, row, item, call, departed>>

\* A request that names a context is refused when it is dead, and only reads.
Serve(p) ==
  /\ At(p, "in")
  /\ \E under \in BOOLEAN : under => context = "open"
  /\ Free(p)
  /\ UNCHANGED <<admin, row, context, item, departed>>

\* replay reads the item before its transaction.
ReadItem(p) ==
  /\ At(p, "in") /\ item.replays = 0
  /\ Goto(p, "replay")
  /\ UNCHANGED <<admin, row, context, item, departed>>

Replay(p) ==
  /\ At(p, "replay")
  /\ item' = [replays |-> item.replays + 1, outbox |-> "PENDING"]
  /\ Free(p)
  /\ UNCHANGED <<admin, row, context, departed>>

Next ==
  \/ \E p \in Procs :
       \/ \E pc \in {"enroll", "confirm"} : Reads(p, pc)
       \/ EnrollTotp(p) \/ ConfirmTotp(p)
       \/ Login(p) \/ CreateSession(p) \/ Deactivate(p) \/ InvalidateSessions(p)
       \/ \E s \in Sessions : ResolveSession(p, s)
       \/ OpenContext(p) \/ EndContext(p) \/ Serve(p) \/ ReadItem(p) \/ Replay(p)
  \/ \E s \in Sessions : EndSession(s)
  \/ Reactivate \/ ExpireContext

----------------------------------------------------------------------------

\* admin-auth.service.ts:133: a session from before a deactivation that was
\* carried out never opens the console again, not even for an admin who was
\* activated again; and nobody is asked for a code of a secret that was never
\* enrolled.
ConsoleStands ==
  /\ \A s \in Sessions : row[s].state = "live" => row[s].born = departed
  /\ admin.confirmed => admin.secret > 0

\* The inductive invariant: a code is checked for a secret that was enrolled by then.
ConsoleInv ==
  /\ admin \in [active : BOOLEAN, secret : Nat, confirmed : BOOLEAN, verified : Nat]
  /\ row = [s \in Sessions |-> row[s]]
  /\ \A s \in Sessions : row[s] \in [state : {"none", "live", "dead"}, born : {row[s].born}]
  /\ call = [p \in Procs |-> call[p]]
  /\ \A p \in Procs : call[p] \in [pc : {call[p].pc}, secret : 0..admin.secret]
  /\ ConsoleStands

\* admin-auth.service.ts:133: "deactivation kills every live session".  Not kept: a
\* login that read the admin before makes its session after.
DeactivationKills ==
  ~ \E s \in Sessions : row[s].state = "live" /\ ~admin.active /\ departed = MaxDepartures

\* admin-auth.service.ts:181: the secret that is confirmed was verified.  Not
\* kept: an enrolment between the check and the update.
TotpWasVerified == admin.confirmed => admin.verified = admin.secret

\* dlq-admin.service.ts:80: an item is replayed once.  Not kept.
ReplayedOnce == item.replays <= 1
=============================================================================
