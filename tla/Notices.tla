------------------------------- MODULE Notices -------------------------------
(***************************************************************************)
(* Notices to members: an alert when the allowance is used up, once for a  *)
(* cycle, and the e-mails to native members, each a row of message_log     *)
(* whose address a hard bounce suppresses.  Nothing here may fail a        *)
(* business path: what throws is logged and gone.                          *)
(***************************************************************************)
EXTENDS Integers, FiniteSets, FiniteSetsExt

CONSTANTS
  Notifiers,   \* processes that settle a booking, or tell members of an event
  Members,     \* the members of the shop
  Native,      \* those with an address; Shopify's staff have none
  Allowance,   \* AWBs of a cycle
  Used,        \* those already debited
  Messages     \* bound: rows of message_log for e-mails

VARIABLES
  used,         \* AWBs debited in the subscription's cycle
  fired,        \* alert keys in Redis
  inbox,        \* in-app rows per member and alert
  suppressed,   \* suppressed_addresses
  log,          \* message_log
  proc          \* per notifier

noticeVars == <<used, fired, inbox, suppressed, log, proc>>

Levels == {80, 100}
NoRow == [state |-> "NONE", to |-> "none", knew |-> "no", provider |-> "not asked"]
Idle == [pc |-> "idle", alert |-> 0, to |-> {}, whom |-> "nobody", row |-> 0]

Init ==
  /\ used = Used /\ fired = {}
  /\ inbox = [m \in Members |-> [a \in Levels |-> 0]]
  /\ suppressed = {}
  /\ log = [i \in 1..Messages |-> NoRow]
  /\ proc = [p \in Notifiers |-> Idle]

At(p, pc) == proc[p].pc = pc
Goto(p, pc) == proc' = [proc EXCEPT ![p].pc = pc]
Rest(p) == proc' = [proc EXCEPT ![p] = Idle]

----------------------------------------------------------------------------
(* The allowance alert of a booking that was debited.                      *)

Debit(p) ==
  /\ At(p, "idle") /\ used < Allowance
  /\ used' = used + 1
  /\ Goto(p, "check")
  /\ UNCHANGED <<fired, inbox, suppressed, log>>

\* The highest threshold the tally has crossed, or 0.
Crossed == Max({0} \cup {l \in Levels : used * 100 >= l * Allowance})

\* checkAllowanceThresholds.
CheckAllowance(p) ==
  /\ At(p, "check")
  /\ IF Crossed = 0 THEN Rest(p)
     ELSE proc' = [proc EXCEPT ![p].pc = "raise", ![p].alert = Crossed]
  /\ UNCHANGED <<used, fired, inbox, suppressed, log>>

\* SET NX on the key of the threshold in this cycle.
Fresh(alert) == alert \notin fired
RaiseAlert(p) ==
  /\ At(p, "raise")
  /\ fired' = fired \cup {proc[p].alert}
  /\ IF Fresh(proc[p].alert) THEN Goto(p, "notify") ELSE Rest(p)
  /\ UNCHANGED <<used, inbox, suppressed, log>>

\* notify: nobody when the event is off, or whoever is the Owner, one of the
\* staff.
NotifyOwner(p, to) ==
  /\ At(p, "notify")
  /\ IF to = {} THEN Rest(p) ELSE proc' = [proc EXCEPT ![p].pc = "members", ![p].to = to]
  /\ UNCHANGED <<used, fired, inbox, suppressed, log>>
\* recon.batch_disputed, ticket.reply, report.ready, announcement: by e-mail too.
NotifyMembers(p, to) ==
  /\ At(p, "idle")
  /\ proc' = [proc EXCEPT ![p] = [Idle EXCEPT !.pc = "members", !.to = to]]
  /\ UNCHANGED <<used, fired, inbox, suppressed, log>>

\* deliver: in the app first, and then to the member's address.
Deliver(p, m) ==
  /\ At(p, "members") /\ m \in proc[p].to
  /\ inbox' = IF proc[p].alert \in Levels THEN [inbox EXCEPT ![m][proc[p].alert] = @ + 1] ELSE inbox
  /\ proc' = [proc EXCEPT ![p].to = @ \ {m}, ![p].pc = IF m \in Native THEN "dispatch" ELSE "members",
                          ![p].whom = IF m \in Native THEN m ELSE @]
  /\ UNCHANGED <<used, fired, suppressed, log>>
Delivered(p) ==
  /\ At(p, "members") /\ proc[p].to = {}
  /\ Rest(p)
  /\ UNCHANGED <<used, fired, inbox, suppressed, log>>

----------------------------------------------------------------------------
(* dispatch: one row for an attempt.                                       *)

FreeRow == {i \in DOMAIN log : log[i] = NoRow}
Known(m) == m \in suppressed

\* The suppressed are read, and then the row is inserted.
CheckSuppressed(p) ==
  LET m == proc[p].whom IN
  /\ At(p, "dispatch") /\ FreeRow # {}
  /\ log' = [log EXCEPT ![Min(FreeRow)] =
       [state |-> "QUEUED", to |-> m, knew |-> IF Known(m) THEN "yes" ELSE "no", provider |-> "not asked"]]
  /\ proc' = [proc EXCEPT ![p].pc = IF Known(m) THEN "refuse" ELSE "send", ![p].whom = "nobody",
                          ![p].row = Min(FreeRow)]
  /\ UNCHANGED <<used, fired, inbox, suppressed>>
\* SUPPRESSED_HARD_BOUNCE, or no sender or no credentials for the channel.
Refuse(p) ==
  /\ At(p, "refuse") \/ At(p, "send")
  /\ log' = [log EXCEPT ![proc[p].row].state = "FAILED"]
  /\ Goto(p, "members")
  /\ UNCHANGED <<used, fired, inbox, suppressed>>
Send(p) ==
  /\ At(p, "send")
  /\ \E answer \in {"accepted", "refused", "hard bounce"} :
       log' = [log EXCEPT ![proc[p].row].provider = answer]
  /\ Goto(p, "settle")
  /\ UNCHANGED <<used, fired, inbox, suppressed>>
Settle(p) ==
  LET row == log[proc[p].row] IN
  /\ At(p, "settle")
  /\ log' = [log EXCEPT ![proc[p].row].state = IF row.provider = "accepted" THEN "SENT" ELSE "FAILED"]
  /\ Goto(p, IF row.provider = "hard bounce" THEN "suppress" ELSE "members")
  /\ UNCHANGED <<used, fired, inbox, suppressed>>
\* handleHardBounce.
SuppressAddress(p) ==
  /\ At(p, "suppress")
  /\ suppressed' = suppressed \cup {log[proc[p].row].to}
  /\ Goto(p, "members")
  /\ UNCHANGED <<used, fired, inbox, log>>

\* The process dies, or a statement throws and notify logs it.
Lost(p) ==
  /\ proc[p].pc # "idle"
  /\ Rest(p)
  /\ UNCHANGED <<used, fired, inbox, suppressed, log>>

Next ==
  \E p \in Notifiers :
       \/ Debit(p) \/ CheckAllowance(p) \/ RaiseAlert(p) \/ NotifyOwner(p, {})
       \/ \E m \in Members :
            \/ m \notin Native /\ NotifyOwner(p, {m})
            \/ m \in Native /\ NotifyMembers(p, {m})
            \/ Deliver(p, m)
       \/ Delivered(p) \/ CheckSuppressed(p) \/ Refuse(p) \/ Send(p) \/ Settle(p)
       \/ SuppressAddress(p) \/ Lost(p)

Spec == Init /\ [][Next]_noticeVars

----------------------------------------------------------------------------

\* An alert reaches one member, once in a cycle, however many bookings cross
\* the threshold together and whoever is the Owner by then; an address that had
\* bounced when the message was begun is not written to; and the log says of a
\* message what the provider said.
NoticesStand ==
  /\ \A a \in Levels, m \in Members :
       /\ inbox[m][a] <= 1
       /\ \A n \in Members : inbox[m][a] = 1 /\ inbox[n][a] = 1 => m = n
  /\ \A i \in DOMAIN log :
       /\ log[i].knew = "yes" => log[i].provider = "not asked"
       /\ log[i].state = "SENT" => log[i].provider = "accepted"
       /\ log[i].state = "FAILED" => log[i].provider # "accepted"

\* Who won the key of an alert still owes it, to one member, whom nobody told.
Owes(p, a) == proc[p].alert = a /\ (At(p, "notify") \/ proc[p].to # {})
AlertsInv ==
  \A a \in Levels :
    /\ \A p \in Notifiers : Owes(p, a) =>
         /\ a \in fired /\ \A q \in Notifiers : Owes(q, a) => q = p
         /\ \A m, n \in proc[p].to : m = n
    /\ (a \notin fired \/ \E p \in Notifiers : Owes(p, a)) => \A m \in Members : inbox[m][a] = 0
    /\ \A m \in Members : inbox[m][a] = 1 => \A n \in Members : inbox[n][a] = 1 => m = n

\* A message in hand has its row to itself, not yet decided; whoever is to be
\* written to was not known to bounce.
Writing == {"refuse", "send", "settle"}
RowsInv ==
  \A p \in Notifiers : proc[p].pc \in Writing =>
    /\ proc[p].row \in DOMAIN log /\ log[proc[p].row].state = "QUEUED"
    /\ proc[p].pc # "refuse" => log[proc[p].row].knew = "no"
    /\ proc[p].pc # "settle" => log[proc[p].row].provider = "not asked"
    /\ \A q \in Notifiers : proc[q].pc \in Writing /\ proc[q].row = proc[p].row => q = p

NoticesType ==
  /\ proc \in [Notifiers -> [pc : {"idle", "check", "raise", "notify", "members", "dispatch", "suppress"} \cup Writing,
                             alert : {0} \cup Levels, to : SUBSET Members,
                             whom : Members \cup {"nobody"}, row : 0..Messages]]
  /\ \A p \in Notifiers :
       /\ proc[p].pc \in {"idle", "check", "raise", "notify"} => proc[p].to = {}
       /\ proc[p].pc \in {"idle", "check"} => proc[p].alert = 0
  /\ inbox \in [Members -> [Levels -> {0, 1}]]
  /\ log \in [1..Messages -> [state : {"NONE", "QUEUED", "SENT", "FAILED"}, to : Members \cup {"none", "nobody"},
                              knew : {"yes", "no"}, provider : {"not asked", "accepted", "refused", "hard bounce"}]]

\* The inductive invariant.
NoticesInv == NoticesType /\ AlertsInv /\ RowsInv /\ NoticesStand

\* What the repository says otherwise.

\* "The address is never sent to again": a message begun before the bounce is
\* recorded is sent after it.
NeverSentAgain ==
  [][\A i \in DOMAIN log :
       log'[i].provider # log[i].provider => log[i].to \notin suppressed]_noticeVars
=============================================================================
