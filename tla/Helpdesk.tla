-------------------------------- MODULE Helpdesk --------------------------------
(***************************************************************************)
(* The tickets of a shop, answered by members and by the platform's staff. *)
(* A reply reads the ticket before its transaction; a staff page holds the *)
(* version it was drawn with.                                              *)
(***************************************************************************)
EXTENDS Integers, Sequences, FiniteSets, FiniteSetsExt

CONSTANTS
  Procs,       \* requests of members and staff
  MaxTickets,  \* bound
  MaxWrites    \* bound: replies, assignments, transitions

VARIABLES
  ticket,   \* tickets in the order of their insertion
  agent,    \* per request
  writes

helpVars == <<ticket, agent, writes>>

TicketTransitions == [OPEN |-> {"IN_PROGRESS"}, IN_PROGRESS |-> {"RESOLVED"},
                      RESOLVED |-> {"CLOSED"}, CLOSED |-> {}]
Idle == [pc |-> "idle", t |-> 0, state |-> "none", version |-> 0]

Init ==
  /\ ticket = <<>>
  /\ agent = [p \in Procs |-> Idle]
  /\ writes = 0

At(p, pc) == agent[p].pc = pc
Rest(p) == agent' = [agent EXCEPT ![p] = Idle]
Write == writes < MaxWrites /\ writes' = writes + 1
Mine(p) == ticket[agent[p].t]

----------------------------------------------------------------------------
(* Tickets.                                                                *)

\* createTicket: the shop row is locked, then the numbers are read.
NextNumber == Max({0} \cup {ticket[t].number : t \in DOMAIN ticket}) + 1
ShopLocked == \E p \in Procs : At(p, "number")

ReadNumber(p) ==
  /\ At(p, "idle") /\ Len(ticket) < MaxTickets /\ ~ShopLocked
  /\ agent' = [agent EXCEPT ![p] = [Idle EXCEPT !.pc = "number", !.version = NextNumber]]
  /\ UNCHANGED <<ticket, writes>>

CreateTicket(p) ==
  /\ At(p, "number")
  /\ ticket' = Append(ticket, [number |-> agent[p].version, state |-> "OPEN", version |-> 1,
                               assigned |-> "no", responded |-> "no", resolved |-> "no"])
  /\ Rest(p)
  /\ UNCHANGED writes

\* Both replies read the ticket and refuse a closed one.
ReadForReply(p, t, as) ==
  /\ At(p, "idle") /\ ticket[t].state # "CLOSED"
  /\ agent' = [agent EXCEPT ![p] = [Idle EXCEPT !.pc = as, !.t = t, !.state = ticket[t].state]]
  /\ UNCHANGED <<ticket, writes>>

Reopened(row) == [row EXCEPT !.state = "IN_PROGRESS", !.resolved = "no", !.version = @ + 1]

\* What was read as resolved is reopened, when it still is.
ReplyAsMember(p) ==
  /\ At(p, "member") /\ Write
  /\ ticket' = IF agent[p].state = "RESOLVED" /\ Mine(p).state = "RESOLVED"
               THEN [ticket EXCEPT ![agent[p].t] = Reopened(@)] ELSE ticket
  /\ Rest(p)

ReplyAsAdmin(p) ==
  /\ At(p, "admin") /\ Write
  /\ ticket' = [ticket EXCEPT ![agent[p].t] =
       [Mine(p) EXCEPT !.responded = "yes", !.version = @ + 1,
                 !.state = IF @ = "OPEN" THEN "IN_PROGRESS" ELSE @]]
  /\ Rest(p)

\* A page of the console: the version it carries.
OpenPage(p, t) ==
  /\ At(p, "idle")
  /\ agent' = [agent EXCEPT ![p] = [Idle EXCEPT !.pc = "page", !.t = t, !.version = ticket[t].version]]
  /\ UNCHANGED <<ticket, writes>>

Assign(p) ==
  /\ At(p, "page") /\ Write
  /\ ticket' = IF Mine(p).version = agent[p].version
               THEN [ticket EXCEPT ![agent[p].t].assigned = IF @ = "yes" THEN "no" ELSE "yes",
                                   ![agent[p].t].version = @ + 1]
               ELSE ticket
  /\ Rest(p)

\* transitionTicket: the state is read, then written against the page's version.
ReadForTransition(p) ==
  /\ At(p, "page")
  /\ agent' = [agent EXCEPT ![p].pc = "transit", ![p].state = Mine(p).state]
  /\ UNCHANGED <<ticket, writes>>

Transition(p) ==
  /\ At(p, "transit") /\ Write
  /\ \E to \in TicketTransitions[agent[p].state] :
       ticket' = IF Mine(p).version = agent[p].version /\ Mine(p).state = agent[p].state
                 THEN [ticket EXCEPT ![agent[p].t] =
                         [Mine(p) EXCEPT !.state = to, !.version = @ + 1,
                                   !.resolved = IF to = "RESOLVED" THEN "yes" ELSE @]]
                 ELSE ticket
  /\ Rest(p)

\* The member or the admin goes away, or the transition is refused.
Leave(p) ==
  /\ agent[p].pc \in {"page", "transit", "member", "admin", "number"} /\ Rest(p)
  /\ UNCHANGED <<ticket, writes>>

Next ==
  \/ \E p \in Procs :
       \/ ReadNumber(p) \/ CreateTicket(p)
       \/ \E t \in DOMAIN ticket :
            \/ \E as \in {"member", "admin"} : ReadForReply(p, t, as)
            \/ OpenPage(p, t)
       \/ ReplyAsMember(p) \/ ReplyAsAdmin(p)
       \/ Assign(p) \/ ReadForTransition(p) \/ Transition(p) \/ Leave(p)

----------------------------------------------------------------------------

\* ticket.service.ts: whatever replies and transitions overlap, the numbers of
\* a shop run without a gap or a repeat; a ticket shows a resolution exactly when
\* it is resolved or closed; and one that staff answered is not open.
TicketsStand ==
  \A t \in DOMAIN ticket :
    /\ ticket[t].number = t
    /\ ticket[t].resolved = "yes" <=> ticket[t].state \in {"RESOLVED", "CLOSED"}
    /\ ticket[t].responded = "yes" => ticket[t].state # "OPEN"

\* The inductive invariant: whoever holds the shop's lock has the next number, and
\* a request is about a ticket there is.
HelpInv ==
  /\ ticket \in Seq([number : Nat, state : DOMAIN TicketTransitions, version : Int,
                     assigned : {"yes", "no"}, responded : {"yes", "no"}, resolved : {"yes", "no"}])
  /\ agent \in [Procs -> [pc : {"idle", "number", "member", "admin", "page", "transit"}, t : Nat,
                          state : DOMAIN TicketTransitions \cup {"none"}, version : Int]]
  /\ \A p \in Procs :
       /\ At(p, "number") => /\ agent[p].version = Len(ticket) + 1
                             /\ \A q \in Procs : At(q, "number") => q = p
       /\ agent[p].pc \in {"member", "admin", "page", "transit"} => agent[p].t \in DOMAIN ticket
       /\ At(p, "transit") => agent[p].state \in DOMAIN TicketTransitions
  /\ TicketsStand

\* ticket.service.ts:207: "a new MEMBER message on a RESOLVED ticket reopens
\* it".  Not kept: the state is the one read before.
MemberReopens ==
  [][\A p \in Procs : At(p, "member") /\ writes' # writes => Mine(p).state # "RESOLVED"
       \/ ticket'[agent[p].t].state = "IN_PROGRESS"]_helpVars

\* ticket.service.ts:208: a closed ticket takes no message.  Not kept, for the
\* same reason.
ClosedIsTerminal ==
  [][\A p \in Procs : agent[p].pc \in {"member", "admin"} /\ writes' # writes /\ agent'[p] = Idle
       => Mine(p).state # "CLOSED"]_helpVars
=============================================================================
