-------------------------------- MODULE Billing --------------------------------
(***************************************************************************)
(* The subscription of one shop and the overage it pays: the account state *)
(* and the subscription rows, the charges Shopify holds, the allowance     *)
(* ledger, the usage records and the credits held against them.  A task is *)
(* a request, a webhook, a booking or a sweep; its statements interleave   *)
(* with those of the others.                                               *)
(***************************************************************************)
EXTENDS Integers, Sequences, FiniteSets, SequencesExt

CONSTANTS
  Tasks,        \* requests, webhooks, bookings and sweeps at work
  Parcels,      \* shipments booked
  Allowance,    \* AWBs a cycle includes
  Cap,          \* overage charges the merchant approved per cycle
  MaxCharges,   \* bound on subscriptions asked of Shopify
  MaxRows,      \* bound on subscription rows
  MaxAmbiguous, \* bound on submits whose answer is lost
  MaxActivity   \* bound on parcels debited or reversed and subscriptions asked, together

VARIABLES
  shop,       \* account_state
  subs,       \* the subscription rows, oldest first; charge 0 is the trial
  charges,    \* Shopify's charges by status
  downgrade,  \* a plan change waits in Redis for the cycle to end
  ledger,     \* awb_entitlement_ledger: <<direction, parcel, row>>
  usage,      \* the usage_record of a parcel
  credits,    \* overage_credit rows by source, and those already consumed
  billed,     \* usage charges Shopify has booked for a parcel
  task        \* per task: what it has read and still has to do

billingVars == <<shop, subs, charges, downgrade, ledger, usage, credits, billed, task>>

----------------------------------------------------------------------------

Accounts == {"TRIALING", "ACTIVE", "RESTRICTED", "READ_ONLY", "UNINSTALLED"}
Live == {"TRIALING", "ACTIVE"}
NoUsage == [state |-> "none", row |-> 0, tried |-> FALSE]
Idle == [pc |-> "idle", charge |-> 0, parcel |-> "none", row |-> 0]

Init ==
  /\ shop = "TRIALING"
  /\ subs = <<[charge |-> 0, state |-> "TRIALING", ended |-> FALSE]>>
  /\ charges = [n \in 1 .. MaxCharges |-> "none"]
  /\ downgrade = FALSE
  /\ ledger = {}
  /\ usage = [p \in Parcels |-> NoUsage]
  /\ credits = [p \in Parcels |-> [held |-> 0, used |-> 0]]
  /\ billed = [p \in Parcels |-> 0]
  /\ task = [t \in Tasks |-> Idle]

\* currentSubscription: the newest row, whatever its state.
Current == Len(subs)
\* The row a booking debits: the newest one that is TRIALING or ACTIVE.
Paying == SelectLastInSubSeq(subs, 1, Len(subs), LAMBDA s : s.state \in Live)

Entries(direction, row) == {e \in ledger : e[1] = direction /\ e[3] = row}
Consumed(row) == Cardinality(Entries("DEBIT", row)) - Cardinality(Entries("REVERSAL", row))

Activity == Cardinality({p \in Parcels : \E e \in ledger : e[2] = p})
            + Cardinality({n \in DOMAIN charges : charges[n] # "none"})

Go(t, pc) == task' = [task EXCEPT ![t].pc = pc]
End(t) == task' = [task EXCEPT ![t] = Idle]

----------------------------------------------------------------------------
(* The plan.                                                               *)

\* createSubscription: the charge waits for the merchant's approval.
AskShopify ==
  /\ Activity < MaxActivity
  /\ \E n \in 1 .. MaxCharges :
       /\ charges[n] = "none" /\ \A k \in 1 .. n - 1 : charges[k] # "none"
       /\ charges' = [charges EXCEPT ![n] = "PENDING"]

\* requestPlanChange: an upgrade (or a first plan) asks at once, a downgrade
\* waits for the cycle's end.
RequestPlanChange ==
  /\ \/ AskShopify /\ UNCHANGED downgrade
     \/ Len(subs) > 1 /\ downgrade' = TRUE /\ UNCHANGED charges
  /\ UNCHANGED <<shop, subs, ledger, usage, credits, billed, task>>

\* Shopify: the merchant approves, and the charge replaces the one before; or
\* declines; or Shopify freezes the store.
Decide(n) ==
  /\ \/ /\ charges[n] = "PENDING"
        /\ charges' = [k \in DOMAIN charges |->
             CASE k = n -> "ACTIVE" [] charges[k] = "ACTIVE" -> "CANCELLED" [] OTHER -> charges[k]]
     \/ /\ charges[n] = "PENDING"
        /\ charges' = [charges EXCEPT ![n] = "DECLINED"]
     \/ /\ charges[n] = "ACTIVE"
        /\ charges' = [charges EXCEPT ![n] = "FROZEN"]
  /\ UNCHANGED <<shop, subs, downgrade, ledger, usage, credits, billed, task>>

\* confirmSubscription reads Shopify's newest ACTIVE charge, then whether a
\* live row already stands for it: the redirect and the webhook both come here.
Confirm(t) ==
  /\ task[t] = Idle
  /\ \E n \in DOMAIN charges :
       /\ charges[n] = "ACTIVE"
       /\ ~\E i \in DOMAIN subs : subs[i].charge = n /\ subs[i].state \in Live
       /\ task' = [task EXCEPT ![t] = [Idle EXCEPT !.pc = "activate", !.charge = n]]
  /\ UNCHANGED <<shop, subs, charges, downgrade, ledger, usage, credits, billed>>

\* ... then, in one transaction, ends the open cycle, inserts the new row and
\* restores the account.  The superseded row keeps its state.
Activate(t) ==
  /\ task[t].pc = "activate" /\ Len(subs) < MaxRows
  /\ subs' = Append([i \in DOMAIN subs |-> [subs[i] EXCEPT !.ended = TRUE]],
                    [charge |-> task[t].charge, state |-> "ACTIVE", ended |-> FALSE])
  /\ shop' = IF shop = "UNINSTALLED" THEN shop ELSE "ACTIVE"
  /\ End(t)
  /\ UNCHANGED <<charges, downgrade, ledger, usage, credits, billed>>

\* applyRestriction: the shop, and if that moved, the rows.
ApplyRestriction(t) ==
  IF shop \in Live THEN shop' = "RESTRICTED" /\ Go(t, "restrict")
  ELSE UNCHANGED <<shop, task>>

RestrictRows(t) ==
  /\ task[t].pc = "restrict"
  /\ subs' = [i \in DOMAIN subs |->
       IF subs[i].state \in Live THEN [subs[i] EXCEPT !.state = "RESTRICTED"] ELSE subs[i]]
  /\ End(t)
  /\ UNCHANGED <<shop, charges, downgrade, ledger, usage, credits, billed>>

\* applyExternalStatus: the status a webhook brings, whichever charge it is of
\* and however late; ACTIVE goes through Confirm.
ExternalStatus(t) ==
  /\ task[t] = Idle
  /\ \E n \in DOMAIN charges : charges[n] \in {"DECLINED", "FROZEN", "CANCELLED"}
  /\ ApplyRestriction(t)
  /\ UNCHANGED <<subs, charges, downgrade, ledger, usage, credits, billed>>

\* cancel: Shopify first, then the restriction, then the pending downgrade.
Cancel(t) ==
  /\ task[t] = Idle
  /\ charges' = [n \in DOMAIN charges |->
       IF n = subs[Current].charge THEN "CANCELLED" ELSE charges[n]]
  /\ ApplyRestriction(t)
  /\ downgrade' = FALSE
  /\ UNCHANGED <<subs, ledger, usage, credits, billed>>

\* app/uninstalled is terminal.
Uninstall ==
  /\ shop' = "UNINSTALLED"
  /\ UNCHANGED <<subs, charges, downgrade, ledger, usage, credits, billed, task>>

----------------------------------------------------------------------------
(* The daily sweep.                                                        *)

\* Time: the current cycle runs out.
CycleEnds ==
  /\ ~subs[Current].ended
  /\ subs' = [subs EXCEPT ![Current].ended = TRUE]
  /\ UNCHANGED <<shop, charges, downgrade, ledger, usage, credits, billed, task>>

\* expireTrials looks for any TRIALING row whose cycle has ended.
ExpireTrials(t) ==
  /\ task[t] = Idle
  /\ \E i \in DOMAIN subs : subs[i].state = "TRIALING" /\ subs[i].ended
  /\ ApplyRestriction(t)
  /\ UNCHANGED <<subs, charges, downgrade, ledger, usage, credits, billed>>

\* restrictedToReadOnly once S-40 has passed: the shop, then the rows.
ToReadOnly(t) ==
  /\ task[t] = Idle /\ shop = "RESTRICTED"
  /\ shop' = "READ_ONLY"
  /\ Go(t, "readonly")
  /\ UNCHANGED <<subs, charges, downgrade, ledger, usage, credits, billed>>

ReadOnlyRows(t) ==
  /\ task[t].pc = "readonly"
  /\ subs' = [i \in DOMAIN subs |->
       IF subs[i].state = "RESTRICTED" THEN [subs[i] EXCEPT !.state = "READ_ONLY"] ELSE subs[i]]
  /\ End(t)
  /\ UNCHANGED <<shop, charges, downgrade, ledger, usage, credits, billed>>

\* applyDueDowngrades: asks for the cheaper plan once the cycle has ended.
ApplyDowngrade ==
  /\ downgrade /\ subs[Current].ended
  /\ AskShopify
  /\ downgrade' = FALSE
  /\ UNCHANGED <<shop, subs, ledger, usage, credits, billed, task>>

\* reconcileSubmittedUsage: Shopify lists the record.
ReconcileUsage(p) ==
  /\ usage[p].state = "SUBMITTED" /\ billed[p] > 0
  /\ usage' = [usage EXCEPT ![p].state = "ACCEPTED"]
  /\ UNCHANGED <<shop, subs, charges, downgrade, ledger, credits, billed, task>>

----------------------------------------------------------------------------
(* Overage.                                                                *)

\* The booking worker after the COMMIT: the debit of the paying row, then
\* recordOverageForShipment up to the allowance check.
Debit(t, p) ==
  /\ task[t] = Idle /\ Paying > 0 /\ Activity < MaxActivity
  /\ ~\E e \in ledger : e[1] = "DEBIT" /\ e[2] = p
  /\ ledger' = ledger \cup {<<"DEBIT", p, Paying>>}
  /\ task' = [task EXCEPT ![t] =
       IF Consumed(Paying) + 1 > Allowance
       THEN [Idle EXCEPT !.pc = "credit", !.parcel = p, !.row = Paying] ELSE Idle]
  /\ UNCHANGED <<shop, subs, charges, downgrade, usage, credits, billed>>

\* A held credit of the row is used before anything is charged.
UseCredit(t) ==
  /\ task[t].pc = "credit"
  /\ LET open == {p \in Parcels : credits[p].held > credits[p].used /\ usage[p].row = task[t].row}
     IN \/ \E p \in open : credits' = [credits EXCEPT ![p].used = @ + 1] /\ End(t)
        \/ open = {} /\ Go(t, "cap") /\ UNCHANGED credits
  /\ UNCHANGED <<shop, subs, charges, downgrade, ledger, usage, billed>>

Charged(row) == Cardinality({p \in Parcels :
  usage[p].row = row /\ usage[p].state \in {"PENDING", "SUBMITTED", "ACCEPTED"}})

\* The cap is compared with the sum of the records, then the record is
\* inserted; with no usage line item at Shopify it stays PENDING.
InsertUsage(t) ==
  /\ task[t].pc = "cap"
  /\ LET p == task[t].parcel
     IN IF Charged(task[t].row) + 1 > Cap \/ usage[p] # NoUsage
        THEN End(t) /\ UNCHANGED usage
        ELSE /\ usage' = [usage EXCEPT ![p] = [state |-> "PENDING", row |-> task[t].row, tried |-> FALSE]]
             /\ IF subs[task[t].row].charge # 0 /\ charges[subs[task[t].row].charge] = "ACTIVE"
                THEN Go(t, "submit") ELSE End(t)
  /\ UNCHANGED <<shop, subs, charges, downgrade, ledger, credits, billed>>

\* createUsageRecord: booked, refused, or booked or not with the answer lost.
Submit(t) ==
  /\ task[t].pc = "submit"
  /\ \/ billed' = [billed EXCEPT ![task[t].parcel] = @ + 1] /\ Go(t, "submitted")
     \/ Go(t, "refused") /\ UNCHANGED billed
     \/ Cardinality({p \in Parcels : usage[p].tried}) < MaxAmbiguous /\ Go(t, "ambiguous")
        /\ \E b \in {0, 1} : billed' = [billed EXCEPT ![task[t].parcel] = @ + b]
  /\ UNCHANGED <<shop, subs, charges, downgrade, ledger, usage, credits>>

\* The answer is written without looking at the record again.
Settled(u, pc) ==
  CASE pc = "submitted" -> [u EXCEPT !.state = "SUBMITTED", !.tried = TRUE]
    [] pc = "refused"   -> [u EXCEPT !.state = "REJECTED"]
    [] OTHER            -> [u EXCEPT !.tried = TRUE]

Settle(t) ==
  /\ task[t].pc \in {"submitted", "refused", "ambiguous"}
  /\ usage' = [usage EXCEPT ![task[t].parcel] = Settled(@, task[t].pc)]
  /\ End(t)
  /\ UNCHANGED <<shop, subs, charges, downgrade, ledger, credits, billed>>

\* What a reversal makes of the record it has read: one nobody submitted is
\* dropped, one Shopify knows is credited, an ambiguous one is left to review.
RemedyBug(u) ==
  CASE u.state = "PENDING" /\ ~u.tried -> "drop"
    [] u.state \in {"PENDING", "SUBMITTED", "ACCEPTED"} -> "hold"
    [] OTHER -> "idle"
Remedy(u) ==
  CASE u.state = "PENDING" /\ ~u.tried -> "drop"
    [] u.state \in {"SUBMITTED", "ACCEPTED"} -> "hold"
    [] OTHER -> "idle"

\* settleCancelled before pickup: the reversal against the row paying now, at
\* most one per parcel and whether or not it was debited, then
\* reverseOverageForShipment reads the usage record.
ReverseDebit(t, p) ==
  /\ task[t] = Idle /\ Paying > 0
  /\ Activity < MaxActivity \/ \E e \in ledger : e[2] = p
  /\ ~\E e \in ledger : e[1] = "REVERSAL" /\ e[2] = p
  /\ ledger' = ledger \cup {<<"REVERSAL", p, Paying>>}
  /\ task' = [task EXCEPT ![t] =
       IF usage[p] = NoUsage THEN Idle
       ELSE [Idle EXCEPT !.pc = Remedy(usage[p]), !.parcel = p]]
  /\ UNCHANGED <<shop, subs, charges, downgrade, usage, credits, billed>>

Drop(t) ==
  /\ task[t].pc = "drop"
  /\ usage' = [usage EXCEPT ![task[t].parcel].state = "REVERSED"]
  /\ End(t)
  /\ UNCHANGED <<shop, subs, charges, downgrade, ledger, credits, billed>>

HoldCredit(t) ==
  /\ task[t].pc = "hold"
  /\ credits' = [credits EXCEPT ![task[t].parcel].held = @ + 1]
  /\ End(t)
  /\ UNCHANGED <<shop, subs, charges, downgrade, ledger, usage, billed>>

----------------------------------------------------------------------------

Next ==
  \/ RequestPlanChange \/ Uninstall \/ CycleEnds  \/ ApplyDowngrade
  \/ \E n \in 1 .. MaxCharges : Decide(n)
  \/ \E p \in Parcels : ReconcileUsage(p)
  \/ \E t \in Tasks :
       \/ Confirm(t) \/ Activate(t) \/ ExternalStatus(t) \/ Cancel(t) \/ RestrictRows(t)
       \/ ExpireTrials(t) \/ ToReadOnly(t) \/ ReadOnlyRows(t)
       \/ UseCredit(t) \/ InsertUsage(t) \/ Submit(t) \/ Settle(t) \/ Drop(t) \/ HoldCredit(t)
       \/ \E p \in Parcels : Debit(t, p) \/ ReverseDebit(t, p)

Spec == Init /\ [][Next]_billingVars

----------------------------------------------------------------------------

\* OverageService: a merchant is never credited for more than Shopify charged
\* him, whatever answers were lost and whichever parcels were cancelled when.
NoFreeCredit == \A p \in Parcels : credits[p].used <= credits[p].held /\ credits[p].held <= billed[p]

\* A shop whose newest row stands for a charge Shopify calls ACTIVE is in
\* service (spec.md 3.11: trial expiry restricts a shop that is on trial).
RestrictedForCause ==
  shop = "RESTRICTED" =>
    subs[Current].charge = 0 \/ charges[subs[Current].charge] # "ACTIVE"

\* A cancelled parcel that was charged has its credit once nobody is at it.
ReversedIsCredited ==
  \A p \in Parcels :
    usage[p].state = "SUBMITTED" /\ (\A t \in Tasks : task[t].parcel # p)
      /\ (\E e \in ledger : e[1] = "REVERSAL" /\ e[2] = p)
    => credits[p].held > 0
=============================================================================
