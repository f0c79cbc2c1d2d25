--------------------------------- MODULE Intake ---------------------------------
(***************************************************************************)
(* How a shop comes in from Shopify, and what Shopify sends afterwards:    *)
(* the install callback (nonce, shop row, seeds, webhook subscriptions,    *)
(* entry token), and the inbox that every webhook goes through.  Members   *)
(* and sessions are Access's.  One shop.                                   *)
(***************************************************************************)
EXTENDS Integers, FiniteSets

CONSTANTS
  Handlers,   \* requests
  Nonces,     \* bound: installs begun
  Topics,     \* topics with a handler
  Events,     \* webhooks, by their id
  MaxFaults   \* bound: deaths, refusals by Shopify, changes of the app's URL

VARIABLES
  grant,    \* per install: its nonce, the entry token it ended in, sessions opened
  tenant,   \* the shop: its row, what it was seeded with, trials, subscriptions
  letter,   \* webhook_inbox: state, handler runs, acknowledgements
  porter,   \* each request
  mishaps

intakeVars == <<grant, tenant, letter, porter, mishaps>>

Free == [pc |-> "free", of |-> "none", left |-> {}, seen |-> {}]
\* store_settings, order_sync_settings, the default profile.
Kinds == {"settings", "sync", "profile"}

Init ==
  /\ grant = [n \in Nonces |-> [nonce |-> "none", token |-> "none", opened |-> 0]]
  /\ tenant = [row |-> FALSE, seeds |-> [k \in Kinds |-> "none"], edited |-> {}, trials |-> 0,
               subs |-> [t \in Topics |-> "none"]]
  /\ letter = [e \in Events |-> [state |-> "none", runs |-> 0, acks |-> "none"]]
  /\ porter = [h \in Handlers |-> Free]
  /\ mishaps = 0

At(h, pc) == porter[h].pc = pc
Goto(h, pc) == porter' = [porter EXCEPT ![h].pc = pc]
Done(h) == porter' = [porter EXCEPT ![h] = Free]
Fault == mishaps < MaxFaults /\ mishaps' = mishaps + 1

----------------------------------------------------------------------------
(* The install.                                                            *)

BeginInstall(n) ==
  /\ grant[n].nonce = "none"
  /\ grant' = [grant EXCEPT ![n].nonce = "live"]
  /\ UNCHANGED <<tenant, letter, porter, mishaps>>

\* GETDEL: the nonce is good for one callback; ten minutes, or it is gone.
Taken(n) == [grant EXCEPT ![n].nonce = "spent"]
HandleCallback(h, n) ==
  /\ At(h, "free") /\ grant[n].nonce = "live"
  /\ grant' = Taken(n)
  /\ porter' = [porter EXCEPT ![h] = [Free EXCEPT !.pc = "exchange", !.of = n]]
  /\ UNCHANGED <<tenant, letter, mishaps>>
Lapse(n) ==
  /\ \/ grant[n].nonce = "live" /\ grant' = Taken(n)
     \/ grant[n].token = "live" /\ grant' = [grant EXCEPT ![n].token = "spent"]
  /\ UNCHANGED <<tenant, letter, porter, mishaps>>

\* The code is exchanged and the currency is rupees, else the request ends (Dies).
UpsertShop(h) ==
  /\ At(h, "exchange")
  /\ tenant' = [tenant EXCEPT !.row = TRUE]
  /\ porter' = [porter EXCEPT ![h].pc = "settings"]
  /\ UNCHANGED <<grant, letter, mishaps>>

\* ON CONFLICT DO NOTHING, each its own statement.
Absent(k) == tenant.seeds[k] = "none"
AfterSeed == [settings |-> "sync", sync |-> "profile", profile |-> "trial"]
Seed(h, k) ==
  /\ At(h, k)
  /\ tenant' = IF Absent(k) THEN [tenant EXCEPT !.seeds[k] = "seed"] ELSE tenant
  /\ Goto(h, AfterSeed[k])
  /\ UNCHANGED <<grant, letter, mishaps>>
\* The subscription has no key to conflict on.
SeedTrial(h) ==
  /\ At(h, "trial")
  /\ tenant' = [tenant EXCEPT !.trials = @ + 1]
  /\ Goto(h, "subscribe")
  /\ UNCHANGED <<grant, letter, mishaps>>
\* The merchant's own settings.
Edit(k) ==
  /\ tenant.seeds[k] = "seed"
  /\ tenant' = [tenant EXCEPT !.seeds[k] = "edited", !.edited = @ \cup {k}]
  /\ UNCHANGED <<grant, letter, porter, mishaps>>

----------------------------------------------------------------------------
(* The subscriptions: what is there is read once, then topic by topic;     *)
(* Shopify refuses a second subscription to a topic and an address.        *)

ReadExisting(h) ==
  /\ At(h, "subscribe")
  /\ porter' = [porter EXCEPT ![h] = [@ EXCEPT !.pc = "topics", !.left = Topics,
                                               !.seen = {<<t, tenant.subs[t]>> : t \in Topics}]]
  /\ UNCHANGED <<grant, tenant, letter, mishaps>>
Saw(h, t, state) == <<t, state>> \in porter[h].seen
Mutates(h, t) ==
  \/ Saw(h, t, "none") /\ tenant.subs[t] = "none"
  \/ Saw(h, t, "stale") /\ tenant.subs[t] # "none"
SyncTopic(h, t) ==
  /\ At(h, "topics") /\ t \in porter[h].left
  /\ \/ /\ tenant' = IF Mutates(h, t) THEN [tenant EXCEPT !.subs[t] = "ours"] ELSE tenant
        /\ UNCHANGED mishaps
     \/ ~Saw(h, t, "ours") /\ Fault /\ UNCHANGED tenant
  /\ porter' = [porter EXCEPT ![h].left = @ \ {t}]
  /\ UNCHANGED <<grant, letter>>
\* The read failed, or all topics were tried: the install goes on.
GoesOn(h) ==
  /\ \/ At(h, "subscribe") /\ Fault
     \/ At(h, "topics") /\ porter[h].left = {} /\ UNCHANGED mishaps
  /\ porter' = [porter EXCEPT ![h] = [@ EXCEPT !.pc = "mint", !.left = {}, !.seen = {}]]
  /\ UNCHANGED <<grant, tenant, letter>>
MoveUrl ==
  /\ Fault /\ \E t \in Topics : tenant.subs[t] = "ours"
  /\ tenant' = [tenant EXCEPT !.subs = [t \in Topics |-> IF @[t] = "ours" THEN "stale" ELSE @[t]]]
  /\ UNCHANGED <<grant, letter, porter>>

\* Who came without a staff identity is refused here (Done), the shop stays.
Mint(h) ==
  /\ At(h, "mint")
  /\ \/ grant' = [grant EXCEPT ![porter[h].of].token = "live"]
     \/ UNCHANGED grant
  /\ Done(h)
  /\ UNCHANGED <<tenant, letter, mishaps>>
Enter(n) ==
  /\ grant[n].token = "live"
  /\ grant' = [grant EXCEPT ![n].token = "spent", ![n].opened = @ + 1]
  /\ UNCHANGED <<tenant, letter, porter, mishaps>>

----------------------------------------------------------------------------
(* The inbox.                                                              *)

\* A webhook of a shop that is not known is acknowledged and forgotten; a
\* second copy is acknowledged; else its row comes first.
FirstCopy(e) == letter[e].state = "none"
Ingest(h, e) ==
  /\ At(h, "free")
  /\ CASE ~tenant.row -> letter' = [letter EXCEPT ![e].acks = "unknown"] /\ UNCHANGED porter
       [] tenant.row /\ FirstCopy(e) ->
            /\ letter' = [letter EXCEPT ![e].state = "RECEIVED"]
            /\ porter' = [porter EXCEPT ![h] = [Free EXCEPT !.pc = "dispatch", !.of = e]]
       [] OTHER -> letter' = [letter EXCEPT ![e].acks = "stored"] /\ UNCHANGED porter
  /\ UNCHANGED <<grant, tenant, mishaps>>
Dispatch(h) ==
  /\ At(h, "dispatch")
  /\ \/ /\ letter' = [letter EXCEPT ![porter[h].of].runs = @ + 1]
        /\ Goto(h, "handled") /\ UNCHANGED mishaps
     \/ Fault /\ Goto(h, "threw") /\ UNCHANGED letter
  /\ UNCHANGED <<grant, tenant>>
Mark(h) ==
  /\ porter[h].pc \in {"handled", "threw"}
  /\ letter' = [letter EXCEPT ![porter[h].of] =
       [@ EXCEPT !.state = IF At(h, "handled") THEN "PROCESSED" ELSE "FAILED", !.acks = "stored"]]
  /\ Done(h)
  /\ UNCHANGED <<grant, tenant, mishaps>>

Dies(h) ==
  /\ porter[h] # Free /\ Fault /\ Done(h)
  /\ UNCHANGED <<grant, tenant, letter>>

Next ==
  \/ \E n \in Nonces : BeginInstall(n) \/ Lapse(n) \/ Enter(n)
  \/ \E k \in Kinds : Edit(k)
  \/ MoveUrl
  \/ \E h \in Handlers :
       \/ \E n \in Nonces : HandleCallback(h, n)
       \/ UpsertShop(h) \/ (\E k \in Kinds : Seed(h, k)) \/ SeedTrial(h)
       \/ ReadExisting(h) \/ (\E t \in Topics : SyncTopic(h, t)) \/ GoesOn(h) \/ Mint(h)
       \/ \E e \in Events : Ingest(h, e)
       \/ Dispatch(h) \/ Mark(h) \/ Dies(h)

Spec == Init /\ [][Next]_intakeVars

----------------------------------------------------------------------------

\* oauth.service.ts and webhook-ingest.service.ts: however installs overlap, die
\* and are begun again, whoever is let in finds a shop with all it is seeded
\* with, an install lets in one, and a seed never goes over a merchant's own
\* settings; a webhook of a known shop is never acknowledged without its row,
\* and its handler runs once, however often it is delivered.
IntakeStands ==
  /\ \A n \in Nonces : grant[n].token # "none" =>
       tenant.trials > 0 /\ \A k \in Kinds : tenant.seeds[k] # "none"
  /\ \A n \in Nonces : grant[n].opened <= 1
  /\ \A k \in tenant.edited : tenant.seeds[k] = "edited"
  /\ \A e \in Events :
       /\ letter[e].acks = "stored" => letter[e].state # "none"
       /\ letter[e].runs <= 1
       /\ letter[e].state = "PROCESSED" => letter[e].runs = 1

\* Why it holds.  The handlers of an install and those of a webhook.
Installing == {"exchange", "settings", "sync", "profile", "trial", "subscribe", "topics", "mint"}
Receiving == {"dispatch", "handled", "threw"}
\* What an install has seeded by the time it is here.
SeededBy(pc) ==
  CASE pc = "sync" -> {"settings"}
    [] pc = "profile" -> {"settings", "sync"}
    [] pc \in {"trial", "subscribe", "topics", "mint"} -> Kinds
    [] OTHER -> {}
PortersStand ==
  /\ porter \in [Handlers -> [pc : {"free"} \cup Installing \cup Receiving, of : {"none"} \cup Nonces \cup Events,
                              left : SUBSET Topics, seen : SUBSET (Topics \X {"none", "ours", "stale"})]]
  /\ \A h \in Handlers :
       /\ porter[h].pc \in Installing => porter[h].of \in Nonces
       /\ porter[h].pc \in Receiving => porter[h].of \in Events
       /\ \A k \in SeededBy(porter[h].pc) : tenant.seeds[k] # "none"
       /\ porter[h].pc \in {"subscribe", "topics", "mint"} => tenant.trials > 0
\* A nonce is spent before its one install begins, and a token before it opens.
GrantsStand ==
  /\ grant \in [Nonces -> [nonce : {"none", "live", "spent"}, token : {"none", "live", "spent"}, opened : {0, 1}]]
  /\ \A n \in Nonces : /\ grant[n].nonce # "spent" => grant[n].token = "none"
                       /\ grant[n].token # "spent" => grant[n].opened = 0
  /\ \A h \in Handlers : porter[h].pc \in Installing =>
       /\ grant[porter[h].of].nonce = "spent" /\ grant[porter[h].of].token = "none"
       /\ \A g \in Handlers : porter[g].pc \in Installing /\ porter[g].of = porter[h].of => g = h
\* A webhook has one handler, and has run once when that one is done.
LettersStand ==
  /\ letter \in [Events -> [state : {"none", "RECEIVED", "PROCESSED", "FAILED"}, runs : {0, 1},
                            acks : {"none", "unknown", "stored"}]]
  /\ \A e \in Events : /\ letter[e].state = "none" => letter[e].runs = 0
                       /\ letter[e].state = "PROCESSED" => letter[e].runs = 1
                       /\ letter[e].acks = "stored" => letter[e].state # "none"
  /\ \A h \in Handlers : porter[h].pc \in Receiving =>
       /\ letter[porter[h].of].state = "RECEIVED"
       /\ letter[porter[h].of].runs = IF porter[h].pc = "handled" THEN 1 ELSE 0
       /\ \A g \in Handlers : porter[g].pc \in Receiving /\ porter[g].of = porter[h].of => g = h
IntakeInv ==
  /\ tenant \in [row : BOOLEAN, seeds : [Kinds -> {"none", "seed", "edited"}], edited : SUBSET Kinds,
                 trials : Nat, subs : [Topics -> {"none", "ours", "stale"}]]
  /\ PortersStand /\ GrantsStand /\ LettersStand /\ IntakeStands

\* Not so: webhook-ingest.service.ts:129, "mark it FAILED for the §8.6
\* retry/replay path": nothing reads the inbox again, nor a row left RECEIVED
\* by a process that died, and the copy that comes again is a duplicate.
AcknowledgedIsHandled ==
  \A e \in Events : letter[e].acks = "stored" /\ (\A h \in Handlers : porter[h].of # e)
    => letter[e].runs = 1

\* Not so: one trial a shop (ON CONFLICT has nothing to conflict with).
OneTrialAShop == tenant.trials <= 1

\* Not so: a shop that is let in is subscribed to what is handled (the install
\* goes on without, and only another install tries again).
InIsSubscribed ==
  \A n \in Nonces : grant[n].token # "none" => \A t \in Topics : tenant.subs[t] # "none"
=============================================================================
