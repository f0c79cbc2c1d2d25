-------------------------------- MODULE MCPlatform --------------------------------
(***************************************************************************)
(* The components around the shipments, one at a time: focus says which.   *)
(* They share no state, so the nine variables below are those of the       *)
(* component in focus, in the order of its declarations.                   *)
(***************************************************************************)
EXTENDS Integers, FiniteSets, TLC

CONSTANTS
  Focuses,                                 \* which components move
  Workers, StaffUsers,                     \* requests and processes; Shopify's users
  QuotedAccount, CardAccount, FreeAccount, \* of Ship: one account of each source
  Accounts, DefaultChain, CostSource, Bands, Ttl,
  ShipDays, ShipEdits, MaxAsks,
  Sweepers, Month, Ahead, Horizon, Batch,  \* of Upkeep
  KeepDays, KeepItems,
  Parcels, Tests,                          \* of Erasure
  MaxAttempts,                             \* of every queue
  CarrierEvents, TestShipment,             \* of SyncBack
  CallsPerWindow, SyncFaults, MaxReplays,
  Nonces, Topics, Events, IntakeFaults,    \* of Intake
  ReportDays, Week, MaxJobs, ReportEdits,  \* of Reports
  ReportFaults,
  Labelled, LabelDocs, TemplateEdits,      \* of Labels
  MaxStalls,
  NativeUsers, EntrySessions, MaxInstalls, \* of Access
  Invites, Links, LockThreshold,           \* of NativeAuth
  MaxSecrets, MaxResets, MaxFailures,
  ConsoleSessions, RequireTotp,            \* of Console
  MaxEnrolments, MaxDepartures,
  Keys, FormTables, MaxWrites,             \* of Settings
  MaxPapers, MaxIngests, MaxRequests, MaxCrashes,
  ShopMembers, Mailed,                     \* of Notices: members, those with an address
  AllowedAwbs, UsedAwbs, MaxMails,
  WarnedShops, MaxPublished,               \* of Announcements
  MaxTickets, MaxReplies,                  \* of Helpdesk
  Windows, MaxAge, WindowEdits, MaxHooks,  \* of CodConfirm
  MaxLinks, MaxMoves, LinkFaults,          \* of BuyerLinks
  Allowed, CaptchaAfter, MaxLookups,       \* of TrackLookup
  MaxLosses,
  Hours, Back, Promise, MaxScans,          \* of Rollup
  MaxSweeps

\* A quote lives for some time.
ASSUME ShipAssumption == Ttl \in Nat \ {0}
\* A week has days; a document of the bulk job is of no shipment; rows are counted.
ASSUME PapersAssumption ==
  /\ Week \in Nat \ {0} /\ "bulk" \notin Labelled
  /\ MaxJobs \in Nat /\ LabelDocs \in Nat

VARIABLES focus, r1, r2, r3, r4, r5, r6, r7, r8, r9
vars == <<focus, r1, r2, r3, r4, r5, r6, r7, r8, r9>>

MCHorizon == [inbox |-> 1, raw |-> 1, tracking |-> 2, document |-> 1,
              invoice |-> 2, export |-> 1, attachment |-> 1]
MCAccounts == {QuotedAccount, CardAccount, FreeAccount}
MCChain == {CardAccount}
MCSources == [a \in MCAccounts |->
                CASE a = CardAccount -> "RATE_CARD" [] a = QuotedAccount -> "LIVE_QUOTE" [] OTHER -> "NONE"]

Entry == INSTANCE Access WITH
  Staff <- StaffUsers, Natives <- NativeUsers, Requests <- Workers, Sessions <- EntrySessions,
  shop <- r1, member <- r2, access <- r3, tokens <- r4, session <-
  r5, cache <- r6, req <- r7
Logins == INSTANCE NativeAuth WITH
  Calls <- Workers, invite <- r1, joined <- r2, cred <- r3, link <- r4, call <- r5, failures <- r6
Desk == INSTANCE Console WITH
  Procs <- Workers, Sessions <- ConsoleSessions, MaxSecrets <- MaxEnrolments, admin <- r1, row <- r2, context <- r3, item <- r4, call <- r5,
  departed <- r6
Sync == INSTANCE SyncBack WITH
  SyncWorkers <- Workers, IsTest <- TestShipment, MaxFaults <- SyncFaults, outbox <- r1, store <- r2, syncer <-
  r3, budget <- r4, dlq <- r5, fault <- r6, desk <- r7
Arrival == INSTANCE Intake WITH
  Handlers <- Workers, MaxFaults <- IntakeFaults, grant <- r1, tenant <- r2, letter <-
  r3, porter <- r4, mishaps <- r5
Notice == INSTANCE Notices WITH
  Notifiers <- Workers, Members <- ShopMembers, Native <- Mailed,
  Allowance <- AllowedAwbs, Used <- UsedAwbs, Messages <- MaxMails, used <- r1, fired <- r2, inbox <- r3,
  suppressed <- r4, log <- r5, proc <- r6
Post == INSTANCE Announcements WITH
  Staff <- Workers, Shops <- WarnedShops, Members <- Mailed,
  post <- r1, read <- r2, plan <- r3, mail <- r4, mailed <- r5
Ticket == INSTANCE Helpdesk WITH
  Procs <- Workers, MaxWrites <- MaxReplies, ticket <- r1, agent <- r2, writes <- r3
Confirm == INSTANCE CodConfirm WITH
  Sweepers <- Workers, MaxEdits <- WindowEdits, MaxIngests <- MaxHooks,
  ingest <- r1, conf <- r2, parcel <- r3, setting <- r4, run <- r5, bounds <- r6
Buyer == INSTANCE BuyerLinks WITH
  Buyers <- Workers, MaxFaults <- LinkFaults, granted <- r1, isTest <- r2, shop <- r3,
  track <- r4, token <- r5, answer <- r6, request <- r7, dead <- r8, bounds <- r9
Lookup == INSTANCE TrackLookup WITH
  Callers <- Workers, shop <- r1, kept <- r2, count <- r3, fails <- r4, log <- r5,
  look <- r6, guesses <- r7, bounds <- r8
Report == INSTANCE Reports WITH
  Procs <- Workers, Days <- ReportDays, MaxEdits <- ReportEdits, MaxFaults <- ReportFaults,
  now <- r1, schedule <- r2, job <- r3, queue <- r4, desk <- r5, faults <- r6
Label == INSTANCE Labels WITH
  Procs <- Workers, Shipments <- Labelled, MaxDocs <- LabelDocs, MaxEdits <- TemplateEdits,
  account <- r1, pdf <- r2, doc <- r3, bulk <- r4, task <- r5, hand <- r6
Figures == INSTANCE Rollup WITH
  TestParcels <- Tests, hour <- r1, parcel <- r2, rows <- r3, sweep <- r4, fresh <- r5,
  bounds <- r6
Keep == INSTANCE Upkeep WITH
  Days <- KeepDays, Items <- KeepItems, today <- r1, owner <- r2, parts <- r3, item <-
  r4, sweep <- r5
Erase == INSTANCE Erasure WITH
  buyer <- r1, parcel <- r2, paper <- r3, printer <- r4, redactor <- r5, purger <- r6,
  bounds <- r7
Modal == INSTANCE Ship WITH
  Procs <- Workers, Days <- ShipDays, MaxEdits <- ShipEdits, now <- r1, cache <- r2,
  parcel <- r3, offered <- r4, clerk <- r5, bounds <- r6
Form == INSTANCE Settings WITH
  Members <- Workers, Tables <- FormTables, table <- r1, row <- r2, form <- r3, key <- r4

\* No key and no request is the absence of one.
ASSUME FormAssumption == "none" \notin Keys /\ "none" \notin Workers
\* A month has days, and a table a horizon.
ASSUME UpkeepAssumption == Month \in Nat \ {0} /\ \A k \in Keep!Kinds : Horizon[k] \in Nat
\* Crashes are counted.
ASSUME ErasureAssumption == MaxCrashes \in Nat
\* There are finitely many requests and parcels; messages, failures and hours are
\* counted, and some failures are let pass.
ASSUME MessagesAssumption ==
  /\ IsFiniteSet(Workers) /\ IsFiniteSet(Parcels)
  /\ MaxMails \in Nat /\ CaptchaAfter \in Nat \ {0} /\ Back \in Nat

----------------------------------------------------------------------------

\* A component of n variables leaves the others alone.
Blank8 == r9 = "-"
Blank7 == r8 = "-" /\ Blank8
Blank6 == r7 = "-" /\ Blank7
Blank5 == r6 = "-" /\ Blank6
Blank4 == r5 = "-" /\ Blank5
Blank3 == r4 = "-" /\ Blank4

Init ==
  /\ focus \in Focuses
  /\ CASE focus = "access" -> Entry!Init /\ Blank7
       [] focus = "native" -> Logins!Init /\ Blank6
       [] focus = "console" -> Desk!Init /\ Blank6
       [] focus = "sync" -> Sync!Init /\ Blank7
       [] focus = "intake" -> Arrival!Init /\ Blank5
       [] focus = "notices" -> Notice!Init /\ Blank6
       [] focus = "posts" -> Post!Init /\ Blank5
       [] focus = "tickets" -> Ticket!Init /\ Blank3
       [] focus = "confirm" -> Confirm!Init /\ Blank6
       [] focus = "links" -> Buyer!Init
       [] focus = "lookup" -> Lookup!Init /\ Blank8
       [] focus = "reports" -> Report!Init /\ Blank6
       [] focus = "labels" -> Label!Init /\ Blank6
       [] focus = "rollup" -> Figures!Init /\ Blank6
       [] focus = "upkeep" -> Keep!Init /\ Blank5
       [] focus = "erasure" -> Erase!Init /\ Blank7
       [] focus = "ship" -> Modal!Init /\ Blank6
       [] focus = "settings" -> Form!Init /\ Blank4

Next ==
  \/ focus = "access" /\ Entry!Next /\ UNCHANGED <<focus, r8, r9>>
  \/ focus = "native" /\ Logins!Next /\ UNCHANGED <<focus, r7, r8, r9>>
  \/ focus = "console" /\ Desk!Next /\ UNCHANGED <<focus, r7, r8, r9>>
  \/ focus = "sync" /\ Sync!Next /\ UNCHANGED <<focus, r8, r9>>
  \/ focus = "intake" /\ Arrival!Next /\ UNCHANGED <<focus, r6, r7, r8, r9>>
  \/ focus = "notices" /\ Notice!Next /\ UNCHANGED <<focus, r7, r8, r9>>
  \/ focus = "posts" /\ Post!Next /\ UNCHANGED <<focus, r6, r7, r8, r9>>
  \/ focus = "tickets" /\ Ticket!Next /\ UNCHANGED <<focus, r4, r5, r6, r7, r8, r9>>
  \/ focus = "confirm" /\ Confirm!Next /\ UNCHANGED <<focus, r7, r8, r9>>
  \/ focus = "links" /\ Buyer!Next /\ UNCHANGED focus
  \/ focus = "lookup" /\ Lookup!Next /\ UNCHANGED <<focus, r9>>
  \/ focus = "reports" /\ Report!Next /\ UNCHANGED <<focus, r7, r8, r9>>
  \/ focus = "labels" /\ Label!Next /\ UNCHANGED <<focus, r7, r8, r9>>
  \/ focus = "rollup" /\ Figures!Next /\ UNCHANGED <<focus, r7, r8, r9>>
  \/ focus = "upkeep" /\ Keep!Next /\ UNCHANGED <<focus, r6, r7, r8, r9>>
  \/ focus = "erasure" /\ Erase!Next /\ UNCHANGED <<focus, r8, r9>>
  \/ focus = "ship" /\ Modal!Next /\ UNCHANGED <<focus, r7, r8, r9>>
  \/ focus = "settings" /\ Form!Next /\ UNCHANGED <<focus, r5, r6, r7, r8, r9>>

Spec == Init /\ [][Next]_vars

MCSym == Permutations(Workers) \cup Permutations(StaffUsers)

----------------------------------------------------------------------------

\* Access, NativeAuth, Console, Settings: one Owner, a staff user of Shopify; what takes
\* access away reaches the sessions, a member's and an administrator's; an invite
\* or a link is worth what it was issued for once, and no wrong password is lost
\* from the count. Settings: a form replaces what it was asked to and what it showed,
\* and of an API key and those rotated from it one at most is live.
PeopleStand ==
  CASE focus = "access" -> Entry!OneStaffOwner /\ Entry!AccessTakenAway
    [] focus = "native" -> Logins!TokensSpentOnce /\ Logins!FailuresCounted
    [] focus = "console" -> Desk!ConsoleStands
    [] focus = "settings" -> Form!SettingsStand
    [] OTHER -> TRUE
\* SyncBack, Intake: one fulfillment for a shipment, no event without one, and
\* what gave up is filed; one session for an install, one run of its handler for a
\* webhook that succeeded.
ExchangeStands ==
  CASE focus = "sync" -> Sync!OneFulfillment /\ Sync!EventsFollowCreate /\ Sync!DeadIsFiled
    [] focus = "intake" -> Arrival!IntakeStands
    [] OTHER -> TRUE
\* Notices, Announcements, Helpdesk, CodConfirm, BuyerLinks, TrackLookup: an alert
\* once in a cycle and nothing to an address known to bounce; what is shown to a
\* shop was published to it; a ticket is answered by those who may; a confirmation
\* is settled once, a link that died is answered no more, and guesses at a parcel
\* are bounded.  Rollup: the figures a shop is told are those of its parcels.
MessagesStand ==
  CASE focus = "notices" -> Notice!NoticesStand
    [] focus = "posts" -> Post!WarningsStand
    [] focus = "tickets" -> Ticket!TicketsStand
    [] focus = "confirm" -> Confirm!ConfirmationsStand
    [] focus = "links" -> Buyer!LinksStand
    [] focus = "lookup" -> Lookup!GuessesAreBounded
    [] focus = "rollup" -> Figures!FiguresStand
    [] OTHER -> TRUE
\* Reports, Labels: an occurrence is reported once but for an edit, a link that was
\* mailed works, and a job that succeeded has its document, its only one but for a stall.
PapersStand ==
  CASE focus = "reports" -> Report!ReportsStand
    [] focus = "labels" -> Label!LabelsStand
    [] OTHER -> TRUE
\* Upkeep, Erasure: nothing is lost before its time, and what was erased is, but for
\* what the two definitions name.
KeptForItsTime ==
  CASE focus = "upkeep" -> Keep!KeptForItsTime
    [] focus = "erasure" -> Erase!ErasureStands
    [] OTHER -> TRUE
\* Ship: the price frozen was given for that weight and lived, and is no older than
\* the one the Member was shown of that account and weight.
PricesStand == focus = "ship" => Modal!PricesStand
=============================================================================
