-------------------------------- MODULE Settings --------------------------------
(***************************************************************************)
(* The rows that members and administrators edit in forms, each through    *)
(* the door of its service, and the keys of the REST API (ApiKeyService).  *)
(* A form is shown, filled in and sent back with the version it was shown; *)
(* the service reads the row for the audit, writes, then audits.           *)
(***************************************************************************)
EXTENDS Integers, FiniteSets

CONSTANTS
  Members,   \* requests at a time
  Keys,      \* rows of api_key
  Tables,    \* the rows under test
  MaxWrites  \* bound: writes of a row

VARIABLES
  table,     \* the row in play; never changes
  row,       \* that row
  form,      \* each request
  key        \* api_key

settingsVars == <<table, row, form, key>>

----------------------------------------------------------------------------
(* The doors: which row, which columns, how the UPDATE is put together.    *)

Columns == {"freight", "cod", "due"}
Door(of, columns, versioned, merges, makes) ==
  [of |-> of, columns |-> columns, versioned |-> versioned, merges |-> merges, makes |-> makes]
Doors == [
  store     |-> Door("store_settings", Columns, TRUE, FALSE, TRUE),
  track     |-> Door("track_page_config", Columns, TRUE, FALSE, TRUE),
  label     |-> Door("label_template", Columns, TRUE, TRUE, TRUE),
  recon     |-> Door("recon_settings", Columns, TRUE, FALSE, TRUE),
  cod       |-> Door("recon_settings", {"cod", "due"}, TRUE, TRUE, FALSE),
  overrides |-> Door("courier_account", Columns, TRUE, FALSE, FALSE),
  ndr       |-> Door("ndr_settings", Columns, FALSE, TRUE, FALSE),
  plan      |-> Door("plan", Columns, FALSE, FALSE, FALSE),
  courier   |-> Door("courier", Columns, FALSE, FALSE, FALSE)]
Created == {"courier_account", "plan", "courier"}

Fresh == [there |-> FALSE, version |-> 0, val |-> [c \in Columns |-> 0]]
Made(r) == IF r.there THEN r ELSE [r EXCEPT !.there = TRUE, !.version = 1]
Blank == [pc |-> "rest", door |-> "none", patch |-> {},
          shown |-> Fresh, before |-> Fresh, replaced |-> Fresh, after |-> Fresh]

Init ==
  /\ table \in Tables
  /\ row = IF table \in Created THEN Made(Fresh) ELSE Fresh
  /\ form = [m \in Members |-> Blank]
  /\ key = [k \in Keys |-> [state |-> "none", from |-> "none", lock |-> "none"]]

At(m, pc) == form[m].pc = pc
Through(m) == Doors[form[m].door]
\* Some doors make the row on the first read.
Seen(d) == IF Doors[d].makes THEN Made(row) ELSE row

View(m, d) ==
  /\ At(m, "rest") /\ Doors[d].of = table
  /\ row' = Seen(d)
  /\ form' = [form EXCEPT ![m] = [Blank EXCEPT !.pc = "shown", !.door = d, !.shown = Seen(d)]]
  /\ UNCHANGED <<table, key>>

ReadBefore(m) ==
  /\ At(m, "shown") /\ row.version < MaxWrites
  /\ row' = Seen(form[m].door)
  /\ \E patch \in (SUBSET Through(m).columns) \ {{}} :
       form' = [form EXCEPT ![m].pc = "before", ![m].patch = patch, ![m].before = Seen(form[m].door)]
  /\ UNCHANGED <<table, key>>

\* WHERE version = what the form was shown; an INSERT meets no version.
Matches(m) == ~Through(m).versioned \/ ~row.there \/ row.version = form[m].shown.version
\* A service that merges writes back the columns the patch leaves out as it read
\* them; the others leave those columns to the statement.
Value(m, c) ==
  IF c \in form[m].patch THEN row.version + 1
  ELSE IF Through(m).merges /\ c \in Through(m).columns THEN form[m].before.val[c]
  ELSE row.val[c]
Write(m) ==
  /\ At(m, "before")
  /\ LET written == [there |-> TRUE, version |-> row.version + 1,
                     val |-> [c \in Columns |-> Value(m, c)]]
     IN  IF Matches(m)
         THEN /\ row' = written
              /\ form' = [form EXCEPT ![m].pc = "audit", ![m].replaced = row, ![m].after = written]
         ELSE /\ form' = [form EXCEPT ![m] = Blank] /\ UNCHANGED row
  /\ UNCHANGED <<table, key>>
\* The audit row, the answer, or a death on the way.
Leave(m) ==
  /\ form[m].pc \in {"shown", "before", "audit"}
  /\ form' = [form EXCEPT ![m] = Blank]
  /\ UNCHANGED <<table, row, key>>

----------------------------------------------------------------------------
(* The keys.                                                               *)

Create(k) ==
  /\ table = "api_key" /\ key[k].state = "none" /\ \A other \in Keys : key[other].state = "none"
  /\ key' = [key EXCEPT ![k].state = "live"]
  /\ UNCHANGED <<table, row, form>>

\* SELECT .. FOR UPDATE, then the test of revoked_at.
Unlocked(k) == key[k].lock = "none"
Lock(m, k) ==
  /\ table = "api_key" /\ At(m, "rest") /\ Unlocked(k)
  /\ key[k].state = "live"
  /\ key' = [key EXCEPT ![k].lock = m]
  /\ form' = [form EXCEPT ![m] = [Blank EXCEPT !.pc = "rotating", !.door = k]]
  /\ UNCHANGED <<table, row>>
\* COMMIT shows the successor and the revocation together.
Rotate(m) ==
  /\ At(m, "rotating")
  /\ \E s \in Keys :
       /\ key[s].state = "none"
       /\ key' = [key EXCEPT ![s] = [@ EXCEPT !.state = "live", !.from = form[m].door],
                             ![form[m].door] = [@ EXCEPT !.state = "revoked", !.lock = "none"]]
  /\ form' = [form EXCEPT ![m] = Blank]
  /\ UNCHANGED <<table, row>>
RollBack(m) ==
  /\ At(m, "rotating")
  /\ key' = [key EXCEPT ![form[m].door].lock = "none"]
  /\ form' = [form EXCEPT ![m] = Blank]
  /\ UNCHANGED <<table, row>>
Revoke(k) ==
  /\ key[k].state = "live" /\ Unlocked(k)
  /\ key' = [key EXCEPT ![k].state = "revoked"]
  /\ UNCHANGED <<table, row, form>>

Next ==
  \/ \E m \in Members :
       \/ \E d \in DOMAIN Doors : View(m, d)
       \/ ReadBefore(m) \/ Write(m) \/ Leave(m)
       \/ \E k \in Keys : Lock(m, k)
       \/ Rotate(m) \/ RollBack(m)
  \/ \E k \in Keys : Create(k) \/ Revoke(k)

Spec == Init /\ [][Next]_settingsVars

----------------------------------------------------------------------------

\* A form that carries its version replaces only what it showed, and its audit row
\* names as before what it replaced, though before was read by a statement of its
\* own; and a service that writes whole rows, or one that shares its row with
\* another service, changes no column it was not asked to (INV-22, section 12).
Asked(m) == At(m, "audit") =>
  /\ Through(m).versioned => form[m].shown.val = form[m].replaced.val
                             /\ form[m].before.val = form[m].replaced.val
  /\ form[m].door # "ndr" =>
       \A c \in Columns \ form[m].patch : form[m].after.val[c] = form[m].replaced.val[c]
OnlyWhatWasAsked == \A m \in Members : Asked(m)

\* However many rotate and revoke it, of a key and those rotated from it one at
\* most opens the API (ADD-20).
OneLiveKey ==
  /\ \A k \in Keys : Cardinality({s \in Keys : key[s].from = k}) <= 1
  /\ Cardinality({k \in Keys : key[k].state = "live"}) <= 1

SettingsStand == OnlyWhatWasAsked /\ OneLiveKey

----------------------------------------------------------------------------

Rows == [there : BOOLEAN, version : Nat, val : [Columns -> Nat]]
\* What was read of the row is the row at its version.
Seized(r) == r \in Rows /\ r.version <= row.version /\ (r.version = row.version => r.val = row.val)
FormStands(m) ==
  /\ form[m] \in [pc : {"rest", "shown", "before", "audit", "rotating"}, door : {form[m].door},
                  patch : {form[m].patch}, shown : Rows, before : Rows, replaced : Rows, after : Rows]
  /\ At(m, "shown") \/ At(m, "before") \/ At(m, "audit") => form[m].door \in DOMAIN Doors
  /\ At(m, "shown") \/ At(m, "before") => Seized(form[m].shown)
  /\ At(m, "before") => Seized(form[m].before) /\ form[m].shown.version <= form[m].before.version
  /\ At(m, "rotating") => /\ form[m].door \in Keys
                          /\ key[form[m].door].state = "live" /\ key[form[m].door].lock = m
\* A key is rotated once, and is revoked by it.
KeyStands(k) ==
  /\ key[k] \in [state : {"none", "live", "revoked"}, from : {key[k].from}, lock : {key[k].lock}]
  /\ key[k].state = "none" => key[k].from = "none" /\ key[k].lock = "none"
  /\ \A s, t \in Keys : key[s].from = k /\ key[t].from = k => s = t
  /\ (\E s \in Keys : key[s].from = k) => key[k].state = "revoked"

\* The inductive invariant.
SettingsInv ==
  /\ row \in Rows /\ (~row.there => row = Fresh) /\ (row.version = 0 => ~row.there)
  /\ form = [m \in Members |-> form[m]] /\ \A m \in Members : FormStands(m)
  /\ key = [k \in Keys |-> key[k]] /\ \A k \in Keys : KeyStands(k)
  /\ \A k, l \in Keys : key[k].state = "live" /\ key[l].state = "live" => k = l
  /\ OnlyWhatWasAsked

\* Not so: the NDR settings carry no version and write back whole rows, so a form
\* sent meanwhile is undone column by column (ndr-settings.service.ts:67, INV-22).
NdrKeepsTheRest == \A m \in Members : At(m, "audit") =>
  \A c \in Columns \ form[m].patch : form[m].after.val[c] = form[m].replaced.val[c]

\* Not so: the plans' and couriers' forms carry no version; the audit's before may
\* be older than what was replaced (plan-admin.service.ts:79).
AuditIsTrue == \A m \in Members : At(m, "audit") => form[m].before.val = form[m].replaced.val
=============================================================================
