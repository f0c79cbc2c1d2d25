------------------------------ MODULE TrackLookup ------------------------------
(***************************************************************************)
(* The public look-up of a parcel (TrackLookupService): a shop, an order   *)
(* number and the whole contact of the buyer; counters in Redis throttle   *)
(* it and the log in the database backs the one that asks for a CAPTCHA.   *)
(* One shop and one address of callers.                                    *)
(***************************************************************************)
EXTENDS Integers, Sequences, FiniteSets

CONSTANTS
  Callers,       \* concurrent requests of the address
  Allowed,       \* attempts in a window
  CaptchaAfter,  \* consecutive failures before a CAPTCHA is asked for
  MaxLookups,    \* bound: look-ups
  MaxLosses      \* bound: times Redis loses or expires its counters

VARIABLES
  shop,     \* account_state
  kept,     \* whether the snapshot still has a recipient to compare with
  count,    \* the throttle counter: its value and whether it expires
  fails,    \* Redis's count of consecutive failures
  log,      \* track_lookup_attempt: the last CaptchaAfter, oldest first
  look,     \* each request
  guesses,  \* answers since the last match that told a caller "not this", unsolved
  bounds

lookupVars == <<shop, kept, count, fails, log, look, guesses, bounds>>

Idle == [at |-> "idle"]

Init ==
  /\ shop = "ACTIVE" /\ kept = TRUE /\ guesses = 0
  /\ count = [n |-> 0, expires |-> FALSE] /\ fails = 0 /\ log = << >>
  /\ look = [c \in Callers |-> Idle]
  /\ bounds = [lookups |-> MaxLookups, losses |-> MaxLosses]

At(c, point) == look[c].at = point
Go(c, rec) == look' = [look EXCEPT ![c] = rec]
Done(c) == Go(c, Idle)

\* logAttempt: the row (of which only the last ones are ever read);
\* recordFailure, or recordSuccess, follows.
Row(outcome) ==
  LET rows == Append(log, outcome)
  IN  IF Len(rows) > CaptchaAfter THEN Tail(rows) ELSE rows
Log(c, outcome) ==
  /\ log' = Row(outcome)
  /\ Go(c, [at |-> IF outcome = "match" THEN "matched" ELSE "failed"])

\* INCR, then EXPIRE when it is the first: a caller that dies between the two
\* leaves a counter that never expires.
Count(c) ==
  /\ At(c, "idle") /\ bounds.lookups > 0 /\ shop = "ACTIVE"
  /\ count' = [count EXCEPT !.n = IF @ > Allowed THEN @ ELSE @ + 1]
  /\ Go(c, [at |-> IF count.n = 0 THEN "expire" ELSE "counted", over |-> count.n >= Allowed])
  /\ bounds' = [bounds EXCEPT !.lookups = @ - 1]
  /\ UNCHANGED <<shop, kept, fails, log, guesses>>
\* An uninstalled shop logs the attempt and says no more.
Gone(c) ==
  /\ At(c, "idle") /\ bounds.lookups > 0 /\ shop = "UNINSTALLED"
  /\ log' = Row("failure")
  /\ bounds' = [bounds EXCEPT !.lookups = @ - 1]
  /\ UNCHANGED <<shop, kept, count, fails, look, guesses>>

SetExpiry(c) ==
  /\ At(c, "expire")
  /\ count' = [count EXCEPT !.expires = TRUE]
  /\ Go(c, [at |-> "counted", over |-> look[c].over])
  /\ UNCHANGED <<shop, kept, fails, log, guesses, bounds>>

Throttled(c) ==
  /\ At(c, "counted") /\ look[c].over
  /\ Log(c, "failure")
  /\ UNCHANGED <<shop, kept, count, fails, guesses, bounds>>

Larger(a, b) == IF a > b THEN a ELSE b
\* The failures at the end of the log, CaptchaAfter at most.
TrailingFailures ==
  CHOOSE n \in 0..Len(log) :
    /\ \A i \in (Len(log) - n + 1)..Len(log) : log[i] = "failure"
    /\ n < Len(log) => log[Len(log) - n] = "match"
ConsecutiveFailuresBug == fails
ConsecutiveFailures == Larger(fails, TrailingFailures)
Screen(c) ==
  /\ At(c, "counted") /\ ~look[c].over
  /\ IF ConsecutiveFailures < CaptchaAfter
     THEN Go(c, [at |-> "screened", solved |-> "no"]) /\ UNCHANGED log
     ELSE \/ Go(c, [at |-> "screened", solved |-> "yes"]) /\ UNCHANGED log
          \/ Log(c, "failure")
  /\ UNCHANGED <<shop, kept, count, fails, guesses, bounds>>

\* The contact in full against the snapshot's recipient; a redacted one matches
\* nothing.
Compare(c) ==
  /\ At(c, "screened")
  /\ \/ kept /\ Log(c, "match") /\ guesses' = 0
     \/ Log(c, "failure") /\ guesses' = IF look[c].solved = "yes" THEN guesses ELSE guesses + 1
  /\ UNCHANGED <<shop, kept, count, fails, bounds>>

RecordFailure(c) ==
  /\ At(c, "failed")
  /\ fails' = IF fails > CaptchaAfter THEN fails ELSE fails + 1
  /\ Done(c)
  /\ UNCHANGED <<shop, kept, count, log, guesses, bounds>>
RecordSuccess(c) ==
  /\ At(c, "matched")
  /\ fails' = 0
  /\ Done(c)
  /\ UNCHANGED <<shop, kept, count, log, guesses, bounds>>

\* The process dies, or Redis refuses, before the counter is brought up to date.
Dies(c) ==
  /\ look[c].at \in {"expire", "failed", "matched"}
  /\ Done(c)
  /\ UNCHANGED <<shop, kept, count, fails, log, guesses, bounds>>

----------------------------------------------------------------------------

\* The window passes, or Redis loses what it had.
Lapse ==
  /\ bounds.losses > 0
  /\ \/ count.expires /\ count' = [n |-> 0, expires |-> FALSE] /\ UNCHANGED fails
     \/ fails > 0 /\ fails' = 0 /\ UNCHANGED count
  /\ bounds' = [bounds EXCEPT !.losses = @ - 1]
  /\ UNCHANGED <<shop, kept, log, look, guesses>>
Redact ==
  /\ kept /\ kept' = FALSE
  /\ UNCHANGED <<shop, count, fails, log, look, guesses, bounds>>
Uninstall ==
  /\ shop = "ACTIVE" /\ shop' = "UNINSTALLED"
  /\ UNCHANGED <<kept, count, fails, log, look, guesses, bounds>>

Next ==
  \/ \E c \in Callers : Count(c) \/ Gone(c) \/ SetExpiry(c) \/ Throttled(c) \/ Screen(c)
                        \/ Compare(c) \/ RecordFailure(c) \/ RecordSuccess(c) \/ Dies(c)
  \/ Lapse \/ Redact \/ Uninstall

Spec == Init /\ [][Next]_lookupVars

----------------------------------------------------------------------------

\* What this is for: no more wrong guesses in a row than the limit are answered
\* without a CAPTCHA, but for those already past the check, though Redis lose
\* every counter and requests die before they are counted.
GuessesAreBounded ==
  guesses <= CaptchaAfter + Cardinality(Callers) - 1

\* The inductive invariant: the log ends in as many failures as there were guesses,
\* or in nothing else, and whoever is past the check without a CAPTCHA may guess once.
Unsolved == {c \in Callers : At(c, "screened") /\ look[c].solved = "no"}
Known == IF guesses < CaptchaAfter THEN guesses ELSE CaptchaAfter
LookupInv ==
  /\ guesses \in Nat /\ fails \in Nat
  /\ log \in Seq({"match", "failure"}) /\ Len(log) <= CaptchaAfter
  /\ look = [c \in Callers |-> look[c]]
  /\ \A c \in Callers : At(c, "screened") => look[c].solved \in {"yes", "no"}
  /\ Known <= Len(log) /\ \A i \in (Len(log) - Known + 1)..Len(log) : log[i] = "failure"
  /\ guesses + Cardinality(Unsolved) <= CaptchaAfter + Cardinality(Callers) - 1

\* Not so: an address that was throttled is let in again when the window ends.
ThrottleLifts ==
  count.n > 0 => count.expires \/ \E c \in Callers : At(c, "expire")
=============================================================================
