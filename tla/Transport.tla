------------------------------- MODULE Transport -------------------------------
(***************************************************************************)
(* One courier account and every call made through it: AdapterCaller,      *)
(* TransportPolicy, AdapterRegistry, CourierHealth, CourierAccount and the *)
(* courier's webhook.                                                      *)
(***************************************************************************)
EXTENDS Integers, FiniteSets

CONSTANTS
  Requests,        \* concurrent requests and jobs, spread over Processes
  Processes,       \* the processes, each with its AdapterRegistry
  HomeOf,          \* Requests -> Processes
  Threshold,       \* consecutive failures that open the breaker
  Capacity,        \* tokens in the account's bucket
  Reserve,         \* ... of which quotes leave these to bookings
  MaxReplaces      \* bound on credential sets written

VARIABLES
  row,        \* courier_account
  registry,   \* per process: the adapter cached under a mode and a version
  breaker,    \* the account's breaker key in Redis
  tokens,     \* the account's rate bucket in Redis
  reqs        \* the requests

transportVars == <<row, registry, breaker, tokens, reqs>>

Modes == {"TEST", "LIVE"}
Versions == 1..(MaxReplaces + 1)
NoKeys == 0            \* credentials are named by the order they were saved in
NoBreaker == [failures |-> 0, open |-> FALSE]
Unread == [mode |-> "TEST", key |-> NoKeys, version |-> 0]
Waiting == [op |-> "none", pc |-> "idle", seen |-> Unread, keys |-> NoKeys]

----------------------------------------------------------------------------

\* connectAccount: the keys of one mode, Test unless the merchant says Live
\* (the modes differ in nothing here).
Init ==
  /\ row = [mode |-> "TEST", keys |-> [TEST |-> 1, LIVE |-> NoKeys], version |-> 1,
            health |-> "UNVERIFIED", disabled |-> FALSE]
  /\ registry = [p \in Processes |-> [k \in Modes \X Versions |-> NoKeys]]
  /\ breaker = NoBreaker
  /\ tokens = Capacity
  /\ reqs = [r \in Requests |-> Waiting]

Goto(r, pc) == reqs' = [reqs EXCEPT ![r] = [@ EXCEPT !.pc = pc]]
Ended(r, end) == reqs' = [reqs EXCEPT ![r] = [Waiting EXCEPT !.op = reqs[r].op, !.pc = end]]
Leave(r) == reqs' = [reqs EXCEPT ![r] = Waiting]
Newest == LET both == {row.keys[m] : m \in Modes} IN CHOOSE k \in both : \A j \in both : j <= k

\* CourierHealthService.transition: a disabled account is left alone.
Transition(to) == IF row.health = "DISABLED" THEN row ELSE [row EXCEPT !.health = to]

Calls == {"getQuote", "book", "testConnection"}
Uses == Calls \cup {"switchMode", "replaceCredentials", "sendTestEvent"}
Ops == Uses \cup {"disable", "enable"}

\* What the row that was read refuses at once: a disabled account, and a mode
\* without keys.
Refused(op) == \/ op \in Uses \ {"sendTestEvent"} /\ row.disabled
               \/ op \in Calls \cup {"sendTestEvent"} /\ row.keys[row.mode] = NoKeys

\* Every request reads the account first.
LoadAccount(r, op) ==
  /\ reqs[r] = Waiting /\ ~Refused(op)
  /\ reqs' = [reqs EXCEPT ![r] =
       [Waiting EXCEPT !.op = op, !.pc = "loaded",
                       !.seen = IF op \in Uses THEN [mode |-> row.mode, key |-> row.keys[row.mode],
                                                     version |-> row.version]
                                ELSE Unread]]
  /\ UNCHANGED <<row, registry, breaker, tokens>>

----------------------------------------------------------------------------
(* AdapterCaller.call                                                      *)

CircuitOpen(r) ==
  /\ reqs[r].pc = "loaded" /\ reqs[r].op \in Calls
  /\ breaker.open
  /\ Leave(r) /\ UNCHANGED <<row, registry, breaker, tokens>>

BeforeCall(r) ==
  /\ reqs[r].pc = "loaded" /\ reqs[r].op \in Calls
  /\ ~breaker.open
  /\ Goto(r, "budget")
  /\ UNCHANGED <<row, registry, breaker, tokens>>

\* The bucket is spent down to the floor of the call's priority.
Floor(op) == IF op = "getQuote" THEN Reserve ELSE 0

OutOfBudget(r) ==
  /\ reqs[r].pc = "budget" /\ tokens - 1 < Floor(reqs[r].op)
  /\ Leave(r) /\ UNCHANGED <<row, registry, breaker, tokens>>

\* getAdapter: the instance cached for the account, mode and version, else a
\* new one with the keys the request has read.
CacheKeyBug(seen) == <<seen.mode, 1>>
CacheKey(seen) == <<seen.mode, seen.version>>

GetAdapter(r) ==
  LET key == CacheKey(reqs[r].seen)
      p == HomeOf[r]
      cached == registry[p][key]
      used == IF cached = NoKeys THEN reqs[r].seen.key ELSE cached
  IN /\ registry' = [registry EXCEPT ![p] = [@ EXCEPT ![key] = used]]
     /\ reqs' = [reqs EXCEPT ![r] = [@ EXCEPT !.pc = "invoke", !.keys = used]]

Invoke(r) ==
  /\ reqs[r].pc = "budget" /\ tokens - 1 >= Floor(reqs[r].op)
  /\ tokens' = tokens - 1
  /\ GetAdapter(r)
  /\ UNCHANGED <<row, breaker>>

Refill == /\ tokens < Capacity /\ tokens' = tokens + 1
          /\ UNCHANGED <<row, registry, breaker, reqs>>

\* How the method may end: an answer, or an error by classifyAdapterError.
Answered(r) == reqs[r].pc = "invoke" /\ reqs[r].op \in Calls

NotAFailure(r) ==
  /\ Answered(r)
  /\ Leave(r) /\ UNCHANGED <<row, registry, breaker, tokens>>

\* afterSuccess reads the count, and only when there is one deletes the key
\* and heals the account.  testConnection then heals it whatever the count.
Return(r) == IF reqs[r].op = "testConnection" THEN Ended(r, "probed") ELSE Leave(r)
AfterSuccess(r) ==
  /\ Answered(r)
  /\ IF breaker.failures > 0 THEN Ended(r, "reset") ELSE Return(r)
  /\ UNCHANGED <<row, registry, breaker, tokens>>

ResetBreaker(r) ==
  /\ reqs[r].pc = "reset"
  /\ breaker' = NoBreaker
  /\ Goto(r, "recovered")
  /\ UNCHANGED <<row, registry, tokens>>

Recover(r) ==
  /\ reqs[r].pc = "recovered"
  /\ row' = Transition("HEALTHY")
  /\ Return(r)
  /\ UNCHANGED <<registry, breaker, tokens>>

TestConnection(r) ==
  /\ reqs[r].pc = "probed"
  /\ row' = Transition("HEALTHY")
  /\ Leave(r)
  /\ UNCHANGED <<registry, breaker, tokens>>

AuthFailed(r) ==
  /\ Answered(r)
  /\ row' = Transition("DISCONNECTED")
  /\ Leave(r)
  /\ UNCHANGED <<registry, breaker, tokens>>

\* The count is raised; at the threshold the breaker opens, then the account
\* is degraded.
CountFailure(r) ==
  /\ Answered(r)
  /\ LET failures == IF breaker.failures < Threshold THEN breaker.failures + 1 ELSE Threshold
     IN /\ breaker' = [breaker EXCEPT !.failures = failures]
        /\ IF failures >= Threshold THEN Ended(r, "open") ELSE Leave(r)
  /\ UNCHANGED <<row, registry, tokens>>

OpenBreaker(r) ==
  /\ reqs[r].pc = "open"
  /\ breaker' = [breaker EXCEPT !.open = TRUE]
  /\ Goto(r, "degrade")
  /\ UNCHANGED <<row, registry, tokens>>

Degrade(r) ==
  /\ reqs[r].pc = "degrade"
  /\ row' = Transition("DEGRADED")
  /\ Leave(r)
  /\ UNCHANGED <<registry, breaker, tokens>>

\* The cooldown ends, or the whole key expires.
Cooldown == /\ breaker.open
            /\ breaker' \in {[breaker EXCEPT !.open = FALSE], NoBreaker}
            /\ UNCHANGED <<row, registry, tokens, reqs>>

----------------------------------------------------------------------------
(* CourierAccountService: each method reads the account, then writes it.   *)

SwitchMode(r) ==
  /\ reqs[r].pc = "loaded" /\ reqs[r].op = "switchMode"
  /\ row' = [row EXCEPT !.mode = IF reqs[r].seen.mode = "TEST" THEN "LIVE" ELSE "TEST"]
  /\ Leave(r) /\ UNCHANGED <<registry, breaker, tokens>>

\* The keys of the mode that was read; the version goes up with them.
Replaced(mode) == [row EXCEPT !.keys = [@ EXCEPT ![mode] = Newest + 1], !.version = @ + 1]
ReplaceCredentials(r) ==
  /\ reqs[r].pc = "loaded" /\ reqs[r].op = "replaceCredentials"
  /\ row.version <= MaxReplaces
  /\ row' = Replaced(reqs[r].seen.mode)
  /\ Leave(r) /\ UNCHANGED <<registry, breaker, tokens>>

Disable(r) ==
  /\ reqs[r].pc = "loaded" /\ reqs[r].op = "disable"
  /\ row' = IF row.disabled THEN row ELSE [row EXCEPT !.disabled = TRUE, !.health = "DISABLED"]
  /\ Leave(r) /\ UNCHANGED <<registry, breaker, tokens>>

Enable(r) ==
  /\ reqs[r].pc = "loaded" /\ reqs[r].op = "enable"
  /\ row' = IF row.disabled THEN [row EXCEPT !.disabled = FALSE, !.health = "UNVERIFIED"] ELSE row
  /\ Leave(r) /\ UNCHANGED <<registry, breaker, tokens>>

\* A test event is signed by the instance that getAdapter returns, and posted
\* to the account's own webhook.
SendTestEvent(r) ==
  /\ reqs[r].pc = "loaded" /\ reqs[r].op = "sendTestEvent"
  /\ GetAdapter(r)
  /\ UNCHANGED <<row, breaker, tokens>>

Posted(r) ==
  /\ reqs[r].pc = "invoke" /\ reqs[r].op = "sendTestEvent"
  /\ Leave(r) /\ UNCHANGED <<row, registry, breaker, tokens>>

----------------------------------------------------------------------------
(* The courier's webhook and the tracking worker behind it.                *)

\* touchAccountHealth: an event applied heals what an outbound call did not
\* explicitly take away.
Heals == {"UNVERIFIED", "DEGRADED"}
Webhook ==
  /\ row' = IF row.health \in Heals THEN [row EXCEPT !.health = "HEALTHY"] ELSE row
  /\ UNCHANGED <<registry, breaker, tokens, reqs>>

Next ==
  \/ \E r \in Requests :
       \/ \E op \in Ops : LoadAccount(r, op)
       \/ CircuitOpen(r) \/ BeforeCall(r) \/ OutOfBudget(r) \/ Invoke(r)
       \/ NotAFailure(r) \/ AfterSuccess(r) \/ ResetBreaker(r) \/ Recover(r)
       \/ TestConnection(r) \/ AuthFailed(r) \/ CountFailure(r) \/ OpenBreaker(r) \/ Degrade(r)
       \/ SwitchMode(r) \/ ReplaceCredentials(r) \/ Disable(r) \/ Enable(r)
       \/ SendTestEvent(r) \/ Posted(r)
  \/ Refill \/ Cooldown \/ Webhook

Spec == Init /\ [][Next]_transportVars

----------------------------------------------------------------------------

\* What the merchant did to the account is obeyed by the calls in flight around
\* it: an account switched off stays off whatever its calls come back with and
\* whatever its courier sends, and a call uses the keys that were current when
\* it read the account, never an instance built with keys since replaced
\* (§3.21, INV-22).
AccountIsObeyed ==
  /\ row.disabled <=> row.health = "DISABLED"
  /\ \A r \in Requests :
       reqs[r].keys # NoKeys => reqs[r].keys = reqs[r].seen.key
=============================================================================
