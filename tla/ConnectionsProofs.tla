--------------------------- MODULE ConnectionsProofs ---------------------------
(***************************************************************************)
(* What MCConnections promises of the components it composes, proved for   *)
(* every value of their constants.                                         *)
(***************************************************************************)
EXTENDS MCConnections, TLAPS, FiniteSetTheorems, SequenceTheorems, WellFoundedInduction

connectionsVars == <<focus, courierVars, transportVars, catalogueVars, bulkVars>>

LEMMA LeastExists ==
  ASSUME NEW S \in SUBSET Nat, S # {}
  PROVE  \E x \in S : \A y \in S : x <= y
<1>1. PICK x \in S : \A y \in S : ~(<<y, x>> \in OpToRel(<, Nat))
  BY NatLessThanWellFounded, WFMin, Zenon
<1>2. OpToRel(<, Nat) = {ss \in Nat \X Nat : ss[1] < ss[2]}
  BY Zenon DEF OpToRel
<1>3. ASSUME NEW y \in S PROVE x <= y
  <2>1. <<y, x>> \notin {ss \in Nat \X Nat : ss[1] < ss[2]}
    BY <1>1, <1>2
  <2> QED BY <2>1
<1> QED BY <1>3

----------------------------------------------------------------------------
(* Transport.  A version of the account names the keys it was saved with:  *)
(* issued tells them, and every copy of keys follows it.                   *)

Health == {"UNVERIFIED", "HEALTHY", "DISCONNECTED", "DEGRADED", "DISABLED"}
Slots == Account!Modes \X Account!Versions

CallRow ==
  {c \in [op : Account!Ops \cup {"none"},
          pc : {"idle", "loaded", "budget", "invoke", "reset", "recovered", "probed", "open", "degrade"},
          seen : [mode : Account!Modes, key : Nat, version : Nat], keys : Nat] :
     c.pc = "budget" => c.op \in Account!Calls}
AccountRow == [mode : Account!Modes, keys : [Account!Modes -> Nat], version : Nat,
               health : Health, disabled : BOOLEAN]

AccountTypes ==
  /\ row \in AccountRow
  /\ row.version \in Account!Versions
  /\ registry \in [Apps -> [Slots -> Nat]]
  /\ reqs \in [Processes -> CallRow]

\* A request that has read the account and still has what it read.
Reading(r) == reqs[r].op \in Account!Uses /\ reqs[r].pc \in {"loaded", "budget", "invoke"}

Follows(issued) ==
  /\ \A m \in Account!Modes : row.keys[m] = issued[<<m, row.version>>]
  /\ \A p \in Apps : \A s \in Slots :
       registry[p][s] # Account!NoKeys => registry[p][s] = issued[s] /\ s[2] <= row.version
  /\ \A r \in Processes : Reading(r) =>
       /\ reqs[r].seen.version \in Account!Versions /\ reqs[r].seen.version <= row.version
       /\ reqs[r].seen.key = issued[<<reqs[r].seen.mode, reqs[r].seen.version>>]

AccountInv ==
  /\ AccountTypes
  /\ \E issued \in [Slots -> Nat] : Follows(issued)
  /\ Account!AccountIsObeyed

Ends == {"idle", "reset", "recovered", "probed", "open", "degrade"}

\* A request leaves, or goes on with what it has read.
Ending(r) ==
  \/ Account!Leave(r)
  \/ \E op \in Account!Ops \cup {"none"}, pc \in Ends :
       reqs' = [reqs EXCEPT ![r] = [Account!Waiting EXCEPT !.op = op, !.pc = pc]]
GoingOn(r) == reqs[r].op \in Account!Calls /\ Reading(r) /\ Account!Goto(r, "budget")

\* What the requests still have is as it was.
Kept ==
  /\ reqs' \in [Processes -> CallRow]
  /\ \A r \in Processes :
       \/ Reading(r)' => Reading(r) /\ reqs'[r].seen = reqs[r].seen
  /\ \A r \in Processes :
       reqs'[r].keys # Account!NoKeys => reqs'[r].keys = reqs[r].keys /\ reqs'[r].seen = reqs[r].seen

LEMMA EndingKeeps ==
  ASSUME AccountTypes, NEW r \in Processes, Ending(r)
  PROVE  Kept
<1> DEFINE Done == {d \in CallRow :
                      d.keys = Account!NoKeys /\ d.pc \notin {"loaded", "budget", "invoke"}}
<1>1. Account!Waiting \in Done
  BY DEF Account!Waiting, Account!Unread, Account!NoKeys, Account!Modes, CallRow
<1>2. ASSUME NEW op \in Account!Ops \cup {"none"}, NEW pc \in Ends
      PROVE  [Account!Waiting EXCEPT !.op = op, !.pc = pc] \in Done
  BY DEF Account!Waiting, Ends, Account!Unread, Account!NoKeys, Account!Modes, CallRow
<1>3. PICK done \in Done : reqs' = [reqs EXCEPT ![r] = done]
  BY <1>1, <1>2 DEF Ending, Account!Leave
<1> QED BY <1>3 DEF AccountTypes, Kept, Reading, AccountRow, CallRow

LEMMA GoingOnKeeps ==
  ASSUME AccountTypes, NEW r \in Processes, GoingOn(r)
  PROVE  Kept
BY DEF AccountTypes, Kept, GoingOn, Account!Goto, Reading, AccountRow, CallRow

\* A step that writes no keys.
LEMMA AccountKept ==
  ASSUME AccountInv, Kept, registry' = registry,
         row' \in AccountRow,
         row'.keys = row.keys, row'.version = row.version,
         row'.disabled <=> row'.health = "DISABLED"
  PROVE  AccountInv'
<1>1. AccountTypes'
  BY DEF AccountInv, AccountTypes, Kept, AccountRow, CallRow
<1>2. \E issued \in [Slots -> Nat] : Follows(issued)'
  <2>1. PICK issued \in [Slots -> Nat] : Follows(issued)
    BY DEF AccountInv
  <2>2. Follows(issued)'
    BY <2>1 DEF Follows, Kept
  <2> QED BY <2>2
<1>3. Account!AccountIsObeyed'
  BY DEF Account!AccountIsObeyed, AccountInv, Kept
<1> QED BY <1>1, <1>2, <1>3 DEF AccountInv

\* How the calls, the webhook and the members change the account's standing.
LEMMA Standing ==
  ASSUME AccountInv,
         \/ row' = row
         \/ \E to \in {"HEALTHY", "DISCONNECTED", "DEGRADED"} : row' = Account!Transition(to)
         \/ \E mode \in Account!Modes : row' = [row EXCEPT !.mode = mode]
         \/ ~row.disabled /\ row' = [row EXCEPT !.disabled = TRUE, !.health = "DISABLED"]
         \/ row.disabled /\ row' = [row EXCEPT !.disabled = FALSE, !.health = "UNVERIFIED"]
         \/ row.health # "DISABLED" /\ row' = [row EXCEPT !.health = "HEALTHY"]
  PROVE  /\ row' \in AccountRow
         /\ row'.keys = row.keys /\ row'.version = row.version
         /\ row'.disabled <=> row'.health = "DISABLED"
<1>1. row \in AccountRow /\ (row.disabled <=> row.health = "DISABLED")
  BY DEF AccountInv, AccountTypes, Account!AccountIsObeyed, AccountRow, CallRow
<1>2. CASE row' = row
  BY <1>1, <1>2
<1>3. ASSUME NEW to \in {"HEALTHY", "DISCONNECTED", "DEGRADED"}, row' = Account!Transition(to)
      PROVE  row' \in AccountRow /\ row'.keys = row.keys /\ row'.version = row.version
             /\ (row'.disabled <=> row'.health = "DISABLED")
  BY <1>1, <1>3 DEF Account!Transition, Health, AccountRow
<1>4. ASSUME NEW mode \in Account!Modes, row' = [row EXCEPT !.mode = mode]
      PROVE  row' \in AccountRow /\ row'.keys = row.keys /\ row'.version = row.version
             /\ (row'.disabled <=> row'.health = "DISABLED")
  BY <1>1, <1>4 DEF AccountRow
<1>5. CASE row' = [row EXCEPT !.disabled = TRUE, !.health = "DISABLED"]
  BY <1>1, <1>5 DEF Health, AccountRow
<1>6. CASE row' = [row EXCEPT !.disabled = FALSE, !.health = "UNVERIFIED"]
  BY <1>1, <1>6 DEF Health, AccountRow
<1>7. CASE row.health # "DISABLED" /\ row' = [row EXCEPT !.health = "HEALTHY"]
  BY <1>1, <1>7 DEF Health, AccountRow
<1> QED BY <1>2, <1>3, <1>4, <1>5, <1>6, <1>7

LEMMA LoadStands ==
  ASSUME AccountInv, NEW r \in Processes, NEW op \in Account!Ops, Account!LoadAccount(r, op)
  PROVE  AccountInv'
<1> DEFINE sight == IF op \in Account!Uses
                    THEN [mode |-> row.mode, key |-> row.keys[row.mode], version |-> row.version]
                    ELSE Account!Unread
           new == [Account!Waiting EXCEPT !.op = op, !.pc = "loaded", !.seen = sight]
<1>1. reqs' = [reqs EXCEPT ![r] = new] /\ row' = row /\ registry' = registry
  BY Zenon DEF Account!LoadAccount
<1>2. AccountTypes
  BY DEF AccountInv
<1>3. sight \in [mode : Account!Modes, key : Nat, version : Nat]
  BY <1>2 DEF AccountTypes, Account!Unread, Account!NoKeys, Account!Modes, AccountRow, CallRow
<1>4. new \in CallRow
      /\ new.keys = Account!NoKeys /\ new.seen = sight /\ new.op = op
  <2> HIDE DEF sight
  <2> QED BY <1>3 DEF Account!Waiting, Account!NoKeys, CallRow
<1>5. op \in Account!Uses => sight.mode = row.mode /\ sight.key = row.keys[row.mode] /\ sight.version = row.version
  OBVIOUS
<1> HIDE DEF new, sight
<1>6. AccountTypes'
  BY <1>1, <1>2, <1>4 DEF AccountTypes, AccountRow, CallRow
<1>7. PICK issued \in [Slots -> Nat] : Follows(issued)
  BY DEF AccountInv
<1>8. Follows(issued)'
  <2>1. row.mode \in Account!Modes /\ row.version \in Account!Versions /\ row.version \in Nat
    BY <1>2 DEF AccountTypes, AccountRow, CallRow
  <2>2. row.keys[row.mode] = issued[<<row.mode, row.version>>]
    BY <1>7, <2>1 DEF Follows
  <2>3. ASSUME NEW q \in Processes, Reading(q)'
        PROVE  /\ reqs'[q].seen.version \in Account!Versions /\ reqs'[q].seen.version <= row.version
               /\ reqs'[q].seen.key = issued[<<reqs'[q].seen.mode, reqs'[q].seen.version>>]
    <3>1. CASE q = r
      <4>1. reqs'[q] = new
        BY <1>1, <1>2, <3>1 DEF AccountTypes, AccountRow, CallRow
      <4>2. op \in Account!Uses
        BY <4>1, <1>4, <2>3 DEF Reading
      <4> QED BY <4>1, <4>2, <1>4, <1>5, <2>1, <2>2
    <3>2. CASE q # r
      <4>1. reqs'[q] = reqs[q]
        BY <1>1, <1>2, <3>2 DEF AccountTypes, AccountRow, CallRow
      <4> QED BY <4>1, <2>3, <1>7 DEF Follows, Reading
    <3> QED BY <3>1, <3>2
  <2> QED BY <1>1, <1>7, <2>3 DEF Follows
<1>9. Account!AccountIsObeyed'
  BY <1>1, <1>2, <1>4 DEF AccountInv, AccountTypes, Account!AccountIsObeyed, AccountRow, CallRow
<1> QED BY <1>6, <1>8, <1>9 DEF AccountInv

LEMMA GetAdapterStands ==
  ASSUME AccountInv, NEW r \in Processes, Reading(r), Account!GetAdapter(r), row' = row
  PROVE  AccountInv'
<1>1. AccountTypes
  BY DEF AccountInv
<1>2. PICK issued \in [Slots -> Nat] : Follows(issued)
  BY DEF AccountInv
<1> DEFINE seen == reqs[r].seen
           key == <<seen.mode, seen.version>>
           p == Home[r]
           used == IF registry[p][key] = Account!NoKeys THEN seen.key ELSE registry[p][key]
           new == [reqs[r] EXCEPT !.pc = "invoke", !.keys = used]
<1>3. /\ registry' = [registry EXCEPT ![p] = [@ EXCEPT ![key] = used]]
      /\ reqs' = [reqs EXCEPT ![r] = new]
  BY DEF Account!GetAdapter, Account!CacheKey
<1>4. /\ seen \in [mode : Account!Modes, key : Nat, version : Nat] /\ p \in Apps /\ key \in Slots
      /\ seen.version <= row.version /\ seen.key = issued[key] /\ key[2] = seen.version
  BY <1>1, <1>2, ConnectionsAssumption DEF AccountTypes, Follows, Slots, AccountRow, CallRow
<1>5. used = seen.key /\ used \in Nat
  BY <1>1, <1>2, <1>4 DEF AccountTypes, Follows, AccountRow, CallRow
<1>6. new \in CallRow
      /\ new.keys = used /\ new.seen = seen
  BY <1>1, <1>5 DEF AccountTypes, AccountRow, CallRow
<1> HIDE DEF used, new, p, key
<1>7. AccountTypes'
  BY <1>1, <1>3, <1>4, <1>5, <1>6 DEF AccountTypes, AccountRow, CallRow
<1>8. Follows(issued)'
  <2>1. ASSUME NEW a \in Apps, NEW s \in Slots, registry'[a][s] # Account!NoKeys
        PROVE  registry'[a][s] = issued[s] /\ s[2] <= row.version
    BY <1>1, <1>2, <1>3, <1>4, <1>5, <2>1 DEF Follows, AccountTypes, AccountRow, CallRow
  <2>2. ASSUME NEW q \in Processes, Reading(q)'
        PROVE  /\ reqs'[q].seen.version \in Account!Versions /\ reqs'[q].seen.version <= row.version
               /\ reqs'[q].seen.key = issued[<<reqs'[q].seen.mode, reqs'[q].seen.version>>]
    <3>1. reqs'[q].seen = reqs[q].seen /\ Reading(q)
      BY <1>1, <1>3, <1>6, <2>2 DEF AccountTypes, Reading, AccountRow, CallRow
    <3> QED BY <3>1, <1>2 DEF Follows
  <2> QED BY <1>2, <2>1, <2>2 DEF Follows
<1>9. Account!AccountIsObeyed'
  BY <1>1, <1>3, <1>5, <1>6 DEF AccountInv, AccountTypes, Account!AccountIsObeyed, AccountRow, CallRow
<1> QED BY <1>7, <1>8, <1>9 DEF AccountInv

LEMMA NewestIsNat ==
  ASSUME AccountTypes
  PROVE  Account!Newest \in Nat
<1> DEFINE both == {row.keys[m] : m \in Account!Modes}
<1>1. both \subseteq Nat /\ row.keys["TEST"] \in both /\ row.keys["LIVE"] \in both
  BY DEF AccountTypes, Account!Modes, AccountRow, CallRow
<1>2. \A k \in both : k = row.keys["TEST"] \/ k = row.keys["LIVE"]
  BY DEF Account!Modes
<1>3. \E k \in both : \A j \in both : j <= k
  <2>1. CASE row.keys["TEST"] <= row.keys["LIVE"]
    BY <1>1, <1>2, <2>1
  <2>2. CASE row.keys["LIVE"] <= row.keys["TEST"]
    BY <1>1, <1>2, <2>2
  <2> QED BY <1>1, <2>1, <2>2
<1> QED BY <1>1, <1>3 DEF Account!Newest

LEMMA ReplaceStands ==
  ASSUME AccountInv, NEW r \in Processes, Account!ReplaceCredentials(r)
  PROVE  AccountInv'
<1>1. AccountTypes
  BY DEF AccountInv
<1>2. PICK issued \in [Slots -> Nat] : Follows(issued)
  BY DEF AccountInv
<1>3. reqs[r].seen.mode \in Account!Modes /\ Reading(r)
  BY <1>1 DEF AccountTypes, Account!ReplaceCredentials, Reading, Account!Uses, AccountRow, CallRow
<1> DEFINE v == row.version + 1
           w == Account!Newest + 1
           keys == [row.keys EXCEPT ![reqs[r].seen.mode] = w]
           again == [s \in Slots |-> IF s[2] = v THEN keys[s[1]] ELSE issued[s]]
<1>4. row' = [row EXCEPT !.keys = keys, !.version = v] /\ registry' = registry
  BY Zenon DEF Account!ReplaceCredentials, Account!Replaced
<1>5. /\ w \in Nat /\ v \in Nat /\ v \in Account!Versions /\ row.version < v /\ row.version \in Nat
  BY <1>1, NewestIsNat, ConnectionsAssumption DEF AccountTypes, Account!ReplaceCredentials, Account!Versions, AccountRow, CallRow
<1>6. /\ keys \in [Account!Modes -> Nat]
  <2> HIDE DEF w
  <2> QED BY <1>1, <1>5 DEF AccountTypes, AccountRow, CallRow
<1> HIDE DEF v, w, keys
<1>7. /\ row' \in AccountRow
      /\ row'.keys = keys /\ row'.version = v
      /\ row'.health = row.health /\ row'.disabled = row.disabled
  BY <1>1, <1>4, <1>5, <1>6 DEF AccountTypes, AccountRow, CallRow
<1>8. Kept
  BY <1>1, EndingKeeps DEF Account!ReplaceCredentials, Ending
<1>9. AccountTypes'
  BY <1>1, <1>4, <1>5, <1>7, <1>8 DEF AccountTypes, Kept, AccountRow, CallRow
<1>10. \E new \in [Slots -> Nat] : Follows(new)'
  <2>1. again \in [Slots -> Nat]
    BY <1>2, <1>6 DEF Slots
  <2>2. \A m \in Account!Modes : row'.keys[m] = again[<<m, row'.version>>]
    BY <1>5, <1>7 DEF Slots
  <2>3. ASSUME NEW s \in Slots, s[2] <= row.version PROVE again[s] = issued[s]
    BY <1>5, <2>3 DEF Slots, Account!Versions
  <2> HIDE DEF again
  <2>4. ASSUME NEW p \in Apps, NEW s \in Slots, registry'[p][s] # Account!NoKeys
        PROVE  registry'[p][s] = again[s] /\ s[2] <= row'.version
    <3>1. registry[p][s] = issued[s] /\ s[2] <= row.version
      BY <1>2, <1>4, <2>4 DEF Follows
    <3>2. s[2] \in Nat
      BY DEF Slots, Account!Versions
    <3> QED BY <1>4, <1>5, <1>7, <2>3, <3>1, <3>2
  <2>5. ASSUME NEW q \in Processes, Reading(q)'
        PROVE  /\ reqs'[q].seen.version \in Account!Versions /\ reqs'[q].seen.version <= row'.version
               /\ reqs'[q].seen.key = again[<<reqs'[q].seen.mode, reqs'[q].seen.version>>]
    <3>1. Reading(q) /\ reqs'[q].seen = reqs[q].seen
      BY <1>8, <2>5 DEF Kept
    <3>2. /\ reqs[q].seen.version \in Account!Versions /\ reqs[q].seen.version <= row.version
          /\ reqs[q].seen.key = issued[<<reqs[q].seen.mode, reqs[q].seen.version>>]
      BY <1>2, <3>1 DEF Follows
    <3>3. reqs[q].seen.mode \in Account!Modes /\ reqs[q].seen.version \in Nat
      BY <1>1 DEF AccountTypes, AccountRow, CallRow
    <3>4. again[<<reqs[q].seen.mode, reqs[q].seen.version>>] = issued[<<reqs[q].seen.mode, reqs[q].seen.version>>]
      BY <2>3, <3>2, <3>3 DEF Slots
    <3> QED BY <1>5, <1>7, <3>1, <3>2, <3>3, <3>4
  <2>6. PICK new \in [Slots -> Nat] : new = again
    BY <2>1
  <2>7. Follows(new)'
    BY <2>2, <2>4, <2>5, <2>6 DEF Follows
  <2> QED BY <2>7
<1>11. Account!AccountIsObeyed'
  BY <1>7, <1>8 DEF AccountInv, Kept, Account!AccountIsObeyed
<1> QED BY <1>9, <1>10, <1>11 DEF AccountInv

LEMMA EndedIsEnding ==
  ASSUME AccountTypes, NEW r \in Processes, NEW pc \in Ends, Account!Ended(r, pc)
  PROVE  Ending(r)
<1>1. reqs[r].op \in Account!Ops \cup {"none"}
  BY DEF AccountTypes, AccountRow, CallRow
<1> QED BY <1>1 DEF Account!Ended, Ending

\* A request on its way between the writes of afterSuccess and afterFailure.
LEMMA GotoKeeps ==
  ASSUME AccountTypes, NEW r \in Processes, NEW pc \in Ends, Account!Goto(r, pc)
  PROVE  Kept
BY DEF AccountTypes, Account!Goto, Ends, Kept, Reading, AccountRow, CallRow

LEMMA AccountStep ==
  ASSUME AccountInv, Account!Next
  PROVE  AccountInv'
<1>1. AccountTypes
  BY DEF AccountInv
<1>2. ASSUME Kept, registry' = registry,
             \/ row' = row
             \/ \E to \in {"HEALTHY", "DISCONNECTED", "DEGRADED"} : row' = Account!Transition(to)
             \/ \E mode \in Account!Modes : row' = [row EXCEPT !.mode = mode]
             \/ ~row.disabled /\ row' = [row EXCEPT !.disabled = TRUE, !.health = "DISABLED"]
             \/ row.disabled /\ row' = [row EXCEPT !.disabled = FALSE, !.health = "UNVERIFIED"]
             \/ row.health # "DISABLED" /\ row' = [row EXCEPT !.health = "HEALTHY"]
      PROVE  AccountInv'
  BY <1>2, Standing, AccountKept
<1>3. CASE UNCHANGED <<row, registry, reqs>>
  <2>1. Kept
    BY <1>1, <1>3 DEF AccountTypes, Kept, Reading
  <2> QED BY <1>2, <1>3, <2>1
<1>4. CASE Account!Webhook
  <2>1. Kept
    BY <1>1, <1>4 DEF AccountTypes, Kept, Reading, Account!Webhook
  <2> QED BY <1>2, <1>4, <2>1 DEF Account!Webhook, Account!Heals
<1>5. ASSUME NEW r \in Processes, NEW op \in Account!Ops, Account!LoadAccount(r, op)
      PROVE  AccountInv'
  BY <1>5, LoadStands
<1>6. ASSUME NEW r \in Processes, \/ Account!CircuitOpen(r) \/ Account!OutOfBudget(r) \/ Account!NotAFailure(r)
                                  \/ Account!AfterSuccess(r) \/ Account!CountFailure(r) \/ Account!Posted(r)
      PROVE  AccountInv'
  <2>1. Account!AfterSuccess(r) => Ending(r)
    BY <1>1, EndedIsEnding DEF Account!AfterSuccess, Account!Return, Ending, Ends
  <2>2. Account!CountFailure(r) => Ending(r)
    BY <1>1, EndedIsEnding DEF Account!CountFailure, Ending, Ends
  <2>3. Ending(r) /\ registry' = registry /\ row' = row
    BY <1>6, <2>1, <2>2
       DEF Account!CircuitOpen, Account!OutOfBudget, Account!NotAFailure, Account!AfterSuccess,
           Account!CountFailure, Account!Posted, Ending
  <2> QED BY <1>1, <1>2, <2>3, EndingKeeps
<1>7. ASSUME NEW r \in Processes, Account!BeforeCall(r) PROVE AccountInv'
  <2>1. GoingOn(r) /\ registry' = registry /\ row' = row
    BY <1>7 DEF Account!BeforeCall, GoingOn, Reading, Account!Uses
  <2> QED BY <1>1, <1>2, <2>1, GoingOnKeeps
<1>8. ASSUME NEW r \in Processes, Account!Invoke(r) \/ Account!SendTestEvent(r) PROVE AccountInv'
  <2>1. Account!SendTestEvent(r) => Reading(r)
    BY DEF Account!SendTestEvent, Reading, Account!Uses
  <2>2. Account!Invoke(r) => Reading(r)
    BY <1>1 DEF AccountTypes, CallRow, Account!Invoke, Reading, Account!Uses
  <2> QED BY <1>8, <2>1, <2>2, GetAdapterStands DEF Account!SendTestEvent, Account!Invoke
<1>9. ASSUME NEW r \in Processes, Account!ResetBreaker(r) \/ Account!OpenBreaker(r) PROVE AccountInv'
  <2>1. \E pc \in Ends : Account!Goto(r, pc)
    BY <1>9 DEF Account!ResetBreaker, Account!OpenBreaker, Ends
  <2>2. registry' = registry /\ row' = row
    BY <1>9 DEF Account!ResetBreaker, Account!OpenBreaker
  <2> QED BY <1>1, <1>2, <2>1, <2>2, GotoKeeps
<1>10. ASSUME NEW r \in Processes, \/ Account!Recover(r) \/ Account!TestConnection(r)
                                   \/ Account!AuthFailed(r) \/ Account!Degrade(r)
       PROVE  AccountInv'
  <2>1. Account!Recover(r) => Ending(r)
    BY <1>1, EndedIsEnding DEF Account!Recover, Account!Return, Ending, Ends
  <2>2. Ending(r) /\ registry' = registry
    BY <1>10, <2>1 DEF Account!Recover, Account!TestConnection, Account!AuthFailed, Account!Degrade, Ending
  <2>3. \E to \in {"HEALTHY", "DISCONNECTED", "DEGRADED"} : row' = Account!Transition(to)
    BY <1>10 DEF Account!Recover, Account!TestConnection, Account!AuthFailed, Account!Degrade
  <2> QED BY <1>1, <1>2, <2>2, <2>3, EndingKeeps
<1>11. ASSUME NEW r \in Processes, Account!SwitchMode(r) \/ Account!Disable(r) \/ Account!Enable(r)
       PROVE  AccountInv'
  <2>1. Ending(r) /\ registry' = registry
    BY <1>11 DEF Account!SwitchMode, Account!Disable, Account!Enable, Ending
  <2>2. CASE Account!SwitchMode(r)
    BY <1>1, <1>2, <2>1, <2>2, EndingKeeps DEF Account!SwitchMode, Account!Modes
  <2>3. CASE Account!Disable(r) \/ Account!Enable(r)
    BY <1>1, <1>2, <2>1, <2>3, EndingKeeps DEF Account!Disable, Account!Enable
  <2> QED BY <1>11, <2>2, <2>3
<1>12. ASSUME NEW r \in Processes, Account!ReplaceCredentials(r) PROVE AccountInv'
  BY <1>12, ReplaceStands
<1>13. CASE Account!Refill \/ Account!Cooldown
  BY <1>3, <1>13 DEF Account!Refill, Account!Cooldown
<1> QED BY <1>4, <1>5, <1>6, <1>7, <1>8, <1>9, <1>10, <1>11, <1>12, <1>13 DEF Account!Next

LEMMA AccountInitially ==
  ASSUME Account!Init
  PROVE  AccountInv
<1> DEFINE first == [TEST |-> 1, LIVE |-> Account!NoKeys]
           issued == [s \in Slots |-> first[s[1]]]
<1>1. first \in [Account!Modes -> Nat]
  BY DEF Account!Modes, Account!NoKeys
<1>2. 1 \in Account!Versions
  BY ConnectionsAssumption DEF Account!Versions
<1>3. row \in AccountRow /\ row.keys = first /\ row.version = 1 /\ ~row.disabled /\ row.health = "UNVERIFIED"
  <2> HIDE DEF first
  <2> QED BY <1>1 DEF Account!Init, AccountRow, Health, Account!Modes, first
<1>4. Account!Waiting \in CallRow /\ Account!Waiting.pc = "idle" /\ Account!Waiting.keys = Account!NoKeys
  BY DEF Account!Waiting, CallRow, Account!Unread, Account!NoKeys, Account!Modes
<1>5. /\ \A p \in Apps : \A s \in Slots : registry[p][s] = Account!NoKeys
      /\ registry \in [Apps -> [Slots -> Nat]]
  BY DEF Account!Init, Slots, Account!NoKeys
<1>6. /\ reqs \in [Processes -> CallRow]
      /\ \A r \in Processes : reqs[r].pc = "idle" /\ reqs[r].keys = Account!NoKeys
  BY <1>4 DEF Account!Init
<1>7. AccountTypes
  BY <1>2, <1>3, <1>5, <1>6 DEF AccountTypes
<1>8. issued \in [Slots -> Nat] /\ \A m \in Account!Modes : first[m] = issued[<<m, 1>>]
  <2> HIDE DEF first
  <2> QED BY <1>1, <1>2 DEF Slots
<1> HIDE DEF first, issued
<1>9. Follows(issued)
  BY <1>3, <1>5, <1>6, <1>8 DEF Follows, Reading
<1>10. Account!AccountIsObeyed
  BY <1>3, <1>6 DEF Account!AccountIsObeyed
<1> QED BY <1>7, <1>8, <1>9, <1>10 DEF AccountInv

LEMMA AccountStays ==
  ASSUME AccountInv, UNCHANGED transportVars
  PROVE  AccountInv'
<1>1. AccountTypes
  BY DEF AccountInv
<1>2. Kept /\ registry' = registry /\ row' = row
  BY <1>1 DEF AccountTypes, Kept, Reading, transportVars
<1> QED BY <1>2, Standing, AccountKept

\* courier-account.service.ts, adapter-caller.service.ts: for any requests,
\* processes, threshold and capacity, an account is DISABLED exactly while it is
\* switched off, whatever health a late answer writes, and no call has keys other
\* than those of the version of the account it read.
THEOREM AccountsAreObeyed == Spec => []AccountIsObeyed
<1>1. Init => AccountInv
  BY AccountInitially DEF Init
<1>2. AccountInv /\ [Next]_connectionsVars => AccountInv'
  <2> SUFFICES ASSUME AccountInv, [Next]_connectionsVars PROVE AccountInv'
    OBVIOUS
  <2>1. CASE Account!Next
    BY <2>1, AccountStep
  <2>2. CASE UNCHANGED transportVars
    BY <2>2, AccountStays
  <2> QED BY <2>1, <2>2 DEF Next, connectionsVars
<1>3. AccountInv => AccountIsObeyed
  BY DEF AccountInv, AccountIsObeyed
<1> QED BY <1>1, <1>2, <1>3, PTL DEF Spec, connectionsVars

----------------------------------------------------------------------------
(* BulkBooking.  A list of results tallies with its counters; a run whose  *)
(* results the row holds is ahead of it by the order it has just done.     *)

BulkResult == [of : Processes, queued : BOOLEAN]

Tally(r, succeeded, failed) ==
  /\ r \in Seq(BulkResult) /\ succeeded \in Nat /\ failed \in Nat
  /\ \A i, j \in DOMAIN r : r[i].of = r[j].of => i = j
  /\ succeeded = Cardinality({i \in DOMAIN r : r[i].queued})
  /\ succeeded + failed = Len(r)
\* What a list of results claims for batch b is so.
Claims(b, r) == \A i \in DOMAIN r :
  r[i].of \in batch[b].orders /\ (r[i].queued => b \in parcel[r[i].of].by)

\* A settled batch was settled by a run that is over, and reports every order
\* where its results are still that run's.
Settled(b) ==
  batch[b].state \in Bulk!Terminal =>
    /\ batch[b].by \in Runs /\ worker[b][batch[b].by].pc = "idle"
    /\ batch[b].by \in batch[b].seen => Len(batch[b].results) = Cardinality(batch[b].orders)
RowStands(b) ==
  Tally(batch[b].results, batch[b].succeeded, batch[b].failed) /\ Claims(b, batch[b].results)
\* The row of a batch that is worked off, and of one that has just been written.
InHand(b, n) ==
  /\ worker[b][n].pc = "idle" => worker[b][n].results = <<>>
  /\ worker[b][n].pc # "idle" => batch[b].state # "NONE"
  /\ worker[b][n].pc = "book" /\ n \in batch[b].seen => batch[b].results = worker[b][n].results
RunStands(b, n) ==
  /\ Tally(worker[b][n].results, worker[b][n].succeeded, worker[b][n].failed)
  /\ Claims(b, worker[b][n].results) /\ InHand(b, n)
BatchStands(b) == RowStands(b) /\ Settled(b) /\ \A n \in Runs : RunStands(b, n)

Parcel == [state : Bulk!Bookable \cup {"QUEUED"}, by : SUBSET (Batches \cup {Bulk!Member, Bulk!Sweep}),
           queued : Nat, refused : Nat]
BatchRow == [state : {"NONE", "QUEUED", "RUNNING"} \cup Bulk!Terminal, orders : SUBSET Processes,
             results : Seq(BulkResult), succeeded : Nat, failed : Nat, seen : SUBSET Runs, by : Nat]
BatchWorker == [pc : {"idle", "book", "progress"}, loaded : SUBSET Processes,
                results : Seq(BulkResult), succeeded : Nat, failed : Nat]
BatchWorkers == [Batches -> [Runs -> BatchWorker]]

\* A parcel is queued once more than it was refused only while it is QUEUED.
QueuedBound(o) ==
  parcel[o].queued <= parcel[o].refused + IF parcel[o].state = "QUEUED" THEN 1 ELSE 0

ParcelsStand == parcel \in [Processes -> Parcel] /\ \A o \in Processes : QueuedBound(o)

BulkInv ==
  /\ ParcelsStand
  /\ batch \in [Batches -> BatchRow]
  /\ worker \in BatchWorkers
  /\ \A b \in Batches : BatchStands(b)

LEMMA EmptyTally == Tally(<<>>, 0, 0)
<1>1. {i \in DOMAIN <<>> : <<>>[i].queued} = {}
  OBVIOUS
<1>2. Cardinality({}) = 0
  BY FS_EmptySet
<1> QED BY <1>1, <1>2 DEF Tally

\* One more order, not yet reported, is reported and counted.
LEMMA TallyGrows ==
  ASSUME NEW r, NEW succeeded, NEW failed, Tally(r, succeeded, failed), NEW o \in Processes,
         NEW queued \in BOOLEAN, \A i \in DOMAIN r : r[i].of # o
  PROVE  Tally(Append(r, [of |-> o, queued |-> queued]),
               IF queued THEN succeeded + 1 ELSE succeeded, IF queued THEN failed ELSE failed + 1)
<1> DEFINE new == [of |-> o, queued |-> queued]
           more == Append(r, new)
           Won(s) == {i \in DOMAIN s : s[i].queued}
<1>1. new \in BulkResult /\ new.of = o /\ new.queued = queued
  BY DEF BulkResult
<1>2. /\ r \in Seq(BulkResult) /\ Len(r) \in Nat /\ DOMAIN r = 1 .. Len(r)
      /\ succeeded \in Nat /\ failed \in Nat /\ succeeded + failed = Len(r)
      /\ succeeded = Cardinality(Won(r))
      /\ \A i, j \in DOMAIN r : r[i].of = r[j].of => i = j
  BY DEF Tally
<1> HIDE DEF new
<1>3. /\ more \in Seq(BulkResult) /\ Len(more) = Len(r) + 1 /\ DOMAIN more = 1 .. Len(r) + 1
      /\ more[Len(r) + 1] = new /\ \A i \in 1 .. Len(r) : more[i] = r[i]
  BY <1>1, <1>2
<1> HIDE DEF more
<1>4. \A i, j \in DOMAIN more : more[i].of = more[j].of => i = j
  BY <1>1, <1>2, <1>3
<1>5. IsFiniteSet(Won(r)) /\ Len(r) + 1 \notin Won(r)
  <2>1. IsFiniteSet(1 .. Len(r))
    BY <1>2, FS_Interval
  <2> QED BY <1>2, <2>1, FS_Subset
<1>6. Won(more) = IF queued THEN Won(r) \cup {Len(r) + 1} ELSE Won(r)
  BY <1>1, <1>2, <1>3
<1>7. Cardinality(Won(more)) = IF queued THEN succeeded + 1 ELSE succeeded
  <2> HIDE DEF Won
  <2> QED BY <1>2, <1>5, <1>6, FS_AddElement
<1> DEFINE won == IF queued THEN succeeded + 1 ELSE succeeded
           lost == IF queued THEN failed ELSE failed + 1
<1>8. won \in Nat /\ lost \in Nat /\ won + lost = Len(more)
  <2> DEFINE before == Len(r)
             after == Len(more)
  <2>1. /\ before \in Nat /\ after = before + 1
        /\ succeeded \in Nat /\ failed \in Nat /\ succeeded + failed = before
    BY <1>2, <1>3
  <2> HIDE DEF before, after
  <2>2. won \in Nat /\ lost \in Nat /\ won + lost = after
    <3>1. CASE queued
      <4>1. won = succeeded + 1 /\ lost = failed
        BY <3>1
      <4> HIDE DEF won, lost
      <4> QED BY <2>1, <4>1
    <3>2. CASE ~queued
      <4>1. won = succeeded /\ lost = failed + 1
        BY <3>2
      <4> HIDE DEF won, lost
      <4> QED BY <2>1, <4>1
    <3> QED BY <3>1, <3>2
  <2> QED BY <2>2 DEF after
<1>9. won = Cardinality(Won(more))
  BY <1>7
<1> HIDE DEF won, lost
<1>10. Tally(more, won, lost)
  BY <1>3, <1>4, <1>8, <1>9 DEF Tally
<1> QED BY <1>10 DEF more, new, won, lost

\* A list that reports every order of a batch, and none twice, has its length.
LEMMA ReportsAll ==
  ASSUME NEW r, NEW succeeded, NEW failed, Tally(r, succeeded, failed), NEW orders,
         orders = {r[i].of : i \in DOMAIN r}
  PROVE  Len(r) = Cardinality(orders)
<1> DEFINE S == 1 .. Len(r)
           of == [i \in S |-> r[i].of]
<1>1. r \in Seq(BulkResult) /\ Len(r) \in Nat /\ DOMAIN r = S
  BY DEF Tally
<1>2. of \in Bijection(S, orders)
  <2>1. of \in [S -> orders] /\ \A o \in orders : \E i \in S : of[i] = o
    BY <1>1
  <2>2. \A i, j \in S : of[i] = of[j] => i = j
    BY <1>1 DEF Tally
  <2> QED BY <2>1, <2>2 DEF Bijection, Injection, Surjection, IsInjective
<1>3. IsFiniteSet(S) /\ Cardinality(S) = Len(r)
  BY <1>1, FS_Interval
<1>4. ExistsBijection(S, orders)
  BY <1>2 DEF ExistsBijection
<1> QED BY <1>3, <1>4, FS_Bijection

\* Who has queued a parcel stays on its record.
Credited == \A o \in Processes : parcel[o].by \subseteq parcel'[o].by

LEMMA QueueBookingStands ==
  ASSUME ParcelsStand, NEW o \in Processes, NEW who \in Batches \cup {Bulk!Member, Bulk!Sweep},
         NEW end \in Bulk!Outcomes(o), Bulk!QueueBooking(o, who, end)
  PROVE  ParcelsStand' /\ Credited /\ (Bulk!Queued(o, end) => who \in parcel'[o].by)
<1> DEFINE by == IF Bulk!Queued(o, end) THEN parcel[o].by \cup {who} ELSE parcel[o].by
           n == IF Bulk!Queued(o, end) THEN parcel[o].queued + 1 ELSE parcel[o].queued
<1>1. parcel[o] \in Parcel /\ parcel \in [Processes -> Parcel] /\ \A q \in Processes : QueuedBound(q)
  BY DEF ParcelsStand
<1>2. /\ parcel[o].state \in Bulk!Bookable \cup {"QUEUED"} /\ parcel[o].queued \in Nat /\ parcel[o].refused \in Nat
      /\ parcel[o].by \subseteq Batches \cup {Bulk!Member, Bulk!Sweep}
  BY <1>1 DEF Parcel
<1>3. parcel' = [parcel EXCEPT ![o].state = end, ![o].by = by, ![o].queued = n]
  BY Zenon DEF Bulk!QueueBooking
<1>4. end \in Bulk!Bookable \cup {"QUEUED"}
  BY <1>2 DEF Bulk!Outcomes, Bulk!Bookable
<1>5. /\ by \in SUBSET (Batches \cup {Bulk!Member, Bulk!Sweep}) /\ parcel[o].by \subseteq by
      /\ Bulk!Queued(o, end) => who \in by
  BY <1>2
<1>6. n \in Nat
  BY <1>2
<1>7. n <= parcel[o].refused + (IF end = "QUEUED" THEN 1 ELSE 0)
  <2>1. parcel[o].queued <= parcel[o].refused + IF parcel[o].state = "QUEUED" THEN 1 ELSE 0
    BY <1>1 DEF QueuedBound
  <2>2. CASE Bulk!Refuses(o)
    BY <1>2, <2>1, <2>2 DEF Bulk!Outcomes, Bulk!Queued
  <2>3. CASE ~Bulk!Refuses(o)
    <3>1. parcel[o].state # "QUEUED"
      BY <2>3 DEF Bulk!Refuses, Bulk!Bookable
    <3>2. CASE end = "QUEUED"
      BY <1>2, <2>1, <3>1, <3>2
    <3>3. CASE end # "QUEUED"
      <4>1. n = parcel[o].queued
        BY <3>3 DEF Bulk!Queued
      <4> HIDE DEF n
      <4> QED BY <1>2, <2>1, <3>1, <3>3, <4>1
    <3> QED BY <3>2, <3>3
  <2> QED BY <2>2, <2>3
<1> HIDE DEF by, n
<1>8. /\ parcel' \in [Processes -> Parcel] /\ parcel'[o].state = end /\ parcel'[o].by = by /\ parcel'[o].queued = n
      /\ parcel'[o].refused = parcel[o].refused /\ \A q \in Processes \ {o} : parcel'[q] = parcel[q]
  BY <1>1, <1>3, <1>4, <1>5, <1>6 DEF Parcel
<1>9. ASSUME NEW q \in Processes PROVE QueuedBound(q)'
  <2>1. CASE q = o
    BY <1>7, <1>8, <2>1 DEF QueuedBound
  <2>2. CASE q # o
    BY <1>1, <1>8, <2>2 DEF QueuedBound
  <2> QED BY <2>1, <2>2
<1>10. Credited
  BY <1>5, <1>8 DEF Credited
<1> QED BY <1>5, <1>8, <1>9, <1>10 DEF ParcelsStand

\* What a list claimed for a batch it still claims, whatever is queued besides.
Claimed(b, r) == \A i \in DOMAIN r :
  r[i].of \in batch[b].orders /\ (r[i].queued => b \in parcel'[r[i].of].by)

LEMMA ClaimsLast ==
  ASSUME NEW b \in Batches, NEW r \in Seq(BulkResult), Claims(b, r), Credited
  PROVE  Claimed(b, r)
<1>1. \A i \in DOMAIN r : r[i] \in BulkResult
  OBVIOUS
<1>2. \A i \in DOMAIN r : r[i].of \in Processes
  BY <1>1 DEF BulkResult
<1> QED BY <1>2 DEF Claims, Claimed, Credited

\* A row that reports what it did.
LEMMA RowKept ==
  ASSUME NEW b \in Batches, RowStands(b), Credited, batch'[b].orders = batch[b].orders,
         batch'[b].results = batch[b].results, batch'[b].succeeded = batch[b].succeeded,
         batch'[b].failed = batch[b].failed
  PROVE  RowStands(b)'
<1>1. batch[b].results \in Seq(BulkResult) /\ Claims(b, batch[b].results)
  BY DEF RowStands, Tally
<1>2. Claimed(b, batch[b].results)
  BY <1>1, ClaimsLast
<1>3. Claims(b, batch[b].results)'
  BY <1>2 DEF Claims, Claimed
<1>4. Tally(batch[b].results, batch[b].succeeded, batch[b].failed)'
  BY DEF RowStands, Tally
<1> QED BY <1>3, <1>4 DEF RowStands

\* A run that stays where it is, of a batch whose row may have moved.
LEMMA RunKept ==
  ASSUME NEW b \in Batches, NEW n \in Runs, RunStands(b, n), Credited, batch'[b].orders = batch[b].orders,
         worker'[b][n] = worker[b][n], InHand(b, n)'
  PROVE  RunStands(b, n)'
<1> DEFINE r == worker[b][n].results
<1>1. r \in Seq(BulkResult) /\ Claims(b, r)
  BY DEF RunStands, Tally
<1>2. Claimed(b, r)
  BY <1>1, ClaimsLast
<1>3. Claims(b, worker[b][n].results)'
  BY <1>2 DEF Claims, Claimed
<1>4. Tally(worker[b][n].results, worker[b][n].succeeded, worker[b][n].failed)'
  BY DEF RunStands, Tally
<1> QED BY <1>3, <1>4 DEF RunStands

\* A batch no step touches, whatever is queued besides.
LEMMA BatchKept ==
  ASSUME NEW b \in Batches, BatchStands(b), batch'[b] = batch[b], worker'[b] = worker[b], Credited
  PROVE  BatchStands(b)'
<1>1. RowStands(b)'
  BY RowKept DEF BatchStands
<1>2. Settled(b)'
  BY DEF BatchStands, Settled
<1>3. ASSUME NEW n \in Runs PROVE RunStands(b, n)'
  <2>1. RunStands(b, n) /\ InHand(b, n)'
    BY DEF BatchStands, RunStands, InHand
  <2> QED BY <2>1, RunKept
<1> QED BY <1>1, <1>2, <1>3 DEF BatchStands

LEMMA BatchesKept ==
  ASSUME BulkInv, ParcelsStand', Credited, batch' = batch, worker' = worker
  PROVE  BulkInv'
BY BatchKept DEF BulkInv

LEMMA ParcelsKept == ASSUME ParcelsStand, parcel' = parcel PROVE ParcelsStand' /\ Credited
BY DEF ParcelsStand, Credited, QueuedBound

\* A step of one run on its batch's row.
LEMMA RunSteps ==
  ASSUME BulkInv, NEW b \in Batches, NEW n \in Runs, NEW w \in BatchWorker,
         worker' = [worker EXCEPT ![b][n] = w], ParcelsStand', Credited,
         batch' \in [Batches -> BatchRow], \A c \in Batches \ {b} : batch'[c] = batch[c],
         batch'[b].orders = batch[b].orders, RowStands(b)', Settled(b)',
         Tally(w.results, w.succeeded, w.failed), Claimed(b, w.results), \A k \in Runs : InHand(b, k)'
  PROVE  BulkInv'
<1>1. worker \in BatchWorkers /\ \A c \in Batches : BatchStands(c)
  BY DEF BulkInv
<1>2. /\ worker' \in BatchWorkers /\ worker'[b][n] = w /\ \A k \in Runs \ {n} : worker'[b][k] = worker[b][k]
      /\ \A c \in Batches \ {b} : worker'[c] = worker[c]
  BY <1>1 DEF BatchWorkers
<1>3. ASSUME NEW k \in Runs PROVE RunStands(b, k)'
  <2>1. CASE k = n
    <3>1. Tally(worker[b][n].results, worker[b][n].succeeded, worker[b][n].failed)'
      BY <1>2 DEF Tally
    <3>2. Claims(b, worker[b][n].results)'
      BY <1>2 DEF Claims, Claimed
    <3> QED BY <2>1, <3>1, <3>2 DEF RunStands
  <2>2. CASE k # n
    <3>1. RunStands(b, k) /\ worker'[b][k] = worker[b][k] /\ InHand(b, k)'
      BY <1>1, <1>2, <2>2 DEF BatchStands
    <3> QED BY <3>1, RunKept
  <2> QED BY <2>1, <2>2
<1>4. ASSUME NEW c \in Batches PROVE BatchStands(c)'
  <2>1. CASE c # b
    BY <1>1, <1>2, <2>1, BatchKept
  <2>2. CASE c = b
    BY <1>3, <2>2 DEF BatchStands
  <2> QED BY <2>1, <2>2
<1> QED BY <1>2, <1>4 DEF BulkInv

LEMMA OrderStepsStand ==
  ASSUME BulkInv, NEW o \in Processes,
         Bulk!MemberBooks(o) \/ Bulk!CourierRefuses(o) \/ Bulk!SweepOne(o)
  PROVE  BulkInv'
<1>1. ParcelsStand
  BY DEF BulkInv
<1>2. batch' = batch /\ worker' = worker
  BY DEF Bulk!MemberBooks, Bulk!CourierRefuses, Bulk!SweepOne
<1>3. ASSUME NEW who \in Batches \cup {Bulk!Member, Bulk!Sweep},
             NEW end \in Bulk!Outcomes(o), Bulk!QueueBooking(o, who, end)
      PROVE  BulkInv'
  BY <1>1, <1>2, <1>3, QueueBookingStands, BatchesKept
<1>4. CASE Bulk!MemberBooks(o)
  BY <1>3, <1>4 DEF Bulk!MemberBooks
<1>5. CASE Bulk!CourierRefuses(o)
  <2> DEFINE n == parcel[o].refused + 1
  <2>1. parcel' = [parcel EXCEPT ![o].state = "FAILED", ![o].refused = n] /\ parcel[o].state = "QUEUED"
    BY <1>5 DEF Bulk!CourierRefuses
  <2>2. /\ parcel \in [Processes -> Parcel] /\ n \in Nat /\ parcel[o].queued \in Nat
        /\ parcel[o].queued <= n
    BY <1>1, <2>1 DEF ParcelsStand, Parcel, QueuedBound
  <2> HIDE DEF n
  <2>3. /\ parcel' \in [Processes -> Parcel] /\ parcel'[o].state = "FAILED" /\ parcel'[o].refused = n
        /\ parcel'[o].by = parcel[o].by /\ parcel'[o].queued = parcel[o].queued
        /\ \A q \in Processes \ {o} : parcel'[q] = parcel[q]
    BY <2>1, <2>2 DEF Parcel, Bulk!Bookable
  <2>4. ASSUME NEW q \in Processes PROVE QueuedBound(q)'
    <3>1. CASE q = o
      BY <2>2, <2>3, <3>1 DEF QueuedBound
    <3>2. CASE q # o
      BY <1>1, <2>3, <3>2 DEF QueuedBound, ParcelsStand
    <3> QED BY <3>1, <3>2
  <2>5. ParcelsStand' /\ Credited
    BY <2>3, <2>4 DEF ParcelsStand, Credited
  <2> QED BY <1>2, <2>5, BatchesKept
<1>6. CASE Bulk!SweepOne(o)
  <2>1. CASE \E end \in Bulk!Outcomes(o) : Bulk!QueueBooking(o, Bulk!Sweep, end)
    BY <1>3, <2>1
  <2>2. CASE parcel' = parcel
    BY <1>1, <1>2, <2>2, ParcelsKept, BatchesKept
  <2>3. CASE ~Bulk!Refuses(o) /\ parcel' = [parcel EXCEPT ![o].state = "NEEDS_MANUAL_ASSIGNMENT"]
    <3>1. parcel \in [Processes -> Parcel] /\ parcel[o].state # "QUEUED" /\ QueuedBound(o)
      BY <1>1, <2>3 DEF ParcelsStand, Bulk!Refuses, Bulk!Bookable
    <3>2. /\ parcel' \in [Processes -> Parcel] /\ parcel'[o].state = "NEEDS_MANUAL_ASSIGNMENT"
          /\ parcel'[o].refused = parcel[o].refused
          /\ parcel'[o].by = parcel[o].by /\ parcel'[o].queued = parcel[o].queued
          /\ \A q \in Processes \ {o} : parcel'[q] = parcel[q]
      BY <2>3, <3>1 DEF Parcel, Bulk!Bookable
    <3>3. ASSUME NEW q \in Processes PROVE QueuedBound(q)'
      <4>1. CASE q = o
        BY <3>1, <3>2, <4>1 DEF QueuedBound
      <4>2. CASE q # o
        BY <1>1, <3>2, <4>2 DEF QueuedBound, ParcelsStand
      <4> QED BY <4>1, <4>2
    <3>4. ParcelsStand' /\ Credited
      BY <3>2, <3>3 DEF ParcelsStand, Credited
    <3> QED BY <1>2, <3>4, BatchesKept
  <2> QED BY <1>6, <2>1, <2>2, <2>3 DEF Bulk!SweepOne, Bulk!Route
<1> QED BY <1>4, <1>5, <1>6

LEMMA IdleIsWorker ==
  /\ Bulk!Idle \in BatchWorker /\ Bulk!Idle.pc = "idle" /\ Bulk!Idle.results = <<>>
  /\ Bulk!Idle.succeeded = 0 /\ Bulk!Idle.failed = 0
BY DEF Bulk!Idle, BatchWorker

\* A step that ends a run, whatever becomes of the batch's state.
LEMMA RunEnds ==
  ASSUME BulkInv, NEW b \in Batches, NEW n \in Runs, parcel' = parcel,
         worker' = [worker EXCEPT ![b][n] = Bulk!Idle], worker[b][n].pc # "idle",
         batch' \in [Batches -> BatchRow], \A c \in Batches \ {b} : batch'[c] = batch[c],
         batch'[b].orders = batch[b].orders, batch'[b].results = batch[b].results,
         batch'[b].succeeded = batch[b].succeeded, batch'[b].failed = batch[b].failed,
         batch'[b].seen = batch[b].seen, batch[b].state # "NONE" => batch'[b].state # "NONE",
         Settled(b)'
  PROVE  BulkInv'
<1>1. ParcelsStand' /\ Credited
  BY ParcelsKept DEF BulkInv
<1>2. worker \in BatchWorkers /\ BatchStands(b)
  BY DEF BulkInv
<1>3. worker'[b][n] = Bulk!Idle /\ \A k \in Runs \ {n} : worker'[b][k] = worker[b][k]
  BY <1>2, IdleIsWorker DEF BatchWorkers
<1>4. RowStands(b)'
  BY <1>1, <1>2, RowKept DEF BatchStands
<1>5. ASSUME NEW k \in Runs PROVE InHand(b, k)'
  <2>1. CASE k = n
    BY <1>3, <2>1, IdleIsWorker DEF InHand
  <2>2. CASE k # n
    <3>1. InHand(b, k) /\ worker'[b][k] = worker[b][k]
      BY <1>2, <1>3, <2>2 DEF BatchStands, RunStands
    <3> QED BY <3>1 DEF InHand
  <2> QED BY <2>1, <2>2
<1> DEFINE w == Bulk!Idle
<1>6. w \in BatchWorker /\ Tally(w.results, w.succeeded, w.failed) /\ Claimed(b, w.results)
  BY IdleIsWorker, EmptyTally DEF Claimed
<1>7. worker' = [worker EXCEPT ![b][n] = w]
  OBVIOUS
<1> HIDE DEF w
<1> QED BY <1>1, <1>4, <1>5, <1>6, <1>7, RunSteps

LEMMA BreaksStand ==
  ASSUME BulkInv, NEW b \in Batches, NEW n \in Runs, Bulk!BatchThrows(b, n) \/ Bulk!BatchDies(b, n)
  PROVE  BulkInv'
<1>1. /\ batch' = batch /\ parcel' = parcel /\ worker' = [worker EXCEPT ![b][n] = Bulk!Idle]
      /\ worker[b][n].pc # "idle"
  BY DEF Bulk!BatchThrows, Bulk!BatchDies
<1>2. batch \in [Batches -> BatchRow] /\ worker \in BatchWorkers /\ Settled(b)
  BY DEF BulkInv, BatchStands
<1>3. worker'[b][n] = Bulk!Idle /\ \A k \in Runs \ {n} : worker'[b][k] = worker[b][k]
  BY <1>1, <1>2, IdleIsWorker DEF BatchWorkers
<1>4. Settled(b)'
  BY <1>1, <1>2, <1>3, IdleIsWorker DEF Settled
<1> QED BY <1>1, <1>2, <1>4, RunEnds

LEMMA StallsStand ==
  ASSUME BulkInv, NEW b \in Batches, NEW n \in Runs, Bulk!BatchStalls(b, n)
  PROVE  BulkInv'
<1>1. parcel' = parcel /\ batch' = batch /\ worker' = worker
  BY DEF Bulk!BatchStalls
<1>2. ParcelsStand' /\ Credited
  BY <1>1, ParcelsKept DEF BulkInv
<1> QED BY <1>1, <1>2, BatchesKept

LEMMA FinishStands ==
  ASSUME BulkInv, NEW b \in Batches, NEW n \in Runs, Bulk!FinishBatch(b, n)
  PROVE  BulkInv'
<1> DEFINE end == IF worker[b][n].failed = 0 THEN "SUCCEEDED" ELSE "PARTIAL"
<1>1. /\ batch' = [batch EXCEPT ![b].state = end, ![b].by = n] /\ parcel' = parcel
      /\ worker' = [worker EXCEPT ![b][n] = Bulk!Idle] /\ worker[b][n].pc = "book"
  BY DEF Bulk!FinishBatch
<1>2. end \in {"SUCCEEDED", "PARTIAL"}
  OBVIOUS
<1>3. batch \in [Batches -> BatchRow] /\ worker \in BatchWorkers /\ BatchStands(b) /\ n \in Nat
  BY ConnectionsAssumption DEF BulkInv
<1> HIDE DEF end
<1>4. /\ batch' \in [Batches -> BatchRow] /\ batch'[b].orders = batch[b].orders
      /\ batch'[b].results = batch[b].results /\ batch'[b].succeeded = batch[b].succeeded
      /\ batch'[b].failed = batch[b].failed /\ batch'[b].seen = batch[b].seen
      /\ batch'[b].by = n /\ batch'[b].state = end
      /\ \A c \in Batches \ {b} : batch'[c] = batch[c]
  BY <1>1, <1>2, <1>3 DEF BatchRow, Bulk!Terminal
<1>5. Settled(b)'
  <2> DEFINE r == batch[b].results
  <2>1. ASSUME n \in batch[b].seen PROVE Len(r) = Cardinality(batch[b].orders)
    <3>1. r = worker[b][n].results /\ Tally(r, batch[b].succeeded, batch[b].failed) /\ Claims(b, r)
      BY <1>1, <1>3, <2>1 DEF BatchStands, RowStands, RunStands, InHand
    <3>2. batch[b].orders \subseteq Bulk!Done(worker[b][n])
      BY DEF Bulk!FinishBatch, Bulk!Todo
    <3>3. batch[b].orders = {r[i].of : i \in DOMAIN r}
      <4>1. Bulk!Done(worker[b][n]) = {r[i].of : i \in DOMAIN r}
        BY <3>1 DEF Bulk!Done, Bulk!Range
      <4>2. {r[i].of : i \in DOMAIN r} \subseteq batch[b].orders
        BY <3>1 DEF Claims
      <4> QED BY <3>2, <4>1, <4>2
    <3> QED BY <3>1, <3>3, ReportsAll
  <2>2. worker'[b][n].pc = "idle"
    BY <1>1, <1>3, IdleIsWorker DEF BatchWorkers
  <2> QED BY <1>4, <2>1, <2>2 DEF Settled
<1>6. worker[b][n].pc # "idle" /\ batch'[b].state # "NONE"
  BY <1>1, <1>2, <1>4
<1> QED BY <1>1, <1>4, <1>5, <1>6, RunEnds

LEMMA ProgressStands ==
  ASSUME BulkInv, NEW b \in Batches, NEW n \in Runs, Bulk!WriteProgress(b, n)
  PROVE  BulkInv'
<1> DEFINE w == worker[b][n]
           new == [w EXCEPT !.pc = "book"]
<1>1. /\ batch' = [batch EXCEPT ![b].results = w.results, ![b].succeeded = w.succeeded,
                                ![b].failed = w.failed, ![b].seen = {n}]
      /\ worker' = [worker EXCEPT ![b][n] = new] /\ parcel' = parcel /\ w.pc = "progress"
  <2>1. worker' = [worker EXCEPT ![b][n] = [@ EXCEPT !.pc = "book"]]
    BY DEF Bulk!WriteProgress
  <2> QED BY <2>1 DEF Bulk!WriteProgress
<1>2. /\ batch \in [Batches -> BatchRow] /\ worker \in BatchWorkers /\ w \in BatchWorker
      /\ BatchStands(b)
  BY DEF BulkInv, BatchWorkers
<1>3. ParcelsStand' /\ Credited
  BY <1>1, ParcelsKept DEF BulkInv
<1>4. /\ new \in BatchWorker /\ new.pc = "book" /\ new.results = w.results
      /\ new.succeeded = w.succeeded /\ new.failed = w.failed
      /\ w.results \in Seq(BulkResult) /\ w.succeeded \in Nat /\ w.failed \in Nat
  BY <1>2 DEF BatchWorker
<1> HIDE DEF new, w
<1>5. worker'[b][n] = new /\ \A k \in Runs \ {n} : worker'[b][k] = worker[b][k]
  BY <1>1, <1>2, <1>4 DEF BatchWorkers
<1>6. /\ batch' \in [Batches -> BatchRow] /\ batch'[b].orders = batch[b].orders /\ batch'[b].state = batch[b].state
      /\ batch'[b].results = w.results /\ batch'[b].succeeded = w.succeeded /\ batch'[b].failed = w.failed
      /\ batch'[b].seen = {n} /\ batch'[b].by = batch[b].by
      /\ \A c \in Batches \ {b} : batch'[c] = batch[c]
  BY <1>1, <1>2, <1>4 DEF BatchRow
<1>7. /\ Tally(w.results, w.succeeded, w.failed) /\ Claims(b, w.results)
      /\ batch[b].state # "NONE" /\ Settled(b) /\ \A k \in Runs : InHand(b, k)
  BY <1>1, <1>2 DEF BatchStands, RunStands, InHand, w
<1>8. Claimed(b, w.results)
  BY <1>3, <1>4, <1>7, ClaimsLast
<1>9. RowStands(b)'
  <2>1. Tally(batch[b].results, batch[b].succeeded, batch[b].failed)'
    BY <1>6, <1>7 DEF Tally
  <2>2. Claims(b, batch[b].results)'
    BY <1>6, <1>8 DEF Claims, Claimed
  <2> QED BY <2>1, <2>2 DEF RowStands
<1>10. Settled(b)'
  <2>1. batch[b].state \in Bulk!Terminal => batch[b].by # n
    BY <1>1, <1>7 DEF Settled, w
  <2> QED BY <1>5, <1>6, <1>7, <2>1 DEF Settled
<1>11. ASSUME NEW k \in Runs PROVE InHand(b, k)'
  <2>1. CASE k = n
    BY <1>4, <1>5, <1>6, <1>7, <2>1 DEF InHand
  <2>2. CASE k # n
    BY <1>5, <1>6, <1>7, <2>2 DEF InHand
  <2> QED BY <2>1, <2>2
<1>12. Tally(new.results, new.succeeded, new.failed) /\ Claimed(b, new.results)
  BY <1>4, <1>7, <1>8
<1> QED BY <1>1, <1>3, <1>4, <1>6, <1>9, <1>10, <1>11, <1>12, RunSteps

LEMMA StartStands ==
  ASSUME BulkInv, NEW b \in Batches, NEW n \in Runs, Bulk!StartBatch(b, n)
  PROVE  BulkInv'
<1> DEFINE from == batch[b]
           loaded == {o \in batch[b].orders : parcel[o].state \in Bulk!Bookable}
           begun == [pc |-> "book", loaded |-> loaded, results |-> from.results,
                     succeeded |-> from.succeeded, failed |-> from.failed]
<1>1. CASE from.state \in Bulk!Terminal
  <2>1. UNCHANGED <<parcel, batch, worker>>
    BY <1>1 DEF Bulk!StartBatch
  <2>2. ParcelsStand' /\ Credited
    BY <2>1, ParcelsKept DEF BulkInv
  <2> QED BY <2>1, <2>2, BatchesKept
<1>2. CASE from.state \notin Bulk!Terminal
  <2>1. /\ batch' = [batch EXCEPT ![b].state = "RUNNING", ![b].seen = batch[b].seen \cup {n}]
        /\ worker' = [worker EXCEPT ![b][n] = begun] /\ parcel' = parcel
    BY <1>2 DEF Bulk!StartBatch
  <2>2. /\ batch \in [Batches -> BatchRow] /\ worker \in BatchWorkers /\ from \in BatchRow
        /\ BatchStands(b)
    BY DEF BulkInv
  <2>3. ParcelsStand' /\ Credited
    BY <2>1, ParcelsKept DEF BulkInv
  <2>4. loaded \subseteq Processes
    BY <2>2 DEF BatchRow
  <2> HIDE DEF loaded
  <2>5. /\ begun \in BatchWorker /\ begun.pc = "book" /\ begun.results = from.results
        /\ begun.succeeded = from.succeeded /\ begun.failed = from.failed
    BY <2>2, <2>4 DEF BatchRow, BatchWorker
  <2> HIDE DEF begun
  <2>6. worker'[b][n] = begun /\ \A k \in Runs \ {n} : worker'[b][k] = worker[b][k]
    BY <2>1, <2>2, <2>5 DEF BatchWorkers
  <2>7. /\ batch' \in [Batches -> BatchRow] /\ batch'[b].state = "RUNNING" /\ batch'[b].orders = from.orders
        /\ batch'[b].results = from.results /\ batch'[b].succeeded = from.succeeded /\ batch'[b].failed = from.failed
        /\ batch'[b].seen = from.seen \cup {n}
        /\ \A c \in Batches \ {b} : batch'[c] = batch[c]
    BY <2>1, <2>2 DEF BatchRow
  <2>8. RowStands(b)'
    BY <2>2, <2>3, <2>7, RowKept DEF BatchStands
  <2>9. Settled(b)'
    BY <2>7 DEF Settled, Bulk!Terminal
  <2>10. ASSUME NEW k \in Runs PROVE InHand(b, k)'
    <3>1. CASE k = n
      BY <2>5, <2>6, <2>7, <3>1 DEF InHand
    <3>2. CASE k # n
      <4>1. InHand(b, k) /\ worker'[b][k] = worker[b][k]
        BY <2>2, <2>6, <3>2 DEF BatchStands, RunStands
      <4> QED BY <2>7, <3>2, <4>1 DEF InHand
    <3> QED BY <3>1, <3>2
  <2>11. Tally(begun.results, begun.succeeded, begun.failed) /\ Claimed(b, begun.results)
    <3>1. Tally(from.results, from.succeeded, from.failed) /\ Claims(b, from.results)
      BY <2>2 DEF BatchStands, RowStands
    <3>2. from.results \in Seq(BulkResult)
      BY <3>1 DEF Tally
    <3> QED BY <2>3, <2>5, <3>1, <3>2, ClaimsLast
  <2> QED BY <2>1, <2>3, <2>5, <2>7, <2>8, <2>9, <2>10, <2>11, RunSteps
<1> QED BY <1>1, <1>2

LEMMA LeastBatch ==
  ASSUME NEW S \in SUBSET Batches, S # {}
  PROVE  Bulk!Min(S) \in S
<1>1. S \in SUBSET Nat
  BY ConnectionsAssumption
<1>2. PICK x \in S : \A y \in S : x <= y
  BY <1>1, LeastExists
<1> QED BY <1>2 DEF Bulk!Min

LEMMA NoBatchIsRow ==
  /\ Bulk!NoBatch \in BatchRow /\ Bulk!NoBatch.state = "NONE" /\ Bulk!NoBatch.results = <<>>
  /\ Bulk!NoBatch.succeeded = 0 /\ Bulk!NoBatch.failed = 0 /\ Bulk!NoBatch.seen = {}
BY DEF Bulk!NoBatch, BatchRow

LEMMA CreateStands ==
  ASSUME BulkInv, NEW orders \in SUBSET Processes, Bulk!CreateBatch(orders)
  PROVE  BulkInv'
<1> DEFINE new == [Bulk!NoBatch EXCEPT !.state = "QUEUED", !.orders = orders]
<1>1. PICK b \in Batches : b = Bulk!Min(Bulk!Unused) /\ batch[b].state = "NONE"
  BY LeastBatch DEF Bulk!CreateBatch, Bulk!Unused
<1>2. batch' = [batch EXCEPT ![b] = new] /\ worker' = worker /\ parcel' = parcel
  BY <1>1 DEF Bulk!CreateBatch
<1>3. /\ batch \in [Batches -> BatchRow] /\ \A c \in Batches : BatchStands(c)
  BY DEF BulkInv
<1>4. /\ new \in BatchRow /\ new.results = <<>> /\ new.succeeded = 0 /\ new.failed = 0 /\ new.state = "QUEUED"
  <2>1. /\ Bulk!NoBatch \in BatchRow /\ Bulk!NoBatch.results = <<>>
        /\ Bulk!NoBatch.succeeded = 0 /\ Bulk!NoBatch.failed = 0
    BY NoBatchIsRow
  <2> QED BY <2>1 DEF BatchRow
<1> HIDE DEF new
<1>5. batch' \in [Batches -> BatchRow] /\ batch'[b] = new /\ \A c \in Batches \ {b} : batch'[c] = batch[c]
  BY <1>1, <1>2, <1>3, <1>4
<1>6. ParcelsStand' /\ Credited
  BY <1>2, ParcelsKept DEF BulkInv
<1>7. ASSUME NEW n \in Runs
      PROVE  /\ worker[b][n].pc = "idle" /\ worker[b][n].results = <<>>
             /\ Tally(worker[b][n].results, worker[b][n].succeeded, worker[b][n].failed)
  BY <1>1, <1>3 DEF BatchStands, RunStands, InHand
<1>8. BatchStands(b)'
  <2>1. ASSUME NEW n \in Runs PROVE RunStands(b, n)'
    BY <1>2, <1>4, <1>5, <1>7 DEF RunStands, InHand, Claims
  <2>2. RowStands(b)'
    BY <1>4, <1>5, EmptyTally DEF RowStands, Claims
  <2>3. Settled(b)'
    BY <1>4, <1>5 DEF Settled, Bulk!Terminal
  <2> QED BY <2>1, <2>2, <2>3 DEF BatchStands
<1>9. ASSUME NEW c \in Batches PROVE BatchStands(c)'
  <2>1. CASE c # b
    BY <1>2, <1>3, <1>5, <1>6, <2>1, BatchKept
  <2> QED BY <1>8, <2>1
<1> QED BY <1>2, <1>5, <1>6, <1>9 DEF BulkInv

LEMMA RetryStands ==
  ASSUME BulkInv, NEW b \in Batches, Bulk!RetryFailed(b)
  PROVE  BulkInv'
<1>1. batch[b].results \in Seq(BulkResult)
  BY DEF BulkInv, BatchStands, RowStands, Tally
<1>2. \A i \in DOMAIN batch[b].results : batch[b].results[i] \in BulkResult
  BY <1>1
<1>3. Bulk!FailedOf(b) \subseteq Processes
  BY <1>2 DEF Bulk!FailedOf, Bulk!Range, BulkResult
<1> QED BY <1>3, CreateStands DEF Bulk!RetryFailed

LEMMA ProcessStands ==
  ASSUME BulkInv, NEW b \in Batches, NEW n \in Runs, NEW o \in batch[b].orders, Bulk!ProcessOneOrder(b, n, o)
  PROVE  BulkInv'
<1> DEFINE w == worker[b][n]
           New(q) == [pc |-> "progress", loaded |-> w.loaded,
                      results |-> Append(w.results, [of |-> o, queued |-> q]),
                      succeeded |-> IF q THEN w.succeeded + 1 ELSE w.succeeded,
                      failed |-> IF q THEN w.failed ELSE w.failed + 1]
<1>1. /\ batch \in [Batches -> BatchRow] /\ worker \in BatchWorkers /\ w \in BatchWorker
      /\ ParcelsStand /\ BatchStands(b)
  BY DEF BulkInv, BatchWorkers
<1>2. o \in Processes /\ b \in Batches \cup {Bulk!Member, Bulk!Sweep}
  BY <1>1 DEF BatchRow
<1>3. batch' = batch /\ w.pc = "book" /\ o \notin Bulk!Done(w)
  BY DEF Bulk!ProcessOneOrder, Bulk!Todo
<1>4. PICK q \in BOOLEAN :
        /\ worker' = [worker EXCEPT ![b][n] = New(q)]
        /\ ParcelsStand' /\ Credited /\ (q => b \in parcel'[o].by)
  <2>1. CASE o \notin worker[b][n].loaded
    <3>1. worker' = [worker EXCEPT ![b][n] = New(FALSE)] /\ parcel' = parcel
      BY <2>1, Zenon DEF Bulk!ProcessOneOrder
    <3> QED BY <1>1, <3>1, ParcelsKept
  <2>2. CASE o \in worker[b][n].loaded
    <3>1. PICK end \in Bulk!Outcomes(o) :
            /\ Bulk!QueueBooking(o, b, end)
            /\ worker' = [worker EXCEPT ![b][n] = New(Bulk!Queued(o, end))]
      BY <2>2, Zenon DEF Bulk!ProcessOneOrder
    <3>2. Bulk!Queued(o, end) \in BOOLEAN
      BY DEF Bulk!Queued
    <3>3. ParcelsStand' /\ Credited /\ (Bulk!Queued(o, end) => b \in parcel'[o].by)
      BY <1>1, <1>2, <3>1, QueueBookingStands
    <3> HIDE DEF New
    <3> QED BY <3>1, <3>2, <3>3
  <2> QED BY <2>1, <2>2
<1> DEFINE new == New(q)
<1>5. Tally(new.results, new.succeeded, new.failed)
  <2>1. Tally(w.results, w.succeeded, w.failed)
    BY <1>1 DEF BatchStands, RunStands
  <2>2. \A i \in DOMAIN w.results : w.results[i].of # o
    BY <1>3 DEF Bulk!Done, Bulk!Range
  <2> QED BY <1>2, <2>1, <2>2, TallyGrows
<1>6. Claimed(b, new.results)
  <2>1. w.results \in Seq(BulkResult) /\ Claims(b, w.results)
    BY <1>1 DEF BatchStands, RunStands, Tally
  <2>2. Claimed(b, w.results)
    BY <1>4, <2>1, ClaimsLast
  <2> DEFINE last == [of |-> o, queued |-> q]
             more == Append(w.results, last)
  <2>3. last.of = o /\ last.queued = q /\ last \in BulkResult
    BY <1>2 DEF BulkResult
  <2>4. new.results = more
    OBVIOUS
  <2> HIDE DEF last, w
  <2>5. /\ DOMAIN more = 1 .. Len(w.results) + 1 /\ DOMAIN w.results = 1 .. Len(w.results)
        /\ Len(w.results) \in Nat /\ more[Len(w.results) + 1] = last
        /\ \A i \in 1 .. Len(w.results) : more[i] = w.results[i]
    BY <2>1, <2>3
  <2> HIDE DEF more, new
  <2> QED BY <1>4, <2>2, <2>3, <2>4, <2>5 DEF Claimed
<1>7. new \in BatchWorker /\ new.pc = "progress"
  BY <1>1, <1>5 DEF Tally, BatchWorker
<1>8. worker' = [worker EXCEPT ![b][n] = new]
  BY <1>4
<1> HIDE DEF new
<1>9. worker'[b][n] = new /\ \A k \in Runs \ {n} : worker'[b][k] = worker[b][k]
  BY <1>1, <1>7, <1>8 DEF BatchWorkers
<1>10. RowStands(b)'
  BY <1>1, <1>3, <1>4, RowKept DEF BatchStands
<1>11. Settled(b)'
  <2>1. batch[b].state \in Bulk!Terminal => batch[b].by # n
    BY <1>1, <1>3 DEF BatchStands, Settled
  <2> QED BY <1>1, <1>3, <1>9, <2>1 DEF BatchStands, Settled
<1>12. ASSUME NEW k \in Runs PROVE InHand(b, k)'
  <2>1. CASE k = n
    BY <1>1, <1>3, <1>7, <1>9, <2>1 DEF BatchStands, RunStands, InHand
  <2>2. CASE k # n
    <3>1. InHand(b, k) /\ worker'[b][k] = worker[b][k]
      BY <1>1, <1>9, <2>2 DEF BatchStands, RunStands
    <3> QED BY <1>3, <3>1 DEF InHand
  <2> QED BY <2>1, <2>2
<1> QED BY <1>1, <1>3, <1>4, <1>5, <1>6, <1>7, <1>8, <1>10, <1>11, <1>12, RunSteps

LEMMA BulkStep ==
  ASSUME BulkInv, Bulk!Next
  PROVE  BulkInv'
<1>1. CASE Bulk!RequestBatch
  BY <1>1, CreateStands DEF Bulk!RequestBatch
<1>2. CASE Bulk!LoadCandidates
  <2>1. UNCHANGED <<parcel, batch, worker>>
    BY <1>2 DEF Bulk!LoadCandidates
  <2>2. ParcelsStand' /\ Credited
    BY <2>1, ParcelsKept DEF BulkInv
  <2> QED BY <2>1, <2>2, BatchesKept
<1>3. ASSUME NEW b \in Batches, Bulk!RetryFailed(b) PROVE BulkInv'
  BY <1>3, RetryStands
<1>4. ASSUME NEW b \in Batches, NEW n \in Runs,
             \/ Bulk!StartBatch(b, n) \/ Bulk!WriteProgress(b, n) \/ Bulk!FinishBatch(b, n)
             \/ Bulk!BatchThrows(b, n) \/ Bulk!BatchDies(b, n) \/ Bulk!BatchStalls(b, n)
             \/ \E o \in batch[b].orders : Bulk!ProcessOneOrder(b, n, o)
      PROVE  BulkInv'
  BY <1>4, StartStands, ProgressStands, FinishStands, BreaksStand, StallsStand, ProcessStands
<1>5. ASSUME NEW o \in Processes, Bulk!MemberBooks(o) \/ Bulk!CourierRefuses(o) \/ Bulk!SweepOne(o)
      PROVE  BulkInv'
  BY <1>5, OrderStepsStand
<1> QED BY <1>1, <1>2, <1>3, <1>4, <1>5 DEF Bulk!Next

LEMMA BulkInitially ==
  ASSUME Bulk!Init
  PROVE  BulkInv
<1> DEFINE draft == [state |-> "DRAFT", by |-> {}, queued |-> 0, refused |-> 0]
<1>1. draft \in Parcel /\ draft.state = "DRAFT" /\ draft.queued = 0 /\ draft.refused = 0
  BY DEF Parcel, Bulk!Bookable
<1>2. parcel = [o \in Processes |-> draft]
  BY DEF Bulk!Init
<1> HIDE DEF draft
<1>3. ParcelsStand
  BY <1>1, <1>2 DEF ParcelsStand, QueuedBound
<1>4. /\ Bulk!NoBatch \in BatchRow /\ Bulk!NoBatch.state = "NONE" /\ Bulk!NoBatch.results = <<>>
      /\ Bulk!NoBatch.succeeded = 0 /\ Bulk!NoBatch.failed = 0
  BY NoBatchIsRow
<1>5. worker \in BatchWorkers /\ \A b \in Batches, n \in Runs : worker[b][n] = Bulk!Idle
  BY IdleIsWorker DEF Bulk!Init, BatchWorkers
<1>6. ASSUME NEW b \in Batches PROVE BatchStands(b)
  <2>1. batch[b] = Bulk!NoBatch
    BY DEF Bulk!Init
  <2>2. RowStands(b)
    BY <1>4, <2>1, EmptyTally DEF RowStands, Claims
  <2>3. ASSUME NEW n \in Runs PROVE RunStands(b, n)
    BY <1>5, IdleIsWorker, EmptyTally DEF RunStands, InHand, Claims
  <2>4. Settled(b)
    BY <1>4, <2>1 DEF Settled, Bulk!Terminal
  <2> QED BY <2>2, <2>3, <2>4 DEF BatchStands
<1> QED BY <1>3, <1>4, <1>5, <1>6 DEF Bulk!Init, BulkInv

LEMMA BulkStays ==
  ASSUME BulkInv, UNCHANGED bulkVars
  PROVE  BulkInv'
BY ParcelsKept, BatchesKept DEF BulkInv, bulkVars

\* bulk-booking.service.ts, booking.service.ts: for any orders, batches, members,
\* sweeps, deaths, refusals and redeliveries, those beside a run that only lost its
\* lock included, an order is queued again only after its courier refused it, and
\* what a batch reports is so and adds up.  A settled batch reports each of its
\* orders unless a run other than the one that settled it has since written its own
\* progress over the row.
THEOREM BulkAddsUp == Spec => []BulkStands
<1>1. Init => BulkInv
  BY BulkInitially DEF Init
<1>2. BulkInv /\ [Next]_connectionsVars => BulkInv'
  <2> SUFFICES ASSUME BulkInv, [Next]_connectionsVars PROVE BulkInv'
    OBVIOUS
  <2>1. CASE Bulk!Next
    BY <2>1, BulkStep
  <2>2. CASE UNCHANGED bulkVars
    BY <2>2, BulkStays
  <2> QED BY <2>1, <2>2 DEF Next, connectionsVars
<1>3. BulkInv => BulkStands
  <2> SUFFICES ASSUME BulkInv PROVE Bulk!BulkStands
    BY DEF BulkStands
  <2>1. Bulk!QueuedOnce
    <3> SUFFICES ASSUME NEW o \in Processes PROVE parcel[o].queued <= 1 + parcel[o].refused
      BY DEF Bulk!QueuedOnce
    <3>1. parcel[o].queued \in Nat /\ parcel[o].refused \in Nat /\ QueuedBound(o)
      BY DEF BulkInv, ParcelsStand, Parcel
    <3> QED BY <3>1 DEF QueuedBound
  <2>2. \A S : Bulk!Cardinality(S) = Cardinality(S)
    BY Zenon DEF Bulk!Cardinality, Cardinality
  <2>3. Bulk!ReportsAddUp
    BY <2>2 DEF Bulk!ReportsAddUp, Bulk!Overwritten, BulkInv, BatchStands, RowStands, Tally, Claims, Settled
  <2> QED BY <2>1, <2>3 DEF Bulk!BulkStands
<1> QED BY <1>1, <1>2, <1>3, PTL DEF Spec, connectionsVars

----------------------------------------------------------------------------
(* Catalogue.  Only the holder of the courier row inserts a starter and    *)
(* only the holder of the card a tariff, each after it has looked.         *)

VersionRow == [kind : {"service", "tariff", "zones"}, from : Nat, upto : Nat, terms : Nat, seeded : BOOLEAN,
               sealed : BOOLEAN, ver : Nat, asSealed : Nat]
CatalogueTask == [pc : {"free", "seed", "upsert", "ask", "insert", "book"}, ref : Int, saw : Nat, from : Nat, upto : Nat]

CatalogueTypes ==
  /\ rows \in Seq(VersionRow)
  /\ seeded \in [code : Couriers, release : Nat] /\ card \in Nat
  /\ lock \in [courier : SUBSET Processes, card : SUBSET Processes]
  /\ task \in [Processes -> CatalogueTask]
  /\ DOMAIN known = Master!Texts

\* The rows: a starter is the one seeded, and no two tariffs overlap.
RowsStand ==
  /\ Master!SealedStands
  /\ \A i \in DOMAIN rows : rows[i].seeded => rows[i].kind = "service" /\ rows[i].from = 1
  /\ \A i, j \in DOMAIN rows : rows[i].seeded /\ rows[j].seeded => i = j
  /\ \A i, j \in DOMAIN rows :
       rows[i].kind = "tariff" /\ rows[j].kind = "tariff" /\ i # j
         => ~Master!Overlaps(i, rows[j].from, rows[j].upto)
\* The holders of the two locks, and what each has seen.
HoldersStand ==
  /\ \A t \in Processes : task[t].pc \in {"seed", "upsert"} => lock.courier = {t}
  /\ \A t \in Processes : task[t].pc = "upsert" /\ task[t].ref = 0 => ~Master!Exists
  /\ \A t \in Processes : task[t].pc = "insert" =>
       /\ lock.card = {t}
       /\ \A i \in Master!Ids("tariff") : ~Master!Overlaps(i, task[t].from, task[t].upto)
StatusesStand == Master!Exists => \A text \in Master!Endings : known[text] = text \/ text \in edited

CatalogueInv == CatalogueTypes /\ RowsStand /\ HoldersStand /\ StatusesStand

LEMMA RowIs ==
  ASSUME CatalogueTypes, NEW i \in DOMAIN rows
  PROVE  /\ rows[i] \in VersionRow /\ i \in Nat
         /\ rows[i].from \in Nat /\ rows[i].upto \in Nat /\ rows[i].terms \in Nat
<1>1. rows \in Seq(VersionRow)
  BY DEF CatalogueTypes
<1>2. rows[i] \in VersionRow /\ i \in Nat
  BY <1>1
<1> QED BY <1>2 DEF VersionRow

\* Sealing keeps a row's days.
LEMMA SealedRow ==
  ASSUME NEW r \in VersionRow, r.sealed => r.terms = r.asSealed
  PROVE  /\ Master!Sealed(r) \in VersionRow
         /\ Master!Sealed(r).kind = r.kind /\ Master!Sealed(r).from = r.from /\ Master!Sealed(r).upto = r.upto
         /\ Master!Sealed(r).seeded = r.seeded
         /\ Master!Sealed(r).terms = Master!Sealed(r).asSealed
<1>1. CASE r.sealed
  BY <1>1 DEF Master!Sealed
<1>2. CASE ~r.sealed
  <2> DEFINE v == r.ver + 1
             w == r.terms
  <2>1. Master!Sealed(r) = [r EXCEPT !.sealed = TRUE, !.ver = v, !.asSealed = w]
    BY <1>2 DEF Master!Sealed
  <2>2. v \in Nat /\ w \in Nat /\ w = r.terms
    BY DEF VersionRow
  <2> HIDE DEF v, w
  <2> QED BY <2>1, <2>2 DEF VersionRow
<1> QED BY <1>1, <1>2

\* A step that keeps the kind and the days of every row.
SameDays ==
  /\ rows' \in Seq(VersionRow) /\ DOMAIN rows' = DOMAIN rows
  /\ \A i \in DOMAIN rows :
       /\ rows'[i].kind = rows[i].kind /\ rows'[i].from = rows[i].from /\ rows'[i].upto = rows[i].upto
       /\ rows'[i].seeded = rows[i].seeded
       /\ rows'[i].sealed => rows'[i].terms = rows'[i].asSealed

LEMMA SameDaysKept ==
  ASSUME RowsStand, SameDays
  PROVE  /\ RowsStand' /\ (Master!Exists' <=> Master!Exists)
         /\ Master!Ids("tariff")' = Master!Ids("tariff")
         /\ \A i \in DOMAIN rows : \A from, upto : Master!Overlaps(i, from, upto)' <=> Master!Overlaps(i, from, upto)
<1>1. \A i \in DOMAIN rows : \A from, upto : Master!Overlaps(i, from, upto)' <=> Master!Overlaps(i, from, upto)
  BY DEF SameDays, Master!Overlaps, Master!UptoOf
<1>2. (Master!Exists' <=> Master!Exists) /\ Master!Ids("tariff")' = Master!Ids("tariff")
  BY DEF SameDays, Master!Exists, Master!Ids
<1>3. RowsStand'
  <2>1. Master!SealedStands'
    BY DEF SameDays, Master!SealedStands
  <2>2. /\ \A i \in DOMAIN rows' : rows'[i].seeded => rows'[i].kind = "service" /\ rows'[i].from = 1
        /\ \A i, j \in DOMAIN rows' : rows'[i].seeded /\ rows'[j].seeded => i = j
    BY DEF SameDays, RowsStand
  <2>3. \A i, j \in DOMAIN rows' :
          rows'[i].kind = "tariff" /\ rows'[j].kind = "tariff" /\ i # j
            => ~Master!Overlaps(i, rows[j].from, rows[j].upto)'
    BY <1>1 DEF SameDays, RowsStand
  <2> QED BY <2>1, <2>2, <2>3 DEF RowsStand
<1> QED BY <1>1, <1>2, <1>3

LEMMA SameRows ==
  ASSUME CatalogueInv, rows' = rows
  PROVE  SameDays
BY DEF CatalogueInv, CatalogueTypes, RowsStand, Master!SealedStands, SameDays

\* A step that appends a version.
LEMMA AppendKept ==
  ASSUME CatalogueTypes, RowsStand, NEW new \in VersionRow, rows' = Append(rows, new), ~new.sealed,
         new.seeded => ~Master!Exists /\ new.kind = "service" /\ new.from = 1,
         new.kind = "tariff" => \A i \in Master!Ids("tariff") : ~Master!Overlaps(i, new.from, new.upto)
  PROVE  /\ RowsStand' /\ (Master!Exists' <=> Master!Exists \/ new.seeded) /\ rows' \in Seq(VersionRow)
         /\ new.kind # "tariff" => Master!Ids("tariff")' = Master!Ids("tariff")
         /\ \A i \in DOMAIN rows : \A from, upto : Master!Overlaps(i, from, upto)' <=> Master!Overlaps(i, from, upto)
<1> DEFINE n == Len(rows) + 1
<1>1. /\ rows \in Seq(VersionRow) /\ Len(rows) \in Nat /\ DOMAIN rows = 1 .. Len(rows)
  BY DEF CatalogueTypes
<1>2. /\ rows' \in Seq(VersionRow) /\ DOMAIN rows' = 1 .. n /\ rows'[n] = new
      /\ \A i \in 1 .. Len(rows) : rows'[i] = rows[i]
  BY <1>1
<1>3. DOMAIN rows' = DOMAIN rows \cup {n} /\ n \notin DOMAIN rows
  BY <1>1, <1>2
<1> HIDE DEF n
<1>4. \A i \in DOMAIN rows : rows'[i] = rows[i]
  BY <1>1, <1>2
<1>5. \A i \in DOMAIN rows : \A from, upto : Master!Overlaps(i, from, upto)' <=> Master!Overlaps(i, from, upto)
  BY <1>4 DEF Master!Overlaps, Master!UptoOf
<1>6. (Master!Exists' <=> Master!Exists \/ new.seeded)
      /\ (new.kind # "tariff" => Master!Ids("tariff")' = Master!Ids("tariff"))
  BY <1>2, <1>3, <1>4 DEF Master!Exists, Master!Ids
<1>7. Master!SealedStands'
  BY <1>2, <1>3, <1>4 DEF Master!SealedStands, RowsStand
<1>8. /\ \A i \in DOMAIN rows' : rows'[i].seeded => rows'[i].kind = "service" /\ rows'[i].from = 1
      /\ \A i, j \in DOMAIN rows' : rows'[i].seeded /\ rows'[j].seeded => i = j
  BY <1>2, <1>3, <1>4 DEF Master!Exists, RowsStand
<1>9. ASSUME NEW i \in DOMAIN rows', NEW j \in DOMAIN rows',
             rows'[i].kind = "tariff", rows'[j].kind = "tariff", i # j
      PROVE  ~Master!Overlaps(i, rows[j].from, rows[j].upto)'
  <2>1. CASE i \in DOMAIN rows /\ j \in DOMAIN rows
    BY <1>4, <1>5, <1>9, <2>1 DEF RowsStand
  <2>2. CASE j = n /\ i \in DOMAIN rows
    <3>1. i \in Master!Ids("tariff") /\ new.kind = "tariff"
      BY <1>2, <1>4, <1>9, <2>2 DEF Master!Ids
    <3>2. ~Master!Overlaps(i, new.from, new.upto)
      BY <3>1
    <3> QED BY <1>2, <1>5, <2>2, <3>2
  <2>3. CASE i = n /\ j \in DOMAIN rows
    <3>1. j \in Master!Ids("tariff") /\ new.kind = "tariff"
      BY <1>2, <1>4, <1>9, <2>3 DEF Master!Ids
    <3>2. ~Master!Overlaps(j, new.from, new.upto)
      BY <3>1
    <3>3. rows[j].from \in Nat /\ rows[j].upto \in Nat /\ new.from \in Nat /\ new.upto \in Nat
      BY <2>3, RowIs DEF VersionRow
    <3>4. rows'[i] = new /\ rows'[j] = rows[j]
      BY <1>2, <1>4, <2>3
    <3> QED BY <3>2, <3>3, <3>4 DEF Master!Overlaps, Master!UptoOf, Master!Forever
  <2> QED BY <1>3, <1>9, <2>1, <2>2, <2>3
<1> QED BY <1>2, <1>5, <1>6, <1>7, <1>8, <1>9 DEF RowsStand

\* What the other tasks hold and have seen, after a step of task t that leaves
\* the rows' days alone and ends or begins with r.
LEMMA HoldersKept ==
  ASSUME CatalogueInv, SameDays, NEW t \in Processes, NEW r \in CatalogueTask, task' = [task EXCEPT ![t] = r],
         lock' = lock,
         r.pc \in {"free", "ask", "book"} \/ (r.pc = "upsert" /\ task[t].pc = "seed" /\ (r.ref = 0 => ~Master!Exists))
  PROVE  HoldersStand'
<1>1. task \in [Processes -> CatalogueTask] /\ HoldersStand
  BY DEF CatalogueInv, CatalogueTypes
<1>2. task'[t] = r /\ \A u \in Processes \ {t} : task'[u] = task[u]
  BY <1>1
<1>3. /\ Master!Exists' <=> Master!Exists
      /\ Master!Ids("tariff")' = Master!Ids("tariff")
      /\ \A i \in DOMAIN rows : \A from, upto : Master!Overlaps(i, from, upto)' <=> Master!Overlaps(i, from, upto)
  BY SameDaysKept DEF CatalogueInv
<1>4. \A u \in Processes : task'[u].pc \in {"seed", "upsert"} => lock'.courier = {u}
  BY <1>1, <1>2 DEF HoldersStand
<1>5. \A u \in Processes : task'[u].pc = "upsert" /\ task'[u].ref = 0 => ~Master!Exists'
  BY <1>1, <1>2, <1>3 DEF HoldersStand
<1>6. ASSUME NEW u \in Processes, task'[u].pc = "insert"
      PROVE  /\ lock'.card = {u}
             /\ \A i \in Master!Ids("tariff")' : ~Master!Overlaps(i, task[u].from, task[u].upto)'
  <2>1. task'[u] = task[u] /\ task[u].pc = "insert"
    BY <1>2, <1>6
  <2>2. /\ lock.card = {u}
        /\ \A i \in Master!Ids("tariff") : ~Master!Overlaps(i, task[u].from, task[u].upto)
    BY <1>1, <2>1 DEF HoldersStand
  <2>3. \A i \in Master!Ids("tariff") : i \in DOMAIN rows
    BY DEF Master!Ids
  <2> QED BY <1>3, <2>1, <2>2, <2>3
<1> QED BY <1>4, <1>5, <1>6 DEF HoldersStand

LEMMA FreeIsTask == Master!Free \in CatalogueTask /\ Master!Free.pc = "free"
BY DEF Master!Free, CatalogueTask

\* The steps that write neither rows, statuses nor locks.
LEMMA TaskSteps ==
  ASSUME CatalogueInv, NEW t \in Processes,
         Master!ReadStarter(t) \/ Master!AskVersion(t) \/ Master!ReadVersions(t)
  PROVE  CatalogueInv'
<1> DEFINE starters == {i \in Master!Ids("service") : rows[i].from = 1}
           first == CHOOSE i \in starters : \A j \in starters : i <= j
           ref == IF starters = {} THEN 0 ELSE IF rows[first].sealed THEN -1 ELSE first
<1>1. UNCHANGED <<seeded, lock, rows, card, known, edited>>
  BY DEF Master!ReadStarter, Master!AskVersion, Master!ReadVersions
<1>2. CatalogueTypes /\ task \in [Processes -> CatalogueTask] /\ task[t] \in CatalogueTask
  BY DEF CatalogueInv, CatalogueTypes
<1>3. SameDays
  BY <1>1, SameRows
<1>4. \E r \in CatalogueTask :
        /\ task' = [task EXCEPT ![t] = r]
        /\ r.pc \in {"free", "ask", "book"} \/ (r.pc = "upsert" /\ task[t].pc = "seed" /\ (r.ref = 0 => ~Master!Exists))
  <2>1. CASE Master!ReadStarter(t)
    <3>1. ref \in Int
      <4>1. starters \in SUBSET Nat
        BY <1>2, RowIs DEF Master!Ids
      <4>2. starters # {} => first \in starters
        <5> HIDE DEF starters
        <5> QED BY <4>1, LeastExists
      <4>3. starters # {} => first \in Int
        BY <4>1, <4>2
      <4> HIDE DEF starters, first
      <4>4. ref = 0 \/ ref = -1 \/ (starters # {} /\ ref = first)
        BY Zenon
      <4> QED BY <4>3, <4>4
    <3>2. ref = 0 => ~Master!Exists
      <4>1. Master!Exists => starters # {}
        BY DEF Master!Exists, Master!Ids, CatalogueInv, RowsStand
      <4>2. starters # {} => ref # 0
        <5>1. starters # {} => first \in starters
          <6>1. starters \in SUBSET Nat
            BY <1>2, RowIs DEF Master!Ids
          <6> HIDE DEF starters
          <6> QED BY <6>1, LeastExists
        <5>2. starters \subseteq DOMAIN rows /\ 0 \notin DOMAIN rows
          BY <1>2 DEF Master!Ids, CatalogueTypes
        <5> HIDE DEF starters, first
        <5> QED BY <5>1, <5>2
      <4> HIDE DEF starters, ref
      <4> QED BY <4>1, <4>2
    <3>3. task' = [task EXCEPT ![t].pc = "upsert", ![t].ref = ref] /\ task[t].pc = "seed"
      BY <2>1, Zenon DEF Master!ReadStarter
    <3> HIDE DEF ref
    <3> DEFINE r == [task[t] EXCEPT !.pc = "upsert", !.ref = ref]
    <3>4. task' = [task EXCEPT ![t] = r]
      BY <1>2, <3>3
    <3>5. r \in CatalogueTask /\ r.pc = "upsert" /\ r.ref = ref
      BY <1>2, <3>1 DEF CatalogueTask
    <3> HIDE DEF r
    <3> QED BY <3>2, <3>3, <3>4, <3>5
  <2>2. CASE Master!AskVersion(t)
    <3> DEFINE r == [Master!Free EXCEPT !.pc = "ask", !.saw = card]
    <3>1. r \in CatalogueTask /\ r.pc = "ask"
      BY <1>2, FreeIsTask DEF CatalogueTask, CatalogueTypes
    <3>2. task' = [task EXCEPT ![t] = r]
      BY <2>2, Zenon DEF Master!AskVersion, Master!Begin
    <3> HIDE DEF r
    <3> QED BY <3>1, <3>2
  <2>3. CASE Master!ReadVersions(t)
    <3>1. PICK day \in 1 .. LastDay : \E i \in Master!Current(day) :
            task' = [task EXCEPT ![t] = [Master!Free EXCEPT !.pc = "book", !.ref = i, !.saw = rows[i].terms, !.from = day]]
      BY <2>3, Zenon DEF Master!ReadVersions, Master!Begin
    <3>2. PICK i \in Master!Current(day) :
            task' = [task EXCEPT ![t] = [Master!Free EXCEPT !.pc = "book", !.ref = i, !.saw = rows[i].terms, !.from = day]]
      BY <3>1
    <3> DEFINE terms == rows[i].terms
    <3>3. i \in Nat /\ day \in Nat /\ terms \in Nat
      BY <1>2, RowIs, ConnectionsAssumption DEF Master!Current, Master!Ids
    <3> DEFINE r == [Master!Free EXCEPT !.pc = "book", !.ref = i, !.saw = terms, !.from = day]
    <3>5. task' = [task EXCEPT ![t] = r]
      BY <3>2
    <3> HIDE DEF terms
    <3>4. r \in CatalogueTask /\ r.pc = "book"
      <4>1. i \in Int
        BY <3>3
      <4> QED BY <3>3, <4>1 DEF CatalogueTask, Master!Free
    <3> HIDE DEF r
    <3> QED BY <3>4, <3>5
  <2> QED BY <2>1, <2>2, <2>3
<1>5. HoldersStand'
  BY <1>1, <1>3, <1>4, HoldersKept
<1>6. CatalogueTypes'
  BY <1>1, <1>2, <1>4 DEF CatalogueTypes
<1>7. RowsStand' /\ StatusesStand'
  BY <1>1, <1>3, SameDaysKept DEF CatalogueInv, StatusesStand
<1> QED BY <1>5, <1>6, <1>7 DEF CatalogueInv

\* What a task may have looked at is as it was.
Looks ==
  /\ Master!Ids("tariff")' = Master!Ids("tariff")
  /\ \A i \in DOMAIN rows : \A from, upto : Master!Overlaps(i, from, upto)' <=> Master!Overlaps(i, from, upto)

LEMMA InsertLooksKept ==
  ASSUME Looks, NEW u, \A i \in Master!Ids("tariff") : ~Master!Overlaps(i, task[u].from, task[u].upto),
         task'[u] = task[u]
  PROVE  \A i \in Master!Ids("tariff")' : ~Master!Overlaps(i, task[u].from, task[u].upto)'
<1>1. \A i \in Master!Ids("tariff") : i \in DOMAIN rows
  BY DEF Master!Ids
<1> QED BY <1>1 DEF Looks

\* Steps of no task.
LEMMA HoldersSame ==
  ASSUME CatalogueInv, Looks, Master!Exists' <=> Master!Exists, task' = task, lock' = lock
  PROVE  HoldersStand'
<1>1. HoldersStand
  BY DEF CatalogueInv
<1>2. ASSUME NEW u \in Processes, task'[u].pc = "insert"
      PROVE  /\ lock'.card = {u}
             /\ \A i \in Master!Ids("tariff")' : ~Master!Overlaps(i, task[u].from, task[u].upto)'
  BY <1>1, <1>2, InsertLooksKept DEF HoldersStand
<1> QED BY <1>1, <1>2 DEF HoldersStand

\* A seed's transaction begins or ends: nobody else holds the courier row.
LEMMA SeedTurns ==
  ASSUME CatalogueInv, Looks, NEW t \in Processes, NEW r \in CatalogueTask, task' = [task EXCEPT ![t] = r],
         lock'.card = lock.card, task[t].pc # "insert",
         \/ lock.courier = {} /\ lock'.courier = {t} /\ r.pc = "seed" /\ (Master!Exists' <=> Master!Exists)
         \/ lock.courier = {t} /\ r.pc = "free"
  PROVE  HoldersStand'
<1>1. task \in [Processes -> CatalogueTask] /\ HoldersStand
  BY DEF CatalogueInv, CatalogueTypes
<1>2. task'[t] = r /\ \A u \in Processes \ {t} : task'[u] = task[u]
  BY <1>1
<1>3. \A u \in Processes \ {t} : task[u].pc \notin {"seed", "upsert"}
  BY <1>1 DEF HoldersStand
<1>4. ASSUME NEW u \in Processes, task'[u].pc = "insert"
      PROVE  /\ lock'.card = {u}
             /\ \A i \in Master!Ids("tariff")' : ~Master!Overlaps(i, task[u].from, task[u].upto)'
  <2>1. task'[u] = task[u]
    BY <1>2, <1>4
  <2> QED BY <1>1, <1>4, <2>1, InsertLooksKept DEF HoldersStand
<1> QED BY <1>2, <1>3, <1>4 DEF HoldersStand

LEMMA SameDaysLook ==
  ASSUME CatalogueInv, SameDays
  PROVE  Looks /\ RowsStand' /\ (Master!Exists' <=> Master!Exists)
BY SameDaysKept DEF CatalogueInv, Looks

LEMMA BeginSeedStands ==
  ASSUME CatalogueInv, NEW t \in Processes, Master!BeginSeed(t)
  PROVE  CatalogueInv'
<1> DEFINE r == [Master!Free EXCEPT !.pc = "seed", !.saw = seeded.release]
<1>1. CatalogueTypes /\ task[t].pc = "free"
  BY FreeIsTask DEF CatalogueInv, Master!BeginSeed
<1>2. r \in CatalogueTask /\ r.pc = "seed"
  BY <1>1, FreeIsTask DEF CatalogueTypes, CatalogueTask
<1>3. /\ task' = [task EXCEPT ![t] = r] /\ UNCHANGED <<seeded, rows, card, known, edited>>
      /\ lock.courier = {} /\ lock' = [lock EXCEPT !.courier = @ \cup {t}]
  BY Zenon DEF Master!BeginSeed, Master!Begin, Master!RowFree
<1> HIDE DEF r
<1>4. lock'.courier = {t} /\ lock'.card = lock.card /\ lock' \in [courier : SUBSET Processes, card : SUBSET Processes]
  BY <1>1, <1>3 DEF CatalogueTypes
<1>5. Looks /\ RowsStand' /\ (Master!Exists' <=> Master!Exists)
  BY <1>3, SameRows, SameDaysLook
<1>6. HoldersStand'
  BY <1>1, <1>2, <1>3, <1>4, <1>5, SeedTurns
<1>7. CatalogueTypes' /\ StatusesStand'
  BY <1>1, <1>2, <1>3, <1>4, <1>5 DEF CatalogueInv, CatalogueTypes, StatusesStand
<1> QED BY <1>5, <1>6, <1>7 DEF CatalogueInv

LEMMA FinishSeedStands ==
  ASSUME CatalogueInv, NEW t \in Processes, NEW statuses, Master!Endings \subseteq statuses,
         Master!FinishSeed(t, statuses)
  PROVE  CatalogueInv'
<1> DEFINE i == task[t].ref
           saw == task[t].saw
           new == [kind |-> "service", from |-> 1, upto |-> 0, terms |-> saw, seeded |-> TRUE,
                   sealed |-> FALSE, ver |-> 1, asSealed |-> 0]
<1>1. /\ CatalogueTypes /\ RowsStand /\ HoldersStand /\ StatusesStand
      /\ task[t].pc = "upsert" /\ lock.courier = {t} /\ i \in Int /\ saw \in Nat
  BY DEF CatalogueInv, CatalogueTypes, HoldersStand, Master!FinishSeed, CatalogueTask
<1>2. /\ task' = [task EXCEPT ![t] = Master!Free] /\ lock' = [lock EXCEPT !.courier = @ \ {t}]
      /\ seeded' = seeded /\ card' = card
  BY DEF Master!FinishSeed, Master!End
<1>3. lock'.card = lock.card /\ lock' \in [courier : SUBSET Processes, card : SUBSET Processes]
  BY <1>1, <1>2 DEF CatalogueTypes
<1>4. \/ UNCHANGED <<rows, known, edited>>
      \/ /\ known' = [text \in Master!Texts |-> IF text \in statuses THEN text ELSE known[text]]
         /\ edited' = edited \ statuses
         /\ \/ i = 0 /\ rows' = Append(rows, new)
            \/ i > 0 /\ ~rows[i].sealed /\ rows' = [rows EXCEPT ![i].terms = saw]
            \/ rows' = rows
  BY Zenon DEF Master!FinishSeed, Master!Guarded, Master!NewRow
<1>5. Looks /\ RowsStand' /\ rows' \in Seq(VersionRow)
  <2>1. CASE rows' = rows
    BY <1>1, <2>1, SameRows, SameDaysLook DEF CatalogueTypes
  <2>2. CASE i = 0 /\ rows' = Append(rows, new)
    <3>1. ~Master!Exists
      BY <1>1, <2>2 DEF HoldersStand
    <3>2. new \in VersionRow /\ new.kind = "service" /\ new.from = 1 /\ ~new.sealed
      <4> HIDE DEF saw
      <4> QED BY <1>1 DEF VersionRow
    <3> HIDE DEF new, i
    <3> QED BY <1>1, <2>2, <3>1, <3>2, AppendKept DEF Looks
  <2>3. CASE i > 0 /\ ~rows[i].sealed /\ rows' = [rows EXCEPT ![i].terms = saw]
    <3>1. SameDays
      <4>1. rows \in Seq(VersionRow) /\ \A j \in DOMAIN rows : rows[j] \in VersionRow
        BY <1>1, RowIs DEF CatalogueTypes
      <4> DEFINE revised == [rows[i] EXCEPT !.terms = saw]
      <4>2. rows' = [rows EXCEPT ![i] = revised]
        BY <2>3
      <4>3. CASE i \in DOMAIN rows
        <5> HIDE DEF saw
        <5>1. /\ revised \in VersionRow /\ revised.kind = rows[i].kind /\ revised.from = rows[i].from
              /\ revised.upto = rows[i].upto /\ revised.seeded = rows[i].seeded /\ revised.sealed = rows[i].sealed
          BY <1>1, <4>1, <4>3 DEF VersionRow
        <5> HIDE DEF revised, i
        <5>2. /\ rows' \in Seq(VersionRow) /\ DOMAIN rows' = DOMAIN rows /\ rows'[i] = revised
              /\ \A j \in DOMAIN rows \ {i} : rows'[j] = rows[j]
          BY <4>1, <4>2, <4>3, <5>1
        <5> QED BY <1>1, <2>3, <5>1, <5>2 DEF SameDays, RowsStand, Master!SealedStands
      <4>4. CASE i \notin DOMAIN rows
        <5>1. rows' = rows
          <6> HIDE DEF i, revised
          <6>1. rows = [j \in DOMAIN rows |-> rows[j]]
            BY <4>1
          <6> QED BY <4>2, <4>4, <6>1
        <5> QED BY <5>1, SameRows
      <4> QED BY <4>3, <4>4
    <3>2. rows' \in Seq(VersionRow)
      BY <3>1 DEF SameDays
    <3> QED BY <3>1, <3>2, SameDaysLook
  <2> QED BY <1>4, <2>1, <2>2, <2>3
<1>6. HoldersStand'
  BY <1>1, <1>2, <1>3, <1>5, FreeIsTask, SeedTurns
<1>7. StatusesStand'
  <2>1. CASE UNCHANGED <<rows, known, edited>>
    BY <1>1, <2>1 DEF StatusesStand, Master!Exists
  <2>2. CASE known' = [text \in Master!Texts |-> IF text \in statuses THEN text ELSE known[text]]
    <3>1. Master!Endings \subseteq Master!Texts
      BY DEF Master!Endings, Master!Texts, Master!Forward
    <3> QED BY <2>2, <3>1 DEF StatusesStand
  <2> QED BY <1>4, <2>1, <2>2
<1>8. CatalogueTypes'
  <2>1. DOMAIN known' = Master!Texts
    BY <1>1, <1>4 DEF CatalogueTypes
  <2> QED BY <1>1, <1>2, <1>3, <1>5, <2>1, FreeIsTask DEF CatalogueTypes
<1> QED BY <1>5, <1>6, <1>7, <1>8 DEF CatalogueInv

LEMMA SeedsStand ==
  ASSUME CatalogueInv, NEW t \in Processes,
         \/ Master!RunDelhiverySeed(t) \/ Master!RunShiprocketSeed(t) \/ Master!RunBluedartSeed(t)
         \/ Master!RunAmazonShippingSeed(t) \/ Master!RunXpressbeesSeed(t) \/ Master!RunDtdcSeed(t)
         \/ Master!RunShadowfaxSeed(t)
  PROVE  CatalogueInv'
<1>1. ASSUME NEW s \in {Master!DelhiveryStatuses, Master!ShiprocketStatuses, Master!BluedartStatuses,
                        Master!AmazonStatuses, Master!XpressbeesStatuses, Master!DtdcStatuses,
                        Master!ShadowfaxStatuses}
      PROVE  Master!Endings \subseteq s
  BY DEF Master!Endings, Master!Forward, Master!DelhiveryStatuses, Master!ShiprocketStatuses,
         Master!BluedartStatuses, Master!AmazonStatuses, Master!XpressbeesStatuses, Master!DtdcStatuses,
         Master!ShadowfaxStatuses
<1>2. \E s \in {Master!DelhiveryStatuses, Master!ShiprocketStatuses, Master!BluedartStatuses,
                Master!AmazonStatuses, Master!XpressbeesStatuses, Master!DtdcStatuses,
                Master!ShadowfaxStatuses} : Master!FinishSeed(t, s)
  BY Zenon DEF Master!RunDelhiverySeed, Master!RunShiprocketSeed, Master!RunBluedartSeed,
         Master!RunAmazonShippingSeed, Master!RunXpressbeesSeed, Master!RunDtdcSeed, Master!RunShadowfaxSeed
<1> QED BY <1>1, <1>2, FinishSeedStands

LEMMA NewRowStands ==
  ASSUME CatalogueInv, NEW kind \in {"service", "zones"}, NEW from \in Nat, NEW terms \in Nat,
         rows' = Append(rows, Master!NewRow(kind, from, 0, terms, FALSE)),
         UNCHANGED <<seeded, lock, card, known, edited, task>>
  PROVE  CatalogueInv'
<1> DEFINE new == Master!NewRow(kind, from, 0, terms, FALSE)
<1>1. new \in VersionRow /\ ~new.sealed /\ ~new.seeded /\ new.kind # "tariff"
  BY DEF Master!NewRow, VersionRow
<1> HIDE DEF new
<1>2. /\ RowsStand' /\ (Master!Exists' <=> Master!Exists) /\ rows' \in Seq(VersionRow) /\ Looks
  BY <1>1, AppendKept DEF CatalogueInv, Looks, new
<1>3. HoldersStand'
  BY <1>2, HoldersSame
<1> QED BY <1>2, <1>3 DEF CatalogueInv, CatalogueTypes, StatusesStand

LEMMA CreationsStand ==
  ASSUME CatalogueInv, NEW t \in Processes, Master!CreateServiceVersion(t) \/ Master!CreateZoneMap(t)
  PROVE  CatalogueInv'
<1>1. \A day \in 1 .. LastDay : day \in Nat
  BY ConnectionsAssumption
<1> QED BY <1>1, NewRowStands DEF Master!CreateServiceVersion, Master!CreateZoneMap

LEMMA StatusStepsStand ==
  ASSUME CatalogueInv, NEW text, NEW event,
         Master!UpsertStatusMap(text, event) \/ Master!DeleteStatusMapEntry(text)
  PROVE  CatalogueInv'
<1>1. UNCHANGED <<seeded, lock, rows, card, task>>
  BY DEF Master!UpsertStatusMap, Master!DeleteStatusMapEntry
<1>2. SameDays
  BY <1>1, SameRows
<1>3. Looks /\ RowsStand' /\ (Master!Exists' <=> Master!Exists)
  BY <1>2, SameDaysLook
<1>4. HoldersStand'
  BY <1>1, <1>3, HoldersSame
<1>5. StatusesStand' /\ DOMAIN known' = Master!Texts
  <2>1. /\ CatalogueTypes /\ StatusesStand /\ edited \ {text} \subseteq edited'
        /\ \E to : known' = [known EXCEPT ![text] = to] /\ (to = text \/ text \in edited')
    BY Zenon DEF CatalogueInv, Master!UpsertStatusMap, Master!DeleteStatusMapEntry
  <2>2. PICK to : known' = [known EXCEPT ![text] = to] /\ (to = text \/ text \in edited')
    BY Zenon, <2>1
  <2>3. Master!Endings \subseteq DOMAIN known
    BY <2>1 DEF CatalogueTypes, Master!Endings, Master!Texts, Master!Forward
  <2>4. ASSUME NEW x \in Master!Endings
        PROVE  known'[x] = IF x = text THEN to ELSE known[x]
    BY <2>2, <2>3
  <2> QED BY <1>3, <2>1, <2>2, <2>4 DEF StatusesStand, CatalogueTypes
<1> QED BY <1>1, <1>3, <1>4, <1>5 DEF CatalogueInv, CatalogueTypes

LEMMA ReleaseStands ==
  ASSUME CatalogueInv, Master!Release
  PROVE  CatalogueInv'
<1> DEFINE n == seeded.release + 1
<1>1. UNCHANGED <<lock, rows, card, known, edited, task>> /\ seeded' = [seeded EXCEPT !.release = n]
  BY DEF Master!Release
<1>2. n \in Nat
  BY DEF CatalogueInv, CatalogueTypes
<1> HIDE DEF n
<1>3. Looks /\ RowsStand' /\ (Master!Exists' <=> Master!Exists)
  BY <1>1, SameRows, SameDaysLook
<1>4. HoldersStand' /\ StatusesStand'
  BY <1>1, <1>3, HoldersSame DEF CatalogueInv, StatusesStand
<1> QED BY <1>1, <1>2, <1>3, <1>4 DEF CatalogueInv, CatalogueTypes

LEMMA SealStands ==
  ASSUME CatalogueInv, NEW i \in DOMAIN rows, Master!Seal(i)
  PROVE  CatalogueInv'
<1>1. UNCHANGED <<seeded, lock, card, known, edited, task>> /\ rows' = [rows EXCEPT ![i] = Master!Sealed(rows[i])]
  BY DEF Master!Seal
<1>2. CatalogueTypes /\ rows \in Seq(VersionRow) /\ \A j \in DOMAIN rows : rows[j].sealed => rows[j].terms = rows[j].asSealed
  BY DEF CatalogueInv, CatalogueTypes, RowsStand, Master!SealedStands
<1> DEFINE new == Master!Sealed(rows[i])
<1>3. /\ new \in VersionRow /\ new.kind = rows[i].kind /\ new.from = rows[i].from /\ new.upto = rows[i].upto
      /\ new.seeded = rows[i].seeded /\ new.terms = new.asSealed
  BY <1>2, RowIs, SealedRow
<1> HIDE DEF new
<1>4. /\ rows' \in Seq(VersionRow) /\ DOMAIN rows' = DOMAIN rows /\ rows'[i] = new
      /\ \A j \in DOMAIN rows \ {i} : rows'[j] = rows[j]
  BY <1>1, <1>2, <1>3 DEF new
<1>5. SameDays
  BY <1>2, <1>3, <1>4 DEF SameDays
<1>6. Looks /\ RowsStand' /\ (Master!Exists' <=> Master!Exists)
  BY <1>5, SameDaysLook
<1>7. HoldersStand' /\ StatusesStand'
  BY <1>1, <1>6, HoldersSame DEF CatalogueInv, StatusesStand
<1> QED BY <1>1, <1>4, <1>6, <1>7 DEF CatalogueInv, CatalogueTypes

LEMMA SealReferencedStands ==
  ASSUME CatalogueInv, NEW t \in Processes, Master!SealReferenced(t)
  PROVE  CatalogueInv'
<1>1. /\ UNCHANGED <<seeded, lock, card, known, edited>> /\ task' = [task EXCEPT ![t] = Master!Free]
  BY DEF Master!SealReferenced, Master!End
<1>2. /\ CatalogueTypes /\ rows \in Seq(VersionRow) /\ task \in [Processes -> CatalogueTask]
      /\ \A j \in DOMAIN rows : rows[j].sealed => rows[j].terms = rows[j].asSealed
  BY DEF CatalogueInv, CatalogueTypes, RowsStand, Master!SealedStands
<1>3. PICK used : rows' = [j \in DOMAIN rows |-> IF j \in used THEN Master!Sealed(rows[j]) ELSE rows[j]]
  <2>1. PICK tariff : rows' = [j \in DOMAIN rows |->
                       IF j = task[t].ref \/ j \in tariff \/ (tariff # {} /\ j = 1) THEN Master!Sealed(rows[j]) ELSE rows[j]]
    BY DEF Master!SealReferenced
  <2> DEFINE used == {j \in DOMAIN rows : j = task[t].ref \/ j \in tariff \/ (tariff # {} /\ j = 1)}
  <2>2. rows' = [j \in DOMAIN rows |-> IF j \in used THEN Master!Sealed(rows[j]) ELSE rows[j]]
    BY <2>1
  <2> QED BY <2>2
<1>4. ASSUME NEW j \in DOMAIN rows
      PROVE  /\ rows'[j] \in VersionRow /\ rows'[j].kind = rows[j].kind /\ rows'[j].from = rows[j].from
             /\ rows'[j].upto = rows[j].upto /\ rows'[j].seeded = rows[j].seeded
             /\ rows'[j].sealed => rows'[j].terms = rows'[j].asSealed
  <2>1. rows'[j] = Master!Sealed(rows[j]) \/ rows'[j] = rows[j]
    BY <1>3
  <2> QED BY <1>2, <2>1, RowIs, SealedRow
<1>5. rows' \in Seq(VersionRow) /\ DOMAIN rows' = DOMAIN rows
  <2>1. Len(rows) \in Nat /\ DOMAIN rows = 1 .. Len(rows)
    BY <1>2
  <2>2. rows' \in [1 .. Len(rows) -> VersionRow]
    BY <1>3, <1>4, <2>1
  <2> QED BY <2>1, <2>2
<1>6. SameDays
  BY <1>4, <1>5 DEF SameDays
<1>7. Looks /\ RowsStand' /\ (Master!Exists' <=> Master!Exists)
  BY <1>6, SameDaysLook
<1>8. HoldersStand'
  BY <1>1, <1>6, FreeIsTask, HoldersKept
<1>9. CatalogueTypes' /\ StatusesStand'
  BY <1>1, <1>2, <1>5, <1>7, FreeIsTask DEF CatalogueInv, CatalogueTypes, StatusesStand
<1> QED BY <1>7, <1>8, <1>9 DEF CatalogueInv

LEMMA LockCardStands ==
  ASSUME CatalogueInv, NEW t \in Processes, Master!LockCard(t)
  PROVE  CatalogueInv'
<1>1. UNCHANGED <<seeded, rows, card, known, edited>> /\ lock.card = {} /\ task[t].pc = "ask"
  BY DEF Master!LockCard, Master!RowFree
<1>2. CatalogueTypes /\ HoldersStand /\ task \in [Processes -> CatalogueTask]
  BY DEF CatalogueInv, CatalogueTypes
<1>3. SameDays
  BY <1>1, SameRows
<1>4. Looks /\ RowsStand' /\ (Master!Exists' <=> Master!Exists)
  BY <1>3, SameDaysLook
<1>5. CASE task' = [task EXCEPT ![t] = Master!Free] /\ lock' = lock
  <2>1. HoldersStand'
    BY <1>3, <1>5, FreeIsTask, HoldersKept
  <2>2. CatalogueTypes' /\ StatusesStand'
    BY <1>1, <1>2, <1>4, <1>5, FreeIsTask DEF CatalogueInv, CatalogueTypes, StatusesStand
  <2> QED BY <1>4, <2>1, <2>2 DEF CatalogueInv
<1>6. ASSUME NEW from \in 1 .. LastDay, NEW upto \in (1 .. LastDay) \cup {0},
             \A i \in Master!Ids("tariff") : ~Master!Overlaps(i, from, upto),
             task' = [task EXCEPT ![t] = [Master!Free EXCEPT !.pc = "insert", !.from = from, !.upto = upto]],
             lock' = [lock EXCEPT !.card = @ \cup {t}]
      PROVE  CatalogueInv'
  <2> DEFINE r == [Master!Free EXCEPT !.pc = "insert", !.from = from, !.upto = upto]
  <2>1. from \in Nat /\ upto \in Nat
    BY ConnectionsAssumption
  <2>2. r \in CatalogueTask /\ r.pc = "insert" /\ r.from = from /\ r.upto = upto
    BY <2>1, FreeIsTask DEF CatalogueTask
  <2>3. task' = [task EXCEPT ![t] = r]
    BY <1>6
  <2> HIDE DEF r
  <2>4. task'[t] = r /\ \A u \in Processes \ {t} : task'[u] = task[u]
    BY <1>2, <2>3
  <2>5. /\ lock'.card = {t} /\ lock'.courier = lock.courier
        /\ lock' \in [courier : SUBSET Processes, card : SUBSET Processes]
    BY <1>1, <1>2, <1>6 DEF CatalogueTypes
  <2>6. \A u \in Processes \ {t} : task[u].pc # "insert"
    BY <1>1, <1>2 DEF HoldersStand
  <2>7. \A i \in Master!Ids("tariff")' : ~Master!Overlaps(i, task[t].from, task[t].upto)'
    <3>1. \A i \in Master!Ids("tariff") : i \in DOMAIN rows
      BY DEF Master!Ids
    <3> QED BY <1>4, <1>6, <2>2, <2>4, <3>1 DEF Looks
  <2>8. HoldersStand'
    BY <1>2, <1>4, <2>2, <2>4, <2>5, <2>6, <2>7 DEF HoldersStand
  <2>9. CatalogueTypes' /\ StatusesStand'
    BY <1>1, <1>2, <1>4, <2>2, <2>3, <2>5 DEF CatalogueInv, CatalogueTypes, StatusesStand
  <2> QED BY <1>4, <2>8, <2>9 DEF CatalogueInv
<1> QED BY <1>5, <1>6 DEF Master!LockCard, Master!End, Master!Begin, Master!Forever

LEMMA CreateVersionStands ==
  ASSUME CatalogueInv, NEW t \in Processes, Master!CreateVersion(t)
  PROVE  CatalogueInv'
<1> DEFINE from == task[t].from
           upto == task[t].upto
           new == Master!NewRow("tariff", from, upto, 1, FALSE)
<1>1. /\ CatalogueTypes /\ HoldersStand /\ RowsStand /\ task \in [Processes -> CatalogueTask]
      /\ task[t].pc = "insert" /\ from \in Nat /\ upto \in Nat /\ lock.card = {t} /\ card \in Nat
      /\ \A i \in Master!Ids("tariff") : ~Master!Overlaps(i, from, upto)
  BY DEF CatalogueInv, CatalogueTypes, HoldersStand, CatalogueTask, Master!CreateVersion
<1>2. /\ rows' = Append(rows, new) /\ card' = card + 1 /\ lock' = [lock EXCEPT !.card = @ \ {t}]
      /\ task' = [task EXCEPT ![t] = Master!Free] /\ UNCHANGED <<seeded, known, edited>>
  BY DEF Master!CreateVersion, Master!End
<1>3. new \in VersionRow /\ ~new.sealed /\ ~new.seeded /\ new.from = from /\ new.upto = upto
  <2> HIDE DEF from, upto
  <2> QED BY <1>1 DEF Master!NewRow, VersionRow
<1> HIDE DEF new, from, upto
<1>4. RowsStand' /\ (Master!Exists' <=> Master!Exists) /\ rows' \in Seq(VersionRow)
  BY <1>1, <1>2, <1>3, AppendKept
<1>5. /\ lock'.courier = lock.courier /\ lock' \in [courier : SUBSET Processes, card : SUBSET Processes]
  BY <1>1, <1>2 DEF CatalogueTypes
<1>6. task'[t] = Master!Free /\ \A u \in Processes \ {t} : task'[u] = task[u]
  BY <1>1, <1>2
<1>7. \A u \in Processes : task'[u].pc # "insert"
  BY <1>1, <1>6, FreeIsTask DEF HoldersStand
<1>8. HoldersStand'
  BY <1>1, <1>4, <1>5, <1>6, <1>7, FreeIsTask DEF HoldersStand
<1>9. CatalogueTypes' /\ StatusesStand'
  <2>1. task' \in [Processes -> CatalogueTask]
    BY <1>1, <1>2, FreeIsTask DEF CatalogueTypes
  <2>2. card' \in Nat
    BY <1>1, <1>2 DEF CatalogueTypes
  <2> QED BY <1>1, <1>2, <1>4, <1>5, <2>1, <2>2 DEF CatalogueTypes, CatalogueInv, StatusesStand
<1> QED BY <1>4, <1>8, <1>9 DEF CatalogueInv

LEMMA CatalogueStep ==
  ASSUME CatalogueInv, Master!Next
  PROVE  CatalogueInv'
<1>1. ASSUME NEW t \in Processes, \/ Master!BeginSeed(t) \/ Master!ReadStarter(t) \/ Master!CreateServiceVersion(t)
                                  \/ Master!AskVersion(t) \/ Master!LockCard(t) \/ Master!CreateVersion(t)
                                  \/ Master!CreateZoneMap(t) \/ Master!ReadVersions(t) \/ Master!SealReferenced(t)
      PROVE  CatalogueInv'
  BY <1>1, BeginSeedStands, TaskSteps, CreationsStand, LockCardStands, CreateVersionStands, SealReferencedStands
<1>2. ASSUME NEW t \in Processes,
             \/ Master!RunDelhiverySeed(t) \/ Master!RunShiprocketSeed(t) \/ Master!RunBluedartSeed(t)
             \/ Master!RunAmazonShippingSeed(t) \/ Master!RunXpressbeesSeed(t) \/ Master!RunDtdcSeed(t)
             \/ Master!RunShadowfaxSeed(t)
      PROVE  CatalogueInv'
  BY <1>2, SeedsStand
<1>3. ASSUME NEW i \in DOMAIN rows, Master!Seal(i) PROVE CatalogueInv'
  BY <1>3, SealStands
<1>4. CASE Master!Release
  BY <1>4, ReleaseStands
<1>5. CASE \/ \E event \in {"DELIVERED", "IN_TRANSIT"} : Master!UpsertStatusMap("DELIVERED", event)
           \/ Master!DeleteStatusMapEntry("DELIVERED")
  BY <1>5, StatusStepsStand
<1> QED BY <1>1, <1>2, <1>3, <1>4, <1>5 DEF Master!Next

LEMMA CatalogueStays ==
  ASSUME CatalogueInv, UNCHANGED catalogueVars
  PROVE  CatalogueInv'
<1>1. UNCHANGED <<seeded, lock, rows, card, known, edited, task>>
  BY DEF catalogueVars
<1>2. Looks /\ RowsStand' /\ (Master!Exists' <=> Master!Exists)
  BY <1>1, SameRows, SameDaysLook
<1>3. HoldersStand'
  BY <1>1, <1>2, HoldersSame
<1> QED BY <1>1, <1>2, <1>3 DEF CatalogueInv, CatalogueTypes, StatusesStand

LEMMA CatalogueInitially ==
  ASSUME Master!Init
  PROVE  CatalogueInv
<1> DEFINE first == Master!NewRow("zones", 1, 0, 1, FALSE)
<1>1. first \in VersionRow /\ ~first.sealed /\ ~first.seeded /\ first.kind = "zones"
  BY DEF Master!NewRow, VersionRow
<1>2. rows = <<first>>
  BY DEF Master!Init
<1> HIDE DEF first
<1>3. rows \in Seq(VersionRow) /\ DOMAIN rows = {1} /\ rows[1] = first
  BY <1>1, <1>2
<1>4. /\ seeded \in [code : Couriers, release : Nat] /\ card = 1 /\ DOMAIN known = Master!Texts
      /\ lock = [courier |-> {}, card |-> {}]
  BY DEF Master!Init
<1>5. task \in [Processes -> CatalogueTask] /\ \A t \in Processes : task[t].pc = "free"
  BY FreeIsTask DEF Master!Init
<1>6. CatalogueTypes
  BY <1>3, <1>4, <1>5 DEF CatalogueTypes
<1>7. RowsStand
  BY <1>1, <1>3 DEF RowsStand, Master!SealedStands
<1>8. HoldersStand
  BY <1>5 DEF HoldersStand
<1>9. StatusesStand
  BY <1>1, <1>3, <1>4 DEF StatusesStand, Master!Exists
<1> QED BY <1>6, <1>7, <1>8, <1>9 DEF CatalogueInv

LEMMA AtMostOne ==
  ASSUME NEW S, \A i, j \in S : i = j
  PROVE  Cardinality(S) <= 1
<1>1. CASE S = {}
  BY <1>1, FS_EmptySet
<1>2. ASSUME NEW x \in S PROVE Cardinality(S) <= 1
  <2>1. S = {x}
    OBVIOUS
  <2> QED BY <2>1, FS_Singleton
<1> QED BY <1>1, <1>2

\* rate-cards.service.ts, zone-maps.service.ts, *.seed.ts: for any couriers, days, deploys,
\* administrators, uploads and bookings at once, a sealed version keeps what it
\* says, a service has one starter, a day one rate card, and a seeded courier's
\* texts tell every ending but those an administrator deleted or remapped since.
THEOREM CataloguesStand == Spec => []CatalogueStands
<1>1. Init => CatalogueInv
  BY CatalogueInitially DEF Init
<1>2. CatalogueInv /\ [Next]_connectionsVars => CatalogueInv'
  <2> SUFFICES ASSUME CatalogueInv, [Next]_connectionsVars PROVE CatalogueInv'
    OBVIOUS
  <2>1. CASE Master!Next
    BY <2>1, CatalogueStep
  <2>2. CASE UNCHANGED catalogueVars
    BY <2>2, CatalogueStays
  <2> QED BY <2>1, <2>2 DEF Next, connectionsVars
<1>3. CatalogueInv => CatalogueStands
  <2> SUFFICES ASSUME CatalogueInv PROVE Master!CatalogueStands
    BY DEF CatalogueStands
  <2>1. \A S : Master!Cardinality(S) = Cardinality(S)
    BY Zenon DEF Master!Cardinality, Cardinality
  <2>2. Master!OneStarter
    <3> DEFINE S == {i \in DOMAIN rows : rows[i].seeded}
    <3>1. \A i, j \in S : i = j
      BY DEF CatalogueInv, RowsStand
    <3> QED BY <2>1, <3>1, AtMostOne DEF Master!OneStarter
  <2>3. Master!OneTariff
    <3> SUFFICES ASSUME NEW day \in 1 .. LastDay
                 PROVE  Cardinality(Master!InForce(day)) <= 1
      BY <2>1 DEF Master!OneTariff
    <3>1. ASSUME NEW i \in Master!InForce(day), NEW j \in Master!InForce(day) PROVE i = j
      <4>1. /\ i \in DOMAIN rows /\ rows[i].kind = "tariff" /\ j \in DOMAIN rows /\ rows[j].kind = "tariff"
            /\ rows[i].from <= day /\ (rows[i].upto = 0 \/ rows[i].upto >= day)
            /\ rows[j].from <= day /\ (rows[j].upto = 0 \/ rows[j].upto >= day)
        BY DEF Master!InForce, Master!Ids, Master!UptoOf, Master!Forever
      <4>2. /\ rows[i].from \in Nat /\ rows[i].upto \in Nat /\ rows[j].from \in Nat /\ rows[j].upto \in Nat /\ day \in Nat
        BY <4>1, RowIs, ConnectionsAssumption DEF CatalogueInv
      <4>3. Master!Overlaps(i, rows[j].from, rows[j].upto)
        BY <4>1, <4>2 DEF Master!Overlaps, Master!UptoOf, Master!Forever
      <4> QED BY <4>1, <4>3 DEF CatalogueInv, RowsStand
    <3> QED BY <3>1, AtMostOne
  <2>4. Master!SealedStands /\ Master!EndingsKnown
    BY DEF CatalogueInv, RowsStand, StatusesStand, Master!EndingsKnown
  <2> QED BY <2>2, <2>3, <2>4 DEF Master!CatalogueStands
<1> QED BY <1>1, <1>2, <1>3, PTL DEF Spec, connectionsVars

----------------------------------------------------------------------------
(* Couriers.  One call at a time may make a parcel, and its last request   *)
(* makes it; who has settled the intent knows what became of it.           *)

Harmless == {"pincode", "charges", "track", "label", "download", "pickup", "ndr"}
Bookings == {<<"waybill", "create">>, <<"order", "assign">>, <<"create">>, <<"assign">>}
Requests == Harmless \cup {"waybill", "order", "create", "assign", "search", "cancel"}
Tokens == {"none", "good", "stale"}
\* What an answer makes of a call, and what its caller is told.
CallEnds == {"AUTH", "RATE", "TIMEOUT", "PROVIDER", "LOST", "BODY", "RELOGIN", "TOKEN", "NEXT", "CONFIRMED", "FAILED",
         "CANCELLED", "REJECTED", "FOUND", "NOT_FOUND", "UNSERVED", "RATED", "UNRATED", "ACCEPTED", "DECLINED",
         "OUTCOME_UNKNOWN", "none"}
AdapterCall == [m : Adapters!Methods \cup {"none"}, left : Seq(Requests), again : BOOLEAN, token : Tokens,
                pc : {"idle", "token", "login", "send"}]

\* What is left to be sent for each method.
Sends(c) ==
  /\ c.m = "none" => c = Adapters!Resting
  /\ c.m # "none" => c.left # <<>>
  /\ c.m = "createShipment" => c.left \in Bookings
  /\ c.m = "lookupByReference" => c.left = <<"search">>
  /\ c.m = "cancelShipment" => c.left = <<"cancel">>
  /\ c.m \in Adapters!Reads => c.left \in Seq(Harmless)

AtCourier == [parcels : {0, 1}, cancelled : BOOLEAN, unread : SUBSET {"create", "assign", "cancel"}]

AdaptersTypes ==
  /\ courier \in Adapters!Names
  /\ provider \in AtCourier
  /\ creates \in [Processes -> CallEnds]
  /\ told \in [create : CallEnds, cancel : CallEnds, found : BOOLEAN]
  /\ redis \in Tokens /\ memory \in [Processes -> Tokens]
  /\ calls \in [Processes -> AdapterCall]
  /\ intent \in {"open", "asked", "settled"}
CallsStand ==
  /\ \A p \in Processes : Sends(calls[p])
  /\ \A p \in Processes : calls[p].m = "createShipment" => intent = "asked"
  /\ \A p, q \in Processes : calls[p].m = "createShipment" /\ calls[q].m = "createShipment" => p = q
OutcomesStand ==
  /\ intent # "settled" => provider.parcels = 0
  /\ \A p \in Processes :
       /\ creates[p] # "none" => intent = "settled"
       /\ creates[p] = "CONFIRMED" => provider.parcels = 1
       /\ creates[p] \in {"AUTH", "RATE"} => provider.parcels = 0
       /\ creates[p] = "FAILED" => provider.parcels = 0 \/ Adapters!FailedUnread
  /\ told.create \in {"AUTH", "RATE"} => provider.parcels = 0
  /\ told.create = "FAILED" => provider.parcels = 0 \/ Adapters!FailedUnread
  /\ told.create = "CONFIRMED" \/ told.found => provider.parcels = 1
  /\ told.cancel = "CANCELLED" => provider.cancelled \/ Adapters!CancelUnread

AdaptersInv == AdaptersTypes /\ CallsStand /\ OutcomesStand

LEMMA EndsOfAnswers ==
  ASSUME NEW a \in Adapters!Answers, NEW again \in BOOLEAN
  PROVE  /\ Adapters!EndOf(a, again) \in {"AUTH", "RATE", "TIMEOUT", "PROVIDER", "LOST", "BODY", "RELOGIN"}
         /\ Adapters!EndOf(a, again) = "BODY" <=> a \in {"done", "refused", "garbled"}
         /\ a = "timeout" => Adapters!EndOf(a, again) = "TIMEOUT"
         /\ a = "cut" => Adapters!EndOf(a, again) = "LOST"
         /\ a \in {"reset", "s500"} => Adapters!EndOf(a, again) = "PROVIDER"
         /\ Adapters!EndOf(a, again) = "RELOGIN" => a = "s401"
<1>1. /\ Adapters!Classified(a) \in {"AUTH", "RATE", "TIMEOUT", "PROVIDER", "LOST", "BODY"}
      /\ Adapters!Classified(a) = "BODY" <=> a \in {"done", "refused", "garbled"}
      /\ a = "timeout" => Adapters!Classified(a) = "TIMEOUT"
      /\ a = "cut" => Adapters!Classified(a) = "LOST"
      /\ a \in {"reset", "s500"} => Adapters!Classified(a) = "PROVIDER"
  BY DEF Adapters!Answers, Adapters!Classified
<1>2. Adapters!EndOf(a, again) = Adapters!Classified(a) \/ (a = "s401" /\ Adapters!EndOf(a, again) = "RELOGIN")
  BY DEF Adapters!EndOf, Adapters!DelhiveryCall, Adapters!DtdcCall, Adapters!ShadowfaxCall, Adapters!ShiprocketCall,
         Adapters!BluedartCall, Adapters!XpressbeesCall, Adapters!AmazonCall
<1> QED BY <1>1, <1>2

LEMMA EndsOfLogins ==
  ASSUME NEW a \in Adapters!Answers
  PROVE  Adapters!LoginEnd(a) \in {"TOKEN", "AUTH", "RATE", "TIMEOUT", "PROVIDER", "LOST"}
<1>1. /\ Adapters!Classified(a) \in {"AUTH", "RATE", "TIMEOUT", "PROVIDER", "LOST", "BODY"}
  BY DEF Adapters!Answers, Adapters!Classified
<1>2. Adapters!LoginBody(a) \in {"TOKEN", "AUTH"}
  BY DEF Adapters!LoginBody
<1> QED BY <1>1, <1>2 DEF Adapters!LoginEnd, Adapters!ShiprocketLogin, Adapters!XpressbeesLogin,
             Adapters!BluedartLogin, Adapters!AmazonLogin

\* A body tells of a parcel, and of a cancellation, only when there is one.
LEMMA BodiesTell ==
  ASSUME NEW a \in {"done", "refused", "garbled"}, NEW r
  PROVE  /\ r \in {"create", "assign"} => (Adapters!Created(Adapters!Bodies(r)[a]) <=> a = "done")
         /\ r = "search" /\ Adapters!Found(Adapters!Bodies(r)[a]) => a = "done"
         /\ r = "cancel" /\ Adapters!CancelAccepted(Adapters!Bodies(r)[a]) => a = "done"
         /\ r = "cancel" /\ a # "garbled" /\ Adapters!AmazonCancelAccepted(Adapters!Bodies(r)[a]) => a = "done"
<1> DEFINE b == Adapters!Bodies(r)[a]
<1>1. /\ a = "done" => b.obj /\ b.ok /\ b.awb
      /\ a = "refused" => b.obj /\ ~b.ok /\ (b.awb <=> courier = "delhivery" /\ r = "create")
      /\ a = "garbled" => ~b.obj /\ ~b.ok /\ ~b.awb
  <2>1. /\ Adapters!Bodies(r).done = Adapters!Body(TRUE, TRUE, TRUE)
        /\ Adapters!Bodies(r).garbled = Adapters!Body(FALSE, FALSE, FALSE)
        /\ Adapters!Bodies(r).refused = Adapters!Body(TRUE, FALSE, courier = "delhivery" /\ r = "create")
    BY DEF Adapters!Bodies
  <2>2. CASE a = "done"
    <3>1. b = Adapters!Body(TRUE, TRUE, TRUE)
      BY <2>1, <2>2
    <3> QED BY <2>2, <3>1 DEF Adapters!Body
  <2>3. CASE a = "garbled"
    <3>1. b = Adapters!Body(FALSE, FALSE, FALSE)
      BY <2>1, <2>3
    <3> QED BY <2>3, <3>1 DEF Adapters!Body
  <2>4. CASE a = "refused"
    <3> DEFINE named == courier = "delhivery" /\ r = "create"
    <3>1. b = Adapters!Body(TRUE, FALSE, named)
      BY <2>1, <2>4
    <3> HIDE DEF named
    <3>2. b = [obj |-> TRUE, ok |-> FALSE, awb |-> named]
      BY Zenon, <3>1 DEF Adapters!Body
    <3>3. b.obj = TRUE /\ b.ok = FALSE /\ b.awb = named
      BY <3>2
    <3> QED BY Zenon, <2>4, <3>3 DEF named
  <2> QED BY <2>2, <2>3, <2>4
<1> HIDE DEF b
<1>2. a = "done" => Adapters!Created(b)
  BY <1>1 DEF Adapters!Created, Adapters!DelhiveryCreated, Adapters!ShiprocketAssigned, Adapters!BluedartCreated,
         Adapters!AmazonCreated, Adapters!XpressbeesCreated, Adapters!DtdcCreated, Adapters!ShadowfaxCreated
<1>3. a = "garbled" => ~Adapters!Created(b)
  BY <1>1 DEF Adapters!Created, Adapters!DelhiveryCreated, Adapters!ShiprocketAssigned, Adapters!BluedartCreated,
         Adapters!AmazonCreated, Adapters!XpressbeesCreated, Adapters!DtdcCreated, Adapters!ShadowfaxCreated
<1>4. a = "refused" => ~Adapters!Created(b)
  BY <1>1 DEF Adapters!Created, Adapters!DelhiveryCreated, Adapters!ShiprocketAssigned, Adapters!BluedartCreated,
         Adapters!AmazonCreated, Adapters!XpressbeesCreated, Adapters!DtdcCreated, Adapters!ShadowfaxCreated
<1>5. /\ r = "search" /\ Adapters!Found(b) => a = "done"
      /\ Adapters!CancelAccepted(b) => a = "done"
      /\ r = "cancel" /\ a # "garbled" /\ Adapters!AmazonCancelAccepted(b) => a = "done"
  BY <1>1 DEF Adapters!Found, Adapters!CancelAccepted, Adapters!AmazonCancelAccepted
<1> QED BY <1>2, <1>3, <1>4, <1>5 DEF b

\* What the end of a call is to the booking worker.
LEMMA OutcomesOfCreates ==
  ASSUME NEW end \in CallEnds
  PROVE  LET out == Adapters!Outcome("createShipment", end)
         IN /\ out \in CallEnds
            /\ out = "CONFIRMED" <=> end = "CONFIRMED"
            /\ out = "RATE" <=> end = "RATE"
            /\ out \in {"AUTH", "RATE"} => end = out
            /\ out = "FAILED" => end \notin {"CONFIRMED", "TIMEOUT", "LOST"}
<1>1. CASE end \in {"TIMEOUT", "LOST"}
  <2>1. Adapters!Outcome("createShipment", end) = "OUTCOME_UNKNOWN"
    BY <1>1 DEF Adapters!Outcome
  <2> QED BY <1>1, <2>1 DEF CallEnds
<1>2. CASE end = "PROVIDER"
  <2>1. Adapters!Outcome("createShipment", end) = "FAILED"
    BY <1>2 DEF Adapters!Outcome
  <2> QED BY <1>2, <2>1 DEF CallEnds
<1>3. CASE end \notin {"TIMEOUT", "LOST", "PROVIDER"}
  <2>1. Adapters!Outcome("createShipment", end) = end
    BY <1>3 DEF Adapters!Outcome
  <2> QED BY <1>3, <2>1
<1> QED BY <1>1, <1>2, <1>3

LEMMA OutcomesOfTheRest ==
  ASSUME NEW end \in CallEnds, NEW m, m # "createShipment"
  PROVE  /\ Adapters!Outcome(m, end) \in CallEnds
         /\ Adapters!Outcome(m, end) = "CANCELLED" => end = "CANCELLED"
         /\ Adapters!Outcome(m, end) = "FOUND" => end = "FOUND"
<1>1. CASE m = "cancelShipment" /\ end = "TIMEOUT"
  <2>1. Adapters!Outcome(m, end) = "OUTCOME_UNKNOWN"
    BY <1>1 DEF Adapters!Outcome
  <2> QED BY <2>1 DEF CallEnds
<1>2. CASE ~(m = "cancelShipment" /\ end = "TIMEOUT")
  <2>1. Adapters!Outcome(m, end) = end
    BY <1>2 DEF Adapters!Outcome
  <2> QED BY <2>1 DEF CallEnds
<1> QED BY <1>1, <1>2

\* A process rests when its call has ended, and the others go on.
LEMMA CallsRest ==
  ASSUME AdaptersTypes, CallsStand, NEW p \in Processes,
         calls' = [calls EXCEPT ![p] = Adapters!Resting]
  PROVE  /\ calls' \in [Processes -> AdapterCall]
         /\ \A q \in Processes : Sends(calls'[q])
         /\ \A q \in Processes : calls'[q].m = "createShipment" => q # p /\ calls[q].m = "createShipment"
<1>1. Adapters!Resting \in AdapterCall /\ Adapters!Resting.m = "none" /\ Sends(Adapters!Resting)
  <2>1. Adapters!Resting \in AdapterCall
    BY DEF Adapters!Resting, AdapterCall, Tokens
  <2>2. Adapters!Resting.m = "none"
    BY DEF Adapters!Resting
  <2>3. Sends(Adapters!Resting)
    BY <2>2 DEF Sends, Adapters!Reads, Adapters!Methods, Adapters!DelhiveryServes
  <2> QED BY <2>1, <2>2, <2>3
<1>2. \A q \in Processes : calls'[q] = IF q = p THEN Adapters!Resting ELSE calls[q]
  BY DEF AdaptersTypes
<1>3. calls' \in [Processes -> AdapterCall]
  BY <1>1 DEF AdaptersTypes
<1> QED BY <1>1, <1>2, <1>3 DEF CallsStand

\* Only what its callers and the courier say at its end matters of a call.
LEMMA CallEndsStand ==
  ASSUME AdaptersInv, NEW p \in Processes, NEW end \in CallEnds, calls[p].m # "none",
         Adapters!Finish(p, end), courier' = courier, redis' \in Tokens, memory' \in [Processes -> Tokens],
         provider' \in AtCourier, provider.cancelled => provider'.cancelled, provider.unread \subseteq provider'.unread,
         calls[p].m = "createShipment" =>
           /\ end = "CONFIRMED" => provider'.parcels = 1
           /\ end \in {"AUTH", "RATE"} => provider'.parcels = 0
           /\ end \notin {"CONFIRMED", "TIMEOUT", "LOST"} => provider'.parcels = 0 \/ Adapters!FailedUnread',
         calls[p].m # "createShipment" => provider'.parcels = provider.parcels,
         calls[p].m = "cancelShipment" /\ end = "CANCELLED" => provider'.cancelled \/ Adapters!CancelUnread',
         calls[p].m = "lookupByReference" /\ end = "FOUND" => provider'.parcels = 1
  PROVE  AdaptersInv'
<1> DEFINE out == Adapters!Outcome(calls[p].m, end)
<1> USE DEF AdaptersInv
<1>1. /\ calls' = [calls EXCEPT ![p] = Adapters!Resting]
      /\ creates' = IF calls[p].m = "createShipment" /\ end \notin {"AUTH", "RATE", "LOST"}
                    THEN [creates EXCEPT ![p] = out] ELSE creates
      /\ intent' = IF calls[p].m # "createShipment" THEN intent ELSE IF out = "RATE" THEN "open" ELSE "settled"
      /\ told' = CASE calls[p].m = "createShipment" -> [told EXCEPT !.create = out]
                   [] calls[p].m = "cancelShipment" -> [told EXCEPT !.cancel = out]
                   [] calls[p].m = "lookupByReference" -> [told EXCEPT !.found = out = "FOUND"]
                   [] OTHER -> told
  BY DEF Adapters!Finish
<1>2. /\ calls' \in [Processes -> AdapterCall]
      /\ \A q \in Processes : Sends(calls'[q])
      /\ \A q \in Processes : calls'[q].m = "createShipment" => q # p /\ calls[q].m = "createShipment"
  BY <1>1, CallsRest
<1>5. /\ Adapters!FailedUnread => Adapters!FailedUnread'
      /\ Adapters!CancelUnread => Adapters!CancelUnread'
  BY DEF Adapters!FailedUnread, Adapters!CancelUnread
<1>3. CASE calls[p].m = "createShipment"
  <2>1. out = Adapters!Outcome("createShipment", end)
    BY <1>3
  <2>2. /\ out \in CallEnds
        /\ out = "CONFIRMED" <=> end = "CONFIRMED"
        /\ out = "RATE" <=> end = "RATE"
        /\ out \in {"AUTH", "RATE"} => end = out
        /\ out = "FAILED" => end \notin {"CONFIRMED", "TIMEOUT", "LOST"}
    BY <2>1, OutcomesOfCreates
  <2> HIDE DEF out
  <2>3. /\ intent = "asked" /\ provider.parcels = 0
        /\ \A q \in Processes : creates[q] = "none" /\ (q # p => calls[q].m # "createShipment")
        /\ told.found = FALSE
    BY <1>3 DEF CallsStand, OutcomesStand, AdaptersTypes
  <2>4. /\ told' = [told EXCEPT !.create = out]
        /\ intent' = IF out = "RATE" THEN "open" ELSE "settled"
        /\ creates' = IF end \notin {"AUTH", "RATE", "LOST"} THEN [creates EXCEPT ![p] = out] ELSE creates
    BY <1>1, <1>3
  <2>5. /\ told' \in [create : CallEnds, cancel : CallEnds, found : BOOLEAN]
        /\ told'.create = out /\ told'.cancel = told.cancel /\ told'.found = FALSE
    BY <2>2, <2>3, <2>4 DEF AdaptersTypes
  <2>6. /\ creates' \in [Processes -> CallEnds]
        /\ \A q \in Processes : creates'[q] # "none" => q = p /\ end # "RATE" /\ creates'[q] = out
    BY <2>2, <2>3, <2>4 DEF AdaptersTypes
  <2>7. AdaptersTypes'
    BY <1>2, <2>4, <2>5, <2>6 DEF AdaptersTypes
  <2>8. CallsStand'
    BY <1>2, <2>3 DEF CallsStand
  <2>9. OutcomesStand'
    <3>1. intent' # "settled" => provider'.parcels = 0
      BY <1>3, <2>2, <2>4
    <3>2. \A q \in Processes : /\ creates'[q] # "none" => intent' = "settled"
                               /\ creates'[q] = "CONFIRMED" => provider'.parcels = 1
                               /\ creates'[q] \in {"AUTH", "RATE"} => provider'.parcels = 0
                               /\ creates'[q] = "FAILED" => provider'.parcels = 0 \/ Adapters!FailedUnread'
      BY <1>3, <2>2, <2>4, <2>6
    <3>3. /\ told'.create \in {"AUTH", "RATE"} => provider'.parcels = 0
          /\ told'.create = "FAILED" => provider'.parcels = 0 \/ Adapters!FailedUnread'
          /\ told'.create = "CONFIRMED" \/ told'.found => provider'.parcels = 1
          /\ told'.cancel = "CANCELLED" => provider'.cancelled \/ Adapters!CancelUnread'
      BY <1>3, <1>5, <2>2, <2>5 DEF OutcomesStand
    <3> QED BY <3>1, <3>2, <3>3 DEF OutcomesStand
  <2> QED BY <2>7, <2>8, <2>9
<1>4. CASE calls[p].m # "createShipment"
  <2>1. out \in CallEnds /\ (out = "CANCELLED" => end = "CANCELLED") /\ (out = "FOUND" => end = "FOUND")
    BY <1>4, OutcomesOfTheRest
  <2> DEFINE found == out = "FOUND"
  <2>2. found \in BOOLEAN /\ (found => end = "FOUND")
    BY <2>1
  <2>3. /\ creates' = creates /\ intent' = intent
        /\ \/ calls[p].m = "cancelShipment" /\ told' = [told EXCEPT !.cancel = out]
           \/ calls[p].m = "lookupByReference" /\ told' = [told EXCEPT !.found = found]
           \/ told' = told
    BY <1>1, <1>4
  <2> HIDE DEF found, out
  <2>4. /\ told' \in [create : CallEnds, cancel : CallEnds, found : BOOLEAN]
        /\ told'.create = told.create
        /\ told'.cancel = "CANCELLED" => provider'.cancelled \/ Adapters!CancelUnread'
        /\ told'.found => provider'.parcels = 1
    <3>1. CASE calls[p].m = "cancelShipment" /\ told' = [told EXCEPT !.cancel = out]
      <4>1. /\ told' \in [create : CallEnds, cancel : CallEnds, found : BOOLEAN]
            /\ told'.create = told.create /\ told'.cancel = out /\ told'.found = told.found
        BY <2>1, <3>1 DEF AdaptersTypes
      <4> QED BY <1>4, <1>5, <2>1, <3>1, <4>1 DEF OutcomesStand
    <3>2. CASE calls[p].m = "lookupByReference" /\ told' = [told EXCEPT !.found = found]
      <4>1. /\ told' \in [create : CallEnds, cancel : CallEnds, found : BOOLEAN]
            /\ told'.create = told.create /\ told'.cancel = told.cancel /\ told'.found = found
        BY <2>2, <3>2 DEF AdaptersTypes
      <4> QED BY <1>4, <1>5, <2>2, <3>2, <4>1 DEF OutcomesStand
    <3>3. CASE told' = told
      BY <1>4, <1>5, <3>3 DEF OutcomesStand, AdaptersTypes
    <3> QED BY <2>3, <3>1, <3>2, <3>3
  <2>5. AdaptersTypes'
    BY <1>2, <2>3, <2>4 DEF AdaptersTypes
  <2>6. CallsStand'
    BY <1>2, <2>3 DEF CallsStand
  <2>7. OutcomesStand'
    BY <1>4, <1>5, <2>3, <2>4 DEF OutcomesStand
  <2> QED BY <2>5, <2>6, <2>7
<1> QED BY <1>3, <1>4

\* The requests of a method are the ones its calls have left at first.
LEMMA ScriptsAreSeqs ==
  /\ {<<"pincode", "charges">>, <<"pincode">>} \subseteq Seq(Harmless) \cap Seq(Requests)
  /\ {<<"track">>, <<"label">>, <<"pickup">>, <<"ndr">>} \subseteq Seq(Harmless) \cap Seq(Requests)
  /\ {<<"label", "download">>, <<"track", "pickup">>} \subseteq Seq(Harmless) \cap Seq(Requests)
  /\ <<"track", "label", "download">> \in Seq(Harmless) \cap Seq(Requests)
  /\ Bookings \subseteq Seq(Requests)
  /\ <<"search">> \in Seq(Requests) /\ <<"cancel">> \in Seq(Requests)
<1> {"pincode", "charges", "track", "label", "download", "pickup", "ndr"} \subseteq Harmless \cap Requests
  BY DEF Harmless, Requests
<1> {"waybill", "order", "create", "assign", "search", "cancel"} \subseteq Requests
  BY DEF Requests
<1> QED BY DEF Bookings

LEMMA ScriptsAreSends ==
  ASSUME AdaptersTypes, NEW m \in Adapters!Methods, NEW script \in Adapters!Scripts(m) \ Adapters!None
  PROVE  /\ script # <<>> /\ script \in Seq(Requests)
         /\ m = "createShipment" => script \in Bookings
         /\ m = "lookupByReference" => script = <<"search">>
         /\ m = "cancelShipment" => script = <<"cancel">>
         /\ m \in Adapters!Reads => script \in Seq(Harmless)
<1>1. script # <<>>
  BY DEF Adapters!None
<1>2. CASE m = "createShipment"
  <2>1. script = Adapters!Books[courier]
    BY <1>2 DEF Adapters!Scripts
  <2>2. Adapters!Books[courier] \in Bookings
    BY DEF AdaptersTypes, Bookings, Adapters!Names, Adapters!Serves, Adapters!Books, Adapters!DelhiveryCreate,
       Adapters!ShiprocketCreate, Adapters!BluedartCreate, Adapters!AmazonCreate, Adapters!XpressbeesCreate,
       Adapters!DtdcCreate, Adapters!ShadowfaxCreate
  <2> QED BY <1>1, <1>2, <2>1, <2>2, ScriptsAreSeqs DEF Adapters!Reads
<1>3. CASE m = "getQuote"
  <2>1. script \in Adapters!Quotes[courier]
    BY <1>3 DEF Adapters!Scripts
  <2>2. Adapters!Quotes[courier] \in {{<<"pincode", "charges">>}, {<<"pincode">>}, {<<>>}}
    BY DEF AdaptersTypes, Adapters!Quotes, Adapters!DelhiveryQuote, Adapters!ShiprocketQuote, Adapters!BluedartQuote,
       Adapters!DtdcQuote, Adapters!None
  <2>3. script \in {<<"pincode", "charges">>, <<"pincode">>}
    BY <1>1, <2>1, <2>2
  <2> QED BY <1>1, <1>3, <2>3, ScriptsAreSeqs
<1>4. CASE m \notin {"createShipment", "getQuote"}
  <2>1. script \in Adapters!Serves[courier][m]
    BY <1>4 DEF Adapters!Scripts
  <2>2. m \in {"lookupByReference", "cancelShipment", "track", "getLabel", "schedulePickup", "ndrAction"}
    BY <1>4 DEF Adapters!Methods, Adapters!DelhiveryServes
  <2>3. Adapters!Serves[courier] \in {Adapters!DelhiveryServes, Adapters!ShiprocketServes, Adapters!BluedartServes, Adapters!AmazonServes}
    BY DEF AdaptersTypes, Adapters!Names, Adapters!Serves, Adapters!XpressbeesServes, Adapters!DtdcServes, Adapters!ShadowfaxServes,
           Adapters!BluedartServes
  <2>4. /\ m = "lookupByReference" => script = <<"search">>
        /\ m = "cancelShipment" => script = <<"cancel">>
        /\ m \notin {"lookupByReference", "cancelShipment"} =>
             script \in {<<"track">>, <<"label">>, <<"pickup">>, <<"ndr">>, <<"label", "download">>, <<"track", "label", "download">>,
                         <<"track", "pickup">>}
    <3>1. CASE Adapters!Serves[courier] = Adapters!DelhiveryServes
      BY <1>1, <2>1, <2>2, <3>1 DEF Adapters!DelhiveryServes, Adapters!None
    <3>2. CASE Adapters!Serves[courier] = Adapters!ShiprocketServes
      BY <1>1, <2>1, <2>2, <3>2 DEF Adapters!ShiprocketServes, Adapters!None
    <3>3. CASE Adapters!Serves[courier] = Adapters!BluedartServes
      BY <1>1, <2>1, <2>2, <3>3 DEF Adapters!BluedartServes, Adapters!DelhiveryServes, Adapters!None
    <3>4. CASE Adapters!Serves[courier] = Adapters!AmazonServes
      <4>1. /\ Adapters!AmazonServes.lookupByReference = {<<"search">>} /\ Adapters!AmazonServes.cancelShipment = {<<"cancel">>}
            /\ Adapters!AmazonServes.track = {<<"track">>} /\ Adapters!AmazonServes.getLabel = {<<"label">>}
            /\ Adapters!AmazonServes.schedulePickup = Adapters!None /\ Adapters!AmazonServes.ndrAction = Adapters!None
        BY DEF Adapters!AmazonServes, Adapters!DelhiveryServes
      <4> QED BY <1>1, <2>1, <2>2, <3>4, <4>1 DEF Adapters!None
    <3> QED BY <2>3, <3>1, <3>2, <3>3, <3>4
  <2>5. m \in Adapters!Reads <=> m \notin {"lookupByReference", "cancelShipment"}
    BY <1>4, <2>2 DEF Adapters!Reads, Adapters!Methods, Adapters!DelhiveryServes
  <2> QED BY <1>1, <1>4, <2>4, <2>5, ScriptsAreSeqs
<1> QED BY <1>2, <1>3, <1>4

LEMMA ReadsTell ==
  ASSUME NEW a \in {"done", "refused", "garbled"}, NEW r \in Requests
  PROVE  LET read == Adapters!Read(r, Adapters!Bodies(r)[a])
         IN /\ read \in CallEnds \ {"RELOGIN", "TIMEOUT", "LOST"}
            /\ r \in {"create", "assign"} => read = IF a = "done" THEN "CONFIRMED" ELSE "FAILED"
            /\ read = "CONFIRMED" => r \in {"create", "assign"}
            /\ read = "NEXT" => r \notin {"create", "assign", "cancel", "search"}
            /\ r = "cancel" /\ read = "CANCELLED" /\ (a # "garbled" \/ courier # "amazon_shipping") => a = "done"
            /\ r = "search" /\ read = "FOUND" => a = "done"
<1> DEFINE b == Adapters!Bodies(r)[a]
<1> DEFINE read == Adapters!Read(r, b)
<1>1. /\ r \in {"create", "assign"} => (Adapters!Created(b) <=> a = "done")
      /\ r = "search" /\ Adapters!Found(b) => a = "done"
      /\ r = "cancel" /\ Adapters!CancelAccepted(b) => a = "done"
      /\ r = "cancel" /\ a # "garbled" /\ Adapters!AmazonCancelAccepted(b) => a = "done"
  BY BodiesTell
<1> HIDE DEF b
<1>2. CASE r \in {"create", "assign"}
  <2>1. read = IF Adapters!Created(b) THEN "CONFIRMED" ELSE "FAILED"
    BY <1>2 DEF Adapters!Read
  <2> QED BY <1>1, <1>2, <2>1 DEF CallEnds, b
<1>3. CASE r = "cancel"
  <2>1. read = IF IF courier = "amazon_shipping" THEN Adapters!AmazonCancelAccepted(b) ELSE Adapters!CancelAccepted(b)
               THEN "CANCELLED" ELSE "REJECTED"
    BY <1>3 DEF Adapters!Read
  <2> QED BY <1>1, <1>3, <2>1 DEF CallEnds, b
<1>4. CASE r = "search"
  <2>1. read = IF Adapters!Found(b) THEN "FOUND" ELSE "NOT_FOUND"
    BY <1>4 DEF Adapters!Read
  <2> QED BY <1>1, <1>4, <2>1 DEF CallEnds, b
<1>5. CASE r \notin {"create", "assign", "cancel", "search"}
  <2>1. read \in {"NEXT", "FAILED", "UNSERVED", "RATED", "UNRATED", "ACCEPTED", "DECLINED", "PROVIDER"}
    BY <1>5 DEF Adapters!Read
  <2> QED BY <1>5, <2>1 DEF CallEnds, b
<1> QED BY <1>2, <1>3, <1>4, <1>5

\* What a request does at the courier.
LEMMA DoneMoves ==
  ASSUME AdaptersTypes, NEW r \in Requests, r \in {"create", "assign"} => provider.parcels = 0
  PROVE  /\ Adapters!Done(r) \in AtCourier
         /\ Adapters!Done(r).unread = provider.unread
         /\ r \in {"create", "assign"} => Adapters!Done(r).parcels = 1
         /\ r \notin {"create", "assign"} => Adapters!Done(r).parcels = provider.parcels
         /\ provider.cancelled \/ r = "cancel" => Adapters!Done(r).cancelled
         /\ r \notin {"create", "assign", "cancel"} => Adapters!Done(r) = provider
<1>1. CASE r \in {"create", "assign"}
  <2> DEFINE more == provider.parcels + 1
  <2>1. more = 1
    BY <1>1
  <2>2. Adapters!Done(r) = [provider EXCEPT !.parcels = more]
    BY <1>1 DEF Adapters!Done
  <2> HIDE DEF more
  <2>3. /\ Adapters!Done(r) \in AtCourier
        /\ Adapters!Done(r).parcels = 1
        /\ Adapters!Done(r).cancelled = provider.cancelled
        /\ Adapters!Done(r).unread = provider.unread
    BY <2>1, <2>2 DEF AdaptersTypes, AtCourier
  <2> QED BY <1>1, <2>3
<1>2. CASE r = "cancel"
  <2>1. Adapters!Done(r) = [provider EXCEPT !.cancelled = TRUE]
    BY <1>2 DEF Adapters!Done
  <2>2. /\ Adapters!Done(r) \in AtCourier
        /\ Adapters!Done(r).parcels = provider.parcels
        /\ Adapters!Done(r).cancelled
        /\ Adapters!Done(r).unread = provider.unread
    BY <2>1 DEF AdaptersTypes, AtCourier
  <2> QED BY <1>2, <2>2
<1>3. CASE r \notin {"create", "assign", "cancel"}
  <2>1. Adapters!Done(r) = provider
    BY <1>3 DEF Adapters!Done
  <2> QED BY <1>3, <2>1 DEF AdaptersTypes, AtCourier
<1> QED BY <1>1, <1>2, <1>3

\* What is kept of a request that was answered.
LEMMA ActsMove ==
  ASSUME AdaptersTypes, NEW p \in Processes, NEW r \in Requests, NEW a \in Adapters!Answers,
         r \in {"create", "assign"} => provider.parcels = 0, a = "done" => Adapters!Able(r),
         provider' \in {[after EXCEPT !.unread = @ \cup Adapters!Missed(r, a)] : after \in Adapters!Acts(p, r, a)}
  PROVE  /\ provider' \in AtCourier
         /\ provider.unread \subseteq provider'.unread
         /\ a \notin Adapters!Unread => provider'.unread = provider.unread
         /\ a \in Adapters!Unread /\ r \in {"create", "assign", "cancel"} => r \in provider'.unread
         /\ r \notin {"create", "assign"} => provider'.parcels = provider.parcels
         /\ provider.cancelled => provider'.cancelled
         /\ r \notin {"create", "assign", "cancel"} => provider' = provider
         /\ a = "done" /\ r \in {"create", "assign"} => provider'.parcels = 1
         /\ a = "done" /\ r = "cancel" => provider'.cancelled
         /\ a \notin {"done"} \cup Adapters!Unheard \cup Adapters!Unread => provider' = provider
<1>1. PICK after \in Adapters!Acts(p, r, a) : provider' = [after EXCEPT !.unread = @ \cup Adapters!Missed(r, a)]
  OBVIOUS
<1>2. /\ after \in {provider, Adapters!Done(r)}
      /\ a = "done" => after = Adapters!Done(r)
      /\ a \notin {"done"} \cup Adapters!Unheard \cup Adapters!Unread => after = provider
  BY <1>1 DEF Adapters!Acts
<1>3. /\ Adapters!Done(r) \in AtCourier
      /\ Adapters!Done(r).unread = provider.unread
      /\ r \in {"create", "assign"} => Adapters!Done(r).parcels = 1
      /\ r \notin {"create", "assign"} => Adapters!Done(r).parcels = provider.parcels
      /\ provider.cancelled \/ r = "cancel" => Adapters!Done(r).cancelled
      /\ r \notin {"create", "assign", "cancel"} => Adapters!Done(r) = provider
  BY DoneMoves
<1>4. provider \in AtCourier /\ after \in AtCourier /\ after.unread = provider.unread
  BY <1>2, <1>3 DEF AdaptersTypes
<1> DEFINE missed == Adapters!Missed(r, a)
           both == after.unread \cup missed
<1>5. /\ missed \subseteq {"create", "assign", "cancel"}
      /\ a \notin Adapters!Unread \/ r \notin {"create", "assign", "cancel"} => missed = {}
      /\ a \in Adapters!Unread /\ r \in {"create", "assign", "cancel"} => r \in missed
  BY DEF Adapters!Missed
<1>6. provider' = [after EXCEPT !.unread = both]
  BY <1>1
<1> HIDE DEF missed
<1>7. both \subseteq {"create", "assign", "cancel"} /\ (missed = {} => both = after.unread)
  BY <1>4, <1>5 DEF AtCourier
<1> HIDE DEF both
<1>8. provider' \in AtCourier /\ provider'.unread = both /\ provider'.parcels = after.parcels /\ provider'.cancelled = after.cancelled
  BY <1>4, <1>6, <1>7 DEF AtCourier
<1>9. missed = {} => provider' = after
  BY <1>4, <1>6, <1>7 DEF AtCourier
<1>10. a \notin {"done"} \cup Adapters!Unheard \cup Adapters!Unread => missed = {}
  BY <1>5
<1>11. provider.unread \subseteq both /\ missed \subseteq both
  BY <1>4 DEF both
<1> HIDE DEF AtCourier
<1> QED BY <1>2, <1>3, <1>4, <1>5, <1>7, <1>8, <1>9, <1>10, <1>11

\* A call that goes on keeps its method, and what it asked for did nothing.
LEMMA CallGoesOn ==
  ASSUME AdaptersInv, NEW p \in Processes, NEW d \in AdapterCall, Sends(d), d.m = calls[p].m,
         calls' = [calls EXCEPT ![p] = d], redis' \in Tokens, memory' \in [Processes -> Tokens],
         UNCHANGED <<courier, provider, creates, told, intent>>
  PROVE  AdaptersInv'
<1> USE DEF AdaptersInv
<1>1. \A q \in Processes : calls'[q] = IF q = p THEN d ELSE calls[q]
  BY DEF AdaptersTypes
<1>2. AdaptersTypes'
  BY DEF AdaptersTypes
<1>3. CallsStand'
  BY <1>1 DEF CallsStand
<1>4. OutcomesStand'
  BY DEF OutcomesStand, Adapters!FailedUnread, Adapters!CancelUnread
<1> QED BY <1>2, <1>3, <1>4

\* What is left of a call that serves a method.
LEMMA CallsServe ==
  ASSUME AdaptersInv, NEW p \in Processes, calls[p].pc # "idle"
  PROVE  /\ calls[p] \in AdapterCall /\ Sends(calls[p]) /\ calls[p].m \in Adapters!Methods
         /\ calls[p].left \in Seq(Requests) /\ calls[p].left # <<>> /\ Head(calls[p].left) \in Requests
         /\ calls[p].m = "createShipment" =>
              calls[p].left \in Bookings /\ Head(calls[p].left) \in {"waybill", "order", "create", "assign"}
         /\ calls[p].m = "lookupByReference" => calls[p].left = <<"search">> /\ Head(calls[p].left) = "search"
         /\ calls[p].m = "cancelShipment" => calls[p].left = <<"cancel">> /\ Head(calls[p].left) = "cancel"
         /\ calls[p].m \notin {"createShipment", "lookupByReference", "cancelShipment"} =>
              /\ calls[p].m \in Adapters!Reads
              /\ calls[p].left \in Seq(Harmless) /\ Head(calls[p].left) \in Harmless
<1>1. calls[p] \in AdapterCall /\ Sends(calls[p])
  BY DEF AdaptersInv, AdaptersTypes, CallsStand
<1>2. calls[p].m # "none"
  <2>1. Adapters!Resting.pc = "idle"
    BY DEF Adapters!Resting
  <2> QED BY <1>1, <2>1 DEF Sends
<1>3. calls[p].m \in Adapters!Methods /\ calls[p].left \in Seq(Requests) /\ calls[p].left # <<>>
  BY <1>1, <1>2 DEF AdapterCall, Sends
<1>4. Head(calls[p].left) \in Requests
  BY <1>3
<1>5. /\ calls[p].m = "createShipment" => calls[p].left \in Bookings
      /\ calls[p].m = "lookupByReference" => calls[p].left = <<"search">>
      /\ calls[p].m = "cancelShipment" => calls[p].left = <<"cancel">>
  BY <1>1 DEF Sends
<1>6. calls[p].left \in Bookings => Head(calls[p].left) \in {"waybill", "order", "create", "assign"}
  BY DEF Bookings
<1>7. calls[p].m \notin {"createShipment", "lookupByReference", "cancelShipment"} =>
        calls[p].m \in Adapters!Reads /\ calls[p].left \in Seq(Harmless)
  BY <1>1, <1>3 DEF Sends, Adapters!Reads
<1>8. calls[p].left \in Seq(Harmless) => Head(calls[p].left) \in Harmless
  BY <1>3
<1> QED BY <1>1, <1>3, <1>4, <1>5, <1>6, <1>7, <1>8

LEMMA TailsOfSends ==
  ASSUME NEW s \in Seq(Requests), Len(s) > 1
  PROVE  /\ Tail(s) \in Seq(Requests) /\ Tail(s) # <<>>
         /\ s \in Seq(Harmless) => Tail(s) \in Seq(Harmless)
         /\ s \in Bookings => Tail(s) \in Bookings
         /\ s # <<"search">> /\ s # <<"cancel">>
<1>1. Tail(s) \in Seq(Requests) /\ Len(Tail(s)) = Len(s) - 1
  BY HeadTailProperties
<1>2. Tail(s) # <<>>
  <2>1. Len(Tail(s)) # 0
    BY <1>1
  <2> QED BY <2>1
<1>3. s \in Seq(Harmless) => Tail(s) \in Seq(Harmless)
  <2> SUFFICES ASSUME s \in Seq(Harmless) PROVE Tail(s) \in Seq(Harmless)
    OBVIOUS
  <2>1. s # <<>>
    OBVIOUS
  <2> QED BY <2>1, HeadTailProperties
<1>5. /\ Len(<<"create">>) = 1 /\ Len(<<"assign">>) = 1 /\ Len(<<"search">>) = 1 /\ Len(<<"cancel">>) = 1
      /\ Tail(<<"waybill", "create">>) = <<"create">> /\ Tail(<<"order", "assign">>) = <<"assign">>
  OBVIOUS
<1>6. s # <<"create">> /\ s # <<"assign">> /\ s # <<"search">> /\ s # <<"cancel">>
  BY <1>5
<1>7. s \in Bookings => Tail(s) \in Bookings
  <2>1. s \in Bookings => s = <<"waybill", "create">> \/ s = <<"order", "assign">>
    BY <1>6 DEF Bookings
  <2>2. <<"create">> \in Bookings /\ <<"assign">> \in Bookings
    BY DEF Bookings
  <2> QED BY <1>5, <2>1, <2>2
<1> QED BY <1>1, <1>2, <1>3, <1>6, <1>7

LEMMA SendStands ==
  ASSUME AdaptersInv, NEW p \in Processes, NEW a \in Adapters!Answers, Adapters!Send(p, a)
  PROVE  AdaptersInv'
<1> DEFINE c == calls[p]
           r == Head(c.left)
           end == Adapters!EndOf(a, c.again)
           body == Adapters!Read(r, Adapters!Bodies(r)[a])
           read == IF end = "BODY" THEN body
                   ELSE IF courier = "amazon_shipping" /\ r = "cancel" /\ a \in Adapters!AmazonCancelRejected THEN "REJECTED"
                   ELSE end
           relogin == [c EXCEPT !.pc = "login", !.again = TRUE]
           next == [c EXCEPT !.left = Tail(c.left), !.again = FALSE, !.pc = "token"]
<1>1. /\ c.pc = "send" /\ courier' = courier
      /\ a = "done" => Adapters!Able(r)
      /\ provider' \in {[after EXCEPT !.unread = @ \cup Adapters!Missed(r, a)] : after \in Adapters!Acts(p, r, a)}
  BY DEF Adapters!Send
<1>2. \/ /\ read = "RELOGIN" /\ calls' = [calls EXCEPT ![p] = relogin]
         /\ redis' = "none" /\ memory' = [memory EXCEPT ![p] = "none"]
         /\ UNCHANGED <<creates, intent, told>>
      \/ /\ read = "NEXT" /\ Len(c.left) > 1 /\ calls' = [calls EXCEPT ![p] = next]
         /\ UNCHANGED <<creates, intent, told, redis, memory>>
      \/ Adapters!Finish(p, read) /\ UNCHANGED <<redis, memory>>
  <2> HIDE DEF read
  <2>1. CASE read = "RELOGIN" /\ TRUE
    BY <2>1 DEF Adapters!Send, read
  <2>2. CASE read # "RELOGIN" /\ read = "NEXT" /\ Len(c.left) > 1
    <3>1. /\ calls' = [calls EXCEPT ![p] = [c EXCEPT !.left = Tail(c.left), !.again = FALSE, !.pc = "token"]]
          /\ UNCHANGED <<creates, intent, told, redis, memory>>
      BY <2>2 DEF Adapters!Send, read
    <3> QED BY Zenon, <2>2, <3>1
  <2>3. CASE read # "RELOGIN" /\ ~(read = "NEXT" /\ Len(c.left) > 1)
    BY <2>3 DEF Adapters!Send, read
  <2> QED BY <2>1, <2>2, <2>3
<1>3. /\ c \in AdapterCall /\ Sends(c) /\ c.m \in Adapters!Methods
      /\ c.left \in Seq(Requests) /\ c.left # <<>> /\ r \in Requests
      /\ c.m = "createShipment" => c.left \in Bookings /\ r \in {"waybill", "order", "create", "assign"}
      /\ c.m = "lookupByReference" => c.left = <<"search">> /\ r = "search"
      /\ c.m = "cancelShipment" => c.left = <<"cancel">> /\ r = "cancel"
      /\ c.m \notin {"createShipment", "lookupByReference", "cancelShipment"} =>
           c.m \in Adapters!Reads /\ c.left \in Seq(Harmless) /\ r \in Harmless
  <2>1. calls[p].pc # "idle"
    BY <1>1
  <2> QED BY <2>1, CallsServe
<1>4. /\ end \in {"AUTH", "RATE", "TIMEOUT", "PROVIDER", "LOST", "BODY", "RELOGIN"}
      /\ end = "BODY" <=> a \in {"done", "refused", "garbled"}
      /\ a = "timeout" => end = "TIMEOUT"
      /\ a = "cut" => end = "LOST"
      /\ a \in {"reset", "s500"} => end = "PROVIDER"
      /\ end = "RELOGIN" => a = "s401"
  <2>1. c.again \in BOOLEAN
    BY <1>3 DEF AdapterCall
  <2> QED BY <2>1, EndsOfAnswers
<1>5. a \in {"done", "refused", "garbled"} =>
        /\ body \in CallEnds \ {"RELOGIN", "TIMEOUT", "LOST"}
        /\ r \in {"create", "assign"} => body = IF a = "done" THEN "CONFIRMED" ELSE "FAILED"
        /\ body = "CONFIRMED" => r \in {"create", "assign"}
        /\ body = "NEXT" => r \notin {"create", "assign", "cancel", "search"}
        /\ r = "cancel" /\ body = "CANCELLED" /\ (a # "garbled" \/ courier # "amazon_shipping") => a = "done"
        /\ r = "search" /\ body = "FOUND" => a = "done"
  BY <1>3, ReadsTell
<1> HIDE DEF end, body
<1>6. /\ read \in CallEnds
      /\ read = "RELOGIN" => a = "s401"
      /\ read = "NEXT" => a \in {"done", "refused", "garbled"} /\ r \notin {"create", "assign", "cancel", "search"}
      /\ read = "CONFIRMED" => a = "done" /\ r \in {"create", "assign"}
      /\ a = "done" /\ r \in {"create", "assign"} => read = "CONFIRMED"
      /\ a = "timeout" => read = "TIMEOUT"
      /\ a = "cut" => read = "LOST"
      /\ a \in {"reset", "s500"} => read \notin {"AUTH", "RATE"}
      /\ a = "garbled" /\ r \in {"create", "assign"} => read = "FAILED"
      /\ r = "cancel" /\ read = "CANCELLED" => a = "done" \/ (a = "garbled" /\ courier = "amazon_shipping")
      /\ r = "search" /\ read = "FOUND" => a = "done"
  <2>1. CASE end = "BODY"
    <3>1. read = body /\ a \in {"done", "refused", "garbled"}
      BY <1>4, <2>1
    <3> HIDE DEF read
    <3> QED BY <1>1, <1>5, <3>1
  <2>2. CASE end # "BODY"
    <3>1. a \notin {"done", "refused", "garbled"} /\ (read = end \/ (read = "REJECTED" /\ a = "s400"))
      BY <1>4, <2>2 DEF Adapters!AmazonCancelRejected
    <3> HIDE DEF read
    <3> QED BY <1>4, <2>2, <3>1 DEF CallEnds
  <2> QED BY <2>1, <2>2
<1> HIDE DEF read
<1>7. c.m = "createShipment" => provider.parcels = 0
  BY DEF AdaptersInv, CallsStand, OutcomesStand
<1>8. AdaptersTypes
  BY DEF AdaptersInv
<1>9. r \in {"create", "assign"} => c.m = "createShipment"
  BY <1>3 DEF Harmless
<1>10. /\ provider' \in AtCourier
       /\ provider.unread \subseteq provider'.unread
       /\ a \in Adapters!Unread /\ r \in {"create", "assign", "cancel"} => r \in provider'.unread
       /\ r \notin {"create", "assign"} => provider'.parcels = provider.parcels
       /\ provider.cancelled => provider'.cancelled
       /\ r \notin {"create", "assign", "cancel"} => provider' = provider
       /\ a = "done" /\ r \in {"create", "assign"} => provider'.parcels = 1
       /\ a = "done" /\ r = "cancel" => provider'.cancelled
       /\ a \notin {"done"} \cup Adapters!Unheard \cup Adapters!Unread => provider' = provider
  BY <1>1, <1>3, <1>7, <1>8, <1>9, ActsMove
<1>11. CASE read = "RELOGIN" /\ calls' = [calls EXCEPT ![p] = relogin] /\ redis' = "none"
            /\ memory' = [memory EXCEPT ![p] = "none"] /\ UNCHANGED <<creates, intent, told>>
  <2>1. provider' = provider
    BY <1>6, <1>10, <1>11 DEF Adapters!Unheard, Adapters!Unread
  <2>2. relogin \in AdapterCall /\ relogin.m = c.m /\ relogin.left = c.left
    BY <1>3 DEF AdapterCall
  <2> HIDE DEF relogin
  <2>3. Sends(relogin)
    <3>1. c.m # "none"
      BY <1>3 DEF Adapters!Methods, Adapters!DelhiveryServes
    <3> QED BY <1>3, <2>2, <3>1 DEF Sends
  <2>4. redis' \in Tokens /\ memory' \in [Processes -> Tokens]
    BY <1>8, <1>11 DEF AdaptersTypes, Tokens
  <2> QED BY <1>1, <1>11, <2>1, <2>2, <2>3, <2>4, CallGoesOn
<1>12. CASE read = "NEXT" /\ Len(c.left) > 1 /\ calls' = [calls EXCEPT ![p] = next]
            /\ UNCHANGED <<creates, intent, told, redis, memory>>
  <2>1. provider' = provider
    BY <1>6, <1>10, <1>12
  <2> DEFINE rest == Tail(c.left)
  <2>2. rest \in Seq(Requests) /\ rest # <<>> /\ (c.left \in Seq(Harmless) => rest \in Seq(Harmless))
    BY <1>3, <1>12, TailsOfSends
  <2>3. c.left \in Bookings => rest \in Bookings
    BY <1>3, <1>12, TailsOfSends
  <2>4. c.left # <<"search">> /\ c.left # <<"cancel">>
    BY <1>3, <1>12, TailsOfSends
  <2> HIDE DEF rest
  <2>5. next \in AdapterCall /\ next.m = c.m /\ next.left = rest
    <3>1. next = [c EXCEPT !.left = rest, !.again = FALSE, !.pc = "token"]
      BY DEF rest
    <3> HIDE DEF next
    <3> QED BY <1>3, <2>2, <3>1 DEF AdapterCall
  <2> HIDE DEF next
  <2>6. Sends(next)
    <3>1. c.m # "none"
      BY <1>3 DEF Adapters!Methods, Adapters!DelhiveryServes
    <3>2. c.m \in Adapters!Reads => rest \in Seq(Harmless)
      BY <1>3, <2>2 DEF Sends
    <3> QED BY <1>3, <2>2, <2>3, <2>4, <2>5, <3>1, <3>2 DEF Sends
  <2>7. redis' \in Tokens /\ memory' \in [Processes -> Tokens]
    BY <1>8, <1>12 DEF AdaptersTypes
  <2> QED BY <1>1, <1>12, <2>1, <2>5, <2>6, <2>7, CallGoesOn
<1>13. CASE Adapters!Finish(p, read) /\ UNCHANGED <<redis, memory>>
  <2>1. c.m # "none"
    BY <1>3 DEF Adapters!Methods, Adapters!DelhiveryServes
  <2>2. redis' \in Tokens /\ memory' \in [Processes -> Tokens]
    BY <1>8, <1>13 DEF AdaptersTypes
  <2>3. /\ provider' \in AtCourier /\ provider.unread \subseteq provider'.unread
        /\ provider.cancelled => provider'.cancelled
    BY <1>10
  <2>4. c.m = "createShipment" =>
          /\ read = "CONFIRMED" => provider'.parcels = 1
          /\ read \in {"AUTH", "RATE"} => provider'.parcels = 0
          /\ read \notin {"CONFIRMED", "TIMEOUT", "LOST"} => provider'.parcels = 0 \/ Adapters!FailedUnread'
    <3> SUFFICES ASSUME c.m = "createShipment"
                 PROVE  /\ read = "CONFIRMED" => provider'.parcels = 1
                        /\ read \in {"AUTH", "RATE"} => provider'.parcels = 0
                        /\ read \notin {"CONFIRMED", "TIMEOUT", "LOST"} => provider'.parcels = 0 \/ Adapters!FailedUnread'
      OBVIOUS
    <3>1. CASE a \in Adapters!Unread
      <4>1. a \in {"reset", "s500", "garbled"}
        BY <3>1 DEF Adapters!Unread
      <4>2. CASE r \in {"create", "assign"}
        <5>1. r \in provider'.unread
          BY <1>10, <3>1, <4>2
        <5>2. Adapters!FailedUnread'
          BY <4>2, <5>1 DEF Adapters!FailedUnread
        <5>3. read \notin {"AUTH", "RATE", "CONFIRMED"}
          BY <1>6, <4>1, <4>2
        <5> QED BY <5>2, <5>3
      <4>3. CASE r \notin {"create", "assign"}
        BY <1>6, <1>7, <1>10, <4>3
      <4> QED BY <4>2, <4>3
    <3>2. CASE a \notin Adapters!Unread
      BY <1>6, <1>7, <1>10, <3>2 DEF Adapters!Unheard
    <3> QED BY <3>1, <3>2
  <2>5. c.m # "createShipment" => provider'.parcels = provider.parcels
    BY <1>9, <1>10
  <2>6. c.m = "cancelShipment" /\ read = "CANCELLED" => provider'.cancelled \/ Adapters!CancelUnread'
    <3> SUFFICES ASSUME c.m = "cancelShipment", read = "CANCELLED"
                 PROVE  provider'.cancelled \/ Adapters!CancelUnread'
      OBVIOUS
    <3>1. r = "cancel"
      BY <1>3
    <3>2. CASE a = "done"
      BY <1>10, <3>1, <3>2
    <3>3. CASE a = "garbled" /\ courier = "amazon_shipping"
      <4>1. "cancel" \in provider'.unread
        BY <1>10, <3>1, <3>3 DEF Adapters!Unread
      <4> QED BY <1>1, <3>3, <4>1 DEF Adapters!CancelUnread
    <3> QED BY <1>6, <3>1, <3>2, <3>3
  <2>7. c.m = "lookupByReference" /\ read = "FOUND" => provider'.parcels = 1
    <3>1. c.m = "lookupByReference" /\ read = "FOUND" => r = "search" /\ Adapters!Able(r)
      BY <1>1, <1>3, <1>6
    <3>2. r = "search" /\ Adapters!Able(r) => provider.parcels > 0
      BY DEF Adapters!Able
    <3>3. provider.parcels \in {0, 1}
      BY <1>8 DEF AdaptersTypes, AtCourier
    <3> QED BY <2>5, <3>1, <3>2, <3>3
  <2> HIDE DEF r
  <2> QED BY <1>1, <1>6, <1>13, <2>1, <2>2, <2>3, <2>4, <2>5, <2>6, <2>7, CallEndsStand
<1> QED BY <1>2, <1>11, <1>12, <1>13

LEMMA BeginStands ==
  ASSUME AdaptersInv, NEW p \in Processes, NEW m \in Adapters!Methods, Adapters!Begin(p, m)
  PROVE  AdaptersInv'
<1> PICK script \in Adapters!Scripts(m) \ Adapters!None :
           calls' = [calls EXCEPT ![p] = [Adapters!Resting EXCEPT !.m = m, !.left = script, !.pc = "token"]]
  BY DEF Adapters!Begin
<1> DEFINE fresh == [Adapters!Resting EXCEPT !.m = m, !.left = script, !.pc = "token"]
<1> USE DEF AdaptersInv
<1>1. /\ m = "createShipment" => creates[p] = "none" /\ intent = "open"
      /\ intent' = IF m = "createShipment" THEN "asked" ELSE intent
      /\ UNCHANGED <<courier, provider, creates, memory, redis, told>>
  BY DEF Adapters!Begin, Adapters!Recorded
<1>2. /\ script # <<>> /\ script \in Seq(Requests)
      /\ m = "createShipment" => script \in Bookings
      /\ m = "lookupByReference" => script = <<"search">>
      /\ m = "cancelShipment" => script = <<"cancel">>
      /\ m \in Adapters!Reads => script \in Seq(Harmless)
  BY ScriptsAreSends
<1>3. fresh \in AdapterCall /\ fresh.m = m /\ fresh.left = script
  BY <1>2 DEF AdapterCall, Adapters!Resting, Tokens
<1>4. \A q \in Processes : calls'[q] = IF q = p THEN fresh ELSE calls[q]
  BY DEF AdaptersTypes
<1>5. calls' \in [Processes -> AdapterCall]
  BY <1>3 DEF AdaptersTypes
<1> HIDE DEF fresh
<1>6. Sends(fresh)
  <2>1. m # "none"
    BY DEF Adapters!Methods, Adapters!DelhiveryServes
  <2> QED BY <1>2, <1>3, <2>1 DEF Sends
<1>7. AdaptersTypes'
  BY <1>1, <1>5 DEF AdaptersTypes
<1>8. CallsStand'
  <2>1. m = "createShipment" => \A q \in Processes : calls[q].m # "createShipment"
    BY <1>1 DEF CallsStand
  <2>2. \A q \in Processes : Sends(calls'[q])
    BY <1>4, <1>6 DEF CallsStand
  <2>3. \A q \in Processes : calls'[q].m = "createShipment" => intent' = "asked"
    BY <1>1, <1>3, <1>4 DEF CallsStand
  <2>4. \A q, o \in Processes : calls'[q].m = "createShipment" /\ calls'[o].m = "createShipment" => q = o
    BY <1>3, <1>4, <2>1 DEF CallsStand
  <2> QED BY <2>2, <2>3, <2>4 DEF CallsStand
<1>9. OutcomesStand'
  BY <1>1 DEF OutcomesStand, Adapters!FailedUnread, Adapters!CancelUnread
<1> QED BY <1>7, <1>8, <1>9

LEMMA RedeliverStands ==
  ASSUME AdaptersInv, NEW p \in Processes, Adapters!Redeliver(p)
  PROVE  AdaptersInv'
<1> USE DEF AdaptersInv
<1> DEFINE kept == creates[p]
<1>1. /\ told' = [told EXCEPT !.create = kept] /\ kept # "none"
      /\ UNCHANGED <<courier, provider, creates, memory, redis, calls, intent>>
  BY DEF Adapters!Redeliver, Adapters!Recorded
<1>2. kept \in CallEnds
  BY DEF AdaptersTypes
<1>3. /\ kept = "CONFIRMED" => provider.parcels = 1
      /\ kept \in {"AUTH", "RATE"} => provider.parcels = 0
      /\ kept = "FAILED" => provider.parcels = 0 \/ Adapters!FailedUnread
  BY DEF OutcomesStand
<1> HIDE DEF kept
<1>4. /\ told' \in [create : CallEnds, cancel : CallEnds, found : BOOLEAN]
      /\ told'.create = kept /\ told'.cancel = told.cancel /\ told'.found = told.found
  BY <1>1, <1>2 DEF AdaptersTypes
<1>5. AdaptersTypes'
  BY <1>1, <1>4 DEF AdaptersTypes
<1>6. CallsStand'
  BY <1>1 DEF CallsStand, Sends
<1>7. OutcomesStand'
  BY <1>1, <1>3, <1>4 DEF OutcomesStand, Adapters!FailedUnread, Adapters!CancelUnread
<1> QED BY <1>5, <1>6, <1>7

\* A call whose token changes, or that has a token to send with.
LEMMA CallMoved ==
  ASSUME NEW c \in AdapterCall, Sends(c), c.m # "none", NEW d \in AdapterCall, d.m = c.m, d.left = c.left
  PROVE  Sends(d)
BY DEF Sends

LEMMA EnsureTokenStands ==
  ASSUME AdaptersInv, NEW p \in Processes, Adapters!EnsureToken(p)
  PROVE  AdaptersInv'
<1> DEFINE held == IF memory[p] # "none" THEN memory[p] ELSE redis
           to == IF Adapters!LogsIn /\ held = "none" THEN "login" ELSE "send"
           d == [calls[p] EXCEPT !.token = held, !.pc = to]
<1>1. /\ calls[p].pc = "token" /\ calls' = [calls EXCEPT ![p] = d]
      /\ memory' = memory \/ memory' = [memory EXCEPT ![p] = held]
      /\ UNCHANGED <<courier, provider, creates, redis, told, intent>>
  BY DEF Adapters!EnsureToken
<1>2. held \in Tokens /\ to \in {"login", "send"} /\ redis \in Tokens /\ memory \in [Processes -> Tokens]
  BY DEF AdaptersInv, AdaptersTypes
<1> HIDE DEF held, to
<1>3. calls[p] \in AdapterCall /\ Sends(calls[p]) /\ calls[p].m # "none"
  BY <1>1, CallsServe DEF Adapters!Methods, Adapters!DelhiveryServes
<1>4. d \in AdapterCall /\ d.m = calls[p].m /\ d.left = calls[p].left
  BY <1>2, <1>3 DEF AdapterCall
<1> HIDE DEF d
<1>5. Sends(d)
  BY <1>3, <1>4, CallMoved
<1>6. redis' \in Tokens /\ memory' \in [Processes -> Tokens]
  BY <1>1, <1>2
<1> QED BY <1>1, <1>4, <1>5, <1>6, CallGoesOn

LEMMA LoginStands ==
  ASSUME AdaptersInv, NEW p \in Processes, NEW a \in Adapters!Answers, Adapters!Login(p, a)
  PROVE  AdaptersInv'
<1> DEFINE end == Adapters!LoginEnd(a)
           d == [calls[p] EXCEPT !.token = "good", !.pc = "send"]
<1>1. calls[p].pc = "login" /\ UNCHANGED <<courier, provider>>
  BY DEF Adapters!Login
<1>2. \/ /\ end = "TOKEN" /\ calls' = [calls EXCEPT ![p] = d] /\ redis' = "good"
         /\ memory' = memory \/ memory' = [memory EXCEPT ![p] = "good"]
         /\ UNCHANGED <<creates, intent, told>>
      \/ end # "TOKEN" /\ Adapters!Finish(p, end) /\ UNCHANGED <<redis, memory>>
  BY DEF Adapters!Login
<1>3. end \in {"TOKEN", "AUTH", "RATE", "TIMEOUT", "PROVIDER", "LOST"}
  BY EndsOfLogins
<1> HIDE DEF end
<1>4. calls[p] \in AdapterCall /\ Sends(calls[p]) /\ calls[p].m # "none"
  BY <1>1, CallsServe DEF Adapters!Methods, Adapters!DelhiveryServes
<1>5. redis \in Tokens /\ memory \in [Processes -> Tokens] /\ provider \in AtCourier
  BY DEF AdaptersInv, AdaptersTypes
<1>6. CASE /\ end = "TOKEN" /\ calls' = [calls EXCEPT ![p] = d] /\ redis' = "good"
           /\ memory' = memory \/ memory' = [memory EXCEPT ![p] = "good"]
           /\ UNCHANGED <<creates, intent, told>>
  <2>1. d \in AdapterCall /\ d.m = calls[p].m /\ d.left = calls[p].left
    BY <1>4 DEF AdapterCall, Tokens
  <2> HIDE DEF d
  <2>2. Sends(d)
    BY <1>4, <2>1, CallMoved
  <2>3. redis' \in Tokens /\ memory' \in [Processes -> Tokens]
    BY <1>5, <1>6 DEF Tokens
  <2> QED BY <1>1, <1>6, <2>1, <2>2, <2>3, CallGoesOn
<1>7. CASE end # "TOKEN" /\ Adapters!Finish(p, end) /\ UNCHANGED <<redis, memory>>
  <2>1. end \in CallEnds /\ end \notin {"CONFIRMED", "CANCELLED", "FOUND"}
    BY <1>3 DEF CallEnds
  <2>2. calls[p].m = "createShipment" => provider.parcels = 0
    BY DEF AdaptersInv, CallsStand, OutcomesStand
  <2> QED BY <1>1, <1>4, <1>5, <1>7, <2>1, <2>2, CallEndsStand
<1> QED BY <1>2, <1>6, <1>7

LEMMA RevokeStands ==
  ASSUME AdaptersInv, Adapters!Revoke
  PROVE  AdaptersInv'
<1> USE DEF AdaptersInv
<1>1. /\ redis' = Adapters!Revoked(redis)
      /\ memory' = [q \in Processes |-> Adapters!Revoked(memory[q])]
      /\ calls' = [q \in Processes |-> [calls[q] EXCEPT !.token = Adapters!Revoked(calls[q].token)]]
      /\ UNCHANGED <<courier, provider, creates, told, intent>>
  BY DEF Adapters!Revoke
<1>2. \A token \in Tokens : Adapters!Revoked(token) \in Tokens /\ (token = "none" => Adapters!Revoked(token) = "none")
  BY DEF Adapters!Revoked, Tokens
<1>3. ASSUME NEW q \in Processes
      PROVE  calls'[q] \in AdapterCall /\ calls'[q].m = calls[q].m /\ Sends(calls'[q])
  <2> DEFINE token == Adapters!Revoked(calls[q].token)
             d == [calls[q] EXCEPT !.token = token]
  <2>1. calls[q] \in AdapterCall /\ Sends(calls[q])
    BY DEF AdaptersTypes, CallsStand
  <2>2. calls[q].token \in Tokens
    BY <2>1 DEF AdapterCall
  <2>3. token \in Tokens /\ (calls[q].token = "none" => token = "none")
    BY <1>2, <2>2
  <2>4. calls'[q] = d
    BY <1>1
  <2> HIDE DEF token
  <2>5. d \in AdapterCall /\ d.m = calls[q].m /\ d.left = calls[q].left
    BY <2>1, <2>3 DEF AdapterCall
  <2>6. CASE calls[q].m = "none"
    <3>1. calls[q] = Adapters!Resting /\ calls[q].token = "none"
      BY <2>1, <2>6 DEF Sends, Adapters!Resting
    <3>2. d = calls[q]
      BY <2>1, <2>3, <3>1 DEF AdapterCall
    <3> QED BY <2>1, <2>4, <3>2
  <2>7. CASE calls[q].m # "none"
    <3> HIDE DEF d
    <3>1. Sends(d)
      BY <2>1, <2>5, <2>7, CallMoved
    <3> QED BY <2>4, <2>5, <3>1
  <2> QED BY <2>6, <2>7
<1>4. AdaptersTypes'
  <2>1. redis' \in Tokens /\ memory' \in [Processes -> Tokens]
    BY <1>1, <1>2 DEF AdaptersTypes
  <2>2. calls' \in [Processes -> AdapterCall]
    BY <1>1, <1>3
  <2> QED BY <1>1, <2>1, <2>2 DEF AdaptersTypes
<1>5. CallsStand'
  BY <1>1, <1>3 DEF CallsStand
<1>6. OutcomesStand'
  BY <1>1 DEF OutcomesStand, Adapters!FailedUnread, Adapters!CancelUnread
<1> QED BY <1>4, <1>5, <1>6

LEMMA ExpireStands ==
  ASSUME AdaptersInv, Adapters!Expire
  PROVE  AdaptersInv'
<1> USE DEF AdaptersInv
<1>1. /\ redis' \in {redis, "none"}
      /\ memory' = memory \/ \E q \in Processes : memory' = [memory EXCEPT ![q] = "none"]
      /\ UNCHANGED <<courier, provider, creates, calls, told, intent>>
  BY DEF Adapters!Expire
<1>2. AdaptersTypes'
  BY <1>1 DEF AdaptersTypes, Tokens
<1>3. CallsStand'
  BY <1>1 DEF CallsStand, Sends
<1>4. OutcomesStand'
  BY <1>1 DEF OutcomesStand, Adapters!FailedUnread, Adapters!CancelUnread
<1> QED BY <1>2, <1>3, <1>4

\* What the seeds declare, courier by courier.
LEMMA DeclaredStands ==
  ASSUME courier \in Adapters!Names
  PROVE  Adapters!DeclaredIsServed
<1> SUFFICES ASSUME NEW m \in Adapters!Methods
             PROVE  m \in Adapters!Declared[courier] <=> Adapters!None # Adapters!Scripts(m)
  BY DEF Adapters!DeclaredIsServed
<1>1. m \in {"getQuote", "createShipment", "lookupByReference", "cancelShipment", "track", "getLabel",
             "schedulePickup", "ndrAction"}
  BY DEF Adapters!Methods, Adapters!DelhiveryServes
<1>2. courier \in {"delhivery", "shiprocket", "bluedart", "amazon_shipping", "xpressbees", "dtdc", "shadowfax"}
  BY DEF Adapters!Names, Adapters!Serves
<1>3. \A s : {s} = {<<>>} => s = <<>>
  OBVIOUS
<1>4. \A s, t : {s, t} = {<<>>} => s = <<>>
  OBVIOUS
<1>5. \A r : <<r>> # <<>>
  OBVIOUS
<1>6. \A r, o : <<r, o>> # <<>>
  OBVIOUS
<1>7. CASE m = "createShipment"
  <2>1. m \in Adapters!Declared[courier]
    BY <1>2, <1>7 DEF Adapters!Declared, Adapters!Methods, Adapters!DelhiverySeed, Adapters!ShiprocketSeed,
       Adapters!BluedartSeed, Adapters!AmazonSeed, Adapters!XpressbeesSeed, Adapters!DtdcSeed, Adapters!ShadowfaxSeed
  <2>2. Adapters!Scripts(m) = {Adapters!Books[courier]}
    BY <1>7 DEF Adapters!Scripts
  <2>3. Adapters!Books[courier] \in Bookings
    BY <1>2 DEF Bookings, Adapters!Books, Adapters!DelhiveryCreate, Adapters!ShiprocketCreate, Adapters!BluedartCreate,
       Adapters!AmazonCreate, Adapters!XpressbeesCreate, Adapters!DtdcCreate, Adapters!ShadowfaxCreate
  <2>4. <<>> \notin Bookings
    BY <1>5, <1>6 DEF Bookings
  <2> QED BY <2>1, <2>2, <2>3, <2>4, <1>3 DEF Adapters!None
<1>8. CASE m = "getQuote"
  <2>1. m \in Adapters!Declared[courier] <=> courier \notin {"amazon_shipping", "xpressbees", "shadowfax"}
    BY <1>2, <1>8 DEF Adapters!Declared, Adapters!Methods, Adapters!DelhiverySeed, Adapters!ShiprocketSeed,
       Adapters!BluedartSeed, Adapters!AmazonSeed, Adapters!XpressbeesSeed, Adapters!DtdcSeed, Adapters!ShadowfaxSeed
  <2>2. Adapters!Scripts(m) = Adapters!Quotes[courier]
    BY <1>8 DEF Adapters!Scripts
  <2>3. /\ courier \in {"amazon_shipping", "xpressbees", "shadowfax"} => Adapters!Quotes[courier] = Adapters!None
        /\ courier \notin {"amazon_shipping", "xpressbees", "shadowfax"} =>
             Adapters!Quotes[courier] \in {{<<"pincode", "charges">>}, {<<"pincode">>}}
    BY <1>2 DEF Adapters!Quotes, Adapters!DelhiveryQuote, Adapters!ShiprocketQuote, Adapters!BluedartQuote, Adapters!DtdcQuote
  <2> QED BY <1>3, <1>5, <1>6, <2>1, <2>2, <2>3 DEF Adapters!None
<1>9. CASE m \notin {"createShipment", "getQuote"}
  <2>1. Adapters!Scripts(m) = Adapters!Serves[courier][m]
    BY <1>9 DEF Adapters!Scripts
  <2>2. /\ \A r : {<<r>>} # {<<>>}
        /\ {<<"label", "download">>, <<"track", "label", "download">>} # {<<>>}
        /\ {<<"pickup">>, <<"track", "pickup">>} # {<<>>}
    BY <1>3, <1>4, <1>5, <1>6
  <2>3. ASSUME Adapters!Serves[courier] = Adapters!DelhiveryServes
        PROVE  Adapters!None # Adapters!Scripts(m)
    <3>1. \E r \in {"search", "cancel", "track", "label", "pickup", "ndr"} : Adapters!DelhiveryServes[m] = {<<r>>}
      BY <1>1, <1>9 DEF Adapters!DelhiveryServes
    <3>2. Adapters!Scripts(m) = Adapters!DelhiveryServes[m]
      BY <2>1, <2>3
    <3> QED BY <2>2, <3>1, <3>2 DEF Adapters!None
  <2>4. CASE courier \in {"delhivery", "xpressbees", "shadowfax"}
    <3>1. Adapters!Serves[courier] = Adapters!DelhiveryServes
      BY <2>4 DEF Adapters!Serves, Adapters!XpressbeesServes, Adapters!ShadowfaxServes
    <3>2. m \in Adapters!Declared[courier]
      BY <1>1, <1>9, <2>4 DEF Adapters!Declared, Adapters!DelhiverySeed, Adapters!XpressbeesSeed, Adapters!ShadowfaxSeed
    <3> QED BY <2>3, <3>1, <3>2
  <2>5. CASE courier \in {"bluedart", "dtdc"}
    <3>1. Adapters!Serves[courier] = [Adapters!DelhiveryServes EXCEPT !.ndrAction = Adapters!None]
      BY <2>5 DEF Adapters!Serves, Adapters!BluedartServes, Adapters!DtdcServes
    <3>2. m \in Adapters!Declared[courier] <=> m # "ndrAction"
      BY <1>1, <1>9, <2>5 DEF Adapters!Declared, Adapters!BluedartSeed, Adapters!DtdcSeed
    <3>3. CASE m = "ndrAction"
      BY <2>1, <3>1, <3>2, <3>3 DEF Adapters!DelhiveryServes
    <3>4. CASE m # "ndrAction"
      BY <1>1, <1>9, <2>1, <2>2, <3>1, <3>2, <3>4 DEF Adapters!DelhiveryServes, Adapters!None
    <3> QED BY <3>3, <3>4
  <2>6. CASE courier = "shiprocket"
    <3>1. Adapters!Serves[courier] = Adapters!ShiprocketServes
      BY <2>6 DEF Adapters!Serves
    <3>2. m \in Adapters!Declared[courier] <=> m # "ndrAction"
      BY <1>1, <1>9, <2>6 DEF Adapters!Declared, Adapters!ShiprocketSeed
    <3>3. CASE m = "ndrAction"
      BY <2>1, <3>1, <3>2, <3>3 DEF Adapters!ShiprocketServes
    <3>4. CASE m # "ndrAction"
      BY <1>1, <1>9, <2>1, <2>2, <3>1, <3>2, <3>4 DEF Adapters!ShiprocketServes, Adapters!None
    <3> QED BY <3>3, <3>4
  <2>7. CASE courier = "amazon_shipping"
    <3>1. Adapters!Serves[courier] = Adapters!AmazonServes
      BY <2>7 DEF Adapters!Serves
    <3>2. m \in Adapters!Declared[courier] <=> m \notin {"schedulePickup", "ndrAction"}
      BY <1>1, <1>9, <2>7 DEF Adapters!Declared, Adapters!AmazonSeed
    <3>3. /\ Adapters!AmazonServes.lookupByReference = {<<"search">>} /\ Adapters!AmazonServes.cancelShipment = {<<"cancel">>}
          /\ Adapters!AmazonServes.track = {<<"track">>} /\ Adapters!AmazonServes.getLabel = {<<"label">>}
          /\ Adapters!AmazonServes.schedulePickup = Adapters!None /\ Adapters!AmazonServes.ndrAction = Adapters!None
      BY DEF Adapters!AmazonServes, Adapters!DelhiveryServes
    <3>4. CASE m \in {"schedulePickup", "ndrAction"}
      BY <2>1, <3>1, <3>2, <3>3, <3>4
    <3>5. CASE m \notin {"schedulePickup", "ndrAction"}
      BY <1>1, <1>9, <2>1, <2>2, <3>1, <3>2, <3>3, <3>5 DEF Adapters!None
    <3> QED BY <3>4, <3>5
  <2> QED BY <1>2, <2>4, <2>5, <2>6, <2>7
<1> QED BY <1>7, <1>8, <1>9

\* *.adapter.ts, *.seed.ts: for any number of processes and faults, one booking
\* intent makes one parcel at most, none when its booking was refused or was held
\* back, none when it was told FAILED unless its create was answered by a broken
\* connection, a 5xx or no JSON; what is told booked or found is at the courier
\* and what is told cancelled is cancelled there, unless Amazon answered the
\* cancel by no JSON; and an adapter has the methods the seed of its courier
\* declares.
THEOREM AdaptersAnswerTruly == Spec => []AnswersAreTrue
<1>1. Init => AdaptersInv
  <2> SUFFICES ASSUME Adapters!Init PROVE AdaptersInv
    BY DEF Init
  <2>1. /\ courier \in Adapters!Names /\ provider = [parcels |-> 0, cancelled |-> FALSE, unread |-> {}]
        /\ creates = [p \in Processes |-> "none"] /\ memory = [p \in Processes |-> "none"] /\ redis = "none"
        /\ calls = [p \in Processes |-> Adapters!Resting]
        /\ told = [create |-> "none", cancel |-> "none", found |-> FALSE] /\ intent = "open"
    BY DEF Adapters!Init
  <2>2. Adapters!Resting \in AdapterCall /\ Adapters!Resting.m = "none"
    BY DEF Adapters!Resting, AdapterCall, Tokens
  <2>3. Sends(Adapters!Resting)
    BY <2>2 DEF Sends, Adapters!Reads, Adapters!Methods, Adapters!DelhiveryServes
  <2>4. AdaptersTypes
    BY <2>1, <2>2 DEF AdaptersTypes, AtCourier, Tokens, CallEnds
  <2>5. CallsStand
    BY <2>1, <2>2, <2>3 DEF CallsStand
  <2>6. OutcomesStand
    BY <2>1 DEF OutcomesStand
  <2> QED BY <2>4, <2>5, <2>6 DEF AdaptersInv
<1>2. AdaptersInv /\ [Next]_connectionsVars => AdaptersInv'
  <2> SUFFICES ASSUME AdaptersInv, [Next]_connectionsVars PROVE AdaptersInv'
    OBVIOUS
  <2>1. CASE Adapters!Next
    <3>1. ASSUME NEW p \in Processes, NEW m \in Adapters!Methods, Adapters!Begin(p, m) PROVE AdaptersInv'
      BY <3>1, BeginStands
    <3>2. ASSUME NEW p \in Processes, Adapters!Redeliver(p) PROVE AdaptersInv'
      BY <3>2, RedeliverStands
    <3>3. ASSUME NEW p \in Processes, Adapters!EnsureToken(p) PROVE AdaptersInv'
      BY <3>3, EnsureTokenStands
    <3>4. ASSUME NEW p \in Processes, NEW a \in Adapters!Answers, Adapters!Login(p, a) PROVE AdaptersInv'
      BY <3>4, LoginStands
    <3>5. ASSUME NEW p \in Processes, NEW a \in Adapters!Answers, Adapters!Send(p, a) PROVE AdaptersInv'
      BY <3>5, SendStands
    <3> QED BY <2>1, <3>1, <3>2, <3>3, <3>4, <3>5, RevokeStands, ExpireStands DEF Adapters!Next
  <2>2. CASE UNCHANGED courierVars
    BY <2>2 DEF courierVars, AdaptersInv, AdaptersTypes, CallsStand, OutcomesStand, Sends, Adapters!FailedUnread,
       Adapters!CancelUnread
  <2> QED BY <2>1, <2>2 DEF Next, connectionsVars
<1>3. AdaptersInv => AnswersAreTrue
  <2> SUFFICES ASSUME AdaptersInv PROVE Adapters!AnswersAreTrue /\ Adapters!DeclaredIsServed
    BY DEF AnswersAreTrue
  <2>1. Adapters!DeclaredIsServed
    BY DeclaredStands DEF AdaptersInv, AdaptersTypes
  <2>2. Adapters!AnswersAreTrue
    BY DEF AdaptersInv, AdaptersTypes, AtCourier, OutcomesStand, Adapters!AnswersAreTrue,
       Adapters!FailedUnread, Adapters!CancelUnread
  <2> QED BY <2>1, <2>2
<1> QED BY <1>1, <1>2, <1>3, PTL DEF Spec, connectionsVars

=============================================================================
