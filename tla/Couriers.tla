------------------------------- MODULE Couriers -------------------------------
(***************************************************************************)
(* The seven courier adapters: the requests each method sends in order,    *)
(* how the answers end a call, the login token of those that have one, and *)
(* createsByIntent.  One account of one courier, one booking intent; each  *)
(* process has its own adapter instance and serves one call at a time.     *)
(***************************************************************************)
EXTENDS Integers, Sequences, FiniteSets

CONSTANTS
  Instances,    \* the processes, each with its adapter instance
  Alone,        \* a bound: the methods nothing else is called beside
  MaxFaults     \* bound on timeouts, broken connections, errors and revocations

VARIABLES
  courier,    \* the courier of the account
  provider,   \* what the courier has: parcels made, cancelled; and the requests that
              \* were answered by nothing the adapter can read (history)
  creates,    \* per instance: createsByIntent for the intent
  memory,     \* per instance: its copy of the token
  redis,      \* the cached token
  calls,      \* per instance: the call it serves
  told,       \* what the callers have been answered
  intent,     \* whether the booking worker may ask for the parcel
  faults

courierVars == <<courier, provider, creates, memory, redis, calls, told, intent, faults>>

----------------------------------------------------------------------------
(* The requests of each method, in order; none: the method is unsupported  *)
(* and throws before anything is sent.                                     *)

None == {<<>>}

DelhiveryQuote == {<<"pincode", "charges">>}
DelhiveryCreate == <<"waybill", "create">>
DelhiveryServes ==
  [lookupByReference |-> {<<"search">>}, cancelShipment |-> {<<"cancel">>}, track |-> {<<"track">>},
   getLabel |-> {<<"label">>}, schedulePickup |-> {<<"pickup">>}, ndrAction |-> {<<"ndr">>}]

\* Labels and pickups name Shiprocket's own shipment id, which the instance
\* knows from the booking or asks for.
ShiprocketQuote == {<<"pincode">>}
ShiprocketCreate == <<"order", "assign">>
ShiprocketServes ==
  [lookupByReference |-> {<<"search">>}, cancelShipment |-> {<<"cancel">>}, track |-> {<<"track">>},
   getLabel |-> {<<"label", "download">>, <<"track", "label", "download">>},
   schedulePickup |-> {<<"pickup">>, <<"track", "pickup">>}, ndrAction |-> None]

BluedartQuote == {<<"pincode", "charges">>}
BluedartCreate == <<"create">>
BluedartServes == [DelhiveryServes EXCEPT !.ndrAction = None]

AmazonCreate == <<"create">>
AmazonServes == [DelhiveryServes EXCEPT !.schedulePickup = None, !.ndrAction = None]

XpressbeesCreate == <<"create">>
XpressbeesServes == DelhiveryServes

DtdcQuote == {<<"pincode", "charges">>}
DtdcCreate == <<"create">>
DtdcServes == [DelhiveryServes EXCEPT !.ndrAction = None]

ShadowfaxCreate == <<"create">>
ShadowfaxServes == DelhiveryServes

Serves ==
  [delhivery |-> DelhiveryServes, shiprocket |-> ShiprocketServes, bluedart |-> BluedartServes,
   amazon_shipping |-> AmazonServes, xpressbees |-> XpressbeesServes, dtdc |-> DtdcServes,
   shadowfax |-> ShadowfaxServes]
Names == DOMAIN Serves
Quotes ==
  [c \in Names |-> CASE c = "delhivery" -> DelhiveryQuote [] c = "shiprocket" -> ShiprocketQuote
                     [] c = "bluedart" -> BluedartQuote [] c = "dtdc" -> DtdcQuote [] OTHER -> None]
Books ==
  [delhivery |-> DelhiveryCreate, shiprocket |-> ShiprocketCreate, bluedart |-> BluedartCreate,
   amazon_shipping |-> AmazonCreate, xpressbees |-> XpressbeesCreate, dtdc |-> DtdcCreate,
   shadowfax |-> ShadowfaxCreate]
Methods == {"getQuote", "createShipment"} \cup DOMAIN DelhiveryServes
Scripts(m) ==
  IF m = "getQuote" THEN Quotes[courier]
  ELSE IF m = "createShipment" THEN {Books[courier]} ELSE Serves[courier][m]

\* What the seed declares to the merchant (courier_capability).
DelhiverySeed == Methods
ShiprocketSeed == Methods \ {"ndrAction"}
BluedartSeed == Methods \ {"ndrAction"}
AmazonSeed == Methods \ {"getQuote", "schedulePickup", "ndrAction"}
XpressbeesSeed == Methods \ {"getQuote"}
DtdcSeed == Methods \ {"ndrAction"}
ShadowfaxSeed == Methods \ {"getQuote"}
Declared ==
  [delhivery |-> DelhiverySeed, shiprocket |-> ShiprocketSeed, bluedart |-> BluedartSeed,
   amazon_shipping |-> AmazonSeed, xpressbees |-> XpressbeesSeed, dtdc |-> DtdcSeed,
   shadowfax |-> ShadowfaxSeed]

----------------------------------------------------------------------------
(* How an answer ends a request.                                           *)

Body(obj, ok, awb) == [obj |-> obj, ok |-> ok, awb |-> awb]
\* A refused Delhivery package still names the waybill it was sent with.
Bodies(r) ==
  [done |-> Body(TRUE, TRUE, TRUE), garbled |-> Body(FALSE, FALSE, FALSE),
   refused |-> Body(TRUE, FALSE, courier = "delhivery" /\ r = "create")]

Classified(a) ==
  CASE a \in {"s401", "s403"} -> "AUTH"
    [] a = "s429" -> "RATE"
    [] a = "timeout" -> "TIMEOUT"
    [] a \in {"s400", "s500", "reset"} -> "PROVIDER"
    [] a = "cut" -> "LOST"     \* the answer's body breaks off: no adapter error
    [] OTHER -> "BODY"

\* A key is refused at once; a token is thrown away and asked for once more.
DelhiveryCall(a, again) == Classified(a)
DtdcCall(a, again) == Classified(a)
ShadowfaxCall(a, again) == Classified(a)
ShiprocketCall(a, again) == IF a = "s401" /\ ~again THEN "RELOGIN" ELSE Classified(a)
BluedartCall(a, again) == IF a = "s401" /\ ~again THEN "RELOGIN" ELSE Classified(a)
XpressbeesCall(a, again) == IF a = "s401" /\ ~again THEN "RELOGIN" ELSE Classified(a)
AmazonCall(a, again) == IF a = "s401" /\ ~again THEN "RELOGIN" ELSE Classified(a)
EndOf(a, again) ==
  CASE courier = "delhivery" -> DelhiveryCall(a, again)
    [] courier = "dtdc" -> DtdcCall(a, again)
    [] courier = "shadowfax" -> ShadowfaxCall(a, again)
    [] courier = "shiprocket" -> ShiprocketCall(a, again)
    [] courier = "bluedart" -> BluedartCall(a, again)
    [] courier = "xpressbees" -> XpressbeesCall(a, again)
    [] OTHER -> AmazonCall(a, again)

\* A login without a token in its answer is refused; Blue Dart's is whatever
\* went wrong, Amazon's also by a 400 (invalid_grant).
LoginBody(a) == IF a = "done" THEN "TOKEN" ELSE "AUTH"
ShiprocketLogin(a) == IF Classified(a) = "BODY" THEN LoginBody(a) ELSE Classified(a)
XpressbeesLogin(a) == IF Classified(a) = "BODY" THEN LoginBody(a) ELSE Classified(a)
AmazonLogin(a) ==
  IF Classified(a) = "BODY" THEN LoginBody(a) ELSE IF a = "s400" THEN "AUTH" ELSE Classified(a)
BluedartLogin(a) == LoginBody(a)
LoginEnd(a) ==
  CASE courier = "shiprocket" -> ShiprocketLogin(a)
    [] courier = "xpressbees" -> XpressbeesLogin(a)
    [] courier = "bluedart" -> BluedartLogin(a)
    [] OTHER -> AmazonLogin(a)
LogsIn == courier \in {"shiprocket", "bluedart", "xpressbees", "amazon_shipping"}
Remembers == courier # "bluedart"   \* Blue Dart's token is only in Redis

\* Whether the body of a create says that there is a parcel.
DelhiveryCreated(b) == b.obj /\ b.awb /\ b.ok
ShiprocketAssigned(b) == b.obj /\ b.awb
BluedartCreated(b) == b.obj /\ b.awb /\ b.ok
AmazonCreated(b) == b.obj /\ b.awb
XpressbeesCreated(b) == b.obj /\ b.ok /\ b.awb
DtdcCreated(b) == b.obj /\ b.ok /\ b.awb
ShadowfaxCreated(b) == b.obj /\ b.awb
Created(b) ==
  CASE courier = "delhivery" -> DelhiveryCreated(b)
    [] courier = "shiprocket" -> ShiprocketAssigned(b)
    [] courier = "bluedart" -> BluedartCreated(b)
    [] courier = "amazon_shipping" -> AmazonCreated(b)
    [] courier = "xpressbees" -> XpressbeesCreated(b)
    [] courier = "dtdc" -> DtdcCreated(b)
    [] OTHER -> ShadowfaxCreated(b)
OrderCreated(b) == b.obj /\ b.ok   \* Shiprocket's first request
GotWaybill(b) == b.ok              \* Delhivery's first request

\* Whether the body of a cancellation says that it was done.
CancelAccepted(b) == b.obj /\ b.ok
AmazonCancelAccepted(b) == ~b.obj \/ b.ok \/ b.awb
AmazonCancelRejected == {"s400"}   \* 400, 404 and 409 are answers, not errors

\* The parcel a search by the merchant's reference names.
Found(b) == b.obj /\ b.awb

----------------------------------------------------------------------------

Resting == [m |-> "none", left |-> <<>>, again |-> FALSE, token |-> "none", pc |-> "idle"]

Init ==
  /\ courier \in Names
  /\ provider = [parcels |-> 0, cancelled |-> FALSE, unread |-> {}]
  /\ creates = [p \in Instances |-> "none"]
  /\ memory = [p \in Instances |-> "none"]
  /\ redis = "none"
  /\ calls = [p \in Instances |-> Resting]
  /\ told = [create |-> "none", cancel |-> "none", found |-> FALSE]
  /\ intent = "open"
  /\ faults = 0

\* The recorded outcome of the intent, whatever it was, is answered again.
RecordedBug(p) == IF creates[p] = "OUTCOME_UNKNOWN" THEN "none" ELSE creates[p]
Recorded(p) == creates[p]

\* The methods whose answers nobody keeps.
Reads == Methods \ {"createShipment", "lookupByReference", "cancelShipment"}

\* A method is called.  createShipment is called by the booking worker, again
\* after back-pressure, and by a redelivered job of the instance that ended it.
Begin(p, m) ==
  /\ calls[p] = Resting
  /\ m = "createShipment" => Recorded(p) = "none" /\ (intent = "open" \/ creates[p] # "none")
  /\ m = "cancelShipment" => told.create = "CONFIRMED" /\ told.cancel = "none"
  /\ \A q \in Instances : calls[q].m \notin Alone /\ (m \in Alone => calls[q] = Resting)
  /\ \E script \in Scripts(m) \ None :
       calls' = [calls EXCEPT ![p] = [Resting EXCEPT !.m = m, !.left = script, !.pc = "token"]]
  /\ intent' = IF m = "createShipment" THEN "asked" ELSE intent
  /\ UNCHANGED <<courier, provider, creates, memory, redis, told, faults>>

Redeliver(p) ==
  /\ calls[p] = Resting /\ Recorded(p) # "none"
  /\ told' = [told EXCEPT !.create = Recorded(p)]
  /\ UNCHANGED <<courier, provider, creates, memory, redis, calls, intent, faults>>

\* ensureToken: the instance's copy, then Redis, then a login.
EnsureToken(p) ==
  LET held == IF memory[p] # "none" THEN memory[p] ELSE redis
  IN /\ calls[p].pc = "token"
     /\ calls' = [calls EXCEPT ![p] = [@ EXCEPT !.token = held,
                                              !.pc = IF LogsIn /\ held = "none" THEN "login" ELSE "send"]]
     /\ memory' = IF LogsIn /\ Remembers THEN [memory EXCEPT ![p] = held] ELSE memory
     /\ UNCHANGED <<courier, provider, creates, redis, told, intent, faults>>

\* How a call that threw, or was answered, ends for its caller.
Outcome(m, end) ==
  CASE m = "createShipment" /\ end \in {"TIMEOUT", "LOST"} -> "OUTCOME_UNKNOWN"
    [] m = "createShipment" /\ end = "PROVIDER" -> "FAILED"
    [] m = "cancelShipment" /\ end = "TIMEOUT" -> "OUTCOME_UNKNOWN"
    [] OTHER -> end

Finish(p, end) ==
  LET m == calls[p].m
      out == Outcome(m, end)
  IN /\ calls' = [calls EXCEPT ![p] = Resting]
     /\ creates' = IF m = "createShipment" /\ end \notin {"AUTH", "RATE", "LOST"} THEN [creates EXCEPT ![p] = out] ELSE creates
     /\ intent' = IF m # "createShipment" THEN intent ELSE IF out = "RATE" THEN "open" ELSE "settled"
     /\ told' = CASE m = "createShipment" -> [told EXCEPT !.create = out]
                  [] m = "cancelShipment" -> [told EXCEPT !.cancel = out]
                  [] m = "lookupByReference" -> [told EXCEPT !.found = out = "FOUND"]
                  [] OTHER -> told

Login(p, a) ==
  /\ calls[p].pc = "login"
  /\ a # "done" => faults < MaxFaults
  /\ faults' = IF a = "done" THEN faults ELSE faults + 1
  /\ IF LoginEnd(a) = "TOKEN"
     THEN /\ calls' = [calls EXCEPT ![p] = [@ EXCEPT !.token = "good", !.pc = "send"]]
          /\ redis' = "good"
          /\ memory' = IF Remembers THEN [memory EXCEPT ![p] = "good"] ELSE memory
          /\ UNCHANGED <<creates, intent, told>>
     ELSE Finish(p, LoginEnd(a)) /\ UNCHANGED <<redis, memory>>
  /\ UNCHANGED <<courier, provider>>

\* What a request does at the courier when it gets there.
Done(r) ==
  CASE r \in {"create", "assign"} -> [provider EXCEPT !.parcels = @ + 1]
    [] r = "cancel" -> [provider EXCEPT !.cancelled = TRUE]
    [] OTHER -> provider
\* ... and whether the courier can do it at all.
Able(r) ==
  CASE r = "search" -> provider.parcels > 0
    [] r \in {"cancel", "track", "label", "pickup", "ndr"} -> provider.parcels > 0 /\ ~provider.cancelled
    [] OTHER -> TRUE

\* What the next request's body means for the call.
Read(r, b) ==
  CASE r \in {"create", "assign"} -> IF Created(b) THEN "CONFIRMED" ELSE "FAILED"
    [] r = "order" -> IF OrderCreated(b) THEN "NEXT" ELSE "FAILED"
    [] r = "waybill" -> IF GotWaybill(b) THEN "NEXT" ELSE "FAILED"
    [] r = "cancel" -> IF IF courier = "amazon_shipping" THEN AmazonCancelAccepted(b) ELSE CancelAccepted(b)
                       THEN "CANCELLED" ELSE "REJECTED"
    [] r = "search" -> IF Found(b) THEN "FOUND" ELSE "NOT_FOUND"
    [] r = "pincode" -> IF b.ok THEN "NEXT" ELSE "UNSERVED"
    [] r = "charges" -> IF b.ok THEN "RATED" ELSE "UNRATED"
    [] r = "ndr" -> IF b.ok THEN "ACCEPTED" ELSE "DECLINED"
    [] OTHER -> IF b.ok THEN "NEXT" ELSE "PROVIDER"

Uncounted == {"done", "refused", "s401"}
\* Answers that leave open whether the courier acted.  Of a create the adapter
\* takes the first two for OUTCOME_UNKNOWN and the others, a connection that
\* breaks, a 5xx and a body that is no JSON, for the courier's no.
Unheard == {"timeout", "cut"}
Unread == {"reset", "s500", "garbled"}
Answers == {"done", "refused", "garbled", "s400", "s401", "s403", "s429", "s500", "timeout", "reset", "cut"}
TokenGood(p) == LogsIn => calls[p].token = "good"

\* What the courier has after a request that was answered by a.
Acts(p, r, a) ==
  LET able == TokenGood(p) /\ Able(r)
  IN IF a = "done" THEN {Done(r)} ELSE IF a \in Unheard \cup Unread /\ able THEN {provider, Done(r)} ELSE {provider}
Missed(r, a) == IF a \in Unread THEN {r} \cap {"create", "assign", "cancel"} ELSE {}

\* One request: the courier acts or not, and answers or not.
Send(p, a) ==
  LET c == calls[p]
      r == Head(c.left)
      end == EndOf(a, c.again)
      read == IF end = "BODY" THEN Read(r, Bodies(r)[a])
              ELSE IF courier = "amazon_shipping" /\ r = "cancel" /\ a \in AmazonCancelRejected THEN "REJECTED"
              ELSE end
  IN /\ c.pc = "send"
     /\ a = "done" => TokenGood(p) /\ Able(r)
     /\ ~TokenGood(p) => a \in {"s401", "timeout", "reset", "cut"}
     /\ a \notin Uncounted => faults < MaxFaults
     /\ faults' = IF a \in Uncounted THEN faults ELSE faults + 1
     /\ provider' \in {[after EXCEPT !.unread = @ \cup Missed(r, a)] : after \in Acts(p, r, a)}
     /\ CASE read = "RELOGIN" ->
               /\ calls' = [calls EXCEPT ![p] = [@ EXCEPT !.pc = "login", !.again = TRUE]]
               /\ redis' = "none" /\ memory' = [memory EXCEPT ![p] = "none"]
               /\ UNCHANGED <<creates, intent, told>>
          [] read = "NEXT" /\ Len(c.left) > 1 ->
               /\ calls' = [calls EXCEPT ![p] = [c EXCEPT !.left = Tail(c.left), !.again = FALSE, !.pc = "token"]]
               /\ UNCHANGED <<creates, intent, told, redis, memory>>
          [] OTHER -> Finish(p, read) /\ UNCHANGED <<redis, memory>>
     /\ UNCHANGED courier

\* The courier revokes the tokens it has given out; copies expire.
Revoked(token) == IF token = "good" THEN "stale" ELSE token
Revoke ==
  /\ LogsIn /\ faults < MaxFaults
  /\ redis' = Revoked(redis)
  /\ memory' = [p \in Instances |-> Revoked(memory[p])]
  /\ calls' = [p \in Instances |-> [calls[p] EXCEPT !.token = Revoked(@)]]
  /\ faults' = faults + 1
  /\ UNCHANGED <<courier, provider, creates, told, intent>>

Expire ==
  /\ \/ redis # "none" /\ redis' = "none" /\ UNCHANGED memory
     \/ \E p \in Instances : /\ memory[p] # "none" /\ calls[p] = Resting
                             /\ memory' = [memory EXCEPT ![p] = "none"] /\ UNCHANGED redis
  /\ UNCHANGED <<courier, provider, creates, calls, told, intent, faults>>

Next ==
  \/ \E p \in Instances :
       \/ \E m \in Methods : Begin(p, m)
       \/ Redeliver(p) \/ EnsureToken(p)
       \/ \E a \in Answers : Login(p, a) \/ Send(p, a)
  \/ Revoke \/ Expire

Spec == Init /\ [][Next]_courierVars

----------------------------------------------------------------------------

\* A method the merchant is offered is one the adapter has (A1-03).
DeclaredIsServed == \A m \in Methods : m \in Declared[courier] <=> None # Scripts(m)

\* The request that makes the parcel was answered by nothing the adapter reads,
\* and it told FAILED; Amazon's takes such an answer to a cancel for a yes.
FailedUnread == provider.unread \cap {"create", "assign"} # {}
CancelUnread == courier = "amazon_shipping" /\ "cancel" \in provider.unread

\* What an adapter answers about a parcel is true, whichever courier, however
\* its requests ended and however often the job was delivered: one intent makes
\* one parcel; none is there when the booking is refused the login or is held
\* back (the worker then books again or gives up), and none when it is told
\* FAILED, but for a create whose answer was a broken connection, a 5xx or no
\* JSON; and a cancellation or a parcel reported is one the courier knows of,
\* but for a cancel that Amazon answered by no JSON (INV-5, §9.5.4).
AnswersAreTrue ==
  /\ provider.parcels <= 1
  /\ told.create \in {"AUTH", "RATE"} /\ intent # "asked" => provider.parcels = 0
  /\ told.create = "FAILED" => provider.parcels = 0 \/ FailedUnread
  /\ told.create = "CONFIRMED" \/ told.found => provider.parcels = 1
  /\ told.cancel = "CANCELLED" => provider.cancelled \/ CancelUnread
=============================================================================
