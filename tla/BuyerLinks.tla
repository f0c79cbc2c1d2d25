------------------------------ MODULE BuyerLinks ------------------------------
(***************************************************************************)
(* The links a buyer is sent: the track link of a shipment and the single- *)
(* purpose link that answers a failed delivery (ADD-27).  They are minted  *)
(* by the messages of the shipment, die with an uninstallation or a        *)
(* redaction, or with the answer they were for.                            *)
(***************************************************************************)
EXTENDS Integers

CONSTANTS
  Buyers,     \* requests on the links, at once
  MaxLinks,   \* bound: links of each kind
  MaxMoves,   \* bound: uninstallations, installations and redactions
  MaxFaults   \* bound: processes that die, processors that fail

VARIABLES
  granted,   \* whether the role of the connection may UPDATE ndr_response_token
  isTest,    \* shipment.is_test
  shop,      \* account_state, and where its uninstallation stands
  track,     \* the track_token rows
  token,     \* the ndr_response_token rows
  answer,    \* the ndr_buyer_response rows: the token, whether it was handed on
  request,   \* each buyer's request
  dead,      \* tokens of which a request, begun later, must hear no
  bounds

linkVars == <<granted, isTest, shop, track, token, answer, request, dead, bounds>>

Idle == [at |-> "idle"]
LinkIds == 1..MaxLinks
None == [l \in LinkIds |-> "none"]

Init ==
  /\ granted \in BOOLEAN /\ isTest \in BOOLEAN
  /\ shop = [state |-> "ACTIVE", closing |-> FALSE]
  /\ track = None /\ token = None
  /\ answer = {}
  /\ request = [b \in Buyers |-> Idle]
  /\ dead = [track |-> {}, token |-> {}]
  /\ bounds = [moves |-> MaxMoves, faults |-> MaxFaults]

Spend(what) == bounds[what] > 0 /\ bounds' = [bounds EXCEPT ![what] = @ - 1]

----------------------------------------------------------------------------
(* Minting (sendForShipment): what is a test is looked at first; the track *)
(* link goes with "shipped", the answer's with a failed attempt.           *)

SkipsTest == isTest
Minted(rows) ==
  {[rows EXCEPT ![l] = "live"] : l \in {m \in LinkIds : rows[m] = "none"}}
Send ==
  /\ ~SkipsTest
  /\ \/ track' \in Minted(track) /\ UNCHANGED token
     \/ token' \in Minted(token) /\ UNCHANGED track
  /\ UNCHANGED <<granted, isTest, shop, answer, request, dead, bounds>>

----------------------------------------------------------------------------
(* Use.                                                                    *)

Resolves(rows, l) == rows[l] = "live" /\ shop.state # "UNINSTALLED"

\* Opening a track link: one statement, no state.
TrackOpens(l) == Resolves(track, l)

\* submit: the token is read, the answer is stored, the token is revoked, the
\* answer is handed on; each a statement of its own.
Resolve(b) ==
  /\ request[b].at = "idle"
  /\ \E l \in LinkIds :
       /\ token[l] # "none"
       /\ request' = [request EXCEPT ![b] =
            IF Resolves(token, l) THEN [at |-> "resolved", link |-> l, late |-> IF l \in dead.token THEN "yes" ELSE "no"]
            ELSE Idle]
  /\ UNCHANGED <<granted, isTest, shop, track, token, answer, dead, bounds>>

Store(b) ==
  /\ request[b].at = "resolved"
  /\ answer' = answer \cup {[by |-> b, link |-> request[b].link, state |-> "stored"]}
  /\ request' = [request EXCEPT ![b].at = "stored"]
  /\ UNCHANGED <<granted, isTest, shop, track, token, dead, bounds>>

\* Without the privilege the statement raises, and with it the request.
Revoked(l) == [token EXCEPT ![l] = "revoked"]
Revoke(b) ==
  /\ request[b].at = "stored"
  /\ IF granted
     THEN /\ token' = Revoked(request[b].link)
          /\ request' = [request EXCEPT ![b].at = "revoked"]
     ELSE request' = [request EXCEPT ![b] = Idle] /\ UNCHANGED token
  /\ UNCHANGED <<granted, isTest, shop, track, answer, dead, bounds>>

Answers(b) == {a \in answer : a.by = b /\ a.link = request[b].link}
\* The processor takes the record, or fails and leaves it; the buyer hears yes.
HandOn(b) ==
  /\ request[b].at = "revoked"
  /\ \/ /\ answer' = (answer \ Answers(b))
                       \cup {[by |-> b, link |-> request[b].link, state |-> "handed"]}
        /\ UNCHANGED bounds
     \/ Spend("faults") /\ UNCHANGED answer
  /\ dead' = [dead EXCEPT !.token = @ \cup {request[b].link}]
  /\ request' = [request EXCEPT ![b] = Idle]
  /\ UNCHANGED <<granted, isTest, shop, track, token>>

Dies(b) ==
  /\ request[b].at \in {"stored", "revoked"} /\ Spend("faults")
  /\ request' = [request EXCEPT ![b] = Idle]
  /\ UNCHANGED <<granted, isTest, shop, track, token, answer, dead>>

----------------------------------------------------------------------------
(* Revocation: the uninstallation's handler sets the state, then revokes   *)
(* the shop's track tokens; a redaction revokes them.                      *)

RevokeAll == [l \in LinkIds |-> IF track[l] = "live" THEN "revoked" ELSE track[l]]
Live == {l \in LinkIds : track[l] = "live"}

Uninstall ==
  /\ ~shop.closing /\ shop.state = "ACTIVE" /\ Spend("moves")
  /\ shop' = [state |-> "UNINSTALLED", closing |-> TRUE]
  /\ UNCHANGED <<granted, isTest, track, token, answer, request, dead>>
Close ==
  /\ shop.closing
  /\ shop' = [shop EXCEPT !.closing = FALSE]
  /\ track' = RevokeAll
  /\ dead' = [dead EXCEPT !.track = @ \cup Live]
  /\ UNCHANGED <<granted, isTest, token, answer, request, bounds>>
\* The handler dies; the message is delivered again and does all of it again.
Redeliver ==
  /\ shop.closing /\ Spend("faults")
  /\ shop' = [state |-> "UNINSTALLED", closing |-> TRUE]
  /\ UNCHANGED <<granted, isTest, track, token, answer, request, dead>>
Reinstall ==
  /\ shop.state = "UNINSTALLED" /\ Spend("moves")
  /\ shop' = [shop EXCEPT !.state = "ACTIVE"]
  /\ UNCHANGED <<granted, isTest, track, token, answer, request, dead>>
Redact ==
  /\ Spend("moves")
  /\ track' = RevokeAll
  /\ dead' = [dead EXCEPT !.track = @ \cup Live]
  /\ UNCHANGED <<granted, isTest, shop, token, answer, request>>

Next ==
  \/ Send
  \/ \E b \in Buyers : Resolve(b) \/ Store(b) \/ Revoke(b) \/ HandOn(b) \/ Dies(b)
  \/ Uninstall \/ Close \/ Redeliver \/ Reinstall \/ Redact

Spec == Init /\ [][Next]_linkVars

----------------------------------------------------------------------------

\* What this is for: a link that was taken back stays so, through a
\* reinstallation and a handler run twice; who was answered yes has used the
\* link up for whoever comes after; a test shipment has no link.
LinksStand ==
  /\ \A l \in dead.track : ~TrackOpens(l)
  /\ \A b \in Buyers : request[b].at # "idle" => request[b].late = "no"
  /\ isTest => track = None /\ token = None

\* The inductive invariant: what no request may hear of is revoked, and a request
\* that was answered has revoked its own.
States == {"none", "live", "revoked"}
LinksInv ==
  /\ track \in [LinkIds -> States] /\ token \in [LinkIds -> States]
  /\ dead = [track |-> dead.track, token |-> dead.token]
  /\ \A l \in dead.track : l \in LinkIds /\ track[l] = "revoked"
  /\ \A l \in dead.token : l \in LinkIds /\ token[l] = "revoked"
  /\ request = [b \in Buyers |-> request[b]]
  /\ \A b \in Buyers :
       \/ request[b] = Idle
       \/ /\ ~isTest /\ request[b] \in [at : {"resolved", "stored", "revoked"}, link : LinkIds, late : {"no"}]
          /\ request[b].at = "revoked" => token[request[b].link] = "revoked"
  /\ isTest => track = None /\ token = None

\* Not so: "the token dies with the first successful response".  Requests that
\* resolved it before are all stored; and the role the program connects with
\* has no UPDATE on the table (migration 0014, 236), so none of it is revoked
\* and every answer ends in an error.
TokenDies == \A a, b \in answer : a.link = b.link => a = b

\* Not so: an answer that is stored is acted on (nothing calls processPending).
AnswersAreHanded ==
  \A a \in answer : a.state = "stored" => request[a.by].at \in {"stored", "revoked"}

\* Not so: an uninstallation ends the buyers' access (only track tokens are
\* revoked; the others open again when the shop comes back).
UninstalledTokensStay ==
  shop.state = "ACTIVE" => \A l \in LinkIds : token[l] = "live" => bounds.moves = MaxMoves
=============================================================================
