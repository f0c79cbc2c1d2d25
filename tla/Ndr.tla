-------------------------------- MODULE Ndr --------------------------------
(***************************************************************************)
(* The NDR cases of a shop (NdrCaseService) and everybody who moves them:  *)
(* the seams the movement reducer calls for an undelivered attempt and for *)
(* an ending (NdrTrackingSeams), members' and the automatic actions        *)
(* (NdrActionService), and buyers' responses (NdrBuyerResponseService).    *)
(*                                                                         *)
(* A process is one call: an attempt's seam, the seam of a shipment's      *)
(* ending (named by the shipment), a member's submit or a buyer's response.*)
(* Every statement of the code is a step of its own; none of them runs in  *)
(* a transaction with another.  Transit's CallSeam starts the seams.       *)
(***************************************************************************)
EXTENDS Naturals, Sequences, FiniteSets, FiniteSetsExt

CONSTANTS
  Shipments,         \* each with the seam call of its ending
  Attempts,          \* UNDELIVERED_ATTEMPT scans, each with its seam call
  Requests,          \* submits of members (a bulk request is several) and buyers
  MaxVersionRetries, \* tries of the conditional UPDATE (3 in the code)
  MaxCrashes         \* bound: processes that may die

Processes == Shipments \cup Attempts \cup Requests
States == {"OPEN", "ACTION_SUBMITTED", "REATTEMPT_SCHEDULED", "RTO_REQUESTED", "CLOSED"}
NdrActions == {"REATTEMPT", "INITIATE_RTO"} \* UPDATE_ADDRESS_AND_REATTEMPT moves a case as REATTEMPT

ASSUME ProcessAssumption ==
  Shipments \cap (Attempts \cup Requests) = {} /\ Attempts \cap Requests = {}
ASSUME BoundAssumption == MaxVersionRetries \in Nat \ {0} /\ MaxCrashes \in Nat

\* A case with an action underway is not closed.
FromStatesBug == [to \in States |->
  CASE to = "OPEN" -> {"ACTION_SUBMITTED", "REATTEMPT_SCHEDULED"}
    [] to = "ACTION_SUBMITTED" -> {"OPEN"}
    [] to \in {"REATTEMPT_SCHEDULED", "RTO_REQUESTED"} -> {"ACTION_SUBMITTED"}
    [] to = "CLOSED" -> {"OPEN", "REATTEMPT_SCHEDULED", "RTO_REQUESTED"}]

FromStates == [to \in States |->
  CASE to = "OPEN" -> {"ACTION_SUBMITTED", "REATTEMPT_SCHEDULED"}
    [] to = "ACTION_SUBMITTED" -> {"OPEN"}
    [] to \in {"REATTEMPT_SCHEDULED", "RTO_REQUESTED"} -> {"ACTION_SUBMITTED"}
    [] to = "CLOSED" -> States \ {"CLOSED"}]

VARIABLES
  case,       \* the ndr_case rows, in the order of created_at
  actions,    \* the ndr_action rows
  response,   \* the ndr_buyer_response row of each buyer's request
  attempted,  \* the attempts' events: UNDELIVERED_ATTEMPT scans per shipment
  proc,       \* the processes, with what they hold in memory
  crashes     \* processes that have died

vars == <<case, actions, response, attempted, proc, crashes>>

Case(s, state, count, version) ==
  [shipment |-> s, state |-> state, count |-> count, version |-> version]
Action(c, action, result) == [case |-> c, action |-> action, result |-> result]

\* `seen' is what the process has read of the row, `tries' of an UPDATE by it.
Process(pc, c, seen, action, tries) ==
  [pc |-> pc, case |-> c, seen |-> seen, action |-> action, tries |-> tries]
At(pc) == [pc |-> pc]
Seam(pc, s) == [pc |-> pc, shipment |-> s]
Lost(pc, c) == [pc |-> pc, case |-> c]
Read(row) == [state |-> row.state, version |-> row.version]

Init ==
  /\ case = <<>> /\ actions = {} /\ crashes = 0
  /\ response = [r \in Requests |-> "none"]
  /\ attempted = [s \in Shipments |-> 0]
  /\ proc = [p \in Processes |-> At("new")]

Become(p, q) == proc' = [proc EXCEPT ![p] = q]
Ended(s) == proc[s].pc # "new"
CasesOf(s) == {c \in DOMAIN case : case[c].shipment = s}

(***************************************************************************)
(* The attempt's seam: find the latest case, then open, reopen or count.   *)
(***************************************************************************)

\* The reducer takes an attempt only before a terminal movement state.
BeginAttempt(a, s) ==
  /\ proc[a].pc = "new" /\ ~Ended(s)
  /\ attempted' = [attempted EXCEPT ![s] = @ + 1]
  /\ Become(a, Seam("find", s))
  /\ UNCHANGED <<case, actions, response, crashes>>

\* findLatestCase: of any state; a CLOSED one ignores the attempt.
FindLatest(a) ==
  LET s == proc[a].shipment
      c == Max(CasesOf(s))
      pc == IF case[c].state = "REATTEMPT_SCHEDULED" THEN "reopen" ELSE "count"
  IN
  /\ proc[a].pc = "find"
  /\ \/ CasesOf(s) = {} /\ Become(a, Seam("insert", s))
     \/ /\ CasesOf(s) # {}
        /\ Become(a, IF case[c].state = "CLOSED" THEN At("done")
                     ELSE Process(pc, c, Read(case[c]), "REATTEMPT", 1))
  /\ UNCHANGED <<case, actions, response, attempted, crashes>>

\* The first attempt opens the case; S-43 may then submit a reattempt.
OpenCase(a) ==
  /\ proc[a].pc = "insert"
  /\ case' = Append(case, Case(proc[a].shipment, "OPEN", 1, 1))
  /\ \/ Become(a, At("done"))
     \/ Become(a, Process("submit", Len(case'), Read(case'[Len(case')]), "REATTEMPT", 1))
  /\ UNCHANGED <<actions, response, attempted, crashes>>

\* The UPDATE is not conditional on the version that was read.
VersionMatchesBug(p) == TRUE

VersionMatches(p) == case[proc[p].case].version = proc[p].seen.version

\* In OPEN, ACTION_SUBMITTED and RTO_REQUESTED the attempt is only counted, in
\* one UPDATE that is not tried again.
CountAttempt(a) ==
  LET c == proc[a].case IN
  /\ proc[a].pc = "count"
  /\ case' = IF VersionMatches(a)
       THEN [case EXCEPT ![c] = Case(@.shipment, @.state, @.count + 1, @.version + 1)]
       ELSE case
  /\ Become(a, At("done"))
  /\ UNCHANGED <<actions, response, attempted, crashes>>

(***************************************************************************)
(* The ending's seam: close the case that is open.                         *)
(***************************************************************************)

EndShipment(s) ==
  /\ proc[s].pc = "new"
  /\ Become(s, Seam("find", s))
  /\ UNCHANGED <<case, actions, response, attempted, crashes>>

FindOpen(s) ==
  LET open == {c \in CasesOf(s) : case[c].state # "CLOSED"}
      c == Max(open)
  IN
  /\ proc[s].pc = "find"
  /\ Become(s, IF open = {} THEN At("done") ELSE Process("close", c, Read(case[c]), "REATTEMPT", 1))
  /\ UNCHANGED <<case, actions, response, attempted, crashes>>

(***************************************************************************)
(* submit: read the case, ask the courier, mark, record, move the case.    *)
(***************************************************************************)

\* An action is taken from OPEN only.
Ask(p, c, action) ==
  Become(p, IF case[c].state = "OPEN" THEN Process("ask", c, Read(case[c]), action, 1)
                                      ELSE At("done"))

\* A member's request names a case and an action.
SubmitRequest(r, c, action) ==
  /\ proc[r].pc = "new"
  /\ Ask(r, c, action)
  /\ UNCHANGED <<case, actions, response, attempted, crashes>>

\* A buyer's response is stored, then processed; COD_TO_PREPAID drives no action.
RespondNdr(r, c) ==
  /\ proc[r].pc = "new"
  /\ \/ /\ response' = [response EXCEPT ![r] = "stored"]
        /\ Ask(r, c, "REATTEMPT")
     \/ /\ response' = [response EXCEPT ![r] = "paymentLinkPending"]
        /\ Become(r, At("done"))
  /\ UNCHANGED <<case, actions, attempted, crashes>>

\* S-43, once the settings are read.
AutoReattempt(a) ==
  /\ proc[a].pc = "submit"
  /\ Ask(a, proc[a].case, "REATTEMPT")
  /\ UNCHANGED <<case, actions, response, attempted, crashes>>

\* The courier accepts or rejects; a call that fails is recorded, and whether
\* the courier has the action is not known.
CourierAnswers(p) ==
  LET c == proc[p].case
      pc == proc[p].pc
  IN
  /\ pc = "ask"
  /\ \/ /\ \E answer \in {"accepted", "rejected"} :
             Become(p, Process(answer, c, proc[p].seen, proc[p].action, 1))
        /\ UNCHANGED actions
     \/ /\ actions' = actions \cup {Action(c, proc[p].action, "TRANSPORT_ERROR")}
        /\ Become(p, At("done"))
  /\ UNCHANGED <<case, response, attempted, crashes>>

\* The row keeps the courier's answer.
PersistAction(p) ==
  LET c == proc[p].case
      pc == proc[p].pc
      result == IF pc = "saveAccepted" THEN "ACCEPTED" ELSE "REJECTED_BY_PROVIDER"
  IN
  /\ pc \in {"saveAccepted", "saveRejected"}
  /\ actions' = actions \cup {Action(c, proc[p].action, result)}
  /\ Become(p, Process(IF pc = "saveAccepted" THEN "ack" ELSE "return",
                       c, proc[p].seen, proc[p].action, 1))
  /\ UNCHANGED <<case, response, attempted, crashes>>

LinkResponse(r) ==
  /\ proc[r].pc = "link"
  /\ response' = [response EXCEPT ![r] = "linked"]
  /\ Become(r, At("done"))
  /\ UNCHANGED <<case, actions, attempted, crashes>>

(***************************************************************************)
(* transition: the only writer of a case's state.                          *)
(***************************************************************************)

Moving == {"reopen", "close", "accepted", "rejected", "return", "ack"}
Target(p) ==
  CASE proc[p].pc \in {"reopen", "return"} -> "OPEN"
    [] proc[p].pc = "close" -> "CLOSED"
    [] proc[p].pc \in {"accepted", "rejected"} -> "ACTION_SUBMITTED"
    [] proc[p].pc = "ack" /\ proc[p].action = "INITIATE_RTO" -> "RTO_REQUESTED"
    [] proc[p].pc = "ack" /\ proc[p].action = "REATTEMPT" -> "REATTEMPT_SCHEDULED"

Responds(p) == p \in Requests /\ response[p] = "stored"

\* The case is moved without a row of the accepted action.
MovedBug(p, row) ==
  CASE proc[p].pc = "accepted" -> Process("ack", proc[p].case, row, proc[p].action, 1)
    [] proc[p].pc = "rejected" -> Process("saveRejected", proc[p].case, row, proc[p].action, 1)
    [] proc[p].pc = "ack" /\ Responds(p) -> At("link")
    [] OTHER -> At("done")

\* What the caller goes on with once transition has returned the row.
Moved(p, row) ==
  CASE proc[p].pc = "accepted" -> Process("saveAccepted", proc[p].case, row, proc[p].action, 1)
    [] proc[p].pc = "rejected" -> Process("saveRejected", proc[p].case, row, proc[p].action, 1)
    [] proc[p].pc = "ack" /\ Responds(p) -> At("link")
    [] OTHER -> At("done")

\* The reverse row of a rejected action is missing.
ListedBug(p) ==
  /\ proc[p].seen.state \in FromStates[Target(p)]
  /\ ~(Target(p) = "OPEN" /\ proc[p].seen.state = "ACTION_SUBMITTED")

Listed(p) == proc[p].seen.state \in FromStates[Target(p)]

\* It is there already: nothing to write, an attempt is not counted either.
AlreadyThere(p) ==
  /\ proc[p].pc \in Moving /\ proc[p].seen.state = Target(p)
  /\ Become(p, Moved(p, proc[p].seen))
  /\ UNCHANGED <<case, actions, response, attempted, crashes>>

\* The ConflictException of a move that machine F does not list.
NotListed(p) ==
  /\ proc[p].pc \in Moving /\ proc[p].seen.state # Target(p) /\ ~Listed(p)
  /\ Become(p, At("done"))
  /\ UNCHANGED <<case, actions, response, attempted, crashes>>

\* A case that is back to OPEN counts, after a rejection as after an attempt.
CountedBug(p) == IF Target(p) = "OPEN" THEN 1 ELSE 0

Counted(p) == IF proc[p].pc = "reopen" THEN 1 ELSE 0

MoveCase(p) ==
  LET c == proc[p].case
      row == Case(case[c].shipment, Target(p), case[c].count + Counted(p), case[c].version + 1)
  IN
  /\ proc[p].pc \in Moving /\ proc[p].seen.state # Target(p) /\ Listed(p)
  /\ VersionMatches(p)
  /\ case' = [case EXCEPT ![c] = row]
  /\ Become(p, Moved(p, Read(row)))
  /\ UNCHANGED <<actions, response, attempted, crashes>>

\* A mismatch reads the row again; after the last try transition throws.
VersionMismatch(p) ==
  LET c == proc[p].case IN
  /\ proc[p].pc \in Moving /\ proc[p].seen.state # Target(p) /\ Listed(p)
  /\ ~VersionMatches(p)
  /\ Become(p, IF proc[p].tries < MaxVersionRetries
                 THEN Process(proc[p].pc, c, Read(case[c]), proc[p].action, proc[p].tries + 1)
                 ELSE Lost("gaveUp", c))
  /\ UNCHANGED <<case, actions, response, attempted, crashes>>

(***************************************************************************)
(* Specification.                                                          *)
(***************************************************************************)

AtRest == {"new", "done", "gaveUp", "dead"}

\* The process dies; what it has committed stays, and nobody resumes it.
Crash(p) ==
  /\ crashes < MaxCrashes /\ proc[p].pc \notin AtRest
  /\ crashes' = crashes + 1
  /\ Become(p, IF "case" \in DOMAIN proc[p] THEN Lost("dead", proc[p].case) ELSE At("dead"))
  /\ UNCHANGED <<case, actions, response, attempted>>

SeamStep(p) ==
  \/ p \in Attempts /\ (FindLatest(p) \/ OpenCase(p) \/ CountAttempt(p) \/ AutoReattempt(p))
  \/ p \in Shipments /\ FindOpen(p)

SubmitStep(p) ==
  CourierAnswers(p) \/ PersistAction(p) \/ (p \in Requests /\ LinkResponse(p))

TransitionStep(p) == AlreadyThere(p) \/ NotListed(p) \/ MoveCase(p) \/ VersionMismatch(p)

Step(p) == SeamStep(p) \/ SubmitStep(p) \/ TransitionStep(p)

Next ==
  \/ \E a \in Attempts, s \in Shipments : BeginAttempt(a, s)
  \/ \E s \in Shipments : EndShipment(s)
  \/ \E r \in Requests, c \in DOMAIN case, action \in NdrActions : SubmitRequest(r, c, action)
  \/ \E r \in Requests, c \in DOMAIN case : RespondNdr(r, c)
  \/ \E p \in Processes : Step(p) \/ Crash(p)

Spec == Init /\ [][Next]_vars

\* The seam of an ending goes on: its statements return.  Nothing is assumed of
\* the attempts' seams and the submits, which may stall anywhere.
FairSpec == Spec /\ \A s \in Shipments : WF_vars(Step(s))

(***************************************************************************)
(* Properties.                                                             *)
(***************************************************************************)

\* Every variable keeps its type: rows hold only the code's enums, a process
\* only what its call has read.
Rows == [shipment : Shipments, state : States, count : Nat, version : Nat]
TypeOK ==
  /\ case \in Seq(Rows)
  /\ actions \subseteq [case : DOMAIN case, action : NdrActions,
                        result : {"ACCEPTED", "REJECTED_BY_PROVIDER", "TRANSPORT_ERROR"}]
  /\ response \in [Requests -> {"none", "stored", "linked", "paymentLinkPending"}]
  /\ attempted \in [Shipments -> Nat] /\ crashes \in 0..MaxCrashes
  /\ \A p \in Processes :
       \/ proc[p] \in [pc : AtRest \cup {"link"}]
       \/ proc[p] \in [pc : {"find", "insert"}, shipment : Shipments]
       \/ proc[p] \in [pc : {"gaveUp", "dead"}, case : DOMAIN case]
       \/ proc[p] \in [pc : Moving \cup {"count", "submit", "ask", "saveAccepted", "saveRejected"},
                        case : DOMAIN case, seen : [state : States, version : Nat], action : NdrActions,
                        tries : 1..MaxVersionRetries]

\* Whoever interleaves, a case only takes moves of machine F: CLOSED is final and
\* comes only with the shipment's ending, RTO_REQUESTED only closes, and an
\* attempt's count never falls (section 3.10, INV-17).
Cases == INSTANCE NdrCases WITH
  state <- [c \in DOMAIN case |-> case[c].state],
  count <- [c \in DOMAIN case |-> case[c].count],
  of    <- [c \in DOMAIN case |-> case[c].shipment],
  ended <- {s \in Shipments : Ended(s)}
ImplementsCases == Cases!Spec

\* attempt_count never says more attempts than the courier made, over all cases
\* of the shipment; the merchant decides on an RTO by it.
CountedAttempts(s) == UNION {{c} \X (1..case[c].count) : c \in CasesOf(s)}
AttemptsCountedOnce == \A s \in Shipments : Cardinality(CountedAttempts(s)) <= attempted[s]

\* A case says that a reattempt or an RTO is on its way only when the courier's
\* acceptance of that very action is on record.
Accepted(c, action) == \E row \in actions :
  row.case = c /\ row.action = action /\ row.result = "ACCEPTED"
AcksOnRecord == \A c \in DOMAIN case :
  /\ case[c].state = "REATTEMPT_SCHEDULED" => Accepted(c, "REATTEMPT")
  /\ case[c].state = "RTO_REQUESTED" => Accepted(c, "INITIATE_RTO")

\* ACTION_SUBMITTED takes no action of anybody else, so a case must not stay
\* there: a submit that will move it on is under way, or has died with it or
\* used up its version retries.
MovesOn(p, c) ==
  /\ proc[p].pc \in {"saveAccepted", "saveRejected", "ack", "return", "gaveUp", "dead"}
  /\ proc[p] # At("dead") /\ proc[p].case = c
SubmittedIsAttended == \A c \in DOMAIN case :
  case[c].state = "ACTION_SUBMITTED" => \E p \in Processes : MovesOn(p, c)

\* An ended shipment gets its case closed, however many submits race with the
\* ending -- when the ending finds the attempts' seams through and they have left
\* one case; and unless its own seam dies or uses up its version retries.
Underway(a, s) ==
  /\ proc[a].pc \notin AtRest
  /\ \/ "shipment" \in DOMAIN proc[a] /\ proc[a].shipment = s
     \/ "case" \in DOMAIN proc[a] /\ case[proc[a].case].shipment = s
AttemptsThrough(s) ==
  Cardinality(CasesOf(s)) <= 1 /\ \A a \in Attempts : ~Underway(a, s)
AllClosed(s) == \A c \in CasesOf(s) : case[c].state = "CLOSED"
CasesClose == \A s \in Shipments :
  (proc[s].pc = "find" /\ AttemptsThrough(s))
    ~> (AllClosed(s) \/ proc[s].pc \in {"gaveUp", "dead"})

(***************************************************************************)
(* What a comment says of the code, and it does not do.                    *)
(***************************************************************************)

\* NdrCaseService: a case leaves REATTEMPT_SCHEDULED for OPEN on a further
\* attempt, which is counted.
ReopenCounts(c) ==
  case[c].state = "REATTEMPT_SCHEDULED" /\ case'[c].state = "OPEN"
    => case'[c].count = case[c].count + 1
ReopensCount == [][\A c \in DOMAIN case : ReopenCounts(c)]_vars

=============================================================================
