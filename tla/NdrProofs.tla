----------------------------- MODULE NdrProofs -----------------------------
(***************************************************************************)
(* Theorems about Ndr for every value of its constants.                    *)
(***************************************************************************)
EXTENDS Ndr, SequenceTheorems, FiniteSetTheorems, WellFoundedInduction, TLAPS

(***************************************************************************)
(* The inductive invariant.                                                *)
(***************************************************************************)

Working == Moving \cup {"count", "submit", "ask", "saveAccepted", "saveRejected"}

\* What a process may hold, in four shapes.
Resting == [pc : AtRest \cup {"link"}]
Seeking == [pc : {"find", "insert"}, shipment : Shipments]
Fallen(n) == [pc : {"gaveUp", "dead"}, case : 1..n]
Holding(n) ==
  [pc : Working, case : 1..n, seen : [state : States, version : Nat],
   action : NdrActions, tries : 1..MaxVersionRetries]
Local(n) == Resting \cup Seeking \cup Fallen(n) \cup Holding(n)

Rowed(n) == [case : 1..n, action : NdrActions,
             result : {"ACCEPTED", "REJECTED_BY_PROVIDER", "TRANSPORT_ERROR"}]

DataOK ==
  /\ case \in Seq(Rows)
  /\ actions \subseteq Rowed(Len(case))
  /\ response \in [Requests -> {"none", "stored", "linked", "paymentLinkPending"}]
  /\ attempted \in [Shipments -> Nat] /\ crashes \in 0..MaxCrashes
TypeInv == DataOK /\ proc \in [Processes -> Local(Len(case))]

\* What a process has read of a row is not ahead of it, and is the row as long
\* as the version matches.  Only the ending of a shipment closes, and only a case
\* of that shipment.  An attempt is counted where the case was read as not closed.
\* Who is about to move a case by the courier's acceptance has put it on record.
SeenBefore(row, seen) ==
  /\ seen.version <= row.version
  /\ seen.version = row.version => seen.state = row.state
ProcOK(p) ==
  /\ proc[p].pc \in Working => SeenBefore(case[proc[p].case], proc[p].seen)
  /\ proc[p].pc = "close" => p \in Shipments /\ case[proc[p].case].shipment = p
  /\ proc[p].pc = "count" => proc[p].seen.state # "CLOSED"
  /\ proc[p].pc = "ack" => Accepted(proc[p].case, proc[p].action)
ProcInv == \A p \in Processes : ProcOK(p)

\* SubmittedIsAttended, by one who has read the case as ACTION_SUBMITTED: whoever
\* has read another state will find the move idempotent or not listed.
Attends(p, c) ==
  \/ /\ proc[p].pc \in {"saveAccepted", "saveRejected", "ack", "return"}
     /\ proc[p].case = c /\ proc[p].seen.state = "ACTION_SUBMITTED"
  \/ proc[p].pc \in {"gaveUp", "dead"} /\ proc[p] # At("dead") /\ proc[p].case = c
Attended == \A c \in DOMAIN case :
  case[c].state = "ACTION_SUBMITTED" => \E p \in Processes : Attends(p, c)

----------------------------------------------------------------------------
(* The operators.                                                          *)

\* A finite set of case numbers has a latest one.
LEMMA LatestCase ==
  ASSUME NEW n \in Nat, NEW S \in SUBSET (1..n), S # {}
  PROVE  Max(S) \in S
<1> DEFINE T == {n - c : c \in S}
<1>1. T \subseteq Nat /\ T # {}
  <2>1. \A c \in S : c \in 1..n /\ n - c \in Nat /\ n - c \in T
    OBVIOUS
  <2> QED
    BY <2>1
<1>2. \E x \in T : \A y \in T : ~ (<<y, x>> \in OpToRel(<, Nat))
  BY <1>1, NatLessThanWellFounded, WFMin, Zenon
<1>3. PICK x \in T : \A y \in T : ~ (<<y, x>> \in OpToRel(<, Nat))
  BY <1>2
<1>4. \A y \in T : ~ (y < x)
  BY <1>1, <1>3 DEF OpToRel
<1>5. PICK c \in S : x = n - c
  BY <1>3
<1>6. \A d \in S : c >= d
  <2>1. ASSUME NEW d \in S PROVE c >= d
    <3>1. n - d \in T /\ ~ (n - d < n - c)
      BY <1>4, <1>5
    <3>2. c \in 1..n /\ d \in 1..n
      OBVIOUS
    <3> QED
      BY <3>1, <3>2
  <2> QED
    BY <2>1
<1> QED
  BY <1>6 DEF Max

\* A process in the middle of its work holds a case, what it has read, an action.
LEMMA Holds ==
  ASSUME TypeInv, NEW p \in Processes, proc[p].pc \in Working
  PROVE  proc[p] \in Holding(Len(case))
<1>1. proc[p] \in Local(Len(case))
  BY DEF TypeInv
<1>2. proc[p] \notin Resting /\ proc[p] \notin Seeking /\ proc[p] \notin Fallen(Len(case))
  BY DEF Resting, Seeking, Fallen, Working, Moving, AtRest
<1> QED
  BY <1>1, <1>2 DEF Local

\* A seam that looks for its case holds the shipment.
LEMMA Seeks ==
  ASSUME TypeInv, NEW p \in Processes, proc[p].pc \in {"find", "insert"}
  PROVE  proc[p] \in Seeking
<1>1. proc[p] \in Local(Len(case))
  BY DEF TypeInv
<1>2. proc[p] \notin Resting /\ proc[p] \notin Holding(Len(case)) /\ proc[p] \notin Fallen(Len(case))
  BY DEF Resting, Holding, Fallen, Working, Moving, AtRest
<1> QED
  BY <1>1, <1>2 DEF Local

\* The rows are numbered from 1.
LEMMA CaseRows ==
  ASSUME TypeInv
  PROVE  /\ Len(case) \in Nat /\ DOMAIN case = 1..Len(case)
         /\ \A c \in DOMAIN case : case[c] \in Rows
  BY LenProperties, ElementOfSeq DEF TypeInv, DataOK

----------------------------------------------------------------------------
(* One step of a process.                                                  *)

\* Rows are never taken away, and a row that changes has a new version.
RowsGrow ==
  /\ Len(case') \in Nat /\ Len(case) <= Len(case')
  /\ actions \subseteq actions'
  /\ \A c \in DOMAIN case :
       /\ case'[c].shipment = case[c].shipment
       /\ case'[c].version >= case[c].version
       /\ case'[c].version = case[c].version => case'[c].state = case[c].state

\* The data stays typed, the rows grow, and only p has something new in hand.
ActsWell(p) ==
  /\ DataOK' /\ RowsGrow
  /\ proc' = [proc EXCEPT ![p] = proc'[p]]
  /\ proc'[p] \in Local(Len(case'))
  /\ ProcOK(p)'

\* Then everybody else's hands stay right too.
LEMMA ActsWellKeeps ==
  ASSUME TypeInv, ProcInv, NEW p \in Processes, ActsWell(p)
  PROVE  TypeInv' /\ ProcInv'
<1>1. Len(case) \in Nat /\ DOMAIN case = 1..Len(case) /\ \A c \in DOMAIN case : case[c] \in Rows
  BY CaseRows
<1>2. proc' \in [Processes -> Local(Len(case'))]
  <2>1. ASSUME NEW q \in Processes PROVE proc[q] \in Local(Len(case'))
    <3>1. proc[q] \in Local(Len(case)) /\ Len(case) <= Len(case') /\ Len(case') \in Nat
      BY DEF TypeInv, ActsWell, RowsGrow
    <3>2. 1..Len(case) \subseteq 1..Len(case')
      BY <1>1, <3>1
    <3>3. Fallen(Len(case)) \subseteq Fallen(Len(case')) /\ Holding(Len(case)) \subseteq Holding(Len(case'))
      BY <3>2 DEF Fallen, Holding
    <3> QED
      BY <3>1, <3>3 DEF Local
  <2> QED
    BY <2>1 DEF ActsWell, TypeInv
<1>3. ASSUME NEW q \in Processes PROVE ProcOK(q)'
  <2>1. CASE q = p
    BY <2>1 DEF ActsWell
  <2>2. CASE q # p
    <3>1. proc'[q] = proc[q] /\ ProcOK(q)
      BY <2>2 DEF ActsWell, TypeInv, ProcInv
    <3>2. proc[q].pc \in Working => proc[q] \in Holding(Len(case))
      BY Holds
    <3>3. CASE proc[q].pc \in Working
      <4> DEFINE c == proc[q].case
      <4>1. c \in DOMAIN case /\ proc[q].seen.version \in Nat /\ case[c].version \in Nat
        BY <1>1, <3>2, <3>3 DEF Holding, Rows
      <4>2. /\ case'[c].shipment = case[c].shipment
            /\ case'[c].version >= case[c].version
            /\ case'[c].version = case[c].version => case'[c].state = case[c].state
        BY <4>1 DEF ActsWell, RowsGrow
      <4>3. SeenBefore(case[c], proc[q].seen)
        BY <3>1, <3>3 DEF ProcOK
      <4>4. case'[c] \in Rows
        <5>1. case' \in Seq(Rows) /\ Len(case) <= Len(case') /\ Len(case') \in Nat
          BY DEF ActsWell, DataOK, RowsGrow
        <5>2. c \in 1..Len(case')
          BY <1>1, <4>1, <5>1
        <5> QED
          BY <5>1, <5>2, ElementOfSeq
      <4>5. SeenBefore(case'[c], proc[q].seen)
        BY <4>1, <4>2, <4>3, <4>4 DEF SeenBefore, Rows
      <4>6. Accepted(c, proc[q].action) => Accepted(c, proc[q].action)'
        BY <3>1 DEF Accepted, ActsWell, RowsGrow
      <4> QED
        BY <3>1, <4>2, <4>5, <4>6 DEF ProcOK
    <3>4. CASE proc[q].pc \notin Working
      BY <3>1, <3>4 DEF ProcOK, Working, Moving
    <3> QED
      BY <3>3, <3>4
  <2> QED
    BY <2>1, <2>2
<1> QED
  BY <1>2, <1>3 DEF TypeInv, ProcInv, ActsWell

\* A step that leaves the cases alone.
LEMMA SameCases ==
  ASSUME TypeInv, UNCHANGED case, actions \subseteq actions'
  PROVE  RowsGrow
<1>1. Len(case) \in Nat /\ DOMAIN case = 1..Len(case) /\ \A c \in DOMAIN case : case[c] \in Rows
  BY CaseRows
<1> QED
  BY <1>1 DEF RowsGrow, Rows

\* What a process may have in hand.
LEMMA Rests ==
  ASSUME NEW n \in Nat, NEW pc \in AtRest \cup {"link"}
  PROVE  At(pc) \in Local(n) /\ At(pc).pc = pc /\ pc \notin Working
BY DEF At, Local, Resting, AtRest, Working, Moving

LEMMA FallsWith ==
  ASSUME NEW n \in Nat, NEW pc \in {"gaveUp", "dead"}, NEW c \in 1..n
  PROVE  Lost(pc, c) \in Local(n) /\ Lost(pc, c).pc = pc /\ pc \notin Working
BY DEF Lost, Local, Fallen, Working, Moving

LEMMA Works ==
  ASSUME NEW n \in Nat, NEW pc \in Working, NEW c \in 1..n, NEW action \in NdrActions,
         NEW seen \in [state : States, version : Nat], NEW tries \in 1..MaxVersionRetries
  PROVE  /\ Process(pc, c, seen, action, tries) \in Local(n)
         /\ Process(pc, c, seen, action, tries).pc = pc
         /\ Process(pc, c, seen, action, tries).case = c
         /\ Process(pc, c, seen, action, tries).seen = seen
         /\ Process(pc, c, seen, action, tries).action = action
BY DEF Process, Local, Holding

LEMMA ReadsRow ==
  ASSUME NEW row \in Rows
  PROVE  Read(row) \in [state : States, version : Nat] /\ SeenBefore(row, Read(row))
         /\ Read(row).state = row.state /\ Read(row).version = row.version
BY DEF Read, SeenBefore, Rows

\* A process that lets go of what it had in hand.
LEMMA LetsGo ==
  ASSUME TypeInv, NEW p \in Processes, NEW q \in Local(Len(case)), Become(p, q),
         q.pc \notin Working, UNCHANGED case, actions \subseteq actions', DataOK'
  PROVE  ActsWell(p)
<1>1. proc'[p] = q /\ proc' = [proc EXCEPT ![p] = proc'[p]]
  BY DEF Become, TypeInv
<1>2. RowsGrow
  BY SameCases
<1>3. ProcOK(p)'
  BY <1>1 DEF ProcOK, Working, Moving
<1> QED
  BY <1>1, <1>2, <1>3 DEF ActsWell

\* A process that takes a case up as it is now.
LEMMA TakesUp ==
  ASSUME TypeInv, NEW p \in Processes, NEW c \in DOMAIN case, NEW pc \in Working,
         NEW action \in NdrActions, NEW tries \in 1..MaxVersionRetries,
         Become(p, Process(pc, c, Read(case[c]), action, tries)),
         UNCHANGED <<case, actions>>, DataOK',
         pc = "close" => p \in Shipments /\ case[c].shipment = p,
         pc = "count" => case[c].state # "CLOSED",
         pc = "ack" => Accepted(c, action)
  PROVE  ActsWell(p)
<1> DEFINE q == Process(pc, c, Read(case[c]), action, tries)
<1>1. Len(case) \in Nat /\ c \in 1..Len(case) /\ case[c] \in Rows
  BY CaseRows
<1>2. Read(case[c]) \in [state : States, version : Nat] /\ SeenBefore(case[c], Read(case[c]))
      /\ Read(case[c]).state = case[c].state
  BY <1>1, ReadsRow
<1>3. /\ q \in Local(Len(case))
      /\ q.pc = pc /\ q.case = c /\ q.seen = Read(case[c]) /\ q.action = action
  BY <1>1, <1>2, Works
<1>4. proc'[p] = q /\ proc' = [proc EXCEPT ![p] = proc'[p]]
  BY DEF Become, TypeInv
<1>5. RowsGrow
  BY SameCases
<1> HIDE DEF q
<1>6. ProcOK(p)'
  BY <1>2, <1>3, <1>4 DEF ProcOK, Accepted
<1> QED
  BY <1>3, <1>4, <1>5, <1>6 DEF ActsWell

\* A process that goes on with the case, the row and the action it has.
LEMMA GoesOn ==
  ASSUME TypeInv, ProcInv, NEW p \in Processes, proc[p].pc \in Working, NEW tries \in 1..MaxVersionRetries,
         NEW pc \in Working \ {"close", "count"},
         Become(p, Process(pc, proc[p].case, proc[p].seen, proc[p].action, tries)),
         UNCHANGED case, actions \subseteq actions', DataOK',
         pc = "ack" => Accepted(proc[p].case, proc[p].action)'
  PROVE  ActsWell(p)
<1> DEFINE q == Process(pc, proc[p].case, proc[p].seen, proc[p].action, tries)
<1>1. /\ Len(case) \in Nat /\ proc[p].case \in 1..Len(case) /\ proc[p].action \in NdrActions
      /\ proc[p].seen \in [state : States, version : Nat]
  BY CaseRows, Holds DEF Holding
<1>2. SeenBefore(case[proc[p].case], proc[p].seen)
  BY DEF ProcInv, ProcOK
<1>3. /\ q \in Local(Len(case))
      /\ q.pc = pc /\ q.case = proc[p].case /\ q.seen = proc[p].seen /\ q.action = proc[p].action
  BY <1>1, Works
<1>4. proc'[p] = q /\ proc' = [proc EXCEPT ![p] = proc'[p]]
  BY DEF Become, TypeInv
<1>5. RowsGrow
  BY SameCases
<1> HIDE DEF q
<1>6. ProcOK(p)'
  BY <1>2, <1>3, <1>4 DEF ProcOK, Accepted
<1> QED
  BY <1>3, <1>4, <1>5, <1>6 DEF ActsWell

\* The seams look for their case.
LEMMA SeamsBegin ==
  ASSUME TypeInv, ProcInv,
         (\E a \in Attempts, s \in Shipments : BeginAttempt(a, s)) \/ \E s \in Shipments : EndShipment(s)
  PROVE  \E p \in Processes : ActsWell(p)
<1>1. Len(case) \in Nat
  BY CaseRows
<1>2. ASSUME NEW s \in Shipments PROVE Seam("find", s) \in Local(Len(case)) /\ Seam("find", s).pc \notin Working
  BY DEF Seam, Local, Seeking, Working, Moving
<1>3. ASSUME NEW a \in Attempts, NEW s \in Shipments, BeginAttempt(a, s) PROVE ActsWell(a)
  <2>1. DataOK'
    BY <1>3 DEF BeginAttempt, TypeInv, DataOK, Rowed
  <2> QED
    BY <1>2, <1>3, <2>1, LetsGo DEF BeginAttempt, Processes
<1>4. ASSUME NEW s \in Shipments, EndShipment(s) PROVE ActsWell(s)
  <2>1. DataOK'
    BY <1>4 DEF EndShipment, TypeInv, DataOK, Rowed
  <2> QED
    BY <1>2, <1>4, <2>1, LetsGo DEF EndShipment, Processes
<1> QED
  BY <1>3, <1>4 DEF Processes

\* The cases found are rows.
LEMMA FoundCase ==
  ASSUME TypeInv, NEW s, NEW S \in SUBSET CasesOf(s), S # {}
  PROVE  Max(S) \in S /\ Max(S) \in DOMAIN case /\ case[Max(S)].shipment = s
<1>1. Len(case) \in Nat /\ S \in SUBSET (1..Len(case))
  BY CaseRows DEF CasesOf
<1>2. Max(S) \in S
  BY <1>1, LatestCase
<1> QED
  BY <1>2 DEF CasesOf

\* The tries of a process begin with the first.
LEMMA FirstTry == 1 \in 1..MaxVersionRetries
BY BoundAssumption

\* The seam that records the attempt submits a re-attempt first.
LEMMA Submits ==
  ASSUME NEW n \in Nat, NEW c \in 1..n, NEW seen \in [state : States, version : Nat]
  PROVE  /\ Process("submit", c, seen, "REATTEMPT", 1) \in Local(n)
         /\ Process("submit", c, seen, "REATTEMPT", 1).pc = "submit"
         /\ Process("submit", c, seen, "REATTEMPT", 1).case = c
         /\ Process("submit", c, seen, "REATTEMPT", 1).seen = seen
<1>1. "submit" \in Working /\ "REATTEMPT" \in NdrActions /\ 1 \in 1..MaxVersionRetries
  BY FirstTry DEF Working, NdrActions
<1> QED
  BY <1>1, Works

\* A seam takes up the case it has found.
LEMMA SeamsFind ==
  ASSUME TypeInv, ProcInv,
         (\E a \in Attempts : FindLatest(a)) \/ \E s \in Shipments : FindOpen(s)
  PROVE  \E p \in Processes : ActsWell(p)
<1>1. Len(case) \in Nat /\ "REATTEMPT" \in NdrActions /\ 1 \in 1..MaxVersionRetries
  BY CaseRows, FirstTry DEF NdrActions
<1>2. At("done") \in Local(Len(case)) /\ At("done").pc \notin Working
  BY <1>1, Rests DEF AtRest
<1>3. {"reopen", "count", "close"} \subseteq Working
  BY DEF Working, Moving
<1>4. ASSUME NEW a \in Attempts, FindLatest(a) PROVE ActsWell(a)
  <2> DEFINE s == proc[a].shipment
             c == Max(CasesOf(s))
             pc == IF case[c].state = "REATTEMPT_SCHEDULED" THEN "reopen" ELSE "count"
  <2>1. DataOK' /\ UNCHANGED <<case, actions>>
    BY <1>4 DEF FindLatest, TypeInv, DataOK, Rowed
  <2>2. s \in Shipments /\ a \in Processes
    BY <1>4, Seeks DEF FindLatest, Seeking, Processes
  <2>3. CASE CasesOf(s) = {} /\ Become(a, Seam("insert", s))
    <3>1. Seam("insert", s) \in Local(Len(case)) /\ Seam("insert", s).pc \notin Working
      BY <2>2 DEF Seam, Local, Seeking, Working, Moving
    <3> QED
      BY <2>1, <2>2, <2>3, <3>1, LetsGo
  <2>4. CASE /\ CasesOf(s) # {}
             /\ Become(a, IF case[c].state = "CLOSED" THEN At("done")
                          ELSE Process(pc, c, Read(case[c]), "REATTEMPT", 1))
    <3>1. c \in DOMAIN case
      BY <2>4, FoundCase
    <3>2. CASE case[c].state = "CLOSED"
      BY <1>2, <2>1, <2>2, <2>4, <3>2, LetsGo
    <3>3. CASE case[c].state # "CLOSED"
      <4>1. Become(a, Process(pc, c, Read(case[c]), "REATTEMPT", 1))
        BY <2>4, <3>3
      <4>2. pc \in Working /\ pc # "close" /\ pc # "ack"
        BY <1>3
      <4> HIDE DEF pc, c
      <4> QED
        BY <1>1, <2>1, <2>2, <3>1, <3>3, <4>1, <4>2, TakesUp
    <3> QED
      BY <3>2, <3>3
  <2> QED
    BY <1>4, <2>3, <2>4 DEF FindLatest
<1>5. ASSUME NEW s \in Shipments, FindOpen(s) PROVE ActsWell(s)
  <2> DEFINE open == {c \in CasesOf(s) : case[c].state # "CLOSED"}
             c == Max(open)
  <2>1. DataOK' /\ UNCHANGED <<case, actions>> /\ s \in Processes
    BY <1>5 DEF FindOpen, TypeInv, DataOK, Rowed, Processes
  <2>2. CASE open = {}
    BY <1>2, <1>5, <2>1, <2>2, LetsGo DEF FindOpen
  <2>3. CASE open # {}
    <3>1. c \in DOMAIN case /\ case[c].shipment = s
      BY <2>3, FoundCase
    <3>2. Become(s, Process("close", c, Read(case[c]), "REATTEMPT", 1))
      BY <1>5, <2>3 DEF FindOpen
    <3> HIDE DEF c
    <3> QED
      BY <1>1, <1>3, <2>1, <3>1, <3>2, TakesUp
  <2> QED
    BY <2>2, <2>3
<1> QED
  BY <1>4, <1>5 DEF Processes

\* A submit reads the case, and asks the courier only from OPEN.
LEMMA Asks ==
  ASSUME TypeInv, ProcInv, NEW p \in Processes, NEW c \in DOMAIN case, NEW action \in NdrActions,
         Ask(p, c, action), UNCHANGED <<case, actions>>, DataOK'
  PROVE  ActsWell(p)
<1>1. Len(case) \in Nat /\ 1 \in 1..MaxVersionRetries
  BY CaseRows, FirstTry
<1>2. At("done") \in Local(Len(case)) /\ At("done").pc \notin Working
  BY <1>1, Rests DEF AtRest
<1>3. CASE case[c].state = "OPEN"
  <2>1. Become(p, Process("ask", c, Read(case[c]), action, 1))
    BY <1>3 DEF Ask
  <2>2. "ask" \in Working
    BY DEF Working
  <2> QED
    BY <1>1, <2>1, <2>2, TakesUp
<1>4. CASE case[c].state # "OPEN"
  BY <1>2, <1>4, LetsGo DEF Ask
<1> QED
  BY <1>3, <1>4

\* Submits, by members, by buyers and by S-43.
LEMMA SubmitsBegin ==
  ASSUME TypeInv, ProcInv,
         \/ \E r \in Requests, c \in DOMAIN case, action \in NdrActions : SubmitRequest(r, c, action)
         \/ \E r \in Requests, c \in DOMAIN case : RespondNdr(r, c)
         \/ \E a \in Attempts : AutoReattempt(a)
  PROVE  \E p \in Processes : ActsWell(p)
<1>1. Len(case) \in Nat /\ "REATTEMPT" \in NdrActions /\ DOMAIN case = 1..Len(case)
  BY CaseRows DEF NdrActions
<1>2. At("done") \in Local(Len(case)) /\ At("done").pc \notin Working
  BY <1>1, Rests DEF AtRest
<1>3. ASSUME NEW r \in Requests, NEW c \in DOMAIN case, NEW action \in NdrActions, SubmitRequest(r, c, action)
      PROVE  ActsWell(r)
  <2>1. DataOK' /\ UNCHANGED <<case, actions>> /\ Ask(r, c, action) /\ r \in Processes
    BY <1>3 DEF SubmitRequest, TypeInv, DataOK, Rowed, Processes
  <2> QED
    BY <2>1, Asks
<1>4. ASSUME NEW r \in Requests, NEW c \in DOMAIN case, RespondNdr(r, c)
      PROVE  ActsWell(r)
  <2>1. DataOK' /\ UNCHANGED <<case, actions>> /\ r \in Processes
    BY <1>4 DEF RespondNdr, TypeInv, DataOK, Rowed, Processes
  <2>2. Ask(r, c, "REATTEMPT") \/ Become(r, At("done"))
    BY <1>4 DEF RespondNdr
  <2> QED
    BY <1>1, <1>2, <2>1, <2>2, Asks, LetsGo
<1>5. ASSUME NEW a \in Attempts, AutoReattempt(a)
      PROVE  ActsWell(a)
  <2>1. DataOK' /\ UNCHANGED <<case, actions>> /\ a \in Processes /\ Ask(a, proc[a].case, "REATTEMPT")
    BY <1>5 DEF AutoReattempt, TypeInv, DataOK, Rowed, Processes
  <2>2. proc[a].case \in DOMAIN case
    BY <1>1, <1>5, <2>1, Holds DEF AutoReattempt, Working, Holding
  <2> QED
    BY <1>1, <2>1, <2>2, Asks
<1> QED
  BY <1>3, <1>4, <1>5 DEF Processes

\* The courier answers, the answer is kept, the response is linked.
LEMMA AnswersKept ==
  ASSUME TypeInv, ProcInv, NEW p \in Processes,
         CourierAnswers(p) \/ PersistAction(p) \/ (p \in Requests /\ LinkResponse(p))
  PROVE  ActsWell(p)
<1>1. Len(case) \in Nat /\ 1 \in 1..MaxVersionRetries
  BY CaseRows, FirstTry
<1>2. At("done") \in Local(Len(case)) /\ At("done").pc \notin Working
  BY <1>1, Rests DEF AtRest
<1>3. {"accepted", "rejected", "ack", "return"} \subseteq Working \ {"close", "count"}
  BY DEF Working, Moving
<1>4. ASSUME proc[p].pc \in {"ask", "saveAccepted", "saveRejected"}
      PROVE  /\ proc[p].pc \in Working
             /\ proc[p].case \in 1..Len(case) /\ proc[p].action \in NdrActions
  <2>1. proc[p].pc \in Working
    BY <1>4 DEF Working
  <2> QED
    BY <2>1, Holds DEF Holding
<1>5. CASE CourierAnswers(p)
  <2>1. CASE /\ \E answer \in {"accepted", "rejected"} :
                  Become(p, Process(answer, proc[p].case, proc[p].seen, proc[p].action, 1))
             /\ UNCHANGED actions
    <3>1. PICK answer \in {"accepted", "rejected"} :
            Become(p, Process(answer, proc[p].case, proc[p].seen, proc[p].action, 1))
      BY <2>1
    <3>2. DataOK' /\ UNCHANGED <<case, actions>> /\ answer \in Working \ {"close", "count"} /\ answer # "ack"
      BY <1>3, <1>5, <2>1 DEF CourierAnswers, TypeInv, DataOK, Rowed
    <3> QED
      BY <1>1, <1>4, <1>5, <3>1, <3>2, GoesOn DEF CourierAnswers
  <2>2. CASE /\ actions' = actions \cup {Action(proc[p].case, proc[p].action, "TRANSPORT_ERROR")}
             /\ Become(p, At("done"))
    <3>1. Action(proc[p].case, proc[p].action, "TRANSPORT_ERROR") \in Rowed(Len(case))
      BY <1>4, <1>5 DEF CourierAnswers, Action, Rowed
    <3>2. DataOK' /\ UNCHANGED case /\ actions \subseteq actions'
      BY <1>5, <2>2, <3>1 DEF CourierAnswers, TypeInv, DataOK
    <3> QED
      BY <1>2, <2>2, <3>2, LetsGo
  <2> QED
    BY <1>5, <2>1, <2>2 DEF CourierAnswers
<1>6. CASE PersistAction(p)
  <2> DEFINE result == IF proc[p].pc = "saveAccepted" THEN "ACCEPTED" ELSE "REJECTED_BY_PROVIDER"
             row == Action(proc[p].case, proc[p].action, result)
             pc == IF proc[p].pc = "saveAccepted" THEN "ack" ELSE "return"
  <2>1. row \in Rowed(Len(case))
    BY <1>4, <1>6 DEF PersistAction, Action, Rowed
  <2>2. actions' = actions \cup {row} /\ UNCHANGED case
    BY <1>6 DEF PersistAction
  <2>3. DataOK'
    BY <1>6, <2>1, <2>2 DEF PersistAction, TypeInv, DataOK
  <2>4. Become(p, Process(pc, proc[p].case, proc[p].seen, proc[p].action, 1))
    BY <1>6 DEF PersistAction
  <2>5. pc = "ack" => Accepted(proc[p].case, proc[p].action)'
    <3>1. ASSUME pc = "ack" PROVE \E r \in actions' : r.case = proc'[p].case /\ r.action = proc'[p].action /\ r.result = "ACCEPTED"
      <4>1. row.case = proc[p].case /\ row.action = proc[p].action /\ row.result = "ACCEPTED"
        BY <3>1 DEF Action
      <4>2. proc'[p].case = proc[p].case /\ proc'[p].action = proc[p].action
        BY <2>4 DEF Become, Process, TypeInv
      <4> HIDE DEF row
      <4> QED
        BY <2>2, <4>1, <4>2
    <3> QED
      BY <3>1 DEF Accepted
  <2>6. pc \in Working \ {"close", "count"} /\ proc[p].pc \in Working
    BY <1>3, <1>4, <1>6 DEF PersistAction
  <2> HIDE DEF row, pc
  <2> QED
    BY <1>1, <2>2, <2>3, <2>4, <2>5, <2>6, GoesOn
<1>7. CASE p \in Requests /\ LinkResponse(p)
  <2>1. DataOK' /\ UNCHANGED <<case, actions>>
    BY <1>7 DEF LinkResponse, TypeInv, DataOK, Rowed
  <2> QED
    BY <1>2, <1>7, <2>1, LetsGo DEF LinkResponse
<1> QED
  BY <1>5, <1>6, <1>7

\* An UPDATE of a case's row.
LEMMA RowWritten ==
  ASSUME TypeInv, NEW c \in DOMAIN case, NEW row \in Rows, row.shipment = case[c].shipment,
         row.version = case[c].version + 1, case' = [case EXCEPT ![c] = row],
         UNCHANGED <<actions, response, attempted, crashes>>
  PROVE  /\ DataOK' /\ RowsGrow /\ Len(case') = Len(case)
         /\ c \in DOMAIN case' /\ case'[c] = row /\ \A d \in DOMAIN case : d # c => case'[d] = case[d]
<1>1. Len(case) \in Nat /\ DOMAIN case = 1..Len(case) /\ \A d \in DOMAIN case : case[d] \in Rows
  BY CaseRows
<1>2. case' \in Seq(Rows) /\ Len(case') = Len(case)
      /\ \A d \in 1..Len(case) : case'[d] = IF d = c THEN row ELSE case[d]
  BY <1>1, ExceptSeq DEF TypeInv, DataOK
<1>3. DataOK'
  BY <1>2 DEF TypeInv, DataOK, Rowed
<1>4. ASSUME NEW d \in DOMAIN case
      PROVE  /\ case'[d].shipment = case[d].shipment
             /\ case'[d].version >= case[d].version
             /\ case'[d].version = case[d].version => case'[d].state = case[d].state
  <2>1. CASE d = c
    BY <1>1, <1>2, <2>1 DEF Rows
  <2>2. CASE d # c
    BY <1>1, <1>2, <2>2 DEF Rows
  <2> QED
    BY <2>1, <2>2
<1>5. RowsGrow
  BY <1>1, <1>2, <1>4 DEF RowsGrow
<1>6. c \in DOMAIN case'
  BY <1>1, <1>2, LenProperties
<1> QED
  BY <1>1, <1>2, <1>3, <1>5, <1>6

\* An INSERT of a case.
LEMMA RowInserted ==
  ASSUME TypeInv, NEW row \in Rows, case' = Append(case, row),
         UNCHANGED <<actions, response, attempted, crashes>>
  PROVE  /\ DataOK' /\ RowsGrow /\ Len(case') = Len(case) + 1
         /\ DOMAIN case' = DOMAIN case \cup {Len(case')} /\ Len(case') \notin DOMAIN case
         /\ case'[Len(case')] = row /\ \A d \in DOMAIN case : case'[d] = case[d]
<1>1. Len(case) \in Nat /\ DOMAIN case = 1..Len(case) /\ \A d \in DOMAIN case : case[d] \in Rows
  BY CaseRows
<1>2. /\ case' \in Seq(Rows) /\ Len(case') = Len(case) + 1
      /\ \A d \in 1..Len(case) : case'[d] = case[d]
      /\ case'[Len(case) + 1] = row
  BY AppendProperties DEF TypeInv, DataOK
<1>3. DOMAIN case' = 1..Len(case')
  BY <1>2, LenProperties
<1>4. 1..(Len(case) + 1) = 1..Len(case) \cup {Len(case) + 1} /\ Len(case) + 1 \notin 1..Len(case)
  BY <1>1
<1>5. Rowed(Len(case)) \subseteq Rowed(Len(case'))
  BY <1>2, <1>4 DEF Rowed
<1>6. DataOK'
  BY <1>2, <1>5 DEF TypeInv, DataOK
<1>7. RowsGrow
  BY <1>1, <1>2 DEF RowsGrow, Rows
<1> QED
  BY <1>1, <1>2, <1>3, <1>4, <1>6, <1>7

\* The first attempt opens the case, a further one is counted.
LEMMA AttemptsWrite ==
  ASSUME TypeInv, ProcInv, NEW a \in Attempts, OpenCase(a) \/ CountAttempt(a)
  PROVE  ActsWell(a)
<1>1. Len(case) \in Nat /\ 1 \in 1..MaxVersionRetries /\ a \in Processes
  BY CaseRows, FirstTry DEF Processes
<1>2. ASSUME NEW n \in Nat PROVE At("done") \in Local(n) /\ At("done").pc = "done"
  BY <1>2, Rests DEF AtRest
<1>3. CASE OpenCase(a)
  <2> DEFINE row == Case(proc[a].shipment, "OPEN", 1, 1)
             n == Len(case')
  <2>1. row \in Rows
    BY <1>1, <1>3, Seeks DEF OpenCase, Seeking, Case, Rows, States
  <2>2. /\ DataOK' /\ RowsGrow /\ n \in Nat /\ n \in 1..n
        /\ case'[n] = row
    BY <1>1, <1>3, <2>1, RowInserted DEF OpenCase
  <2>3. CASE Become(a, At("done"))
    <3>1. proc'[a] = At("done") /\ proc' = [proc EXCEPT ![a] = proc'[a]]
      BY <1>1, <2>3 DEF Become, TypeInv
    <3>2. ProcOK(a)'
      BY <1>1, <1>2, <3>1 DEF ProcOK, Working, Moving
    <3> QED
      BY <1>2, <2>2, <3>1, <3>2 DEF ActsWell
  <2>4. CASE Become(a, Process("submit", n, Read(case'[n]), "REATTEMPT", 1))
    <3> DEFINE q == Process("submit", n, Read(row), "REATTEMPT", 1)
    <3>1. Read(row) \in [state : States, version : Nat] /\ SeenBefore(row, Read(row))
      BY <2>1, ReadsRow
    <3>2. q \in Local(n) /\ q.pc = "submit" /\ q.case = n /\ q.seen = Read(row)
      <4> DEFINE seen == Read(row)
      <4>1. seen \in [state : States, version : Nat] /\ n \in Nat /\ n \in 1..n
        BY <2>2, <3>1
      <4> HIDE DEF row, n, seen
      <4>2. /\ Process("submit", n, seen, "REATTEMPT", 1) \in Local(n)
            /\ Process("submit", n, seen, "REATTEMPT", 1).pc = "submit"
            /\ Process("submit", n, seen, "REATTEMPT", 1).case = n
            /\ Process("submit", n, seen, "REATTEMPT", 1).seen = seen
        BY <4>1, Submits
      <4> QED
        BY <4>2 DEF seen
    <3>3. proc'[a] = q /\ proc' = [proc EXCEPT ![a] = proc'[a]]
      BY <1>1, <2>2, <2>4 DEF Become, TypeInv
    <3> HIDE DEF q, row, n
    <3>4. SeenBefore(case'[n], Read(row))
      BY <2>2, <3>1
    <3>5. ProcOK(a)'
      BY <3>2, <3>3, <3>4 DEF ProcOK
    <3> QED
      BY <2>2, <3>2, <3>3, <3>5 DEF ActsWell, n
  <2> QED
    BY <1>3, <2>3, <2>4 DEF OpenCase
<1>4. CASE CountAttempt(a)
  <2> DEFINE c == proc[a].case
             row == Case(case[c].shipment, case[c].state, case[c].count + 1, case[c].version + 1)
  <2>1. c \in DOMAIN case /\ case[c] \in Rows
    BY <1>1, <1>4, Holds, CaseRows DEF CountAttempt, Working, Holding
  <2>2. row \in Rows /\ row.shipment = case[c].shipment /\ row.version = case[c].version + 1
    BY <2>1 DEF Case, Rows
  <2>3. case' = [case EXCEPT ![c] = row] \/ UNCHANGED case
    BY <1>4 DEF CountAttempt
  <2>4. UNCHANGED <<actions, response, attempted, crashes>> /\ Become(a, At("done"))
    BY <1>4 DEF CountAttempt
  <2>5. DataOK' /\ RowsGrow /\ Len(case') \in Nat
    <3>1. CASE case' = [case EXCEPT ![c] = row]
      <4> HIDE DEF row, c
      <4> QED
        BY <1>1, <2>1, <2>2, <2>4, <3>1, RowWritten
    <3>2. CASE UNCHANGED case
      <4>1. DataOK'
        BY <2>4, <3>2 DEF TypeInv, DataOK, Rowed
      <4> QED
        BY <1>1, <2>4, <3>2, <4>1, SameCases
    <3> QED
      BY <2>3, <3>1, <3>2
  <2>6. proc'[a] = At("done") /\ proc' = [proc EXCEPT ![a] = proc'[a]]
    BY <1>1, <2>4 DEF Become, TypeInv
  <2>7. ProcOK(a)'
    BY <1>1, <1>2, <2>6 DEF ProcOK, Working, Moving
  <2> QED
    BY <1>2, <2>5, <2>6, <2>7 DEF ActsWell
<1> QED
  BY <1>3, <1>4

\* What a caller of transition goes on with, once it has the row's state.
LEMMA MovedOn ==
  ASSUME TypeInv, ProcInv, NEW p \in Processes, proc[p].pc \in Moving, NEW seen
  PROVE  \/ /\ proc[p].pc \in {"accepted", "rejected"}
            /\ Moved(p, seen) = Process(IF proc[p].pc = "accepted" THEN "saveAccepted" ELSE "saveRejected",
                                        proc[p].case, seen, proc[p].action, 1)
         \/ proc[p].pc \notin {"accepted", "rejected"} /\ Moved(p, seen) \in {At("link"), At("done")}
BY DEF Moved, Moving

\* A move that needs none, or that machine F does not list.
LEMMA NothingMoved ==
  ASSUME TypeInv, ProcInv, NEW p \in Processes, AlreadyThere(p) \/ NotListed(p)
  PROVE  ActsWell(p)
<1>1. Len(case) \in Nat /\ 1 \in 1..MaxVersionRetries
  BY CaseRows, FirstTry
<1>2. ASSUME NEW q \in {At("link"), At("done")} PROVE q \in Local(Len(case)) /\ q.pc \notin Working
  BY <1>1, Rests DEF AtRest
<1>3. proc[p].pc \in Moving /\ proc[p].pc \in Working
  BY DEF AlreadyThere, NotListed, Working
<1>4. DataOK' /\ UNCHANGED <<case, actions>>
  BY DEF AlreadyThere, NotListed, TypeInv, DataOK, Rowed
<1>5. CASE AlreadyThere(p)
  <2>1. Become(p, Moved(p, proc[p].seen))
    BY <1>5 DEF AlreadyThere
  <2>2. CASE proc[p].pc \in {"accepted", "rejected"}
    <3> DEFINE pc == IF proc[p].pc = "accepted" THEN "saveAccepted" ELSE "saveRejected"
    <3>1. Become(p, Process(pc, proc[p].case, proc[p].seen, proc[p].action, 1))
      BY <1>3, <2>1, <2>2, MovedOn
    <3>2. pc \in Working \ {"close", "count"} /\ pc # "ack"
      BY DEF Working, Moving
    <3> HIDE DEF pc
    <3> QED
      BY <1>1, <1>3, <1>4, <3>1, <3>2, GoesOn
  <2>3. CASE Moved(p, proc[p].seen) \in {At("link"), At("done")}
    BY <1>2, <1>4, <2>1, <2>3, LetsGo
  <2> QED
    BY <1>3, <2>2, <2>3, MovedOn
<1>6. CASE NotListed(p)
  BY <1>2, <1>4, <1>6, LetsGo DEF NotListed
<1> QED
  BY <1>5, <1>6

\* The row a listed move writes.
Written(p) ==
  Case(case[proc[p].case].shipment, Target(p), case[proc[p].case].count + Counted(p),
       case[proc[p].case].version + 1)

\* A move that is listed and finds the version it has read.
LEMMA CaseMoves ==
  ASSUME TypeInv, ProcInv, NEW p \in Processes, MoveCase(p)
  PROVE  /\ proc[p].case \in DOMAIN case /\ Written(p) \in Rows
         /\ case' = [case EXCEPT ![proc[p].case] = Written(p)]
         /\ DataOK' /\ RowsGrow /\ Len(case') = Len(case)
         /\ case[proc[p].case].state \in FromStates[Target(p)]
<1>1. proc[p].pc \in Moving /\ proc[p].pc \in Working
  BY DEF MoveCase, Working
<1>2. proc[p] \in Holding(Len(case)) /\ proc[p].case \in DOMAIN case /\ case[proc[p].case] \in Rows
  BY <1>1, Holds, CaseRows DEF Holding
<1>3. Target(p) \in States /\ Counted(p) \in Nat
  BY <1>1, <1>2 DEF Target, Counted, States, Moving, Holding, NdrActions
<1>4. /\ Written(p) \in Rows /\ Written(p).shipment = case[proc[p].case].shipment
      /\ Written(p).version = case[proc[p].case].version + 1
  <2> DEFINE row == case[proc[p].case]
  <2>1. /\ row.shipment \in Shipments /\ row.count + Counted(p) \in Nat
        /\ row.version + 1 \in Nat
    BY <1>2, <1>3 DEF Rows
  <2> HIDE DEF row
  <2>2. Case(row.shipment, Target(p), row.count + Counted(p), row.version + 1) \in Rows
    BY <1>3, <2>1 DEF Case, Rows
  <2> QED
    BY <2>2 DEF Written, Case, row
<1>5. /\ case' = [case EXCEPT ![proc[p].case] = Written(p)]
      /\ UNCHANGED <<actions, response, attempted, crashes>>
  BY DEF MoveCase, Written
<1>6. DataOK' /\ RowsGrow /\ Len(case') = Len(case)
  BY <1>2, <1>4, <1>5, RowWritten
<1>7. case[proc[p].case].state = proc[p].seen.state
  BY <1>1 DEF ProcInv, ProcOK, SeenBefore, MoveCase, VersionMatches
<1> QED
  BY <1>2, <1>4, <1>5, <1>6, <1>7 DEF MoveCase, Listed

LEMMA MovesWell ==
  ASSUME TypeInv, ProcInv, NEW p \in Processes, MoveCase(p)
  PROVE  ActsWell(p)
<1> DEFINE c == proc[p].case
           seen == Read(Written(p))
<1>1. /\ Len(case) \in Nat /\ 1 \in 1..MaxVersionRetries /\ proc[p].pc \in Moving
      /\ c \in 1..Len(case) /\ proc[p].action \in NdrActions
  BY CaseRows, FirstTry, Holds DEF MoveCase, Working, Holding
<1>2. /\ Written(p) \in Rows /\ DataOK' /\ RowsGrow /\ Len(case') = Len(case)
      /\ case' = [case EXCEPT ![c] = Written(p)] /\ c \in DOMAIN case
  BY CaseMoves
<1>3. case'[c] = Written(p)
  BY <1>1, <1>2, CaseRows
<1>4. Become(p, Moved(p, seen))
  BY DEF MoveCase, Written
<1>5. seen \in [state : States, version : Nat] /\ SeenBefore(Written(p), seen)
  BY <1>2, ReadsRow
<1>6. CASE proc[p].pc \in {"accepted", "rejected"}
  <2> DEFINE pc == IF proc[p].pc = "accepted" THEN "saveAccepted" ELSE "saveRejected"
             q == Process(pc, c, seen, proc[p].action, 1)
  <2>1. Become(p, q)
    BY <1>1, <1>4, <1>6, MovedOn
  <2>2. pc \in Working /\ pc \notin {"close", "count", "ack"}
    BY DEF Working, Moving
  <2>3. q \in Local(Len(case)) /\ q.pc = pc /\ q.case = c /\ q.seen = seen
    <3> HIDE DEF pc, c, seen
    <3> QED
      BY <1>1, <1>5, <2>2, Works
  <2>4. proc'[p] = q /\ proc' = [proc EXCEPT ![p] = proc'[p]]
    BY <2>1 DEF Become, TypeInv
  <2> HIDE DEF q, pc, seen, c
  <2>5. ProcOK(p)'
    BY <1>3, <1>5, <2>2, <2>3, <2>4 DEF ProcOK
  <2> QED
    BY <1>2, <2>3, <2>4, <2>5 DEF ActsWell
<1>7. CASE Moved(p, seen) \in {At("link"), At("done")}
  <2> DEFINE q == Moved(p, seen)
  <2>1. q \in Local(Len(case)) /\ q.pc \notin Working
    BY <1>1, <1>7, Rests DEF AtRest
  <2>2. proc'[p] = q /\ proc' = [proc EXCEPT ![p] = proc'[p]]
    BY <1>4 DEF Become, TypeInv
  <2> HIDE DEF q
  <2>3. ProcOK(p)'
    BY <2>1, <2>2 DEF ProcOK, Working, Moving
  <2> QED
    BY <1>2, <2>1, <2>2, <2>3 DEF ActsWell
<1> QED
  BY <1>1, <1>6, <1>7, MovedOn

\* A mismatch reads the row again or gives up; a process may die.
LEMMA FallsBack ==
  ASSUME TypeInv, ProcInv, NEW p \in Processes, VersionMismatch(p) \/ Crash(p)
  PROVE  ActsWell(p)
<1>1. Len(case) \in Nat /\ DOMAIN case = 1..Len(case)
  BY CaseRows
<1>2. CASE VersionMismatch(p)
  <2> DEFINE c == proc[p].case
  <2>1. /\ proc[p].pc \in Moving /\ proc[p].pc \in Working
        /\ c \in 1..Len(case) /\ proc[p].action \in NdrActions /\ proc[p].tries \in 1..MaxVersionRetries
    BY <1>2, Holds DEF VersionMismatch, Working, Holding
  <2>2. DataOK' /\ UNCHANGED <<case, actions>>
    BY <1>2 DEF VersionMismatch, TypeInv, DataOK, Rowed
  <2>3. CASE proc[p].tries < MaxVersionRetries
    <3>1. Become(p, Process(proc[p].pc, c, Read(case[c]), proc[p].action, proc[p].tries + 1))
      BY <1>2, <2>3 DEF VersionMismatch
    <3>2. proc[p].tries + 1 \in 1..MaxVersionRetries
      BY <2>1, <2>3, BoundAssumption
    <3>3. /\ proc[p].pc = "close" => p \in Shipments /\ case[c].shipment = p
          /\ proc[p].pc = "ack" => Accepted(c, proc[p].action)
      BY DEF ProcInv, ProcOK
    <3>4. proc[p].pc # "count"
      BY <2>1 DEF Moving
    <3> HIDE DEF c
    <3> QED
      BY <1>1, <2>1, <2>2, <3>1, <3>2, <3>3, <3>4, TakesUp
  <2>4. CASE ~(proc[p].tries < MaxVersionRetries)
    <3>1. Become(p, Lost("gaveUp", c))
      BY <1>2, <2>4 DEF VersionMismatch
    <3> QED
      BY <1>1, <2>1, <2>2, <3>1, FallsWith, LetsGo
  <2> QED
    BY <2>3, <2>4
<1>3. CASE Crash(p)
  <2>1. DataOK' /\ UNCHANGED <<case, actions>>
    BY <1>3, BoundAssumption DEF Crash, TypeInv, DataOK, Rowed
  <2>2. CASE "case" \in DOMAIN proc[p]
    <3>1. proc[p].case \in 1..Len(case)
      BY <2>2 DEF TypeInv, Local, Resting, Seeking, Fallen, Holding
    <3>2. Become(p, Lost("dead", proc[p].case))
      BY <1>3, <2>2 DEF Crash
    <3> QED
      BY <1>1, <2>1, <3>1, <3>2, FallsWith, LetsGo
  <2>3. CASE "case" \notin DOMAIN proc[p]
    <3>1. Become(p, At("dead"))
      BY <1>3, <2>3 DEF Crash
    <3> QED
      BY <1>1, <2>1, <3>1, Rests, LetsGo DEF AtRest
  <2> QED
    BY <2>2, <2>3
<1> QED
  BY <1>2, <1>3

\* Every step is one of these.
LEMMA EveryStep ==
  ASSUME TypeInv, ProcInv, Next
  PROVE  \E p \in Processes : ActsWell(p)
<1>1. CASE \E p \in Processes : SeamStep(p)
  BY <1>1, SeamsFind, SubmitsBegin, AttemptsWrite DEF SeamStep, Processes
<1>2. CASE \E p \in Processes : SubmitStep(p)
  BY <1>2, AnswersKept DEF SubmitStep
<1>3. CASE \E p \in Processes : TransitionStep(p) \/ Crash(p)
  BY <1>3, NothingMoved, MovesWell, FallsBack DEF TransitionStep
<1> QED
  BY <1>1, <1>2, <1>3, SeamsBegin, SubmitsBegin DEF Next, Step

LEMMA TypeInvNext ==
  ASSUME TypeInv, ProcInv, [Next]_vars
  PROVE  TypeInv' /\ ProcInv'
<1>1. CASE Next
  BY <1>1, EveryStep, ActsWellKeeps
<1>2. CASE UNCHANGED vars
  BY <1>2 DEF vars, TypeInv, DataOK, Rowed, Local, Fallen, Holding, ProcInv, ProcOK, Accepted
<1> QED
  BY <1>1, <1>2

----------------------------------------------------------------------------
(* Invariance.                                                             *)

LEMMA TypeInvInit == Init => TypeInv /\ ProcInv
<1> SUFFICES ASSUME Init PROVE TypeInv /\ ProcInv
  OBVIOUS
<1>1. Len(case) = 0 /\ case \in Seq(Rows)
  BY EmptySeq DEF Init
<1>2. At("new") \in Local(0) /\ At("new").pc = "new"
  BY Rests DEF AtRest
<1>3. DataOK
  BY <1>1, BoundAssumption DEF Init, DataOK
<1>4. TypeInv
  BY <1>1, <1>2, <1>3 DEF Init, TypeInv
<1>5. ProcInv
  BY <1>2 DEF Init, ProcInv, ProcOK, Working, Moving
<1> QED
  BY <1>4, <1>5

LEMMA Typed == Spec => [](TypeInv /\ ProcInv)
BY TypeInvInit, TypeInvNext, PTL DEF Spec

\* Every row holds only the code's enums, and a process only what its call has
\* read of a case that exists.
THEOREM TypeCorrect == Spec => []TypeOK
<1>1. TypeInv => TypeOK
  <2> SUFFICES ASSUME TypeInv PROVE TypeOK
    OBVIOUS
  <2>1. DOMAIN case = 1..Len(case)
    BY CaseRows
  <2>2. ASSUME NEW p \in Processes PROVE proc[p] \in Local(Len(case))
    BY DEF TypeInv
  <2> QED
    BY <2>1, <2>2 DEF TypeInv, DataOK, TypeOK, Rowed, Local, Resting, Seeking, Fallen, Holding, Working
<1> QED
  BY <1>1, Typed, PTL

----------------------------------------------------------------------------
(* What a case says of the courier.                                        *)

\* Which step changes a case's state, and to what.
LEMMA StatesChange ==
  ASSUME TypeInv, ProcInv, [Next]_vars, NEW c \in DOMAIN case'
  PROVE  \/ c \in DOMAIN case /\ case'[c].state = case[c].state
         \/ c \notin DOMAIN case /\ case'[c].state = "OPEN"
         \/ \E p \in Processes :
              /\ MoveCase(p) /\ c = proc[p].case /\ c \in DOMAIN case
              /\ case'[c].state = Target(p)
<1>1. Len(case) \in Nat /\ DOMAIN case = 1..Len(case) /\ \A d \in DOMAIN case : case[d] \in Rows
  BY CaseRows
<1>2. CASE UNCHANGED case
  BY <1>2
<1>3. ASSUME NEW a \in Attempts, OpenCase(a)
      PROVE  (c \in DOMAIN case /\ case'[c].state = case[c].state) \/ (c \notin DOMAIN case /\ case'[c].state = "OPEN")
  <2> DEFINE row == Case(proc[a].shipment, "OPEN", 1, 1)
  <2>1. row \in Rows /\ row.state = "OPEN"
    BY <1>3, Seeks DEF OpenCase, Seeking, Case, Rows, States, Processes
  <2>2. case' = Append(case, row) /\ UNCHANGED <<actions, response, attempted, crashes>>
    BY <1>3 DEF OpenCase
  <2> HIDE DEF row
  <2>3. /\ DOMAIN case' = DOMAIN case \cup {Len(case')} /\ Len(case') \notin DOMAIN case
        /\ case'[Len(case')] = row /\ \A d \in DOMAIN case : case'[d] = case[d]
    BY <2>1, <2>2, RowInserted
  <2> QED
    BY <2>1, <2>3
<1>4. ASSUME NEW a \in Attempts, CountAttempt(a)
      PROVE  c \in DOMAIN case /\ case'[c].state = case[c].state
  BY <1>1, <1>4 DEF CountAttempt, Case
<1>5. ASSUME NEW p \in Processes, MoveCase(p)
      PROVE  \/ c \in DOMAIN case /\ case'[c].state = case[c].state
             \/ c = proc[p].case /\ c \in DOMAIN case /\ case'[c].state = Target(p)
  <2>1. proc[p].case \in DOMAIN case /\ case' = [case EXCEPT ![proc[p].case] = Written(p)]
    BY <1>5, CaseMoves
  <2>2. Written(p).state = Target(p)
    BY DEF Written, Case
  <2>3. c \in DOMAIN case
    BY <2>1
  <2>4. CASE c = proc[p].case
    BY <2>1, <2>2, <2>3, <2>4
  <2>5. CASE c # proc[p].case
    BY <2>1, <2>3, <2>5
  <2> QED
    BY <2>4, <2>5
<1>6. CASE Next
  <2>1. \/ UNCHANGED case
        \/ \E a \in Attempts : OpenCase(a) \/ CountAttempt(a)
        \/ \E p \in Processes : MoveCase(p)
    BY <1>6 DEF Next, BeginAttempt, EndShipment, SubmitRequest, RespondNdr, Step, Crash, SeamStep,
         FindLatest, AutoReattempt, FindOpen, SubmitStep, CourierAnswers, PersistAction, LinkResponse,
         TransitionStep, AlreadyThere, NotListed, VersionMismatch
  <2> QED
    BY <1>2, <1>3, <1>4, <1>5, <2>1
<1> QED
  BY <1>2, <1>6 DEF vars

LEMMA AcksOnRecordNext ==
  ASSUME TypeInv, ProcInv, AcksOnRecord, [Next]_vars
  PROVE  AcksOnRecord'
<1>1. actions \subseteq actions'
  <2>1. CASE Next
    BY <2>1, EveryStep DEF ActsWell, RowsGrow
  <2> QED
    BY <2>1 DEF vars
<1>2. ASSUME NEW c, NEW action, \E row \in actions : row.case = c /\ row.action = action /\ row.result = "ACCEPTED"
      PROVE  \E row \in actions' : row.case = c /\ row.action = action /\ row.result = "ACCEPTED"
  BY <1>1, <1>2
<1>3. ASSUME NEW c \in DOMAIN case', NEW action \in NdrActions,
             case'[c].state = IF action = "REATTEMPT" THEN "REATTEMPT_SCHEDULED" ELSE "RTO_REQUESTED"
      PROVE  \E row \in actions' : row.case = c /\ row.action = action /\ row.result = "ACCEPTED"
  <2>1. CASE c \in DOMAIN case /\ case'[c].state = case[c].state
    BY <1>2, <1>3, <2>1 DEF AcksOnRecord, Accepted, NdrActions
  <2>2. CASE c \notin DOMAIN case /\ case'[c].state = "OPEN"
    BY <1>3, <2>2
  <2>3. ASSUME NEW p \in Processes, MoveCase(p), c = proc[p].case, case'[c].state = Target(p)
        PROVE  \E row \in actions : row.case = c /\ row.action = action /\ row.result = "ACCEPTED"
    <3>1. proc[p].pc \in Moving
      BY <2>3 DEF MoveCase
    <3>2. proc[p].action \in NdrActions
      BY <3>1, Holds DEF Working, Holding
    <3>3. proc[p].pc = "ack" /\ proc[p].action = action
      BY <1>3, <2>3, <3>1, <3>2 DEF Target, Moving, NdrActions
    <3> QED
      BY <2>3, <3>3 DEF ProcInv, ProcOK, Accepted
  <2> QED
    BY <1>2, <2>1, <2>2, <2>3, StatesChange
<1> QED
  BY <1>3 DEF AcksOnRecord, Accepted, NdrActions

\* A case says REATTEMPT_SCHEDULED or RTO_REQUESTED only once the courier's
\* acceptance of that action has been put on record, whoever else moves the case.
THEOREM CourierAccepted == Spec => []AcksOnRecord
<1>1. Init => AcksOnRecord
  BY DEF Init, AcksOnRecord
<1> QED
  BY <1>1, Typed, AcksOnRecordNext, PTL DEF Spec

----------------------------------------------------------------------------
(* Whom a case in ACTION_SUBMITTED waits for.                              *)

\* One who falls keeps the case it has had.
LEMMA FallenHasCase ==
  ASSUME NEW pc, NEW c
  PROVE  Lost(pc, c) # At("dead") /\ Lost(pc, c).pc = pc /\ Lost(pc, c).case = c
<1>1. "case" \in DOMAIN Lost(pc, c) /\ "case" \notin DOMAIN At("dead")
  BY DEF Lost, At
<1> QED
  BY <1>1 DEF Lost

\* Who attends a case goes on attending it until the case has moved.
LEMMA AttendantStays ==
  ASSUME TypeInv, ProcInv, Next, NEW p \in Processes, NEW c \in DOMAIN case, c \in DOMAIN case', Attends(p, c),
         case[c].state = "ACTION_SUBMITTED", case'[c].state = "ACTION_SUBMITTED"
  PROVE  Attends(p, c)'
<1>1. ASSUME proc'[p] = proc[p] PROVE Attends(p, c)'
  BY <1>1 DEF Attends
<1>2. ASSUME NEW q \in Processes, NEW r, Become(q, r), q # p PROVE proc'[p] = proc[p]
  BY <1>2 DEF Become, TypeInv
<1>3. proc[p].pc \in {"saveAccepted", "saveRejected", "ack", "return", "gaveUp", "dead"}
  BY DEF Attends
<1>4. Attempts \subseteq Processes /\ Shipments \subseteq Processes /\ Requests \subseteq Processes
  BY DEF Processes
<1>5. CASE \/ \E a \in Attempts, s \in Shipments : BeginAttempt(a, s)
           \/ \E s \in Shipments : EndShipment(s)
           \/ \E r \in Requests, d \in DOMAIN case, action \in NdrActions : SubmitRequest(r, d, action)
           \/ \E r \in Requests, d \in DOMAIN case : RespondNdr(r, d)
  <2>1. \E q \in Processes : proc[q].pc = "new" /\ \E r : Become(q, r)
    BY <1>4, <1>5 DEF BeginAttempt, EndShipment, SubmitRequest, RespondNdr, Ask
  <2> QED
    BY <1>1, <1>2, <1>3, <2>1
<1>6. CASE \E q \in Processes : SeamStep(q)
  <2>1. \E q \in Processes : proc[q].pc \in {"find", "insert", "count", "submit"} /\ \E r : Become(q, r)
    BY <1>4, <1>6 DEF SeamStep, FindLatest, OpenCase, CountAttempt, AutoReattempt, FindOpen, Ask
  <2> QED
    BY <1>1, <1>2, <1>3, <2>1
<1>7. ASSUME NEW q \in Processes, SubmitStep(q) PROVE Attends(p, c)'
  <2>1. CASE q # p
    <3>1. \E r : Become(q, r)
      BY <1>7 DEF SubmitStep, CourierAnswers, PersistAction, LinkResponse
    <3> QED
      BY <1>1, <1>2, <2>1, <3>1
  <2>2. CASE q = p
    <3> DEFINE pc == IF proc[p].pc = "saveAccepted" THEN "ack" ELSE "return"
    <3>1. Become(p, Process(pc, proc[p].case, proc[p].seen, proc[p].action, 1))
      BY <1>3, <1>7, <2>2 DEF SubmitStep, CourierAnswers, PersistAction, LinkResponse
    <3>2. proc[p].case = c /\ proc[p].seen.state = "ACTION_SUBMITTED"
      BY <1>3, <1>7, <2>2 DEF SubmitStep, CourierAnswers, PersistAction, LinkResponse, Attends
    <3>3. proc'[p] = Process(pc, proc[p].case, proc[p].seen, proc[p].action, 1)
      BY <3>1 DEF Become, TypeInv
    <3>4. proc'[p].pc \in {"ack", "return"} /\ proc'[p].case = c /\ proc'[p].seen.state = "ACTION_SUBMITTED"
      BY <3>2, <3>3 DEF Process
    <3> QED
      BY <3>4 DEF Attends
  <2> QED
    BY <2>1, <2>2
<1>8. ASSUME NEW q \in Processes, TransitionStep(q) \/ Crash(q) PROVE Attends(p, c)'
  <2>1. CASE q # p
    <3>1. \E r : Become(q, r)
      BY <1>8 DEF TransitionStep, AlreadyThere, NotListed, MoveCase, VersionMismatch, Crash
    <3> QED
      BY <1>1, <1>2, <2>1, <3>1
  <2>2. CASE q = p
    <3>1. /\ proc[p].pc \notin AtRest
          /\ proc[p].pc \in {"saveAccepted", "saveRejected", "ack", "return"}
          /\ proc[p].case = c /\ proc[p].seen.state = "ACTION_SUBMITTED"
      BY <1>3, <1>8, <2>2 DEF TransitionStep, AlreadyThere, NotListed, MoveCase, VersionMismatch, Crash,
           AtRest, Moving, Attends
    <3>2. proc[p] \in Holding(Len(case))
      BY <3>1, Holds DEF Working, Moving
    <3>3. CASE TransitionStep(p)
      <4>1. proc[p].pc \in {"ack", "return"}
        BY <3>1, <3>3 DEF TransitionStep, AlreadyThere, NotListed, MoveCase, VersionMismatch, Moving
      <4>2. Target(p) \in {"OPEN", "REATTEMPT_SCHEDULED", "RTO_REQUESTED"} /\ Listed(p)
        BY <3>1, <3>2, <4>1 DEF Target, Holding, NdrActions, Listed, FromStates, States
      <4>3. ~AlreadyThere(p) /\ ~NotListed(p)
        BY <3>1, <4>2 DEF AlreadyThere, NotListed
      <4>4. ~MoveCase(p)
        <5>1. SUFFICES ASSUME MoveCase(p) PROVE FALSE
          OBVIOUS
        <5>2. case' = [case EXCEPT ![c] = Written(p)]
          BY <3>1, <5>1, CaseMoves
        <5>3. case'[c] = Written(p)
          BY <5>2
        <5> QED
          BY <4>2, <5>3 DEF Written, Case
      <4>5. VersionMismatch(p)
        BY <3>3, <4>3, <4>4 DEF TransitionStep
      <4>6. CASE proc[p].tries < MaxVersionRetries
        <5>1. proc'[p] = Process(proc[p].pc, c, Read(case[c]), proc[p].action, proc[p].tries + 1)
          BY <3>1, <4>5, <4>6 DEF VersionMismatch, Become, TypeInv
        <5>2. proc'[p].pc \in {"ack", "return"} /\ proc'[p].case = c /\ proc'[p].seen.state = "ACTION_SUBMITTED"
          BY <4>1, <5>1 DEF Process, Read
        <5> QED
          BY <5>2 DEF Attends
      <4>7. CASE ~(proc[p].tries < MaxVersionRetries)
        <5>1. proc'[p] = Lost("gaveUp", c)
          BY <3>1, <4>5, <4>7 DEF VersionMismatch, Become, TypeInv
        <5> QED
          BY <5>1, FallenHasCase DEF Attends
      <4> QED
        BY <4>6, <4>7
    <3>4. CASE Crash(p)
      <4>1. "case" \in DOMAIN proc[p]
        BY <3>2 DEF Holding
      <4>2. proc'[p] = Lost("dead", c)
        BY <3>1, <3>4, <4>1 DEF Crash, Become, TypeInv
      <4> QED
        BY <4>2, FallenHasCase DEF Attends
    <3> QED
      BY <1>8, <2>2, <3>3, <3>4
  <2> QED
    BY <2>1, <2>2
<1> QED
  BY <1>5, <1>6, <1>7, <1>8 DEF Next, Step

LEMMA AttendedNext ==
  ASSUME TypeInv, ProcInv, Attended, [Next]_vars
  PROVE  Attended'
<1>1. CASE UNCHANGED vars
  BY <1>1 DEF vars, Attended, Attends
<1>2. CASE Next
  <2>1. ASSUME NEW c \in DOMAIN case', case'[c].state = "ACTION_SUBMITTED"
        PROVE  \E p \in Processes : Attends(p, c)'
    <3>1. CASE c \in DOMAIN case /\ case'[c].state = case[c].state
      BY <1>2, <2>1, <3>1, AttendantStays DEF Attended
    <3>2. CASE c \notin DOMAIN case /\ case'[c].state = "OPEN"
      BY <2>1, <3>2
    <3>3. ASSUME NEW p \in Processes, MoveCase(p), c = proc[p].case, case'[c].state = Target(p)
          PROVE  Attends(p, c)'
      <4>1. proc[p].pc \in Moving /\ proc[p] \in Holding(Len(case))
        BY <3>3, Holds DEF MoveCase, Working
      <4>2. proc[p].pc \in {"accepted", "rejected"}
        BY <2>1, <3>3, <4>1 DEF Target, Moving, Holding, NdrActions
      <4> DEFINE pc == IF proc[p].pc = "accepted" THEN "saveAccepted" ELSE "saveRejected"
      <4>3. Become(p, Process(pc, c, Read(Written(p)), proc[p].action, 1))
        BY <3>3, <4>1, <4>2, MovedOn DEF MoveCase, Written
      <4>4. proc'[p] = Process(pc, c, Read(Written(p)), proc[p].action, 1)
        BY <4>3 DEF Become, TypeInv
      <4>5. Written(p).state = "ACTION_SUBMITTED"
        BY <4>2 DEF Written, Case, Target
      <4>6. proc'[p].pc \in {"saveAccepted", "saveRejected"} /\ proc'[p].case = c
            /\ proc'[p].seen.state = "ACTION_SUBMITTED"
        BY <4>4, <4>5 DEF Process, Read
      <4> QED
        BY <4>6 DEF Attends
    <3> QED
      BY <1>2, <2>1, <3>1, <3>2, <3>3, StatesChange
  <2> QED
    BY <2>1 DEF Attended
<1> QED
  BY <1>1, <1>2

\* A case in ACTION_SUBMITTED, which takes no action of anybody else, has a submit
\* that will move it on, or one that died or gave up with it in hand.
THEOREM SubmittedAttended == Spec => []SubmittedIsAttended
<1>1. Init => Attended
  BY DEF Init, Attended
<1>2. Attended => SubmittedIsAttended
  <2> SUFFICES ASSUME Attended, NEW c \in DOMAIN case, case[c].state = "ACTION_SUBMITTED"
               PROVE  \E p \in Processes : MovesOn(p, c)
    BY DEF SubmittedIsAttended
  <2>1. PICK p \in Processes : Attends(p, c)
    BY DEF Attended
  <2>2. MovesOn(p, c)
    BY <2>1 DEF Attends, MovesOn, At
  <2> QED
    BY <2>2
<1> QED
  BY <1>1, <1>2, Typed, AttendedNext, PTL DEF Spec

----------------------------------------------------------------------------
(* No attempt is counted twice.                                            *)

\* An attempt that has begun and may still be counted: its seam looks for the
\* case, is about to insert it, or holds the case it will count in.
Pends(p, s) ==
  \/ p \in Attempts /\ proc[p].pc = "find" /\ proc[p].shipment = s
  \/ proc[p].pc = "insert" /\ proc[p].shipment = s
  \/ proc[p].pc \in {"count", "reopen"} /\ case[proc[p].case].shipment = s
Pending(s) == {p \in Processes : Pends(p, s)}

\* Those that are counted and those that may yet be are no more than began.
CountInv == \A s \in Shipments :
  /\ IsFiniteSet(CountedAttempts(s)) /\ IsFiniteSet(Pending(s))
  /\ Cardinality(CountedAttempts(s)) + Cardinality(Pending(s)) <= attempted[s]

\* What a step of p does to the count of s: it leaves it alone, begins an
\* attempt, or counts one that was pending.
Leaves(p, s) ==
  /\ attempted'[s] = attempted[s] /\ CountedAttempts(s)' = CountedAttempts(s)
  /\ Pends(p, s)' => Pends(p, s)
Begins(s) ==
  attempted'[s] = attempted[s] + 1 /\ CountedAttempts(s)' = CountedAttempts(s)
Counts(p, s) ==
  /\ attempted'[s] = attempted[s] /\ Pends(p, s) /\ ~Pends(p, s)'
  /\ \E m : CountedAttempts(s)' \subseteq CountedAttempts(s) \cup {m}

\* Nobody else's attempt becomes pending by it.
LEMMA OthersPend ==
  ASSUME TypeInv, RowsGrow, NEW p \in Processes, NEW q, Become(p, q), NEW s
  PROVE  Pending(s)' \subseteq Pending(s) \cup {p}
<1>1. ASSUME NEW a \in Processes, a # p, Pends(a, s)' PROVE Pends(a, s)
  <2>1. proc'[a] = proc[a]
    BY <1>1 DEF Become, TypeInv
  <2>2. CASE proc[a].pc \in {"count", "reopen"}
    <3>1. proc[a].pc \in Working /\ proc[a].pc \notin {"find", "insert"}
      BY <2>2 DEF Working, Moving
    <3>2. proc[a].case \in DOMAIN case
      BY <3>1, Holds, CaseRows DEF Holding
    <3>3. case'[proc[a].case].shipment = case[proc[a].case].shipment
      BY <3>2 DEF RowsGrow
    <3> QED
      BY <1>1, <2>1, <3>1, <3>3 DEF Pends
  <2>3. CASE proc[a].pc \notin {"count", "reopen"}
    BY <1>1, <2>1, <2>3 DEF Pends
  <2> QED
    BY <2>2, <2>3
<1> QED
  BY <1>1 DEF Pending

LEMMA OneMore ==
  ASSUME NEW S, IsFiniteSet(S), NEW x
  PROVE  /\ IsFiniteSet(S \cup {x}) /\ Cardinality(S \cup {x}) \in Nat
         /\ Cardinality(S \cup {x}) <= Cardinality(S) + 1
<1>1. Cardinality(S) \in Nat
  BY FS_CardinalityType
<1>2. /\ IsFiniteSet(S \cup {x})
      /\ Cardinality(S \cup {x}) = Cardinality(S) \/ Cardinality(S \cup {x}) = Cardinality(S) + 1
  BY FS_AddElement
<1> QED
  BY <1>1, <1>2

\* Each of the three keeps the sum.
LEMMA SumKept ==
  ASSUME TypeInv, CountInv, NEW p \in Processes, NEW s \in Shipments,
         Pending(s)' \subseteq Pending(s) \cup {p},
         Leaves(p, s) \/ Begins(s) \/ Counts(p, s)
  PROVE  /\ IsFiniteSet(CountedAttempts(s)') /\ IsFiniteSet(Pending(s)')
         /\ Cardinality(CountedAttempts(s)') + Cardinality(Pending(s)') <= attempted'[s]
<1> DEFINE C == CountedAttempts(s)
           CN == CountedAttempts(s)'
           P == Pending(s)
           PN == Pending(s)'
           n == attempted[s]
<1>1. n \in Nat /\ IsFiniteSet(C) /\ IsFiniteSet(P) /\ Cardinality(C) + Cardinality(P) <= n
  BY DEF TypeInv, DataOK, CountInv
<1>2. PN \subseteq P \cup {p}
  OBVIOUS
<1>3. (p \in P <=> Pends(p, s)) /\ (p \in PN <=> Pends(p, s)')
  BY DEF Pending
<1> HIDE DEF C, CN, P, PN, n
<1>4. Cardinality(C) \in Nat /\ Cardinality(P) \in Nat
  BY <1>1, FS_CardinalityType
<1>5. CASE Leaves(p, s)
  <2>1. CN = C /\ attempted'[s] = n /\ PN \subseteq P
    BY <1>2, <1>3, <1>5 DEF Leaves, C, CN, n
  <2>2. IsFiniteSet(PN) /\ Cardinality(PN) <= Cardinality(P)
    BY <1>1, <2>1, FS_Subset
  <2>3. Cardinality(PN) \in Nat
    BY <2>2, FS_CardinalityType
  <2>4. Cardinality(CN) + Cardinality(PN) <= n
    BY <1>1, <1>4, <2>1, <2>2, <2>3
  <2> QED
    BY <1>1, <2>1, <2>2, <2>4 DEF CN, PN
<1>6. CASE Begins(s)
  <2>1. CN = C /\ attempted'[s] = n + 1
    BY <1>6 DEF Begins, C, CN, n
  <2>2. /\ IsFiniteSet(P \cup {p}) /\ Cardinality(P \cup {p}) <= Cardinality(P) + 1
        /\ Cardinality(P \cup {p}) \in Nat
    BY <1>1, OneMore
  <2>3. IsFiniteSet(PN) /\ Cardinality(PN) <= Cardinality(P \cup {p})
    BY <1>2, <2>2, FS_Subset
  <2>4. Cardinality(PN) \in Nat
    BY <2>3, FS_CardinalityType
  <2>5. Cardinality(CN) + Cardinality(PN) <= n + 1
    BY <1>1, <1>4, <2>1, <2>2, <2>3, <2>4
  <2> QED
    BY <1>1, <2>1, <2>3, <2>5 DEF CN, PN
<1>7. CASE Counts(p, s)
  <2>1. PICK m : CN \subseteq C \cup {m}
    BY <1>7 DEF Counts, C, CN
  <2>2. attempted'[s] = n /\ p \in P /\ PN \subseteq P \ {p}
    BY <1>2, <1>3, <1>7 DEF Counts, n
  <2>3. /\ IsFiniteSet(P \ {p}) /\ Cardinality(P \ {p}) = Cardinality(P) - 1
        /\ Cardinality(P \ {p}) \in Nat
    BY <1>1, <2>2, FS_RemoveElement, FS_CardinalityType
  <2>4. IsFiniteSet(PN) /\ Cardinality(PN) <= Cardinality(P \ {p})
    BY <2>2, <2>3, FS_Subset
  <2>5. /\ IsFiniteSet(C \cup {m}) /\ Cardinality(C \cup {m}) <= Cardinality(C) + 1
        /\ Cardinality(C \cup {m}) \in Nat
    BY <1>1, OneMore
  <2>6. IsFiniteSet(CN) /\ Cardinality(CN) <= Cardinality(C \cup {m})
    BY <2>1, <2>5, FS_Subset
  <2>7. Cardinality(PN) \in Nat /\ Cardinality(CN) \in Nat
    BY <2>4, <2>6, FS_CardinalityType
  <2>8. Cardinality(CN) + Cardinality(PN) <= n
    BY <1>1, <1>4, <2>3, <2>4, <2>5, <2>6, <2>7
  <2> QED
    BY <2>2, <2>4, <2>6, <2>8 DEF CN, PN
<1> QED
  BY <1>5, <1>6, <1>7

\* An attempt that is counted is the n-th of a case of the shipment.
LEMMA CountedIs ==
  ASSUME NEW s, NEW x
  PROVE  x \in CountedAttempts(s) <=>
           \E c \in DOMAIN case : case[c].shipment = s /\ \E n \in 1..case[c].count : x = <<c, n>>
<1>1. \A c : x \in {c} \X (1..case[c].count) <=> \E n \in 1..case[c].count : x = <<c, n>>
  OBVIOUS
<1> QED
  BY <1>1 DEF CountedAttempts, CasesOf

\* The same of the cases after a step.
LEMMA CountedWillBe ==
  ASSUME NEW s, NEW x
  PROVE  x \in CountedAttempts(s)' <=>
           \E c \in DOMAIN case' : case'[c].shipment = s /\ \E n \in 1..case'[c].count : x = <<c, n>>
<1>1. \A c : x \in {c} \X (1..case'[c].count) <=> \E n \in 1..case'[c].count : x = <<c, n>>
  OBVIOUS
<1> QED
  BY <1>1 DEF CountedAttempts, CasesOf

\* A step that leaves the cases alone counts nothing.
LEMMA NothingCounted ==
  ASSUME UNCHANGED case, NEW s
  PROVE  CountedAttempts(s)' = CountedAttempts(s)
BY DEF CountedAttempts, CasesOf

\* A row written with one more attempt, or with none, for its own shipment only.
LEMMA RowCounted ==
  ASSUME TypeInv, NEW c \in DOMAIN case, NEW row \in Rows, case' = [case EXCEPT ![c] = row],
         row.shipment = case[c].shipment, NEW s
  PROVE  /\ row.count = case[c].count \/ case[c].shipment # s
              => CountedAttempts(s)' = CountedAttempts(s)
         /\ row.count = case[c].count + 1
              => CountedAttempts(s)' \subseteq CountedAttempts(s) \cup {<<c, row.count>>}
<1>1. DOMAIN case' = DOMAIN case /\ \A d \in DOMAIN case : case[d] \in Rows
  BY CaseRows
<1>2. /\ case'[c] = row
      /\ \A d \in DOMAIN case : d # c => case'[d] = case[d]
      /\ \A d \in DOMAIN case : case'[d].shipment = case[d].shipment
  OBVIOUS
<1>3. ASSUME row.count = case[c].count \/ case[c].shipment # s
      PROVE  CountedAttempts(s)' = CountedAttempts(s)
  <2>1. \A d \in DOMAIN case : case[d].shipment = s => case'[d].count = case[d].count
    BY <1>2, <1>3
  <2>2. ASSUME NEW x PROVE x \in CountedAttempts(s)' <=> x \in CountedAttempts(s)
    BY <1>1, <1>2, <2>1, CountedIs, CountedWillBe
  <2> DEFINE A == CountedAttempts(s)'
             B == CountedAttempts(s)
  <2>3. \A x : x \in A <=> x \in B
    BY <2>2
  <2> HIDE DEF A, B
  <2>4. A = B
    BY <2>3
  <2> QED
    BY <2>4 DEF A, B
<1>4. ASSUME row.count = case[c].count + 1, NEW x \in CountedAttempts(s)'
      PROVE  x \in CountedAttempts(s) \cup {<<c, row.count>>}
  <2>0. PICK d \in DOMAIN case : case'[d].shipment = s /\ \E n \in 1..case'[d].count : x = <<d, n>>
    BY <1>1, <1>4, CountedWillBe
  <2>1. PICK n \in 1..case'[d].count : case'[d].shipment = s /\ x = <<d, n>>
    BY <2>0
  <2>2. CASE d # c
    BY <1>2, <2>1, <2>2, CountedIs
  <2>3. CASE d = c
    <3>1. n \in 1..(case[c].count + 1) /\ case[c].count \in Nat /\ case[c].shipment = s
      BY <1>1, <1>2, <1>4, <2>1, <2>3 DEF Rows
    <3>2. n \in 1..case[c].count \/ n = case[c].count + 1
      BY <3>1
    <3> QED
      BY <1>4, <2>1, <2>3, <3>1, <3>2, CountedIs
  <2> QED
    BY <2>2, <2>3
<1> QED
  BY <1>3, <1>4

\* An inserted row counts the first attempt of its shipment.
LEMMA InsertCounted ==
  ASSUME TypeInv, NEW row \in Rows, case' = Append(case, row), row.count = 1,
         UNCHANGED <<actions, response, attempted, crashes>>, NEW s
  PROVE  /\ row.shipment # s => CountedAttempts(s)' = CountedAttempts(s)
         /\ CountedAttempts(s)' \subseteq CountedAttempts(s) \cup {<<Len(case'), 1>>}
<1> DEFINE k == Len(case')
<1>1. /\ DOMAIN case' = DOMAIN case \cup {k} /\ k \notin DOMAIN case
      /\ case'[k] = row /\ \A d \in DOMAIN case : case'[d] = case[d]
  BY RowInserted
<1> DEFINE A == CountedAttempts(s)'
           B == CountedAttempts(s)
<1>2. \A x : x \in A <=> \E c \in DOMAIN case' :
                           case'[c].shipment = s /\ \E n \in 1..case'[c].count : x = <<c, n>>
  BY CountedWillBe
<1>3. \A x : x \in B <=> \E c \in DOMAIN case :
                           case[c].shipment = s /\ \E n \in 1..case[c].count : x = <<c, n>>
  BY CountedIs
<1> HIDE DEF A, B, k
<1>4. B \subseteq A
  BY <1>1, <1>2, <1>3
<1>5. ASSUME NEW x \in A, x \notin B PROVE row.shipment = s /\ x = <<k, 1>>
  <2>1. PICK c \in DOMAIN case' : case'[c].shipment = s /\ \E n \in 1..case'[c].count : x = <<c, n>>
    BY <1>2
  <2>2. PICK n \in 1..case'[c].count : x = <<c, n>>
    BY <2>1
  <2>3. c = k
    BY <1>1, <1>3, <1>5, <2>1, <2>2
  <2>4. n = 1
    BY <1>1, <2>2, <2>3
  <2> QED
    BY <1>1, <2>1, <2>2, <2>3, <2>4
<1> QED
  BY <1>4, <1>5 DEF A, B, k

\* Whose step it is, and what it does to the counts.
StepCounts ==
  \E p \in Processes : /\ \E q : Become(p, q)
                       /\ \A s \in Shipments : Leaves(p, s) \/ Begins(s) \/ Counts(p, s)

\* A process that goes on to where no attempt is pending.
LEMMA Idle ==
  ASSUME TypeInv, NEW p \in Processes, NEW q, Become(p, q),
         q.pc \notin {"find", "insert", "count", "reopen"} \/ (q.pc = "find" /\ p \notin Attempts),
         UNCHANGED <<case, attempted>>
  PROVE  StepCounts
<1>1. proc'[p] = q
  BY DEF Become, TypeInv
<1>2. ASSUME NEW s \in Shipments PROVE Leaves(p, s)
  BY <1>1, NothingCounted DEF Leaves, Pends
<1> QED
  BY <1>2 DEF StepCounts

\* Asking the courier, from wherever.
LEMMA AskIdles ==
  ASSUME TypeInv, NEW p \in Processes, NEW c, NEW action, Ask(p, c, action), UNCHANGED <<case, attempted>>
  PROVE  StepCounts
<1>1. ASSUME NEW pc, NEW seen PROVE Process(pc, c, seen, action, 1).pc = pc
  BY DEF Process
<1>2. At("done").pc = "done"
  BY DEF At
<1>3. \E q : Become(p, q) /\ q.pc \in {"ask", "done"}
  BY <1>1, <1>2 DEF Ask
<1> QED
  BY <1>3, Idle

\* The seams before they write.
LEMMA SeamsCount ==
  ASSUME TypeInv,
         \/ \E a \in Attempts, s \in Shipments : BeginAttempt(a, s)
         \/ \E s \in Shipments : EndShipment(s) \/ FindOpen(s)
         \/ \E a \in Attempts : FindLatest(a)
  PROVE  StepCounts
<1>1. Attempts \subseteq Processes /\ Shipments \subseteq Processes /\ Shipments \cap Attempts = {}
  BY ProcessAssumption DEF Processes
<1>2. ASSUME NEW a \in Attempts, NEW s \in Shipments, BeginAttempt(a, s) PROVE StepCounts
  <2>1. a \in Processes /\ proc'[a] = Seam("find", s) /\ \E q : Become(a, q)
    BY <1>1, <1>2 DEF BeginAttempt, Become, TypeInv
  <2>2. ASSUME NEW t \in Shipments PROVE Leaves(a, t) \/ Begins(t)
    <3>1. CountedAttempts(t)' = CountedAttempts(t)
      BY <1>2, NothingCounted DEF BeginAttempt
    <3>2. attempted' = [attempted EXCEPT ![s] = @ + 1] /\ attempted \in [Shipments -> Nat]
      BY <1>2 DEF BeginAttempt, TypeInv, DataOK
    <3>3. CASE t = s
      BY <3>1, <3>2, <3>3 DEF Begins
    <3>4. CASE t # s
      <4>1. attempted'[t] = attempted[t]
        BY <3>2, <3>4
      <4>2. ~Pends(a, t)'
        BY <2>1, <3>4 DEF Pends, Seam
      <4> QED
        BY <3>1, <4>1, <4>2 DEF Leaves
    <3> QED
      BY <3>3, <3>4
  <2> QED
    BY <2>1, <2>2 DEF StepCounts
<1>3. ASSUME NEW s \in Shipments, EndShipment(s) PROVE StepCounts
  <2>1. Become(s, Seam("find", s)) /\ Seam("find", s).pc = "find" /\ UNCHANGED <<case, attempted>>
    BY <1>3 DEF EndShipment, Seam
  <2> QED
    BY <1>1, <2>1, Idle
<1>4. ASSUME NEW s \in Shipments, FindOpen(s) PROVE StepCounts
  <2>1. UNCHANGED <<case, attempted>> /\ \E q : Become(s, q) /\ q.pc \in {"done", "close"}
    BY <1>4 DEF FindOpen, At, Process
  <2> QED
    BY <1>1, <2>1, Idle
<1>5. ASSUME NEW a \in Attempts, FindLatest(a) PROVE StepCounts
  <2> DEFINE s == proc[a].shipment
             c == Max(CasesOf(s))
  <2>1. a \in Processes /\ proc[a].pc = "find" /\ UNCHANGED <<case, attempted>>
    BY <1>1, <1>5 DEF FindLatest
  <2>2. CASE CasesOf(s) = {} /\ Become(a, Seam("insert", s))
    <3>1. proc'[a].pc = "insert" /\ proc'[a].shipment = s
      BY <2>1, <2>2 DEF Become, TypeInv, Seam
    <3>2. ASSUME NEW t \in Shipments PROVE Leaves(a, t)
      BY <2>1, <3>1, NothingCounted DEF Leaves, Pends
    <3> QED
      BY <2>1, <2>2, <3>2 DEF StepCounts
  <2>3. CASE CasesOf(s) # {} /\ case[c].state = "CLOSED" /\ Become(a, At("done"))
    <3>1. At("done").pc = "done"
      BY DEF At
    <3> QED
      BY <2>1, <2>3, <3>1, Idle
  <2>4. ASSUME CasesOf(s) # {}, NEW pc \in {"reopen", "count"},
               Become(a, Process(pc, c, Read(case[c]), "REATTEMPT", 1))
        PROVE  StepCounts
    <3>1. case[c].shipment = s
      BY <2>4, FoundCase
    <3>2. proc'[a].pc = pc /\ proc'[a].case = c
      BY <2>1, <2>4 DEF Become, TypeInv, Process
    <3> HIDE DEF c
    <3>3. ASSUME NEW t \in Shipments PROVE Leaves(a, t)
      BY <2>1, <3>1, <3>2, NothingCounted DEF Leaves, Pends
    <3> QED
      BY <2>1, <2>4, <3>3 DEF StepCounts
  <2>5. \/ CasesOf(s) = {} /\ Become(a, Seam("insert", s))
        \/ CasesOf(s) # {} /\ case[c].state = "CLOSED" /\ Become(a, At("done"))
        \/ CasesOf(s) # {} /\ \E pc \in {"reopen", "count"} :
                                Become(a, Process(pc, c, Read(case[c]), "REATTEMPT", 1))
    BY <1>5 DEF FindLatest
  <2> QED
    BY <2>2, <2>3, <2>4, <2>5
<1> QED
  BY <1>2, <1>3, <1>4, <1>5

\* Who opens a case or adds to its count has an attempt pending until then.
LEMMA WritesCount ==
  ASSUME TypeInv, NEW a \in Attempts, OpenCase(a) \/ CountAttempt(a)
  PROVE  StepCounts
<1>1. a \in Processes
  BY DEF Processes
<1>2. CASE OpenCase(a)
  <2> DEFINE row == Case(proc[a].shipment, "OPEN", 1, 1)
  <2>1. proc[a].pc = "insert" /\ proc[a].shipment \in Shipments
    BY <1>1, <1>2, Seeks DEF OpenCase, Seeking
  <2>2. /\ row \in Rows /\ row.count = 1 /\ row.shipment = proc[a].shipment
        /\ case' = Append(case, row) /\ UNCHANGED <<actions, response, attempted, crashes>>
    BY <1>2, <2>1 DEF OpenCase, Case, Rows, States
  <2>3. \E q : Become(a, q) /\ q.pc \in {"done", "submit"}
    BY <1>2 DEF OpenCase, At, Process
  <2>4. proc'[a].pc \in {"done", "submit"}
    BY <1>1, <2>3 DEF Become, TypeInv
  <2> HIDE DEF row
  <2>5. ASSUME NEW t \in Shipments PROVE Leaves(a, t) \/ Counts(a, t)
    <3>1. ~Pends(a, t)'
      BY <2>4 DEF Pends
    <3>2. CASE proc[a].shipment = t
      <4>1. Pends(a, t)
        BY <2>1, <3>2 DEF Pends
      <4>2. \E m : CountedAttempts(t)' \subseteq CountedAttempts(t) \cup {m}
        BY <2>2, InsertCounted
      <4> QED
        BY <2>2, <3>1, <4>1, <4>2 DEF Counts
    <3>3. CASE proc[a].shipment # t
      <4>1. CountedAttempts(t)' = CountedAttempts(t)
        BY <2>2, <3>3, InsertCounted
      <4> QED
        BY <2>2, <3>1, <4>1 DEF Leaves
    <3> QED
      BY <3>2, <3>3
  <2> QED
    BY <1>1, <2>3, <2>5 DEF StepCounts
<1>3. CASE CountAttempt(a)
  <2> DEFINE c == proc[a].case
             row == Case(case[c].shipment, case[c].state, case[c].count + 1, case[c].version + 1)
  <2>1. proc[a].pc = "count" /\ c \in DOMAIN case /\ case[c] \in Rows
    BY <1>1, <1>3, Holds, CaseRows DEF CountAttempt, Working, Holding
  <2>2. row \in Rows /\ row.count = case[c].count + 1 /\ row.shipment = case[c].shipment
    BY <2>1 DEF Case, Rows
  <2>3. Become(a, At("done")) /\ attempted' = attempted
    BY <1>3 DEF CountAttempt
  <2>4. proc'[a].pc = "done"
    BY <1>1, <2>3 DEF Become, TypeInv, At
  <2>5. CASE UNCHANGED case
    <3>1. ASSUME NEW t \in Shipments PROVE Leaves(a, t)
      BY <2>3, <2>4, <2>5, NothingCounted DEF Leaves, Pends
    <3> QED
      BY <1>1, <2>3, <3>1 DEF StepCounts
  <2>6. CASE case' = [case EXCEPT ![c] = row]
    <3> HIDE DEF row
    <3>1. ASSUME NEW t \in Shipments PROVE Leaves(a, t) \/ Counts(a, t)
      <4>1. ~Pends(a, t)'
        BY <2>4 DEF Pends
      <4>2. CASE case[c].shipment = t
        <5>1. Pends(a, t)
          BY <2>1, <4>2 DEF Pends
        <5>2. CountedAttempts(t)' \subseteq CountedAttempts(t) \cup {<<c, row.count>>}
          BY <2>1, <2>2, <2>6, RowCounted
        <5> QED
          BY <2>3, <4>1, <5>1, <5>2 DEF Counts
      <4>3. CASE case[c].shipment # t
        <5>1. CountedAttempts(t)' = CountedAttempts(t)
          BY <2>1, <2>2, <2>6, <4>3, RowCounted
        <5> QED
          BY <2>3, <4>1, <5>1 DEF Leaves
      <4> QED
        BY <4>2, <4>3
    <3> QED
      BY <1>1, <2>3, <3>1 DEF StepCounts
  <2> QED
    BY <1>3, <2>5, <2>6 DEF CountAttempt
<1> QED
  BY <1>2, <1>3

\* A listed move counts the reopening of a case, which an attempt was pending for.
LEMMA MovesCount ==
  ASSUME TypeInv, ProcInv, NEW p \in Processes, MoveCase(p)
  PROVE  StepCounts
<1> DEFINE c == proc[p].case
           row == Written(p)
<1>1. /\ proc[p].pc \in Moving /\ c \in DOMAIN case /\ row \in Rows /\ case[c] \in Rows
      /\ case' = [case EXCEPT ![c] = row]
  BY CaseMoves, CaseRows DEF MoveCase
<1>2. row.shipment = case[c].shipment /\ row.count = case[c].count + Counted(p)
  BY DEF Written, Case
<1>3. attempted' = attempted /\ Become(p, Moved(p, Read(row)))
  BY DEF MoveCase, Written
<1>4. Moved(p, Read(row)).pc \in {"saveAccepted", "saveRejected", "link", "done"}
  BY DEF Moved, Process, At
<1>5. proc'[p].pc \in {"saveAccepted", "saveRejected", "link", "done"}
  BY <1>3, <1>4 DEF Become, TypeInv
<1> HIDE DEF row
<1>6. ASSUME NEW t \in Shipments PROVE Leaves(p, t) \/ Counts(p, t)
  <2>1. ~Pends(p, t)'
    BY <1>5 DEF Pends
  <2>2. CASE proc[p].pc = "reopen" /\ case[c].shipment = t
    <3>1. Pends(p, t)
      BY <2>2 DEF Pends
    <3>2. row.count = case[c].count + 1
      BY <1>2, <2>2 DEF Counted
    <3>3. CountedAttempts(t)' \subseteq CountedAttempts(t) \cup {<<c, row.count>>}
      BY <1>1, <1>2, <3>2, RowCounted
    <3> QED
      BY <1>3, <2>1, <3>1, <3>3 DEF Counts
  <2>3. CASE proc[p].pc # "reopen" \/ case[c].shipment # t
    <3>1. row.count = case[c].count \/ case[c].shipment # t
      BY <1>1, <1>2, <2>3 DEF Counted, Rows
    <3>2. CountedAttempts(t)' = CountedAttempts(t)
      BY <1>1, <1>2, <3>1, RowCounted
    <3> QED
      BY <1>3, <2>1, <3>2 DEF Leaves
  <2> QED
    BY <2>2, <2>3
<1> QED
  BY <1>3, <1>6 DEF StepCounts

\* The rest of transition, and a death.
LEMMA FallsBackCount ==
  ASSUME TypeInv, NEW p \in Processes,
         AlreadyThere(p) \/ NotListed(p) \/ VersionMismatch(p) \/ Crash(p)
  PROVE  StepCounts
<1>1. UNCHANGED <<case, attempted>>
  BY DEF AlreadyThere, NotListed, VersionMismatch, Crash
<1>2. CASE AlreadyThere(p) \/ NotListed(p) \/ Crash(p)
  <2>1. \E q : Become(p, q) /\ q.pc \in {"saveAccepted", "saveRejected", "link", "done", "dead"}
    BY <1>2 DEF AlreadyThere, NotListed, Crash, Moved, Process, At, Lost
  <2> QED
    BY <1>1, <2>1, Idle
<1>3. CASE VersionMismatch(p)
  <2>1. CASE Become(p, Lost("gaveUp", proc[p].case))
    <3>1. Lost("gaveUp", proc[p].case).pc = "gaveUp"
      BY DEF Lost
    <3> QED
      BY <1>1, <2>1, <3>1, Idle
  <2>2. CASE Become(p, Process(proc[p].pc, proc[p].case, Read(case[proc[p].case]), proc[p].action, proc[p].tries + 1))
    <3>1. proc'[p].pc = proc[p].pc /\ proc'[p].case = proc[p].case /\ proc[p].pc \in Moving
      BY <1>3, <2>2 DEF Become, TypeInv, Process, VersionMismatch
    <3>2. ASSUME NEW t \in Shipments PROVE Leaves(p, t)
      BY <1>1, <3>1, NothingCounted DEF Leaves, Pends, Moving
    <3> QED
      BY <2>2, <3>2 DEF StepCounts
  <2> QED
    BY <1>3, <2>1, <2>2 DEF VersionMismatch
<1> QED
  BY <1>2, <1>3

LEMMA EveryStepCounts ==
  ASSUME TypeInv, ProcInv, Next
  PROVE  StepCounts
<1>1. Attempts \subseteq Processes /\ Requests \subseteq Processes
  BY DEF Processes
<1>2. ASSUME NEW p \in Processes, SubmitStep(p) PROVE StepCounts
  <2>1. UNCHANGED <<case, attempted>> /\ \E q : Become(p, q) /\ q.pc \in {"accepted", "rejected", "done", "ack", "return"}
    BY <1>2 DEF SubmitStep, CourierAnswers, PersistAction, LinkResponse, Process, At
  <2> QED
    BY <2>1, Idle
<1>3. ASSUME NEW r \in Requests, NEW c \in DOMAIN case,
             RespondNdr(r, c) \/ \E action \in NdrActions : SubmitRequest(r, c, action)
      PROVE  StepCounts
  <2>1. UNCHANGED <<case, attempted>> /\ r \in Processes
    BY <1>1, <1>3 DEF RespondNdr, SubmitRequest
  <2>2. (\E action : Ask(r, c, action)) \/ Become(r, At("done"))
    BY <1>3 DEF RespondNdr, SubmitRequest
  <2>3. At("done").pc = "done"
    BY DEF At
  <2> QED
    BY <2>1, <2>2, <2>3, AskIdles, Idle
<1>4. ASSUME NEW a \in Attempts, AutoReattempt(a) PROVE StepCounts
  BY <1>1, <1>4, AskIdles DEF AutoReattempt
<1>5. ASSUME NEW p \in Processes, SeamStep(p) PROVE StepCounts
  BY <1>4, <1>5, SeamsCount, WritesCount DEF SeamStep
<1>6. ASSUME NEW p \in Processes, TransitionStep(p) \/ Crash(p) PROVE StepCounts
  BY <1>6, MovesCount, FallsBackCount DEF TransitionStep
<1> QED
  BY <1>2, <1>3, <1>5, <1>6, SeamsCount DEF Next, Step

LEMMA CountInvNext ==
  ASSUME TypeInv, ProcInv, CountInv, [Next]_vars
  PROVE  CountInv'
<1>1. CASE Next
  <2>1. RowsGrow
    BY <1>1, EveryStep DEF ActsWell
  <2>2. PICK p \in Processes : /\ \E q : Become(p, q)
                               /\ \A s \in Shipments : Leaves(p, s) \/ Begins(s) \/ Counts(p, s)
    BY <1>1, EveryStepCounts DEF StepCounts
  <2>3. ASSUME NEW s \in Shipments
        PROVE  /\ IsFiniteSet(CountedAttempts(s)') /\ IsFiniteSet(Pending(s)')
               /\ Cardinality(CountedAttempts(s)') + Cardinality(Pending(s)') <= attempted'[s]
    <3>1. Pending(s)' \subseteq Pending(s) \cup {p}
      BY <2>1, <2>2, OthersPend
    <3> QED
      BY <2>2, <3>1, SumKept
  <2> QED
    BY <2>3 DEF CountInv
<1>2. CASE UNCHANGED vars
  BY <1>2 DEF vars, CountInv, CountedAttempts, CasesOf, Pending, Pends
<1> QED
  BY <1>1, <1>2

LEMMA CountInvInit == Init => CountInv
<1> SUFFICES ASSUME Init, NEW s \in Shipments
             PROVE  /\ IsFiniteSet(CountedAttempts(s)) /\ IsFiniteSet(Pending(s))
                    /\ Cardinality(CountedAttempts(s)) + Cardinality(Pending(s)) <= attempted[s]
  BY DEF CountInv
<1>1. DOMAIN case = {}
  BY DEF Init
<1>2. CountedAttempts(s) = {}
  BY <1>1, CountedIs
<1>3. Pending(s) = {}
  BY DEF Init, Pending, Pends, At
<1>4. attempted[s] = 0
  BY DEF Init
<1> QED
  BY <1>2, <1>3, <1>4, FS_EmptySet

\* attempt_count never says more attempts than the courier made, whatever the
\* seams, the submits and the deaths interleave: a count is added by the UPDATE of
\* one attempt that has not been counted before.
THEOREM AttemptsAreCountedOnce == Spec => []AttemptsCountedOnce
<1>1. TypeInv /\ ProcInv /\ CountInv /\ [Next]_vars => CountInv'
  BY CountInvNext
<1>2. TypeInv /\ CountInv => AttemptsCountedOnce
  <2> SUFFICES ASSUME TypeInv, CountInv, NEW s \in Shipments
               PROVE  Cardinality(CountedAttempts(s)) <= attempted[s]
    BY DEF AttemptsCountedOnce
  <2> DEFINE c == Cardinality(CountedAttempts(s))
             n == Cardinality(Pending(s))
  <2>1. c \in Nat /\ n \in Nat /\ attempted[s] \in Nat /\ c + n <= attempted[s]
    BY FS_CardinalityType DEF CountInv, TypeInv, DataOK
  <2> HIDE DEF c, n
  <2>2. c <= attempted[s]
    BY <2>1
  <2> QED
    BY <2>2 DEF c
<1> QED
  BY <1>1, <1>2, Typed, CountInvInit, PTL DEF Spec

----------------------------------------------------------------------------
(* Machine F: Ndr implements NdrCases.                                     *)

\* What the machine sees.
StateOf == [c \in DOMAIN case |-> case[c].state]
CountOfCase == [c \in DOMAIN case |-> case[c].count]
ShipmentOf == [c \in DOMAIN case |-> case[c].shipment]
EndedOnes == {s \in Shipments : Ended(s)}

\* A row written, a row inserted, as the machine sees them.
LEMMA SeenWritten ==
  ASSUME TypeInv, NEW c \in DOMAIN case, NEW row \in Rows, case' = [case EXCEPT ![c] = row],
         row.shipment = case[c].shipment
  PROVE  /\ StateOf' = [StateOf EXCEPT ![c] = row.state]
         /\ CountOfCase' = [CountOfCase EXCEPT ![c] = row.count]
         /\ ShipmentOf' = ShipmentOf
BY DEF StateOf, CountOfCase, ShipmentOf

LEMMA SeenInserted ==
  ASSUME TypeInv, NEW row \in Rows, case' = Append(case, row),
         UNCHANGED <<actions, response, attempted, crashes>>
  PROVE  /\ StateOf' = Append(StateOf, row.state)
         /\ CountOfCase' = Append(CountOfCase, row.count)
         /\ ShipmentOf' = Append(ShipmentOf, row.shipment)
<1>1. Len(case) \in Nat /\ DOMAIN case = 1..Len(case) /\ \A d \in DOMAIN case : case[d] \in Rows
  BY CaseRows
<1>2. /\ Len(case') = Len(case) + 1 /\ DOMAIN case' = DOMAIN case \cup {Len(case')}
      /\ case'[Len(case')] = row /\ \A d \in DOMAIN case : case'[d] = case[d]
  BY RowInserted
<1>3. DOMAIN case' = 1..(Len(case) + 1)
  BY <1>1, <1>2
<1>4. Len(StateOf) = Len(case) /\ Len(CountOfCase) = Len(case) /\ Len(ShipmentOf) = Len(case)
  BY <1>1 DEF StateOf, CountOfCase, ShipmentOf
<1>5. ASSUME NEW d \in 1..(Len(case) + 1)
      PROVE  case'[d] = IF d = Len(case) + 1 THEN row ELSE case[d]
  BY <1>1, <1>2
<1>6. StateOf' = Append(StateOf, row.state)
  BY <1>1, <1>3, <1>4, <1>5 DEF StateOf
<1>7. CountOfCase' = Append(CountOfCase, row.count)
  BY <1>1, <1>3, <1>4, <1>5 DEF CountOfCase
<1>8. ShipmentOf' = Append(ShipmentOf, row.shipment)
  BY <1>1, <1>3, <1>4, <1>5 DEF ShipmentOf
<1> QED
  BY <1>6, <1>7, <1>8

\* Who has ended changes with the ending's seam only.
LEMMA EndedBySeam ==
  ASSUME TypeInv, Next
  PROVE  \/ EndedOnes' = EndedOnes
         \/ \E s \in Shipments : EndShipment(s) /\ EndedOnes' = EndedOnes \cup {s}
<1>1. ASSUME NEW q \in Processes, NEW r, Become(q, r),
             q \notin Shipments \/ (proc[q].pc # "new" /\ r.pc # "new")
      PROVE  EndedOnes' = EndedOnes
  BY <1>1 DEF Become, TypeInv, EndedOnes, Ended, Processes
<1>2. Attempts \subseteq Processes \ Shipments /\ Requests \subseteq Processes \ Shipments
  BY ProcessAssumption DEF Processes
<1>3. ASSUME NEW s \in Shipments, EndShipment(s) PROVE EndedOnes' = EndedOnes \cup {s}
  <2>1. proc' = [proc EXCEPT ![s] = Seam("find", s)] /\ Seam("find", s).pc = "find"
    BY <1>3 DEF EndShipment, Become, Seam
  <2> QED
    BY <2>1 DEF TypeInv, EndedOnes, Ended, Processes
<1>4. CASE \/ \E a \in Attempts, s \in Shipments : BeginAttempt(a, s)
           \/ \E r \in Requests, d \in DOMAIN case, action \in NdrActions : SubmitRequest(r, d, action)
           \/ \E r \in Requests, d \in DOMAIN case : RespondNdr(r, d)
  <2>1. \E q \in Processes \ Shipments : \E r : Become(q, r)
    BY <1>2, <1>4 DEF BeginAttempt, SubmitRequest, RespondNdr, Ask
  <2> QED
    BY <1>1, <2>1
<1>5. CASE \E q \in Processes : SeamStep(q)
  <2>1. CASE \E q \in Attempts : SeamStep(q)
    <3>1. PICK q \in Attempts : SeamStep(q)
      BY <2>1
    <3>2. q \notin Shipments /\ q \in Processes
      BY <1>2
    <3>3. \E r : Become(q, r)
      BY <3>1, <3>2 DEF SeamStep, FindLatest, OpenCase, CountAttempt, AutoReattempt, Ask
    <3> QED
      BY <1>1, <3>2, <3>3
  <2>2. ASSUME NEW s \in Shipments, FindOpen(s) PROVE EndedOnes' = EndedOnes
    <3>1. proc[s].pc # "new" /\ \E r : Become(s, r) /\ r.pc # "new"
      BY <2>2 DEF FindOpen, At, Process
    <3> QED
      BY <1>1, <3>1 DEF Processes
  <2> QED
    BY <1>5, <2>1, <2>2 DEF SeamStep
<1>6. ASSUME NEW q \in Processes, SubmitStep(q) PROVE EndedOnes' = EndedOnes
  <2>1. proc[q].pc # "new" /\ \E r : Become(q, r) /\ r.pc # "new"
    <3>1. CASE CourierAnswers(q)
      BY <3>1 DEF CourierAnswers, At, Process
    <3>2. CASE PersistAction(q)
      BY <3>2 DEF PersistAction, Process
    <3>3. CASE q \in Requests /\ LinkResponse(q)
      BY <3>3 DEF LinkResponse, At
    <3> QED
      BY <1>6, <3>1, <3>2, <3>3 DEF SubmitStep
  <2> QED
    BY <1>1, <2>1
<1>7. ASSUME NEW q \in Processes, TransitionStep(q) \/ Crash(q) PROVE EndedOnes' = EndedOnes
  <2>1. ASSUME NEW seen PROVE Moved(q, seen).pc # "new"
    BY DEF Moved, Process, At
  <2>2. CASE TransitionStep(q)
    <3>1. proc[q].pc \in Moving /\ \E r : Become(q, r) /\ r.pc # "new"
      <4>1. CASE AlreadyThere(q)
        BY <2>1, <4>1 DEF AlreadyThere
      <4>2. CASE NotListed(q)
        BY <4>2 DEF NotListed, At
      <4>3. CASE MoveCase(q)
        BY <2>1, <4>3 DEF MoveCase
      <4>4. CASE VersionMismatch(q)
        BY <4>4 DEF VersionMismatch, Process, Lost, Moving
      <4> QED
        BY <2>2, <4>1, <4>2, <4>3, <4>4 DEF TransitionStep
    <3> QED
      BY <1>1, <3>1 DEF Moving
  <2>3. CASE Crash(q)
    <3>1. proc[q].pc # "new" /\ \E r : Become(q, r) /\ r.pc # "new"
      BY <2>3 DEF Crash, AtRest, Lost, At
    <3> QED
      BY <1>1, <3>1
  <2> QED
    BY <1>7, <2>2, <2>3
<1> QED
  BY <1>3, <1>4, <1>5, <1>6, <1>7 DEF Next, Step

\* The moves machine F has, by which Moving's moves are.
LEMMA MoveIsOfF ==
  ASSUME TypeInv, ProcInv, NEW p \in Processes, MoveCase(p), EndedOnes' = EndedOnes,
         NEW c, c = proc[p].case
  PROVE  c \in DOMAIN case /\ (Cases!Advance(c) \/ Cases!Attempt(c) \/ Cases!Close(c))
<1>1. /\ c \in DOMAIN case /\ Written(p) \in Rows /\ case[c] \in Rows
      /\ case' = [case EXCEPT ![c] = Written(p)]
      /\ case[c].state \in FromStates[Target(p)]
  BY CaseMoves, CaseRows
<1>2. proc[p].pc \in Moving /\ proc[p] \in Holding(Len(case)) /\ proc[p].seen.state # Target(p)
  BY Holds DEF MoveCase, Working
<1>3. case[c].state # Target(p)
  BY <1>2 DEF MoveCase, VersionMatches, ProcInv, ProcOK, SeenBefore, Working
<1>4. /\ Written(p).state = Target(p) /\ Written(p).count = case[c].count + Counted(p)
      /\ Written(p).shipment = case[c].shipment
  BY DEF Written, Case
<1>5. /\ StateOf' = [StateOf EXCEPT ![c] = Target(p)]
      /\ CountOfCase' = [CountOfCase EXCEPT ![c] = case[c].count + Counted(p)]
      /\ ShipmentOf' = ShipmentOf
  <2> DEFINE row == Written(p)
  <2>1. row \in Rows /\ case' = [case EXCEPT ![c] = row] /\ row.shipment = case[c].shipment
    BY <1>1, <1>4
  <2>2. row.state = Target(p) /\ row.count = case[c].count + Counted(p)
    BY <1>4
  <2> HIDE DEF row
  <2> QED
    <3>1. /\ StateOf' = [StateOf EXCEPT ![c] = row.state]
          /\ CountOfCase' = [CountOfCase EXCEPT ![c] = row.count]
          /\ ShipmentOf' = ShipmentOf
      BY <1>1, <2>1, SeenWritten, Zenon
    <3> QED
      BY <2>2, <3>1
<1>6. StateOf[c] = case[c].state /\ CountOfCase[c] = case[c].count /\ ShipmentOf[c] = case[c].shipment
  BY <1>1 DEF StateOf, CountOfCase, ShipmentOf
<1>7. CountOfCase = [CountOfCase EXCEPT ![c] = case[c].count]
  BY <1>1 DEF CountOfCase
<1>8. case[c].count \in Nat /\ case[c].count + 0 = case[c].count
  BY <1>1 DEF Rows
<1>9. CASE proc[p].pc = "reopen"
  <2>1. Target(p) = "OPEN" /\ Counted(p) = 1 /\ StateOf[c] \in {"REATTEMPT_SCHEDULED", "ACTION_SUBMITTED"}
    BY <1>1, <1>6, <1>9 DEF Target, Counted, FromStates, States
  <2>2. CountOfCase' = [CountOfCase EXCEPT ![c] = @ + 1]
    BY <1>5, <1>6, <2>1
  <2>3. Cases!Move(c, {"REATTEMPT_SCHEDULED", "ACTION_SUBMITTED"}, "OPEN")
    BY <1>5, <2>1 DEF Cases!Move, StateOf
  <2>4. Cases!Attempt(c)
    BY <1>5, <2>2, <2>3 DEF Cases!Attempt, CountOfCase, ShipmentOf, EndedOnes
  <2> QED
    BY <1>1, <2>4
<1>10. CASE proc[p].pc \in {"return", "accepted", "rejected", "ack"}
  <2>1. Counted(p) = 0 /\ CountOfCase' = CountOfCase
    BY <1>5, <1>7, <1>8, <1>10 DEF Counted
  <2>2. \/ Target(p) = "OPEN" /\ StateOf[c] \in {"ACTION_SUBMITTED", "REATTEMPT_SCHEDULED"}
        \/ Target(p) = "ACTION_SUBMITTED" /\ StateOf[c] = "OPEN"
        \/ Target(p) \in {"REATTEMPT_SCHEDULED", "RTO_REQUESTED"} /\ StateOf[c] = "ACTION_SUBMITTED"
    BY <1>1, <1>2, <1>6, <1>10 DEF Target, Holding, NdrActions, FromStates, States
  <2>3. \/ Cases!Move(c, {"OPEN"}, "ACTION_SUBMITTED")
        \/ Cases!Move(c, {"ACTION_SUBMITTED"}, "REATTEMPT_SCHEDULED")
        \/ Cases!Move(c, {"ACTION_SUBMITTED"}, "RTO_REQUESTED")
        \/ Cases!Move(c, {"ACTION_SUBMITTED", "REATTEMPT_SCHEDULED"}, "OPEN")
    BY <1>5, <2>2 DEF Cases!Move, StateOf
  <2>4. Cases!Advance(c)
    BY <1>5, <2>1, <2>3 DEF Cases!Advance, CountOfCase, ShipmentOf, EndedOnes
  <2> QED
    BY <1>1, <2>4
<1>11. CASE proc[p].pc = "close"
  <2>1. Counted(p) = 0 /\ CountOfCase' = CountOfCase /\ Target(p) = "CLOSED"
    BY <1>5, <1>7, <1>8, <1>11 DEF Counted, Target
  <2>2. p \in Shipments /\ ShipmentOf[c] = p
    BY <1>6, <1>11 DEF ProcInv, ProcOK
  <2>3. p \in EndedOnes
    BY <1>11, <2>2 DEF EndedOnes, Ended
  <2>4. ShipmentOf[c] \in EndedOnes /\ StateOf[c] # "CLOSED" /\ StateOf' = [StateOf EXCEPT ![c] = "CLOSED"]
    BY <1>3, <1>5, <1>6, <2>1, <2>2, <2>3
  <2>5. Cases!Close(c)
    BY <1>5, <2>1, <2>4 DEF Cases!Close, StateOf, CountOfCase, ShipmentOf, EndedOnes
  <2> QED
    BY <1>1, <2>5
<1> QED
  BY <1>2, <1>9, <1>10, <1>11 DEF Moving

LEMMA StepIsOfF ==
  ASSUME TypeInv, ProcInv, [Next]_vars
  PROVE  [Cases!Next]_Cases!vars
<1>1. ASSUME UNCHANGED case, EndedOnes' = EndedOnes PROVE UNCHANGED Cases!vars
  BY <1>1 DEF Cases!vars, EndedOnes
<1>2. CASE UNCHANGED vars
  <2>1. UNCHANGED case /\ EndedOnes' = EndedOnes
    BY <1>2 DEF vars, EndedOnes, Ended
  <2> QED
    BY <1>1, <2>1
<1>3. ASSUME NEW s \in Shipments, EndShipment(s), EndedOnes' = EndedOnes \cup {s}
      PROVE  Cases!Next
  <2>1. UNCHANGED case
    BY <1>3 DEF EndShipment
  <2>2. StateOf' = StateOf /\ CountOfCase' = CountOfCase /\ ShipmentOf' = ShipmentOf
    BY <2>1 DEF StateOf, CountOfCase, ShipmentOf
  <2>3. Cases!End(s)
    BY <1>3, <2>2 DEF Cases!End, StateOf, CountOfCase, ShipmentOf, EndedOnes
  <2> QED
    BY <2>3 DEF Cases!Next
<1>4. ASSUME NEW a \in Attempts, OpenCase(a), EndedOnes' = EndedOnes
      PROVE  Cases!Next
  <2> DEFINE row == Case(proc[a].shipment, "OPEN", 1, 1)
  <2>1. /\ proc[a].shipment \in Shipments /\ row \in Rows
        /\ row.state = "OPEN" /\ row.count = 1 /\ row.shipment = proc[a].shipment
    BY <1>4, Seeks DEF OpenCase, Seeking, Case, Rows, States, Processes
  <2>2. case' = Append(case, row) /\ UNCHANGED <<actions, response, attempted, crashes>>
    BY <1>4 DEF OpenCase
  <2> HIDE DEF row
  <2>3. /\ StateOf' = Append(StateOf, "OPEN") /\ CountOfCase' = Append(CountOfCase, 1)
        /\ ShipmentOf' = Append(ShipmentOf, proc[a].shipment)
    BY <2>1, <2>2, SeenInserted
  <2>4. PICK s \in Shipments : s = proc[a].shipment
    BY <2>1
  <2>5. Cases!Open(s)
    BY <1>4, <2>3, <2>4 DEF Cases!Open, StateOf, CountOfCase, ShipmentOf, EndedOnes
  <2> QED
    BY <2>5 DEF Cases!Next
<1>5. ASSUME NEW c \in DOMAIN case, Cases!Advance(c) \/ Cases!Attempt(c) \/ Cases!Close(c)
      PROVE  Cases!Next
  BY <1>5 DEF Cases!Next
<1>6. ASSUME NEW a \in Attempts, CountAttempt(a), EndedOnes' = EndedOnes
      PROVE  Cases!Next \/ UNCHANGED Cases!vars
  <2>0. PICK c : c = proc[a].case
    OBVIOUS
  <2> DEFINE row == Case(case[c].shipment, case[c].state, case[c].count + 1, case[c].version + 1)
  <2>1. a \in Processes /\ proc[a].pc = "count" /\ c \in DOMAIN case /\ case[c] \in Rows
    BY <1>6, <2>0, Holds, CaseRows DEF CountAttempt, Working, Holding, Processes
  <2>2. CASE VersionMatches(a)
    <3>1. case' = [case EXCEPT ![c] = row]
      BY <1>6, <2>0, <2>2 DEF CountAttempt
    <3>2. case[c].state # "CLOSED"
      BY <2>0, <2>1, <2>2 DEF VersionMatches, ProcInv, ProcOK, SeenBefore, Working
    <3>3. row.state = case[c].state /\ row.count = case[c].count + 1 /\ row.shipment = case[c].shipment
      BY DEF Case
    <3>4. StateOf[c] = case[c].state /\ CountOfCase[c] = case[c].count
      BY <2>1 DEF StateOf, CountOfCase
    <3>0. row \in Rows
      <4>1. case[c].count + 1 \in Nat /\ case[c].version + 1 \in Nat
        BY <2>1 DEF Rows
      <4> QED
        BY <2>1, <4>1 DEF Case, Rows
    <3>5. /\ StateOf' = [StateOf EXCEPT ![c] = case[c].state]
          /\ CountOfCase' = [CountOfCase EXCEPT ![c] = case[c].count + 1]
          /\ ShipmentOf' = ShipmentOf
      <4> HIDE DEF row
      <4> QED
        <5>1. /\ StateOf' = [StateOf EXCEPT ![c] = row.state]
              /\ CountOfCase' = [CountOfCase EXCEPT ![c] = row.count]
              /\ ShipmentOf' = ShipmentOf
          BY <2>1, <3>0, <3>1, <3>3, SeenWritten, Zenon
        <5> QED
          BY <3>3, <5>1
    <3>6. StateOf' = StateOf
      BY <2>1, <3>5 DEF StateOf
    <3>7. CountOfCase' = [CountOfCase EXCEPT ![c] = @ + 1]
      BY <3>4, <3>5
    <3>8. StateOf[c] # "CLOSED"
      BY <3>2, <3>4
    <3>9. Cases!Attempt(c)
      BY <1>6, <3>5, <3>6, <3>7, <3>8 DEF Cases!Attempt, StateOf, CountOfCase, ShipmentOf, EndedOnes
    <3> QED
      BY <1>5, <2>1, <3>9
  <2>3. CASE ~VersionMatches(a)
    BY <1>1, <1>6, <2>3 DEF CountAttempt
  <2> QED
    BY <2>2, <2>3
<1>7. ASSUME NEW p \in Processes, MoveCase(p), EndedOnes' = EndedOnes
      PROVE  Cases!Next
  <2>1. PICK c : c = proc[p].case
    OBVIOUS
  <2>2. c \in DOMAIN case /\ (Cases!Advance(c) \/ Cases!Attempt(c) \/ Cases!Close(c))
    BY <1>7, <2>1, MoveIsOfF
  <2> QED
    BY <1>5, <2>2
<1>8. CASE Next
  <2>1. \/ UNCHANGED case
        \/ \E a \in Attempts : OpenCase(a) \/ CountAttempt(a)
        \/ \E p \in Processes : MoveCase(p)
    BY <1>8 DEF Next, BeginAttempt, EndShipment, SubmitRequest, RespondNdr, Step, Crash, SeamStep,
         FindLatest, AutoReattempt, FindOpen, SubmitStep, CourierAnswers, PersistAction, LinkResponse,
         TransitionStep, AlreadyThere, NotListed, VersionMismatch
  <2>2. CASE EndedOnes' = EndedOnes
    BY <1>1, <1>4, <1>6, <1>7, <2>1, <2>2
  <2>3. CASE \E s \in Shipments : EndShipment(s) /\ EndedOnes' = EndedOnes \cup {s}
    BY <1>3, <2>3
  <2> QED
    BY <1>8, <2>2, <2>3, EndedBySeam
<1> QED
  BY <1>2, <1>8

\* Whoever interleaves, the cases only take machine F's moves: CLOSED is final and
\* comes only with the shipment's ending, RTO_REQUESTED only closes, and an
\* attempt's count never falls.
THEOREM NdrRefinesCases == Spec => ImplementsCases
<1>1. Init => Cases!Init
  <2>1. ASSUME Init PROVE case = <<>> /\ StateOf = <<>> /\ CountOfCase = <<>> /\ ShipmentOf = <<>> /\ EndedOnes = {}
    BY <2>1 DEF Init, StateOf, CountOfCase, ShipmentOf, EndedOnes, Ended, At, Processes
  <2> QED
    BY <2>1 DEF Cases!Init, StateOf, CountOfCase, ShipmentOf, EndedOnes
<1>2. TypeInv /\ ProcInv /\ [Next]_vars => [Cases!Next]_Cases!vars
  BY StepIsOfF
<1> QED
  BY <1>1, <1>2, Typed, PTL DEF Spec, ImplementsCases, Cases!Spec

=============================================================================
