------------------------------- MODULE Upkeep -------------------------------
(***************************************************************************)
(* What is kept and for how long: the daily retention sweep, table after   *)
(* table, and the monthly partitions of the tracking tables.  Time is in   *)
(* days, a month being a few of them; an item is the row of a table (for   *)
(* an attachment, the message's reference to it) with its object in the    *)
(* store.                                                                  *)
(***************************************************************************)
EXTENDS Integers, Sequences, FiniteSets

CONSTANTS
  Sweepers,   \* workers of the maintenance queue
  Days,       \* bound: the clock
  Month,      \* days of a month
  Ahead,      \* months whose partitions are made in advance
  Horizon,    \* per kind, the days it is kept
  Batch,      \* rows of one statement
  Items       \* bound: items at a time

VARIABLES
  today,
  owner,      \* whether the sweep's role owns the partitioned tables
  parts,      \* months with a partition
  item,       \* per kind, a row and its object
  sweep       \* per sweeper

upkeepVars == <<today, owner, parts, item, sweep>>

\* The tables in the order they are swept; the tracking tables are partitioned.
Order == <<"inbox", "raw", "tracking", "document", "invoice", "export", "attachment">>
Kinds == {Order[i] : i \in DOMAIN Order}
Partitioned == {"raw", "tracking"}

NoItem == [born |-> 0, closed |-> 0, part |-> "none", row |-> FALSE, object |-> FALSE,
           tomb |-> FALSE, late |-> FALSE]
Off == [at |-> 0, day |-> 0, step |-> "rest"]
MonthOf(day) == (day - 1) \div Month
MonthEnd(month) == (month + 1) * Month + 1

Init ==
  /\ today = 1
  /\ owner \in BOOLEAN
  /\ parts = {0}
  /\ item = [k \in Kinds |-> NoItem]
  /\ sweep = [p \in Sweepers |-> Off]

Tick ==
  /\ today < Days /\ today' = today + 1
  /\ UNCHANGED <<owner, parts, item, sweep>>

\* ensurePartitions, monthly and at a start: months that rows of the default
\* partition belong to can no longer be made.
EnsurePartitions ==
  LET wanted == MonthOf(today)..(MonthOf(today) + Ahead)
      strays == {MonthOf(item[k].born) : k \in {x \in Kinds : item[x].part = "default"}}
  IN /\ ~ wanted \subseteq parts
     /\ wanted \cap (strays \ parts) = {}
     /\ parts' = parts \cup wanted
     /\ UNCHANGED <<today, owner, item, sweep>>

\* A row is written, and what has an object gets it.
Store(k) ==
  /\ item[k] = NoItem /\ Cardinality({x \in Kinds : item[x] # NoItem}) < Items
  /\ item' = [item EXCEPT ![k] = [born |-> today, closed |-> 0, row |-> TRUE, tomb |-> FALSE, late |-> FALSE,
       object |-> k \notin Partitioned \cup {"inbox"},
       part |-> IF k \notin Partitioned THEN "none" ELSE IF MonthOf(today) \in parts THEN "month" ELSE "default"]]
  /\ UNCHANGED <<today, owner, parts, sweep>>
\* The inbox row is PROCESSED or DEAD, the ticket is resolved.
Close(k) ==
  /\ k \in {"inbox", "attachment"} /\ item[k].born # 0 /\ item[k].closed = 0
  /\ item' = [item EXCEPT ![k].closed = today]
  /\ UNCHANGED <<today, owner, parts, sweep>>

\* A member's reply reopens a RESOLVED ticket and clears resolved_at; late
\* records that the days of its attachments were over by then.
Overdue(k) == item[k].late \/ (item[k].closed # 0 /\ today - item[k].closed > Horizon[k])
Reopen ==
  /\ item["attachment"].closed # 0
  /\ item' = [item EXCEPT !["attachment"].closed = 0, !["attachment"].late = Overdue("attachment")]
  /\ UNCHANGED <<today, owner, parts, sweep>>

\* A redaction erases a document's object and leaves a key under redacted/.
Redact(k) ==
  /\ k \in {"document", "invoice"} /\ item[k].row
  /\ item' = [item EXCEPT ![k].object = FALSE, ![k].tomb = TRUE]
  /\ UNCHANGED <<today, owner, parts, sweep>>

----------------------------------------------------------------------------
(* The sweep.                                                              *)

Table(p) == Order[sweep[p].at]
Cutoff(p) == sweep[p].day - Horizon[Table(p)]

\* Rows the statement of a table chooses: by their age, and for the inbox and
\* the attachments when they are closed.
Due(p) ==
  LET i == item[Table(p)] IN
  /\ i.row
  /\ IF Table(p) = "attachment" THEN i.closed # 0 /\ i.closed < Cutoff(p)
     ELSE i.born < Cutoff(p) /\ (Table(p) = "inbox" => i.closed # 0)

\* A partition is dropped when the whole of its month is past the cutoff.
ExpiredMonthBug(m, cutoff) == m * Month + 1 <= cutoff
ExpiredMonth(m, cutoff) == MonthEnd(m) <= cutoff

SweepStarts(p) ==
  /\ sweep[p] = Off
  /\ sweep' = [sweep EXCEPT ![p] = [at |-> 1, day |-> today, step |-> "rest"]]
  /\ UNCHANGED <<today, owner, parts, item>>

Onward(p) ==
  sweep' = [sweep EXCEPT ![p] = IF sweep[p].at = Len(Order) THEN Off
                                ELSE [sweep[p] EXCEPT !.at = sweep[p].at + 1, !.step = "rest"]]

\* deleteBatched.
SweepInbox(p) ==
  /\ sweep[p] # Off /\ Table(p) = "inbox"
  /\ item' = IF Due(p) THEN [item EXCEPT !["inbox"].row = FALSE] ELSE item
  /\ Onward(p)
  /\ UNCHANGED <<today, owner, parts>>

\* sweepTrackingPartitions: by partition, and row by row from the default one,
\* for a role that may; another's statement throws and the sweep is over.
SweepPartitions(p) ==
  LET k == Table(p)
      gone == IF item[k].part = "month" THEN ExpiredMonth(MonthOf(item[k].born), Cutoff(p)) ELSE Due(p)
  IN /\ sweep[p] # Off /\ k \in Partitioned
     /\ IF owner
        THEN /\ item' = IF item[k].row /\ gone THEN [item EXCEPT ![k].row = FALSE, ![k].part = "none"] ELSE item
             /\ Onward(p)
        ELSE UNCHANGED item /\ sweep' = [sweep EXCEPT ![p] = Off]
     /\ UNCHANGED <<today, owner, parts>>

\* The documents, exports and attachments of a batch: chosen, then each object
\* erased by the key that was read, and then the row deleted or its reference
\* cleared, whatever happened to it meanwhile.
Choose(p) ==
  /\ sweep[p] # Off /\ Table(p) \notin Partitioned \cup {"inbox"} /\ sweep[p].step = "rest"
  /\ IF Due(p) THEN sweep' = [sweep EXCEPT ![p].step = IF item[Table(p)].tomb THEN "foreign" ELSE "chosen"]
     ELSE Onward(p)
  /\ UNCHANGED <<today, owner, parts, item>>

\* assertShopKey refuses a key outside the shop's prefix: the sweep is over, and
\* the next one ends there too.
RefuseKey(p) ==
  /\ sweep[p].step = "foreign"
  /\ sweep' = [sweep EXCEPT ![p] = Off]
  /\ UNCHANGED <<today, owner, parts, item>>
EraseObject(p) ==
  /\ sweep[p].step = "chosen"
  /\ item' = [item EXCEPT ![Table(p)].object = FALSE]
  /\ sweep' = [sweep EXCEPT ![p].step = "erased"]
  /\ UNCHANGED <<today, owner, parts>>
Clear(p) ==
  /\ sweep[p].step = "erased"
  /\ item' = IF Table(p) # "export" THEN [item EXCEPT ![Table(p)].row = FALSE] ELSE item
  \* The rows of exports stay and are chosen again, unless they were less than a batch.
  /\ IF Table(p) \in {"export", "attachment"} /\ Batch > 1 THEN Onward(p)
     ELSE sweep' = [sweep EXCEPT ![p].step = "rest"]
  /\ UNCHANGED <<today, owner, parts>>

\* The process dies; the next day's sweep begins again.
Dies(p) ==
  /\ sweep[p] # Off /\ sweep' = [sweep EXCEPT ![p] = Off]
  /\ UNCHANGED <<today, owner, parts, item>>

Next ==
  \/ Tick \/ EnsurePartitions \/ Reopen
  \/ \E k \in Kinds : Store(k) \/ Close(k) \/ Redact(k)
  \/ \E p \in Sweepers :
       \/ SweepStarts(p) \/ SweepInbox(p) \/ SweepPartitions(p) \/ Choose(p) \/ RefuseKey(p)
       \/ EraseObject(p) \/ Clear(p) \/ Dies(p)

Spec == Init /\ [][Next]_upkeepVars

----------------------------------------------------------------------------

Age(k) == today - item[k].born

\* Nothing is lost before its time, whole partitions included: a row only past its
\* horizon; an object likewise, unless a redaction took it; and an attachment only
\* of a ticket resolved that long ago, unless a member reopened it after that: the
\* sweep that had selected it by then erases it from an open ticket, and one that
\* died there leaves the message naming an object that is gone.
KeptForItsTime ==
  \A k \in Kinds : item[k].born # 0 =>
    /\ ~item[k].row => Age(k) > Horizon[k]
    /\ item[k].row /\ ~item[k].object /\ k \notin Partitioned \cup {"inbox"} => item[k].tomb \/ Age(k) > Horizon[k]
    /\ k = "attachment" /\ ~item[k].object => Overdue(k)

\* What keeps it: no date is ahead of today, nothing is closed before it is born,
\* and the time of what a sweep has chosen has come.
ItemStands(i) ==
  /\ i \in [born : 0 .. today, closed : 0 .. today, part : {i.part}, row : BOOLEAN, object : BOOLEAN,
            tomb : BOOLEAN, late : BOOLEAN]
  /\ i.row => i.born # 0
  /\ i.closed # 0 => i.born # 0 /\ i.born <= i.closed
TimeHasCome(k) ==
  /\ item[k].born # 0 /\ Age(k) > Horizon[k]
  /\ k = "attachment" => Overdue(k)
SweepStands(s) ==
  /\ s \in [at : 0 .. Len(Order), day : 0 .. today, step : {"rest", "chosen", "foreign", "erased"}]
  /\ s # Off => s.at # 0
  /\ s.step \in {"chosen", "erased"} => s.at # 0 /\ TimeHasCome(Order[s.at])
UpkeepInv ==
  /\ today \in Nat \ {0}
  /\ item = [k \in Kinds |-> item[k]] /\ \A k \in Kinds : ItemStands(item[k])
  /\ sweep = [p \in Sweepers |-> sweep[p]] /\ \A p \in Sweepers : SweepStands(sweep[p])
  /\ KeptForItsTime

\* What the repository says otherwise.

\* "Under the least-privilege app role the sweep uses its bounded row-delete
\* path": that path is refused too, and the tables after it are never reached.
SweepGoesOn == [][\A p \in Sweepers : sweep[p].at \in {2, 3} /\ ~owner => sweep'[p].at # 0]_upkeepVars
\* A sweep that goes on ends: not when a batch of exports has expired.
FairSpec == Spec /\ \A p \in Sweepers : WF_upkeepVars(SweepInbox(p) \/ SweepPartitions(p) \/ Choose(p) \/ EraseObject(p) \/ Clear(p))
SweepEnds == \A p \in Sweepers : sweep[p] # Off ~> sweep[p] = Off
=============================================================================
