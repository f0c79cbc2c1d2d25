----------------------------- MODULE OrdersProofs -----------------------------
(***************************************************************************)
(* What MCOrders promises of the components it composes, proved for every  *)
(* value of their constants: no write goes over a rule its author was not  *)
(* shown (RuleBook), the numbers of the GST invoices have no gap and no    *)
(* double (GstInvoices), no fulfillment order is in two shipments and no   *)
(* draft is left unjudged (OrderSync), and the first rule that speaks for  *)
(* an order decides how it is sent (RuleEngine).                           *)
(***************************************************************************)
EXTENDS MCOrders, TLAPS, FiniteSetTheorems, WellFoundedInduction

----------------------------------------------------------------------------
(* RuleBook.  A rule's content is read off its group rows, because the ids *)
(* of a write tie each row of a condition to the group it was written in;  *)
(* a form that is current shows that content, because every write that     *)
(* touches it raises the version.                                          *)

BookRow(x) ==
  x \in [exists : BOOLEAN, version : Nat, active : {x.active}, position : {x.position}]
BookForm(x) ==
  x \in [pc : {x.pc}, rule : {x.rule}, version : {x.version}, content : {x.content}, conds : {x.conds}]

BookType ==
  /\ rule = [r \in RuleIds |-> rule[r]] /\ \A r \in RuleIds : BookRow(rule[r])
  /\ form = [m \in Members |-> form[m]] /\ \A m \in Members : BookForm(form[m])
  /\ written = [r \in RuleIds |-> written[r]]

RowsWhole(groups, conds) ==
  /\ \A x \in groups : \A c \in x[2][2] : <<x[1], x[2], c>> \in conds
  /\ \A y \in conds : y[3] \in y[2][2]

Opened(m) == form[m].pc \in {"children", "shown"}
FormStands(m) ==
  Opened(m) =>
    /\ form[m].rule \in RuleIds /\ form[m].version \in Nat /\ written[form[m].rule] # {}
    /\ rule[form[m].rule].exists => form[m].version <= rule[form[m].rule].version
    /\ form[m].pc = "shown" /\ RuleRows!Current(m) =>
         form[m].content = RuleRows!ContentOf(group, cond, form[m].rule)

BookInv ==
  /\ BookType
  /\ RowsWhole(group, cond)
  /\ \A r \in RuleIds : rule[r].exists => written[r] # {}
  /\ \A m \in Members : FormStands(m)

\* What the rows of a rule say is what its group rows were written for.
LEMMA ContentOfRows ==
  ASSUME NEW groups, NEW conds, NEW r, RowsWhole(groups, conds)
  PROVE  RuleRows!ContentOf(groups, conds, r) = {x[2][2] : x \in RuleRows!GroupsOf(groups, r)}
<1>1. ASSUME NEW g \in RuleRows!GroupsOf(groups, r)
      PROVE  {x[3] : x \in {y \in conds : y[2] = g[2]}} = g[2][2]
  <2>1. g \in groups
    BY <1>1 DEF RuleRows!GroupsOf
  <2>2. ASSUME NEW c \in g[2][2] PROVE \E y \in conds : y[2] = g[2] /\ y[3] = c
    <3>1. <<g[1], g[2], c>> \in conds
      BY <2>1 DEF RowsWhole
    <3> QED BY <3>1
  <2>3. ASSUME NEW y \in conds, y[2] = g[2] PROVE y[3] \in g[2][2]
    BY <2>3 DEF RowsWhole
  <2> QED BY <2>2, <2>3
<1> DEFINE said(g) == {x[3] : x \in {y \in conds : y[2] = g[2]}}
<1>2. \A g \in RuleRows!GroupsOf(groups, r) : said(g) = g[2][2]
  BY <1>1
<1>3. RuleRows!ContentOf(groups, conds, r) = {said(g) : g \in RuleRows!GroupsOf(groups, r)}
  BY Zenon DEF RuleRows!ContentOf
<1> HIDE DEF said
<1> QED BY <1>2, <1>3

\* A write or a delete of one rule leaves what the rows say of another.
LEMMA ContentElsewhere ==
  ASSUME NEW r, NEW q, q # r, NEW G, NEW C, \A x \in G : x[1] = r,
         RowsWhole(group, cond), RowsWhole(group', cond'),
         group' = {x \in group : x[1] # r} \cup G, cond' = {x \in cond : x[1] # r} \cup C
  PROVE  RuleRows!ContentOf(group', cond', q) = RuleRows!ContentOf(group, cond, q)
<1>1. RuleRows!GroupsOf(group', q) = RuleRows!GroupsOf(group, q)
  BY DEF RuleRows!GroupsOf
<1>2. RuleRows!ContentOf(group', cond', q) = {x[2][2] : x \in RuleRows!GroupsOf(group', q)}
  BY ContentOfRows
<1>3. RuleRows!ContentOf(group, cond, q) = {x[2][2] : x \in RuleRows!GroupsOf(group, q)}
  BY ContentOfRows
<1> QED BY <1>1, <1>2, <1>3

\* The rows of a write belong together.
LEMMA InsertKeepsRows ==
  ASSUME NEW r, NEW v, NEW content, RowsWhole(group, cond), RuleRows!InsertChildren(r, v, content)
  PROVE  RowsWhole(group', cond')
<1>1. /\ group' = {x \in group : x[1] # r} \cup {<<r, <<v, g>>>> : g \in content}
      /\ cond' = {x \in cond : x[1] # r} \cup UNION {{<<r, <<v, g>>, c>> : c \in g} : g \in content}
  BY DEF RuleRows!InsertChildren, RuleRows!Ids, RuleRows!Rows
<1>2. ASSUME NEW x \in group', NEW c \in x[2][2] PROVE <<x[1], x[2], c>> \in cond'
  <2>1. CASE x \in group /\ x[1] # r
    <3>1. <<x[1], x[2], c>> \in cond
      BY <2>1 DEF RowsWhole
    <3> QED BY <1>1, <2>1, <3>1
  <2>2. CASE x \notin group \/ x[1] = r
    <3>1. PICK g \in content : x = <<r, <<v, g>>>>
      BY <1>1, <2>2
    <3>2. c \in g /\ x[1] = r /\ x[2] = <<v, g>>
      BY <3>1
    <3> QED BY <1>1, <3>2
  <2> QED BY <2>1, <2>2
<1>3. ASSUME NEW y \in cond' PROVE y[3] \in y[2][2]
  <2>1. CASE y \in cond
    BY <2>1 DEF RowsWhole
  <2>2. CASE y \notin cond
    <3>1. PICK g \in content : \E c \in g : y = <<r, <<v, g>>, c>>
      BY <1>1, <2>2
    <3> QED BY <3>1
  <2> QED BY <2>1, <2>2
<1> QED BY <1>2, <1>3 DEF RowsWhole

LEMMA BookInitially == RuleRows!Init => BookInv
<1> SUFFICES ASSUME RuleRows!Init PROVE BookInv
  OBVIOUS
<1> USE DEF RuleRows!Init
<1>1. BookType
  BY DEF BookType, BookRow, BookForm, RuleRows!NoRule, RuleRows!Blank
<1>2. RowsWhole(group, cond)
  BY DEF RowsWhole
<1>3. \A r \in RuleIds : ~rule[r].exists
  BY DEF RuleRows!NoRule
<1>4. \A m \in Members : ~Opened(m)
  BY DEF Opened, RuleRows!Blank
<1> QED BY <1>1, <1>2, <1>3, <1>4 DEF BookInv, FormStands

\* A form that stays as it was still stands when the rules it shows stay too,
\* or get a higher version, or go.
LEMMA FormKeeps ==
  ASSUME NEW m \in Members, BookInv, FormStands(m), form'[m] = form[m],
         Opened(m) =>
           LET r == form[m].rule IN
           /\ written'[r] # {}
           /\ \/ ~rule'[r].exists
              \/ /\ rule[r].exists /\ rule'[r].version > rule[r].version
              \/ /\ rule'[r].exists = rule[r].exists /\ rule'[r].version = rule[r].version
                 /\ RuleRows!ContentOf(group', cond', r) = RuleRows!ContentOf(group, cond, r),
         \A r \in RuleIds : rule'[r].version \in Nat
  PROVE  FormStands(m)'
<1> SUFFICES ASSUME Opened(m)'
             PROVE  /\ form'[m].rule \in RuleIds /\ form'[m].version \in Nat /\ written'[form'[m].rule] # {}
                    /\ rule'[form'[m].rule].exists => form'[m].version <= rule'[form'[m].rule].version
                    /\ form'[m].pc = "shown" /\ RuleRows!Current(m)' =>
                         form'[m].content = RuleRows!ContentOf(group', cond', form'[m].rule)
  BY DEF FormStands
<1> DEFINE r == form[m].rule
<1>1. Opened(m)
  BY DEF Opened
<1>2. r \in RuleIds /\ form[m].version \in Nat
  BY <1>1 DEF FormStands
<1>3. rule[r].version \in Nat /\ rule'[r].version \in Nat
  BY <1>2 DEF BookInv, BookType, BookRow
<1>4. CASE ~rule'[r].exists
  BY <1>1, <1>2, <1>4 DEF RuleRows!Current
<1>5. CASE rule[r].exists /\ rule'[r].version > rule[r].version
  <2>1. form[m].version < rule'[r].version
    BY <1>1, <1>2, <1>3, <1>5 DEF FormStands
  <2> QED BY <1>1, <1>2, <1>3, <2>1 DEF RuleRows!Current
<1>6. CASE /\ rule'[r].exists = rule[r].exists /\ rule'[r].version = rule[r].version
           /\ RuleRows!ContentOf(group', cond', r) = RuleRows!ContentOf(group, cond, r)
  BY <1>1, <1>2, <1>3, <1>6 DEF FormStands, RuleRows!Current
<1> QED BY <1>1, <1>4, <1>5, <1>6

\* A new rule: nobody's form is about it, for it was never written before.
LEMMA CreateStands ==
  ASSUME NEW r \in RuleIds, NEW content, BookInv, RuleRows!Create(r, content)
  PROVE  BookInv'
<1> USE DEF RuleRows!Create
<1> DEFINE place == RuleRows!Max({0} \cup {rule[x].position : x \in RuleRows!Live}) + 1
<1>1. rule' = [rule EXCEPT ![r] = [exists |-> TRUE, version |-> 1, active |-> TRUE, position |-> place]]
  OBVIOUS
<1>2. RuleRows!InsertChildren(r, 1, content) /\ form' = form
  OBVIOUS
<1>3. written' = [written EXCEPT ![r] = @ \cup {content}]
  BY <1>2 DEF RuleRows!InsertChildren
<1> HIDE DEF place
<1>4. BookType'
  <2>1. BookRow([exists |-> TRUE, version |-> 1, active |-> TRUE, position |-> place])
    BY DEF BookRow
  <2>2. \A q \in RuleIds : BookRow(rule'[q])
    BY <1>1, <2>1 DEF BookInv, BookType
  <2> QED BY <1>1, <1>2, <1>3, <2>2 DEF BookInv, BookType, BookForm, BookRow
<1>5. RowsWhole(group', cond')
  BY <1>2, InsertKeepsRows DEF BookInv
<1>6. \A q \in RuleIds : rule'[q].exists => written'[q] # {}
  BY <1>1, <1>3 DEF BookInv, BookType
<1>7. ASSUME NEW m \in Members PROVE FormStands(m)'
  <2>1. FormStands(m) /\ form'[m] = form[m]
    BY <1>2 DEF BookInv
  <2>2. ASSUME Opened(m) PROVE
          LET q == form[m].rule IN
          /\ written'[q] # {}
          /\ rule'[q].exists = rule[q].exists /\ rule'[q].version = rule[q].version
          /\ RuleRows!ContentOf(group', cond', q) = RuleRows!ContentOf(group, cond, q)
    <3> DEFINE q == form[m].rule
    <3>1. q \in RuleIds /\ written[q] # {} /\ q # r
      BY <2>1, <2>2 DEF FormStands
    <3>2. written'[q] = written[q] /\ rule'[q] = rule[q]
      BY <1>1, <1>3, <3>1 DEF BookInv, BookType
    <3>3. RuleRows!ContentOf(group', cond', q) = RuleRows!ContentOf(group, cond, q)
      <4>1. RowsWhole(group, cond)
        BY DEF BookInv
      <4>2. \A x \in RuleRows!Ids(r, 1, content) : x[1] = r
        BY DEF RuleRows!Ids
      <4>3. /\ group' = {x \in group : x[1] # r} \cup RuleRows!Ids(r, 1, content)
            /\ cond' = {x \in cond : x[1] # r} \cup RuleRows!Rows(r, 1, content)
        BY <1>2 DEF RuleRows!InsertChildren
      <4> QED BY <1>5, <3>1, <4>1, <4>2, <4>3, ContentElsewhere
    <3> QED BY <3>1, <3>2, <3>3
  <2>3. \A q \in RuleIds : rule'[q].version \in Nat
    BY <1>4 DEF BookType, BookRow
  <2> QED BY <2>1, <2>2, <2>3, FormKeeps
<1> QED BY <1>4, <1>5, <1>6, <1>7 DEF BookInv

\* An edit: the other forms that show the rule have a version it is past.
LEMMA UpdateStands ==
  ASSUME NEW m \in Members, NEW content, BookInv, RuleRows!Update(m, content)
  PROVE  BookInv'
<1> DEFINE r == form[m].rule
<1>1. /\ form[m].pc = "shown" /\ RuleRows!Current(m)
      /\ rule' = [rule EXCEPT ![r].version = @ + 1]
      /\ RuleRows!InsertChildren(r, rule[r].version + 1, content)
      /\ form' = [form EXCEPT ![m] = RuleRows!Blank]
  BY DEF RuleRows!Update
<1>2. written' = [written EXCEPT ![r] = @ \cup {content}]
  BY <1>1 DEF RuleRows!InsertChildren
<1>3. r \in RuleIds /\ rule[r].exists
  BY <1>1 DEF BookInv, FormStands, Opened, RuleRows!Current
<1>4. /\ rule'[r] = [exists |-> rule[r].exists, version |-> rule[r].version + 1,
                     active |-> rule[r].active, position |-> rule[r].position]
      /\ \A q \in RuleIds : q # r => rule'[q] = rule[q]
      /\ rule' = [q \in RuleIds |-> rule'[q]]
  BY <1>1, <1>3 DEF BookInv, BookType, BookRow
<1>5. BookType'
  <2>1. \A q \in RuleIds : BookRow(rule'[q])
    BY <1>4 DEF BookInv, BookType, BookRow
  <2>2. \A x \in Members : BookForm(form'[x])
    BY <1>1 DEF BookInv, BookType, BookForm, RuleRows!Blank
  <2>3. form' = [x \in Members |-> form'[x]] /\ written' = [q \in RuleIds |-> written'[q]]
    BY <1>1, <1>2 DEF BookInv, BookType
  <2> QED BY <1>4, <2>1, <2>2, <2>3 DEF BookType, BookRow, BookForm
<1>6. RowsWhole(group', cond')
  BY <1>1, InsertKeepsRows DEF BookInv
<1>7. \A q \in RuleIds : rule'[q].exists => written'[q] # {}
  BY <1>2, <1>3, <1>4 DEF BookInv, BookType
<1>8. ASSUME NEW x \in Members PROVE FormStands(x)'
  <2>1. CASE x = m
    BY <1>1, <2>1 DEF BookInv, BookType, FormStands, Opened, RuleRows!Blank
  <2>2. CASE x # m
    <3>1. FormStands(x) /\ form'[x] = form[x]
      BY <1>1, <2>2 DEF BookInv, BookType
    <3>2. ASSUME Opened(x) PROVE
            LET q == form[x].rule IN
            /\ written'[q] # {}
            /\ \/ ~rule'[q].exists
               \/ rule[q].exists /\ rule'[q].version > rule[q].version
               \/ /\ rule'[q].exists = rule[q].exists /\ rule'[q].version = rule[q].version
                  /\ RuleRows!ContentOf(group', cond', q) = RuleRows!ContentOf(group, cond, q)
      <4> DEFINE q == form[x].rule
      <4>1. q \in RuleIds /\ written[q] # {}
        BY <3>1, <3>2 DEF FormStands
      <4>2. written'[q] # {}
        BY <1>2, <1>3, <4>1 DEF BookInv, BookType
      <4>3. CASE q = r
        <5>1. rule[r].version \in Nat
          BY <1>3 DEF BookInv, BookType, BookRow
        <5> QED BY <1>3, <1>4, <4>2, <4>3, <5>1
      <4>4. CASE q # r
        <5>1. RowsWhole(group, cond)
          BY DEF BookInv
        <5>2. \A y \in RuleRows!Ids(r, rule[r].version + 1, content) : y[1] = r
          BY DEF RuleRows!Ids
        <5>3. RuleRows!ContentOf(group', cond', q) = RuleRows!ContentOf(group, cond, q)
          BY <1>1, <1>6, <4>4, <5>1, <5>2, ContentElsewhere DEF RuleRows!InsertChildren
        <5> QED BY <1>4, <4>1, <4>2, <4>4, <5>3
      <4> QED BY <4>3, <4>4
    <3>3. \A q \in RuleIds : rule'[q].version \in Nat
      BY <1>5 DEF BookType, BookRow
    <3> QED BY <3>1, <3>2, <3>3, FormKeeps
  <2> QED BY <2>1, <2>2
<1> QED BY <1>5, <1>6, <1>7, <1>8 DEF BookInv

\* A step of one form, the rows as they were.
LEMMA FormStep ==
  ASSUME NEW m \in Members, NEW f, BookInv, BookForm(f), form' = [form EXCEPT ![m] = f],
         UNCHANGED <<rule, group, cond, written>>, FormStands(m)'
  PROVE  BookInv'
<1>1. BookType'
  BY DEF BookInv, BookType, BookForm, BookRow
<1>2. ASSUME NEW x \in Members PROVE FormStands(x)'
  BY <1>2 DEF BookInv, BookType, FormStands, Opened, RuleRows!Current
<1> QED BY <1>1, <1>2 DEF BookInv, RowsWhole

\* A form that shows nothing stands.
LEMMA ClosedStands == ASSUME NEW m \in Members, ~Opened(m)' PROVE FormStands(m)'
  BY DEF FormStands

\* The steps of the forms that write no row of a rule.
LEMMA FormStepStands ==
  ASSUME NEW m \in Members, BookInv,
         \/ \E r \in RuleIds : RuleRows!GetRule(m, r) \/ RuleRows!CountTraces(m, r)
         \/ RuleRows!LoadChildren(m) \/ RuleRows!Conflict(m)
         \/ RuleRows!CountConditions(m) \/ RuleRows!RemoveZone(m)
  PROVE  BookInv'
<1> DEFINE B == RuleRows!Blank
<1>b. BookForm(B) /\ B.pc = "idle"
  BY DEF RuleRows!Blank, BookForm
<1> HIDE DEF B
<1>1. ASSUME NEW r \in RuleIds, RuleRows!GetRule(m, r) PROVE BookInv'
  <2> DEFINE f == [B EXCEPT !.pc = "children", !.rule = r, !.version = rule[r].version]
  <2>1. BookForm(f) /\ f.pc = "children" /\ f.rule = r /\ f.version = rule[r].version
    BY <1>b DEF BookForm
  <2>2. form' = [form EXCEPT ![m] = f] /\ UNCHANGED <<rule, group, cond, written>> /\ rule[r].exists
    BY <1>1, Zenon DEF RuleRows!GetRule, B
  <2> HIDE DEF f
  <2>3. form'[m] = f
    BY <2>2 DEF BookInv, BookType
  <2>4. FormStands(m)'
    BY <2>1, <2>2, <2>3 DEF FormStands, BookInv, BookType, BookRow
  <2> QED BY <2>1, <2>2, <2>4, FormStep
<1>2. ASSUME NEW r \in RuleIds, RuleRows!CountTraces(m, r) PROVE BookInv'
  <2> DEFINE f == [B EXCEPT !.pc = "remove", !.rule = r]
  <2>1. BookForm(f) /\ f.pc = "remove"
    BY <1>b DEF BookForm
  <2>2. form' = [form EXCEPT ![m] = f] /\ UNCHANGED <<rule, group, cond, written>>
    BY <1>2, Zenon DEF RuleRows!CountTraces, B
  <2> HIDE DEF f
  <2>3. ~Opened(m)'
    BY <2>1, <2>2 DEF BookInv, BookType, Opened
  <2> QED BY <2>1, <2>2, <2>3, ClosedStands, FormStep
<1>3. CASE RuleRows!LoadChildren(m)
  <2> DEFINE shown == RuleRows!ContentOf(group, cond, form[m].rule)
             f == [form[m] EXCEPT !.pc = "shown", !.content = shown]
  <2> HIDE DEF shown
  <2>1. form[m].pc = "children" /\ BookForm(form[m])
    BY <1>3 DEF RuleRows!LoadChildren, BookInv, BookType
  <2>2. BookForm(f) /\ f.pc = "shown" /\ f.rule = form[m].rule /\ f.version = form[m].version
        /\ f.content = shown
    BY <2>1 DEF BookForm
  <2>3. form' = [form EXCEPT ![m] = f] /\ UNCHANGED <<rule, group, cond, written>>
    BY <1>3 DEF RuleRows!LoadChildren, BookInv, BookType, shown
  <2> HIDE DEF f
  <2>4. form'[m] = f
    BY <2>3 DEF BookInv, BookType
  <2>5. FormStands(m)
    BY DEF BookInv
  <2>6. shown = RuleRows!ContentOf(group', cond', f.rule)
    BY <2>2, <2>3 DEF shown
  <2>7. FormStands(m)'
    BY <2>1, <2>2, <2>3, <2>4, <2>5, <2>6 DEF FormStands, Opened
  <2> QED BY <2>2, <2>3, <2>7, FormStep
<1>4. CASE RuleRows!Conflict(m) \/ RuleRows!RemoveZone(m)
  <2>1. form' = [form EXCEPT ![m] = B] /\ UNCHANGED <<rule, group, cond, written>>
    BY <1>4 DEF RuleRows!Conflict, RuleRows!RemoveZone, B
  <2>2. ~Opened(m)'
    BY <1>b, <2>1 DEF BookInv, BookType, Opened
  <2> QED BY <1>b, <2>1, <2>2, ClosedStands, FormStep
<1>5. CASE RuleRows!CountConditions(m)
  <2> DEFINE f == [B EXCEPT !.pc = "zone"]
  <2>1. BookForm(f) /\ f.pc = "zone"
    BY <1>b DEF BookForm
  <2>2. form' = [form EXCEPT ![m] = f] /\ UNCHANGED <<rule, group, cond, written>>
    BY <1>5, Zenon DEF RuleRows!CountConditions, B
  <2> HIDE DEF f
  <2>3. ~Opened(m)'
    BY <2>1, <2>2 DEF BookInv, BookType, Opened
  <2> QED BY <2>1, <2>2, <2>3, ClosedStands, FormStep
<1> QED BY <1>1, <1>2, <1>3, <1>4, <1>5

\* A write that leaves the conditions and raises the versions of what it writes.
LEMMA RaiseStands ==
  ASSUME BookInv, UNCHANGED <<group, cond, written>>,
         rule' = [r \in RuleIds |-> rule'[r]],
         \A r \in RuleIds : /\ BookRow(rule'[r]) /\ rule'[r].exists = rule[r].exists
                           /\ \/ rule'[r] = rule[r]
                              \/ rule[r].exists /\ rule'[r].version = rule[r].version + 1,
         form' = [m \in Members |-> form'[m]],
         \A m \in Members : form'[m] = form[m] \/ form'[m] = RuleRows!Blank
  PROVE  BookInv'
<1>1. BookType'
  <2>1. \A m \in Members : BookForm(form'[m])
    BY DEF BookInv, BookType, BookForm, RuleRows!Blank
  <2> QED BY <2>1 DEF BookInv, BookType, BookForm, BookRow
<1>2. ASSUME NEW m \in Members PROVE FormStands(m)'
  <2>1. CASE form'[m] = RuleRows!Blank
    BY <2>1, ClosedStands DEF Opened, RuleRows!Blank
  <2>2. CASE form'[m] = form[m]
    <3>1. FormStands(m)
      BY DEF BookInv
    <3>2. ASSUME Opened(m) PROVE
            LET r == form[m].rule IN
            /\ written'[r] # {}
            /\ \/ rule[r].exists /\ rule'[r].version > rule[r].version
               \/ /\ rule'[r].exists = rule[r].exists /\ rule'[r].version = rule[r].version
                  /\ RuleRows!ContentOf(group', cond', r) = RuleRows!ContentOf(group, cond, r)
      <4> DEFINE r == form[m].rule
      <4>1. r \in RuleIds /\ written[r] # {} /\ rule[r].version \in Nat
        BY <3>1, <3>2 DEF FormStands, BookInv, BookType, BookRow
      <4>2. RuleRows!ContentOf(group', cond', r) = RuleRows!ContentOf(group, cond, r)
        OBVIOUS
      <4> QED BY <4>1, <4>2
    <3>3. \A r \in RuleIds : rule'[r].version \in Nat
      BY DEF BookRow
    <3> QED BY <2>2, <3>1, <3>2, <3>3, FormKeeps
  <2> QED BY <2>1, <2>2
<1> QED BY <1>1, <1>2 DEF BookInv, RowsWhole

LEMMA SetActiveStands ==
  ASSUME NEW m \in Members, BookInv, RuleRows!SetActive(m)
  PROVE  BookInv'
<1> DEFINE r == form[m].rule
<1>1. /\ form[m].pc = "shown" /\ RuleRows!Current(m)
      /\ rule' = [rule EXCEPT ![r].active = ~@, ![r].version = @ + 1]
      /\ form' = [form EXCEPT ![m] = RuleRows!Blank]
      /\ UNCHANGED <<group, cond, written>>
  BY DEF RuleRows!SetActive
<1>2. r \in RuleIds /\ rule[r].exists
  BY <1>1 DEF BookInv, FormStands, Opened, RuleRows!Current
<1>3. rule[r] = [exists |-> rule[r].exists, version |-> rule[r].version,
                active |-> rule[r].active, position |-> rule[r].position]
  BY <1>2 DEF BookInv, BookType, BookRow
<1>4. rule'[r] = [exists |-> rule[r].exists, version |-> rule[r].version + 1,
                 active |-> ~rule[r].active, position |-> rule[r].position]
  BY <1>1, <1>2, <1>3 DEF BookInv, BookType
<1>5. rule' = [q \in RuleIds |-> rule'[q]] /\ \A q \in RuleIds : q # r => rule'[q] = rule[q]
  BY <1>1 DEF BookInv, BookType
<1>6. ASSUME NEW q \in RuleIds
      PROVE  /\ BookRow(rule'[q]) /\ rule'[q].exists = rule[q].exists
             /\ \/ rule'[q] = rule[q]
                \/ rule[q].exists /\ rule'[q].version = rule[q].version + 1
  BY <1>2, <1>4, <1>5 DEF BookInv, BookType, BookRow
<1>7. /\ form' = [x \in Members |-> form'[x]]
      /\ \A x \in Members : form'[x] = form[x] \/ form'[x] = RuleRows!Blank
  BY <1>1 DEF BookInv, BookType
<1> QED BY <1>1, <1>5, <1>6, <1>7, RaiseStands

LEMMA ReorderStands ==
  ASSUME NEW places, BookInv, RuleRows!Reorder(places)
  PROVE  BookInv'
<1>1. /\ rule' = [r \in RuleIds |-> IF r \in RuleRows!Live
                                   THEN [rule[r] EXCEPT !.position = places[r], !.version = @ + 1] ELSE rule[r]]
      /\ UNCHANGED <<group, cond, form, written>>
  BY DEF RuleRows!Reorder
<1>2. ASSUME NEW q \in RuleIds
      PROVE  /\ BookRow(rule'[q]) /\ rule'[q].exists = rule[q].exists
             /\ \/ rule'[q] = rule[q]
                \/ rule[q].exists /\ rule'[q].version = rule[q].version + 1
  <2>1. CASE q \in RuleRows!Live
    <3>1. BookRow(rule[q]) /\ rule[q].exists
      BY <2>1 DEF BookInv, BookType, RuleRows!Live
    <3>2. rule'[q] = [exists |-> rule[q].exists, version |-> rule[q].version + 1,
                     active |-> rule[q].active, position |-> places[q]]
      BY <1>1, <2>1, <3>1 DEF BookRow
    <3> QED BY <3>1, <3>2 DEF BookRow
  <2>2. CASE q \notin RuleRows!Live
    BY <1>1, <2>2 DEF BookInv, BookType, BookRow
  <2> QED BY <2>1, <2>2
<1>3. rule' = [q \in RuleIds |-> rule'[q]] /\ form' = [x \in Members |-> form'[x]]
  BY <1>1 DEF BookInv, BookType
<1> QED BY <1>1, <1>2, <1>3, RaiseStands

\* A deleted rule is current in no form.
LEMMA RemoveStands ==
  ASSUME NEW m \in Members, BookInv, RuleRows!Remove(m)
  PROVE  BookInv'
<1> DEFINE r == form[m].rule
<1>1. /\ rule' = [rule EXCEPT ![r] = RuleRows!NoRule]
      /\ group' = {x \in group : x[1] # r} /\ cond' = {x \in cond : x[1] # r}
      /\ form' = [form EXCEPT ![m] = RuleRows!Blank] /\ written' = written
  BY DEF RuleRows!Remove
<1>2. BookType'
  BY <1>1 DEF BookInv, BookType, BookForm, BookRow, RuleRows!Blank, RuleRows!NoRule
<1>3. RowsWhole(group', cond')
  BY <1>1 DEF BookInv, RowsWhole
<1>4. \A q \in RuleIds : rule'[q].exists => written'[q] # {}
  BY <1>1 DEF BookInv, BookType, RuleRows!NoRule
<1>5. ASSUME NEW x \in Members PROVE FormStands(x)'
  <2>1. CASE x = m
    BY <1>1, <2>1, ClosedStands DEF BookInv, BookType, Opened, RuleRows!Blank
  <2>2. CASE x # m
    <3>1. FormStands(x) /\ form'[x] = form[x]
      BY <1>1, <2>2 DEF BookInv, BookType
    <3>2. ASSUME Opened(x) PROVE
            LET q == form[x].rule IN
            /\ written'[q] # {}
            /\ \/ ~rule'[q].exists
               \/ /\ rule'[q].exists = rule[q].exists /\ rule'[q].version = rule[q].version
                  /\ RuleRows!ContentOf(group', cond', q) = RuleRows!ContentOf(group, cond, q)
      <4> DEFINE q == form[x].rule
      <4>1. q \in RuleIds /\ written'[q] # {}
        BY <1>1, <3>1, <3>2 DEF FormStands
      <4>2. CASE q = r
        BY <1>1, <4>1, <4>2 DEF BookInv, BookType, RuleRows!NoRule
      <4>3. CASE q # r
        <5>1. RuleRows!GroupsOf(group', q) = RuleRows!GroupsOf(group, q)
          BY <1>1, <4>3 DEF RuleRows!GroupsOf
        <5>2. /\ RuleRows!ContentOf(group', cond', q) = {y[2][2] : y \in RuleRows!GroupsOf(group', q)}
              /\ RuleRows!ContentOf(group, cond, q) = {y[2][2] : y \in RuleRows!GroupsOf(group, q)}
          BY <1>3, ContentOfRows DEF BookInv
        <5>3. RuleRows!ContentOf(group', cond', q) = RuleRows!ContentOf(group, cond, q)
          BY <5>1, <5>2
        <5> QED BY <1>1, <4>1, <4>3, <5>3 DEF BookInv, BookType
      <4> QED BY <4>2, <4>3
    <3>3. \A q \in RuleIds : rule'[q].version \in Nat
      BY <1>2 DEF BookType, BookRow
    <3> QED BY <3>1, <3>2, <3>3, FormKeeps
  <2> QED BY <2>1, <2>2
<1> QED BY <1>2, <1>3, <1>4, <1>5 DEF BookInv

LEMMA BookStays ==
  ASSUME BookInv, UNCHANGED <<rule, group, cond, form, written>>
  PROVE  BookInv'
BY DEF BookInv, BookType, BookRow, BookForm, RowsWhole, FormStands, Opened, RuleRows!Current

LEMMA BookStep ==
  ASSUME BookInv, RuleRows!Next
  PROVE  BookInv'
<1>1. CASE \E r \in RuleIds, content \in Contents : RuleRows!Create(r, content)
  BY <1>1, CreateStands
<1>2. ASSUME NEW m \in Members,
             \/ \E r \in RuleIds : RuleRows!GetRule(m, r) \/ RuleRows!CountTraces(m, r)
             \/ RuleRows!LoadChildren(m) \/ RuleRows!Conflict(m)
             \/ RuleRows!CountConditions(m) \/ RuleRows!RemoveZone(m)
      PROVE  BookInv'
  BY <1>2, FormStepStands
<1>3. ASSUME NEW m \in Members, RuleRows!SetActive(m) PROVE BookInv'
  BY <1>3, SetActiveStands
<1>4. ASSUME NEW m \in Members, RuleRows!Remove(m) PROVE BookInv'
  BY <1>4, RemoveStands
<1>5. ASSUME NEW m \in Members, NEW content, RuleRows!Update(m, content) PROVE BookInv'
  BY <1>5, UpdateStands
<1>6. ASSUME NEW places, RuleRows!Reorder(places) PROVE BookInv'
  BY <1>6, ReorderStands
<1>7. ASSUME NEW e \in Evaluations,
             \/ RuleRows!LoadRules(e) \/ RuleRows!LoadGroups(e) \/ RuleRows!LoadConditions(e)
             \/ \E truth \in SUBSET Conditions : RuleRows!Evaluate(e, truth)
      PROVE  BookInv'
  <2>1. UNCHANGED <<rule, group, cond, form, written>>
    BY <1>7 DEF RuleRows!LoadRules, RuleRows!LoadGroups, RuleRows!LoadConditions, RuleRows!Evaluate
  <2> QED BY <2>1, BookStays
<1> QED BY <1>1, <1>2, <1>3, <1>4, <1>5, <1>6, <1>7 DEF RuleRows!Next

\* Only an edit and a switch end a form that shows a rule and change the rules,
\* and both ask whether the form is current.
LEMMA WritesAreCurrent ==
  ASSUME NEW m \in Members, BookInv, RuleRows!Next, RuleRows!Submits(m)
  PROVE  RuleRows!Current(m)
<1>1. form[m].pc = "shown" /\ rule' # rule /\ form'[m] # form[m]
  BY DEF RuleRows!Submits
<1>2. ASSUME NEW x \in Members, \E content \in Contents : RuleRows!Update(x, content) PROVE RuleRows!Current(m)
  <2>1. RuleRows!Current(x) /\ form' = [form EXCEPT ![x] = RuleRows!Blank]
    BY <1>2 DEF RuleRows!Update
  <2>2. x = m
    BY <1>1, <2>1 DEF BookInv, BookType
  <2> QED BY <2>1, <2>2
<1>3. ASSUME NEW x \in Members, RuleRows!SetActive(x) PROVE RuleRows!Current(m)
  <2>1. RuleRows!Current(x) /\ form' = [form EXCEPT ![x] = RuleRows!Blank]
    BY <1>3 DEF RuleRows!SetActive
  <2>2. x = m
    BY <1>1, <2>1 DEF BookInv, BookType
  <2> QED BY <2>1, <2>2
<1>4. ASSUME NEW x \in Members, RuleRows!Remove(x) PROVE FALSE
  <2>1. form[x].pc = "remove" /\ form' = [form EXCEPT ![x] = RuleRows!Blank]
    BY <1>4 DEF RuleRows!Remove
  <2> QED BY <1>1, <2>1 DEF BookInv, BookType
<1>5. ASSUME NEW x \in Members,
             \/ \E r \in RuleIds : RuleRows!GetRule(x, r) \/ RuleRows!CountTraces(x, r)
             \/ RuleRows!LoadChildren(x) \/ RuleRows!Conflict(x)
             \/ RuleRows!CountConditions(x) \/ RuleRows!RemoveZone(x)
      PROVE  FALSE
  BY <1>1, <1>5 DEF RuleRows!GetRule, RuleRows!CountTraces, RuleRows!LoadChildren, RuleRows!Conflict,
                    RuleRows!CountConditions, RuleRows!RemoveZone
<1>6. CASE \E r \in RuleIds, content \in Contents : RuleRows!Create(r, content)
  BY <1>1, <1>6 DEF RuleRows!Create
<1>7. ASSUME NEW places, RuleRows!Reorder(places) PROVE FALSE
  BY <1>1, <1>7 DEF RuleRows!Reorder
<1>8. ASSUME NEW e \in Evaluations,
             \/ RuleRows!LoadRules(e) \/ RuleRows!LoadGroups(e) \/ RuleRows!LoadConditions(e)
             \/ \E truth \in SUBSET Conditions : RuleRows!Evaluate(e, truth)
      PROVE  FALSE
  BY <1>1, <1>8 DEF RuleRows!LoadRules, RuleRows!LoadGroups, RuleRows!LoadConditions, RuleRows!Evaluate
<1> QED BY <1>2, <1>3, <1>4, <1>5, <1>6, <1>7, <1>8 DEF RuleRows!Next

LEMMA BookOverwritesNothing ==
  ASSUME BookInv, RuleRows!Next
  PROVE  RuleRows!OverwritesNothing
<1> SUFFICES ASSUME NEW m \in Members, RuleRows!Submits(m)
             PROVE  /\ form[m].content = RuleRows!ContentOf(group, cond, form[m].rule)
                    /\ form[m].version = rule[form[m].rule].version
  BY DEF RuleRows!OverwritesNothing
<1>1. RuleRows!Current(m)
  BY WritesAreCurrent
<1>2. FormStands(m) /\ form[m].pc = "shown"
  BY DEF BookInv, RuleRows!Submits
<1> QED BY <1>1, <1>2 DEF FormStands, Opened, RuleRows!Current

\* INV-22, for any number of rules, members, evaluations and contents: a write
\* that is accepted replaces exactly what its author was shown, whatever edits,
\* switches, new orders and deletes came between the reads of the form.
THEOREM WritesReplaceWhatWasShown == MCSpec => NoSilentOverwrite
<1>1. MCInit => BookInv
  BY BookInitially DEF MCInit
<1>2. BookInv /\ [MCNext]_<<focus, vars, engineVars, bookVars, gstVars>>
        => BookInv' /\ [RuleRows!OverwritesNothing]_bookVars
  <2> SUFFICES ASSUME BookInv, [MCNext]_<<focus, vars, engineVars, bookVars, gstVars>>
               PROVE  BookInv' /\ [RuleRows!OverwritesNothing]_bookVars
    OBVIOUS
  <2>1. CASE RuleRows!Next
    BY <2>1, BookStep, BookOverwritesNothing
  <2>2. CASE UNCHANGED bookVars
    BY <2>2, BookStays DEF bookVars
  <2>3. RuleRows!Next \/ UNCHANGED bookVars
    BY DEF MCNext
  <2> QED BY <2>1, <2>2, <2>3
<1> QED BY <1>1, <1>2, PTL DEF MCSpec, NoSilentOverwrite

----------------------------------------------------------------------------
(* GstInvoices.  A number is given under the row of its sequence, to a row *)
(* that has none yet, and no later step touches a numbered row but to void *)
(* it.                                                                     *)

GstRow(x) ==
  x \in [state : {"ISSUE_PENDING", "ISSUED", "VOID"}, order : {x.order}, series : Gst!Series, seller : Sellers,
         place : {x.place}, missing : BOOLEAN, lines : {x.lines}, total : {x.total},
         number : Nat, year : 0 .. 2, corrects : Slots \cup {0}]

InvoiceType ==
  /\ year \in 1 .. 2
  /\ invoice = [i \in Slots |-> invoice[i]]
  /\ \A i \in Slots : invoice[i] = Gst!NoRow \/ GstRow(invoice[i])
  /\ sequence \in [Sellers \X (1 .. 2) \X Gst!Series -> Nat]
HandsType ==
  /\ hook = [h \in Shipments |-> hook[h]]
  /\ \A h \in Shipments : hook[h].pc \in {"lines", "issue"} => hook[h].row \in Gst!Rows
  /\ touched \subseteq Gst!Rows

NumberedAs(g, y, s) == {i \in Gst!Numbered : invoice[i].seller = g /\ invoice[i].year = y /\ invoice[i].series = s}
NumbersOf(g, y, s) ==
  /\ {invoice[i].number : i \in NumberedAs(g, y, s)} = 1 .. sequence[<<g, y, s>>]
  /\ Cardinality(NumberedAs(g, y, s)) = sequence[<<g, y, s>>]
Complements ==
  /\ \A i \in Gst!Numbered : ~invoice[i].missing
  /\ \A i \in Gst!Rows : invoice[i].corrects # 0 => invoice[invoice[i].corrects].state = "VOID"

GstInv == InvoiceType /\ HandsType /\ (\A g \in Sellers, y \in 1 .. 2, s \in Gst!Series : NumbersOf(g, y, s)) /\ Complements

LEMMA GstInvStands == GstInv => Gst!NumbersStand
<1> SUFFICES ASSUME GstInv PROVE Gst!NumbersStand
  OBVIOUS
<1>1. \A g \in Sellers, y \in 1 .. 2, s \in Gst!Series :
        LET of == {i \in Gst!Numbered : invoice[i].seller = g /\ invoice[i].year = y /\ invoice[i].series = s}
        IN /\ {invoice[i].number : i \in of} = 1 .. sequence[<<g, y, s>>]
           /\ Cardinality(of) = sequence[<<g, y, s>>]
  BY DEF GstInv, NumbersOf, NumberedAs
<1>2. Complements
  BY DEF GstInv
<1>3. \A S : Gst!Cardinality(S) = Cardinality(S)
  BY Zenon DEF Gst!Cardinality, Cardinality
<1> QED BY <1>1, <1>2, <1>3 DEF Complements, Gst!NumbersStand

\* The least of some slots is one of them.
LEMMA LeastSlot ==
  ASSUME NEW S \in SUBSET Slots, S # {}
  PROVE  Gst!Min(S) \in S
<1>1. S \subseteq Nat
  BY OrdersAssumption
<1>2. PICK x \in S : \A y \in S : ~(<<y, x>> \in OpToRel(<, Nat))
  <2>1. IsWellFoundedOn(OpToRel(<, Nat), Nat)
    BY NatLessThanWellFounded
  <2> QED BY <1>1, <2>1, WFMin
<1>3. OpToRel(<, Nat) = {ss \in Nat \X Nat : ss[1] < ss[2]}
  BY Zenon DEF OpToRel
<1>4. ASSUME NEW y \in S PROVE x <= y
  <2>1. <<y, x>> \notin {ss \in Nat \X Nat : ss[1] < ss[2]}
    BY <1>2, <1>3
  <2>2. y \in Nat /\ x \in Nat
    BY <1>1
  <2> QED BY <2>1, <2>2
<1> QED BY <1>4 DEF Gst!Min

\* What is on file at a slot.
LEMMA RowOf == ASSUME InvoiceType, NEW i \in Gst!Rows PROVE i \in Slots /\ GstRow(invoice[i]) /\ i # 0
BY OrdersAssumption DEF InvoiceType, Gst!Rows

LEMMA FreeSlot ==
  ASSUME InvoiceType, Gst!Free # {}
  PROVE  /\ Gst!Min(Gst!Free) \in Slots /\ Gst!Min(Gst!Free) \notin Gst!Rows
         /\ invoice[Gst!Min(Gst!Free)] = Gst!NoRow
<1>1. Gst!Min(Gst!Free) \in Gst!Free
  BY LeastSlot DEF Gst!Free
<1> QED BY <1>1 DEF Gst!Free, Gst!Rows

\* The numbers stand when nothing that has one is touched.
LEMMA NumbersKept ==
  ASSUME \A g \in Sellers, y \in 1 .. 2, s \in Gst!Series : NumbersOf(g, y, s), Gst!Numbered' = Gst!Numbered,
         \A i \in Gst!Numbered : /\ invoice'[i].number = invoice[i].number
                               /\ invoice'[i].year = invoice[i].year
                               /\ invoice'[i].series = invoice[i].series
                               /\ invoice'[i].seller = invoice[i].seller,
         sequence' = sequence
  PROVE  \A g \in Sellers, y \in 1 .. 2, s \in Gst!Series : NumbersOf(g, y, s)'
<1> TAKE g \in Sellers, y \in 1 .. 2, s \in Gst!Series
<1>1. NumberedAs(g, y, s)' = NumberedAs(g, y, s)
  BY DEF NumberedAs
<1>2. {invoice'[i].number : i \in NumberedAs(g, y, s)'} = {invoice[i].number : i \in NumberedAs(g, y, s)}
  BY <1>1 DEF NumberedAs
<1>3. NumbersOf(g, y, s)
  OBVIOUS
<1> QED BY <1>1, <1>2, <1>3 DEF NumbersOf

LEMMA GstInitially == Gst!Init => GstInv
<1> SUFFICES ASSUME Gst!Init PROVE GstInv
  OBVIOUS
<1>1. Gst!Rows = {} /\ Gst!Numbered = {}
  BY DEF Gst!Init, Gst!Rows, Gst!Numbered
<1>2. sequence \in [Sellers \X (1 .. 2) \X Gst!Series -> Nat]
      /\ \A g \in Sellers, y \in 1 .. 2, s \in Gst!Series : sequence[<<g, y, s>>] = 0
  <2>1. sequence = [n \in Sellers \X (1 .. 2) \X Gst!Series |-> 0]
    BY DEF Gst!Init
  <2> QED BY <2>1
<1>3. InvoiceType /\ HandsType
  <2>1. \A h \in Shipments : hook[h].pc = "confirmed"
    BY DEF Gst!Init
  <2>2. year \in 1 .. 2 /\ touched = {} /\ invoice = [i \in Slots |-> Gst!NoRow]
    BY DEF Gst!Init
  <2>3. hook = [h \in Shipments |-> hook[h]]
    BY DEF Gst!Init
  <2> QED BY <1>2, <2>1, <2>2, <2>3 DEF InvoiceType, HandsType
<1>4. ASSUME NEW g \in Sellers, NEW y \in 1 .. 2, NEW s \in Gst!Series PROVE NumbersOf(g, y, s)
  <2>1. NumberedAs(g, y, s) = {} /\ Cardinality({}) = 0
    BY <1>1, FS_EmptySet DEF NumberedAs
  <2> QED BY <1>2, <2>1 DEF NumbersOf
<1> QED BY <1>1, <1>3, <1>4 DEF GstInv, Complements

\* attemptIssue: the row gets the number after the last of its year and series.
LEMMA IssueStands ==
  ASSUME GstInv, NEW i \in Gst!Rows, Gst!AttemptIssue(i), year' = year
  PROVE  /\ InvoiceType' /\ Gst!Rows' = Gst!Rows
         /\ \A g \in Sellers, y \in 1 .. 2, s \in Gst!Series : NumbersOf(g, y, s)'
         /\ Complements'
<1>1. CASE ~Gst!Ready(i)
  <2>1. invoice' = invoice /\ sequence' = sequence
    BY <1>1 DEF Gst!AttemptIssue
  <2>2. Gst!Rows' = Gst!Rows /\ Gst!Numbered' = Gst!Numbered
    BY <2>1 DEF Gst!Rows, Gst!Numbered
  <2>3. \A g \in Sellers, y \in 1 .. 2, s \in Gst!Series : NumbersOf(g, y, s)'
    BY <2>1, <2>2, NumbersKept DEF GstInv
  <2> QED BY <2>1, <2>2, <2>3 DEF GstInv, InvoiceType, GstRow, Complements
<1>2. CASE Gst!Ready(i)
  <2> DEFINE n == <<invoice[i].seller, year, invoice[i].series>>
             new == Gst!Issued(i)
  <2>1. i \in Slots /\ GstRow(invoice[i]) /\ year \in 1 .. 2
    BY RowOf DEF GstInv, InvoiceType
  <2>2. n \in Sellers \X (1 .. 2) \X Gst!Series /\ sequence[n] \in Nat
    BY <2>1 DEF GstRow, GstInv, InvoiceType
  <2>3. /\ GstRow(new) /\ new.state = "ISSUED" /\ new.number = sequence[n] + 1 /\ new.year = year
        /\ new.series = invoice[i].series /\ new.seller = invoice[i].seller /\ new.missing = invoice[i].missing
        /\ new.corrects = invoice[i].corrects
    <3> DEFINE number == sequence[n] + 1
               issued == [invoice[i] EXCEPT !.state = "ISSUED", !.number = number, !.year = year,
                                            !.total = invoice[i].lines]
    <3>1. number \in Nat
      BY <2>2
    <3>2. new = issued
      BY DEF Gst!Issued, Gst!Number
    <3> HIDE DEF new, number
    <3> DEFINE x == invoice[i]
    <3>3. /\ issued.state = "ISSUED" /\ issued.number = number /\ issued.year = year
          /\ issued.series = x.series /\ issued.seller = x.seller /\ issued.missing = x.missing /\ issued.corrects = x.corrects
          /\ issued.order = x.order /\ issued.place = x.place /\ issued.lines = x.lines /\ issued.total = x.lines
      BY <2>1 DEF GstRow
    <3>4. issued \in [state : {"ISSUED"}, order : {x.order}, series : {x.series}, seller : {x.seller}, place : {x.place},
                      missing : {x.missing}, lines : {x.lines}, total : {x.lines}, number : {number},
                      year : {year}, corrects : {x.corrects}]
      BY <2>1 DEF GstRow
    <3> HIDE DEF issued
    <3>5. GstRow(issued)
      BY <2>1, <3>1, <3>3, <3>4 DEF GstRow
    <3> QED BY <3>2, <3>3, <3>5 DEF number
  <2>4. invoice' = [invoice EXCEPT ![i] = new] /\ sequence' = [sequence EXCEPT ![n] = @ + 1]
    BY <1>2 DEF Gst!AttemptIssue, Gst!Number
  <2>5. invoice[i].state = "ISSUE_PENDING" /\ ~invoice[i].missing
    BY <1>2 DEF Gst!Ready
  <2> HIDE DEF new
  <2>6. /\ invoice'[i] = new /\ \A j \in Slots : j # i => invoice'[j] = invoice[j]
        /\ invoice' = [j \in Slots |-> invoice'[j]]
    BY <2>1, <2>4 DEF GstInv, InvoiceType
  <2>7. /\ sequence'[n] = sequence[n] + 1
        /\ \A o \in Sellers \X (1 .. 2) \X Gst!Series : o # n => sequence'[o] = sequence[o]
        /\ sequence' \in [Sellers \X (1 .. 2) \X Gst!Series -> Nat]
    BY <2>2, <2>4 DEF GstInv, InvoiceType
  <2>8. InvoiceType'
    BY <2>1, <2>3, <2>6, <2>7 DEF GstInv, InvoiceType, GstRow
  <2>9. Gst!Rows' = Gst!Rows
    BY <2>1, <2>3, <2>6 DEF Gst!Rows, Gst!NoRow
  <2>10. Gst!Numbered' = Gst!Numbered \cup {i} /\ i \notin Gst!Numbered
    BY <2>3, <2>5, <2>6, <2>9 DEF Gst!Numbered, Gst!Rows
  <2>11. ASSUME NEW g \in Sellers, NEW y \in 1 .. 2, NEW s \in Gst!Series PROVE NumbersOf(g, y, s)'
    <3>0. NumbersOf(g, y, s) /\ Gst!Numbered \subseteq Slots
      BY DEF GstInv, Gst!Numbered, Gst!Rows
    <3>1. CASE <<g, y, s>> = n
      <4>1. g = invoice[i].seller /\ y = year /\ s = invoice[i].series
        BY <3>1
      <4>2. NumberedAs(g, y, s)' = NumberedAs(g, y, s) \cup {i} /\ i \notin NumberedAs(g, y, s)
        BY <2>3, <2>6, <2>10, <3>0, <4>1 DEF NumberedAs
      <4>3. IsFiniteSet(NumberedAs(g, y, s))
        BY <3>0, OrdersAssumption, FS_Subset DEF NumberedAs
      <4>4. Cardinality(NumberedAs(g, y, s)') = Cardinality(NumberedAs(g, y, s)) + 1
        BY <4>2, <4>3, FS_AddElement
      <4>5. {invoice'[j].number : j \in NumberedAs(g, y, s)'}
              = {invoice[j].number : j \in NumberedAs(g, y, s)} \cup {sequence[n] + 1}
        BY <2>3, <2>6, <3>0, <4>2 DEF NumberedAs
      <4>6. 1 .. (sequence[n] + 1) = (1 .. sequence[n]) \cup {sequence[n] + 1}
        BY <2>2
      <4> QED BY <2>7, <3>0, <3>1, <4>4, <4>5, <4>6 DEF NumbersOf
    <3>2. CASE <<g, y, s>> # n
      <4>1. NumberedAs(g, y, s)' = NumberedAs(g, y, s)
        BY <2>3, <2>6, <2>10, <3>0, <3>2 DEF NumberedAs
      <4>2. {invoice'[j].number : j \in NumberedAs(g, y, s)'} = {invoice[j].number : j \in NumberedAs(g, y, s)}
        BY <2>6, <2>10, <3>0, <4>1 DEF NumberedAs
      <4>3. sequence'[<<g, y, s>>] = sequence[<<g, y, s>>]
        BY <2>7, <3>2
      <4> QED BY <3>0, <4>1, <4>2, <4>3 DEF NumbersOf
    <3> QED BY <3>1, <3>2
  <2>12. Complements'
    <3>1. \A j \in Gst!Numbered' : ~invoice'[j].missing
      BY <2>3, <2>5, <2>6, <2>10 DEF GstInv, Complements, Gst!Numbered, Gst!Rows
    <3>2. ASSUME NEW j \in Gst!Rows', invoice'[j].corrects # 0
          PROVE  invoice'[invoice'[j].corrects].state = "VOID"
      <4>1. j \in Slots /\ j \in Gst!Rows /\ invoice'[j].corrects = invoice[j].corrects
        BY <2>3, <2>6, <2>9 DEF Gst!Rows
      <4> DEFINE k == invoice[j].corrects
      <4>2. invoice[k].state = "VOID" /\ k \in Slots
        BY <3>2, <4>1, RowOf DEF GstInv, Complements, GstRow
      <4>3. k # i
        BY <2>5, <4>2
      <4> QED BY <2>6, <4>1, <4>2, <4>3
    <3> QED BY <3>1, <3>2 DEF Complements
  <2> QED BY <2>8, <2>9, <2>11, <2>12
<1> QED BY <1>1, <1>2

\* A step that writes one row and leaves its state, number and missing fields,
\* or leaves it pending.
LEMMA RowRewritten ==
  ASSUME GstInv, NEW i \in Gst!Rows, NEW new, GstRow(new),
         invoice' = [invoice EXCEPT ![i] = new], sequence' = sequence, year' \in 1 .. 2,
         new.corrects = invoice[i].corrects, new.state = "VOID" \/ new.state = invoice[i].state,
         new.state = "ISSUE_PENDING"
           \/ /\ invoice[i].state # "ISSUE_PENDING"
              /\ new.number = invoice[i].number /\ new.year = invoice[i].year
              /\ new.series = invoice[i].series /\ new.seller = invoice[i].seller /\ new.missing = invoice[i].missing
  PROVE  /\ InvoiceType' /\ Gst!Rows' = Gst!Rows
         /\ \A g \in Sellers, y \in 1 .. 2, s \in Gst!Series : NumbersOf(g, y, s)'
         /\ Complements'
<1>1. i \in Slots /\ GstRow(invoice[i]) /\ i # 0
  BY RowOf DEF GstInv
<1>2. /\ invoice'[i] = new /\ \A j \in Slots : j # i => invoice'[j] = invoice[j]
      /\ invoice' = [j \in Slots |-> invoice'[j]]
  BY <1>1 DEF GstInv, InvoiceType
<1>3. InvoiceType'
  BY <1>2 DEF GstInv, InvoiceType, GstRow
<1>4. new.state \in {"ISSUE_PENDING", "ISSUED", "VOID"} /\ invoice[i].state \in {"ISSUE_PENDING", "ISSUED", "VOID"}
  BY <1>1 DEF GstRow
<1>5. Gst!Rows' = Gst!Rows
  <2>1. new # Gst!NoRow
    BY <1>4 DEF Gst!NoRow
  <2> QED BY <1>1, <1>2, <2>1 DEF Gst!Rows
<1>6. Gst!Numbered' = Gst!Numbered
  BY <1>1, <1>2, <1>4, <1>5 DEF Gst!Numbered, Gst!Rows
<1>7. \A g \in Sellers, y \in 1 .. 2, s \in Gst!Series : NumbersOf(g, y, s)'
  BY <1>1, <1>2, <1>6, NumbersKept DEF GstInv, Gst!Numbered, Gst!Rows
<1>8. Complements'
  <2>1. \A j \in Gst!Numbered' : ~invoice'[j].missing
    BY <1>1, <1>2, <1>6 DEF GstInv, Complements, Gst!Numbered, Gst!Rows
  <2>2. ASSUME NEW j \in Gst!Rows', invoice'[j].corrects # 0
        PROVE  invoice'[invoice'[j].corrects].state = "VOID"
    <3>1. j \in Slots /\ j \in Gst!Rows /\ invoice'[j].corrects = invoice[j].corrects
      BY <1>2, <1>5 DEF Gst!Rows
    <3> DEFINE k == invoice[j].corrects
    <3>2. invoice[k].state = "VOID" /\ k \in Slots
      BY <2>2, <3>1, RowOf DEF GstInv, Complements, GstRow
    <3> QED BY <1>2, <3>1, <3>2
  <2> QED BY <2>1, <2>2 DEF Complements
<1> QED BY <1>3, <1>5, <1>7, <1>8

\* A step that files a pending row, which corrects a void one or none.
LEMMA RowFiled ==
  ASSUME GstInv, Gst!Free # {}, NEW new, GstRow(new),
         invoice' = [invoice EXCEPT ![Gst!Min(Gst!Free)] = new], sequence' = sequence, year' \in 1 .. 2,
         new.state = "ISSUE_PENDING",
         new.corrects # 0 => new.corrects \in Gst!Rows /\ invoice[new.corrects].state = "VOID"
  PROVE  /\ InvoiceType' /\ Gst!Rows' = Gst!Rows \cup {Gst!Min(Gst!Free)}
         /\ \A g \in Sellers, y \in 1 .. 2, s \in Gst!Series : NumbersOf(g, y, s)'
         /\ Complements'
<1> DEFINE i == Gst!Min(Gst!Free)
<1>1. i \in Slots /\ i \notin Gst!Rows
  BY FreeSlot DEF GstInv
<1> HIDE DEF i
<1>2. /\ invoice'[i] = new /\ \A j \in Slots : j # i => invoice'[j] = invoice[j]
      /\ invoice' = [j \in Slots |-> invoice'[j]]
  BY <1>1 DEF GstInv, InvoiceType, i
<1>3. InvoiceType'
  BY <1>2 DEF GstInv, InvoiceType, GstRow
<1>4. Gst!Rows' = Gst!Rows \cup {i}
  <2>1. new # Gst!NoRow
    BY DEF Gst!NoRow
  <2> QED BY <1>1, <1>2, <2>1 DEF Gst!Rows
<1>5. Gst!Numbered' = Gst!Numbered
  BY <1>1, <1>2, <1>4 DEF Gst!Numbered, Gst!Rows
<1>6. \A j \in Gst!Rows : j \in Slots /\ invoice'[j] = invoice[j]
  BY <1>1, <1>2 DEF Gst!Rows
<1>7. \A g \in Sellers, y \in 1 .. 2, s \in Gst!Series : NumbersOf(g, y, s)'
  BY <1>5, <1>6, NumbersKept DEF GstInv, Gst!Numbered
<1>8. Complements'
  <2>1. \A j \in Gst!Numbered' : ~invoice'[j].missing
    BY <1>5, <1>6 DEF GstInv, Complements, Gst!Numbered
  <2>2. ASSUME NEW j \in Gst!Rows', invoice'[j].corrects # 0
        PROVE  invoice'[invoice'[j].corrects].state = "VOID"
    <3>1. CASE j = i
      BY <1>2, <1>6, <2>2, <3>1
    <3>2. CASE j # i
      <4>1. j \in Gst!Rows /\ invoice'[j] = invoice[j]
        BY <1>4, <1>6, <3>2
      <4> DEFINE k == invoice[j].corrects
      <4>2. invoice[k].state = "VOID" /\ k \in Slots
        BY <2>2, <4>1, RowOf DEF GstInv, Complements, GstRow
      <4>3. k # i
        BY <1>1, <4>2, FreeSlot DEF GstInv, Gst!NoRow, i
      <4> QED BY <1>2, <4>1, <4>2, <4>3
    <3> QED BY <3>1, <3>2
  <2> QED BY <2>1, <2>2 DEF Complements
<1> QED BY <1>3, <1>4, <1>7, <1>8 DEF i

\* The hooks and the members only hold rows that are on file.
LEMMA HandsKept ==
  ASSUME HandsType, Gst!Rows \subseteq Gst!Rows',
         hook' = [h \in Shipments |-> hook'[h]],
         \A h \in Shipments : hook'[h] = hook[h] \/ hook'[h].row \in Gst!Rows'
                             \/ hook'[h].pc \notin {"lines", "issue"},
         touched' \subseteq Gst!Rows'
  PROVE  HandsType'
BY DEF HandsType

LEMMA HookStep ==
  ASSUME HandsType, NEW h \in Shipments, NEW pc, NEW row, Gst!Hook(h, pc, row)
  PROVE  /\ hook' = [x \in Shipments |-> hook'[x]]
         /\ hook'[h].pc = pc /\ hook'[h].row = row
         /\ \A x \in Shipments : x # h => hook'[x] = hook[x]
BY DEF HandsType, Gst!Hook

LEMMA GstStays ==
  ASSUME GstInv, UNCHANGED <<invoice, sequence>>, year' \in 1 .. 2, HandsType'
  PROVE  GstInv'
<1>1. Gst!Numbered' = Gst!Numbered /\ Gst!Rows' = Gst!Rows
  BY DEF Gst!Numbered, Gst!Rows
<1>2. \A g \in Sellers, y \in 1 .. 2, s \in Gst!Series : NumbersOf(g, y, s)'
  BY <1>1, NumbersKept DEF GstInv
<1> QED BY <1>1, <1>2 DEF GstInv, InvoiceType, GstRow, Complements

LEMMA InsertInvoiceStands ==
  ASSUME GstInv, NEW h \in Shipments, Gst!InsertInvoice(h)
  PROVE  GstInv'
<1> DEFINE bill == OrderOf[h]
           i == Gst!Min(Gst!Free)
<1> HIDE DEF i
<1>1. year' = year /\ sequence' = sequence /\ touched' = touched
  BY DEF Gst!InsertInvoice
<1>2. year' \in 1 .. 2
  BY <1>1 DEF GstInv, InvoiceType
<1>3. CASE Gst!Hook(h, "failed", 0) /\ invoice' = invoice
  <2>1. Gst!Rows' = Gst!Rows
    BY <1>3 DEF Gst!Rows
  <2>2. HandsType'
    BY <1>1, <1>3, <2>1, HookStep, HandsKept DEF GstInv, HandsType
  <2> QED BY <1>1, <1>2, <1>3, <2>2, GstStays
<1>4. ASSUME NEW seller \in Sellers, Gst!Free # {}, Gst!Hook(h, "lines", i),
             invoice' = [invoice EXCEPT ![i] =
               Gst!Fresh(bill, "INV", seller, "away", bill \notin Complete, "none", 0)]
      PROVE  GstInv'
  <2> DEFINE new == Gst!Fresh(bill, "INV", seller, "away", bill \notin Complete, "none", 0)
  <2>1. GstRow(new) /\ new.state = "ISSUE_PENDING" /\ new.corrects = 0
    BY DEF Gst!Fresh, GstRow, Gst!Series
  <2> HIDE DEF new
  <2>2. invoice' = [invoice EXCEPT ![Gst!Min(Gst!Free)] = new]
    BY <1>4 DEF new, i
  <2>3. /\ InvoiceType' /\ Gst!Rows' = Gst!Rows \cup {i}
        /\ \A g \in Sellers, y \in 1 .. 2, s \in Gst!Series : NumbersOf(g, y, s)'
        /\ Complements'
    BY <1>1, <1>2, <1>4, <2>1, <2>2, RowFiled DEF i
  <2>4. HandsType'
    BY <1>1, <1>4, <2>3, HookStep, HandsKept DEF GstInv, HandsType
  <2> QED BY <2>3, <2>4 DEF GstInv
<1>5. CASE invoice' = invoice /\ \E j \in Gst!Primary(bill) : Gst!Hook(h, "issue", j)
  <2>1. PICK j \in Gst!Primary(bill) : Gst!Hook(h, "issue", j)
    BY <1>5
  <2>2. Gst!Rows' = Gst!Rows /\ j \in Gst!Rows
    BY <1>5 DEF Gst!Rows, Gst!Primary
  <2>3. HandsType'
    BY <1>1, <2>1, <2>2, HookStep, HandsKept DEF GstInv, HandsType
  <2> QED BY <1>1, <1>2, <1>5, <2>3, GstStays
<1> QED BY <1>3, <1>4, <1>5 DEF Gst!InsertInvoice, i

LEMMA HookStepStands ==
  ASSUME GstInv, NEW h \in Shipments,
         Gst!InsertLines(h) \/ Gst!IssueAfterBooking(h) \/ Gst!HookDies(h)
  PROVE  GstInv'
<1> DEFINE i == hook[h].row
<1>0. year \in 1 .. 2
  BY DEF GstInv, InvoiceType
<1>1. CASE Gst!InsertLines(h)
  <2>1. /\ i \in Gst!Rows /\ Gst!Hook(h, "issue", i)
        /\ invoice' = [invoice EXCEPT ![i].lines = "away"]
        /\ sequence' = sequence /\ year' = year /\ touched' = touched
    BY <1>1 DEF Gst!InsertLines, GstInv, HandsType
  <2>2. i \in Slots /\ GstRow(invoice[i])
    BY <2>1, RowOf DEF GstInv
  <2> DEFINE x == invoice[i]
             new == [x EXCEPT !.lines = "away"]
  <2>3. /\ GstRow(new) /\ new.state = x.state /\ new.corrects = x.corrects /\ new.number = x.number
        /\ new.year = x.year /\ new.series = x.series /\ new.seller = x.seller /\ new.missing = x.missing
    <3>1. /\ new.state = x.state /\ new.number = x.number /\ new.year = x.year
          /\ new.series = x.series /\ new.seller = x.seller /\ new.missing = x.missing /\ new.corrects = x.corrects
          /\ new.order = x.order /\ new.place = x.place /\ new.lines = "away" /\ new.total = x.total
      BY <2>2 DEF GstRow
    <3>2. new \in [state : {x.state}, order : {x.order}, series : {x.series}, seller : {x.seller}, place : {x.place},
                   missing : {x.missing}, lines : {"away"}, total : {x.total}, number : {x.number},
                   year : {x.year}, corrects : {x.corrects}]
      BY <2>2 DEF GstRow
    <3> HIDE DEF new
    <3> QED BY <2>2, <3>1, <3>2 DEF GstRow
  <2>4. invoice' = [invoice EXCEPT ![i] = new]
    BY <2>1, <2>2 DEF GstInv, InvoiceType
  <2>5. x.state \in {"ISSUE_PENDING", "ISSUED", "VOID"}
    BY <2>2 DEF GstRow
  <2> HIDE DEF new
  <2>6. /\ InvoiceType' /\ Gst!Rows' = Gst!Rows
        /\ \A g \in Sellers, y \in 1 .. 2, s \in Gst!Series : NumbersOf(g, y, s)'
        /\ Complements'
    BY <1>0, <2>1, <2>3, <2>4, <2>5, RowRewritten
  <2>7. HandsType'
    BY <2>1, <2>6, HookStep, HandsKept DEF GstInv, HandsType
  <2> QED BY <2>6, <2>7 DEF GstInv
<1>2. CASE Gst!IssueAfterBooking(h)
  <2>1. /\ i \in Gst!Rows /\ Gst!Hook(h, "done", i) /\ Gst!AttemptIssue(i)
        /\ year' = year /\ touched' = touched
    BY <1>2 DEF Gst!IssueAfterBooking, GstInv, HandsType
  <2>2. /\ InvoiceType' /\ Gst!Rows' = Gst!Rows
        /\ \A g \in Sellers, y \in 1 .. 2, s \in Gst!Series : NumbersOf(g, y, s)'
        /\ Complements'
    BY <2>1, IssueStands
  <2>3. HandsType'
    BY <2>1, <2>2, HookStep, HandsKept DEF GstInv, HandsType
  <2> QED BY <2>2, <2>3 DEF GstInv
<1>3. CASE Gst!HookDies(h)
  <2>1. Gst!Hook(h, "dead", i) /\ UNCHANGED <<year, invoice, sequence, touched>>
    BY <1>3 DEF Gst!HookDies
  <2>2. Gst!Rows' = Gst!Rows
    BY <2>1 DEF Gst!Rows
  <2>3. HandsType'
    BY <2>1, <2>2, HookStep, HandsKept DEF GstInv, HandsType
  <2> QED BY <1>0, <2>1, <2>3, GstStays
<1> QED BY <1>1, <1>2, <1>3

LEMMA MemberStepStands ==
  ASSUME GstInv, NEW i \in Gst!Rows,
         \/ Gst!VoidInvoice(i) \/ Gst!CreateCreditNote(i) \/ Gst!IssueAfterWrite(i)
         \/ \E seller \in Sellers, place \in Gst!Places, supplies, withLines \in BOOLEAN :
              Gst!PatchInvoice(i, seller, place, supplies, withLines)
  PROVE  GstInv'
<1>0. i \in Slots /\ i # 0 /\ GstRow(invoice[i]) /\ year \in 1 .. 2
  BY RowOf DEF GstInv, InvoiceType
<1> DEFINE x == invoice[i]
<1>1. CASE Gst!VoidInvoice(i)
  <2> DEFINE new == [x EXCEPT !.state = "VOID"]
  <2>1. x.state = "ISSUED" /\ UNCHANGED <<sequence, year, hook, touched>>
    BY <1>1 DEF Gst!VoidInvoice
  <2>2. invoice' = [invoice EXCEPT ![i] = new]
    BY <1>0, <1>1 DEF Gst!VoidInvoice, GstInv, InvoiceType
  <2>3. /\ GstRow(new) /\ new.state = "VOID" /\ new.corrects = x.corrects /\ new.number = x.number
        /\ new.year = x.year /\ new.series = x.series /\ new.seller = x.seller /\ new.missing = x.missing
    <3>1. /\ new.state = "VOID" /\ new.number = x.number /\ new.year = x.year
          /\ new.series = x.series /\ new.seller = x.seller /\ new.missing = x.missing /\ new.corrects = x.corrects
          /\ new.order = x.order /\ new.place = x.place /\ new.lines = x.lines /\ new.total = x.total
      BY <1>0 DEF GstRow
    <3>2. new \in [state : {"VOID"}, order : {x.order}, series : {x.series}, seller : {x.seller}, place : {x.place},
                   missing : {x.missing}, lines : {x.lines}, total : {x.total}, number : {x.number},
                   year : {x.year}, corrects : {x.corrects}]
      BY <1>0 DEF GstRow
    <3> HIDE DEF new
    <3> QED BY <1>0, <3>1, <3>2 DEF GstRow
  <2> HIDE DEF new
  <2>4. /\ InvoiceType' /\ Gst!Rows' = Gst!Rows
        /\ \A g \in Sellers, y \in 1 .. 2, s \in Gst!Series : NumbersOf(g, y, s)'
        /\ Complements'
    BY <1>0, <2>1, <2>2, <2>3, RowRewritten
  <2>5. HandsType'
    BY <2>1, <2>4 DEF GstInv, HandsType
  <2> QED BY <2>4, <2>5 DEF GstInv
<1>2. CASE Gst!CreateCreditNote(i)
  <2> DEFINE n == Gst!Min(Gst!Free)
             new == Gst!Fresh(x.order, "CN", x.seller, x.place, FALSE, x.lines, i)
  <2> HIDE DEF n
  <2>1. /\ x.state = "VOID" /\ Gst!Free # {} /\ invoice' = [invoice EXCEPT ![n] = new]
        /\ touched' = touched \cup {n} /\ UNCHANGED <<sequence, year, hook>>
    BY <1>2 DEF Gst!CreateCreditNote, n
  <2>2. GstRow(new) /\ new.state = "ISSUE_PENDING" /\ new.corrects = i
    BY <1>0 DEF Gst!Fresh, GstRow, Gst!Series
  <2> HIDE DEF new
  <2>3. /\ InvoiceType' /\ Gst!Rows' = Gst!Rows \cup {n}
        /\ \A g \in Sellers, y \in 1 .. 2, s \in Gst!Series : NumbersOf(g, y, s)'
        /\ Complements'
    BY <1>0, <2>1, <2>2, RowFiled DEF n
  <2>4. HandsType'
    BY <2>1, <2>3 DEF GstInv, HandsType
  <2> QED BY <2>3, <2>4 DEF GstInv
<1>3. CASE Gst!IssueAfterWrite(i)
  <2>1. Gst!AttemptIssue(i) /\ year' = year /\ hook' = hook /\ touched' \subseteq touched
    BY <1>3 DEF Gst!IssueAfterWrite
  <2>2. /\ InvoiceType' /\ Gst!Rows' = Gst!Rows
        /\ \A g \in Sellers, y \in 1 .. 2, s \in Gst!Series : NumbersOf(g, y, s)'
        /\ Complements'
    BY <2>1, IssueStands
  <2>3. HandsType'
    BY <2>1, <2>2 DEF GstInv, HandsType
  <2> QED BY <2>2, <2>3 DEF GstInv
<1>4. ASSUME NEW seller \in Sellers, NEW place \in Gst!Places, NEW supplies \in BOOLEAN,
             NEW withLines \in BOOLEAN, Gst!PatchInvoice(i, seller, place, supplies, withLines)
      PROVE  GstInv'
  <2> DEFINE missing == x.missing /\ ~supplies
             lines == IF withLines /\ x.lines # "none" THEN place ELSE x.lines
             new == [x EXCEPT !.seller = seller, !.place = place, !.missing = missing, !.lines = lines]
  <2>1. x.state = "ISSUE_PENDING" /\ UNCHANGED <<sequence, year, hook>> /\ touched' \subseteq touched \cup {i}
    BY <1>4 DEF Gst!PatchInvoice
  <2>2. invoice' = [invoice EXCEPT ![i] = new]
    BY <1>0, <1>4 DEF Gst!PatchInvoice, GstInv, InvoiceType
  <2>3. missing \in BOOLEAN
    BY <1>0 DEF GstRow
  <2> HIDE DEF missing, lines
  <2>4. GstRow(new) /\ new.state = x.state /\ new.corrects = x.corrects
    <3>1. /\ new.state = x.state /\ new.number = x.number /\ new.year = x.year
          /\ new.series = x.series /\ new.seller = seller /\ new.missing = missing /\ new.corrects = x.corrects
          /\ new.order = x.order /\ new.place = place /\ new.lines = lines /\ new.total = x.total
      BY <1>0 DEF GstRow
    <3>2. new \in [state : {x.state}, order : {x.order}, series : {x.series}, seller : {seller}, place : {place},
                   missing : {missing}, lines : {lines}, total : {x.total}, number : {x.number},
                   year : {x.year}, corrects : {x.corrects}]
      BY <1>0 DEF GstRow
    <3> HIDE DEF new
    <3> QED BY <1>0, <2>3, <3>1, <3>2 DEF GstRow
  <2> HIDE DEF new
  <2>5. /\ InvoiceType' /\ Gst!Rows' = Gst!Rows
        /\ \A g \in Sellers, y \in 1 .. 2, s \in Gst!Series : NumbersOf(g, y, s)'
        /\ Complements'
    BY <1>0, <2>1, <2>2, <2>4, RowRewritten
  <2>6. HandsType'
    BY <2>1, <2>5 DEF GstInv, HandsType
  <2> QED BY <2>5, <2>6 DEF GstInv
<1> QED BY <1>1, <1>2, <1>3, <1>4

LEMMA GstStep ==
  ASSUME GstInv, Gst!Next
  PROVE  GstInv'
<1>1. CASE Gst!Migrate \/ Gst!NewYear
  <2>1. UNCHANGED <<invoice, sequence, hook, touched>> /\ year' \in 1 .. 2
    BY <1>1 DEF Gst!Migrate, Gst!NewYear, GstInv, InvoiceType
  <2>2. HandsType'
    BY <2>1 DEF GstInv, HandsType, Gst!Rows
  <2> QED BY <2>1, <2>2, GstStays
<1>2. ASSUME NEW h \in Shipments,
             Gst!InsertInvoice(h) \/ Gst!InsertLines(h) \/ Gst!IssueAfterBooking(h) \/ Gst!HookDies(h)
      PROVE  GstInv'
  BY <1>2, InsertInvoiceStands, HookStepStands
<1>3. ASSUME NEW i \in Gst!Rows,
             \/ Gst!VoidInvoice(i) \/ Gst!CreateCreditNote(i) \/ Gst!IssueAfterWrite(i)
             \/ \E seller \in Sellers, place \in Gst!Places, supplies, withLines \in BOOLEAN :
                  Gst!PatchInvoice(i, seller, place, supplies, withLines)
      PROVE  GstInv'
  BY <1>3, MemberStepStands
<1> QED BY <1>1, <1>2, <1>3 DEF Gst!Next

\* INV-13, for any number of shipments, orders and rows: the numbers of a GSTIN,
\* a year and a series are 1, 2, 3, ... with one invoice each, whoever issues, dies
\* or voids and whenever the year turns, and nothing incomplete is numbered.
THEOREM InvoiceNumbersStand == MCSpec => []NumbersStand
<1>1. MCInit => GstInv
  BY GstInitially DEF MCInit
<1>2. GstInv /\ [MCNext]_<<focus, vars, engineVars, bookVars, gstVars>> => GstInv'
  <2> SUFFICES ASSUME GstInv, [MCNext]_<<focus, vars, engineVars, bookVars, gstVars>>
               PROVE  GstInv'
    OBVIOUS
  <2>1. CASE Gst!Next
    BY <2>1, GstStep
  <2>2. CASE UNCHANGED gstVars
    <3>1. UNCHANGED <<invoice, sequence, hook, touched, year>>
      BY <2>2 DEF gstVars
    <3>2. HandsType' /\ year' \in 1 .. 2
      BY <3>1 DEF GstInv, HandsType, InvoiceType, Gst!Rows
    <3> QED BY <3>1, <3>2, GstStays
  <2>3. Gst!Next \/ UNCHANGED gstVars
    BY DEF MCNext
  <2> QED BY <2>1, <2>2, <2>3
<1>3. GstInv => NumbersStand
  BY GstInvStands DEF NumbersStand
<1> QED BY <1>1, <1>2, <1>3, PTL DEF MCSpec

----------------------------------------------------------------------------
(* OrderSync.  A rebuild starts from an order none of whose rows has left  *)
(* the drafts, because every row's allocation would be deleted with it; and *)
(* drafts nobody has judged have an ingest that is about to, which reads   *)
(* and judges under the order's lock, or one that died.                    *)

Pcs == Ended \cup {"idle", "upsert", "fetch", "rebuild", "derive", "write", "confirm",
                   "cancelled", "fulfilled", "lines", "drop"}
IngestRow(x) ==
  x \in [pc : Pcs, topic : {x.topic}, payload : {x.payload}, fos : SUBSET FOs, read : {x.read}]
OrderRow(x) ==
  x \in [state : OrderStates, content : {x.content}, pii : {x.pii}, mode : {x.mode},
         lock : Ingests \cup {Nobody}]
ShipmentRow(x) ==
  x \in [fos : SUBSET FOs, booking : Drafts \cup {"BOOKED", "VOID"}, attempted : BOOLEAN,
         content : {x.content}, pii : {x.pii}, lines : {x.lines}, snapshotPii : {x.snapshotPii},
         failures : {x.failures}]

ProcType == proc = [p \in Ingests |-> proc[p]] /\ \A p \in Ingests : IngestRow(proc[p])
OrderType == OrderRow(order)
AllocationsType == \A a \in allocations : a \in [fos : SUBSET FOs, state : {"OPEN", "EXCLUDED"}]
ShipmentsType ==
  /\ shipments = [n \in 1 .. MaxShipments |-> shipments[n]]
  /\ \A n \in 1 .. MaxShipments : shipments[n] = Gone \/ ShipmentRow(shipments[n])
SyncType == ProcType /\ OrderType /\ AllocationsType /\ ShipmentsType

Allocated == \A n \in Rows : \E a \in allocations : a.fos = shipments[n].fos
LockHeld == \A p \in Ingests : proc[p].pc = "write" <=> order.lock = p

\* The drafts no booking has touched, and whether each shows the order's verdict.
Untouched == {n \in DraftRows : ~shipments[n].attempted}
Judged == \A n \in Untouched : Verdict(shipments[n].failures) = order.state
ReadUnderLock == \A p \in Ingests : proc[p].pc = "write" => Untouched \subseteq DOMAIN proc[p].read

Answering == {"dead", "derive", "write"}
Attended == Unbooked /\ ~Judged => \E p \in Ingests : proc[p].pc \in Answering
NothingYet == order.state = "ABSENT" => Rows = {}

SyncInv ==
  /\ SyncType
  /\ Allocated /\ NoDoubleShipment /\ LockHeld /\ ReadUnderLock /\ Attended /\ NothingYet

LEMMA SyncInitially == Init => SyncInv
<1> SUFFICES ASSUME Init PROVE SyncInv
  OBVIOUS
<1>1. Rows = {}
  BY DEF Init, Rows
<1>2. \A p \in Ingests : proc[p] = Idle
  BY DEF Init
<1>3. order.state = "ABSENT" /\ order.lock = Nobody
  BY DEF Init
<1>4. SyncType
  <2>1. IngestRow(Idle)
    BY DEF IngestRow, Idle, Pcs
  <2>2. ProcType
    BY <1>2, <2>1 DEF Init, ProcType
  <2>3. OrderRow([state |-> "ABSENT", content |-> 0, pii |-> FALSE, mode |-> "UNRESOLVED", lock |-> Nobody])
    BY DEF OrderRow, OrderStates
  <2>4. OrderType
    BY <2>3 DEF Init, OrderType
  <2>5. AllocationsType /\ ShipmentsType
    BY DEF Init, AllocationsType, ShipmentsType
  <2> QED BY <2>2, <2>4, <2>5 DEF SyncType
<1>5. LockHeld /\ ReadUnderLock
  BY <1>2, <1>3, OrdersAssumption DEF LockHeld, ReadUnderLock, Idle
<1>6. Judged
  BY <1>1 DEF Judged, Untouched, DraftRows
<1> QED BY <1>1, <1>4, <1>5, <1>6 DEF SyncInv, Allocated, NoDoubleShipment, Attended, NothingYet

LEMMA SyncStands == SyncInv => NoDoubleShipment /\ DraftsJudged
<1> SUFFICES ASSUME SyncInv, Unbooked,
                    \A p \in Ingests : proc[p].pc \in (Ended \ {"dead"}) \cup {"idle"}
             PROVE  \A n \in DraftRows : ~shipments[n].attempted => Verdict(shipments[n].failures) = order.state
  BY DEF SyncInv, DraftsJudged
<1>1. Judged
  BY DEF SyncInv, Attended, Answering, Ended
<1> QED BY <1>1 DEF Judged, Untouched

\* A row on file has all the fields of one.
LEMMA RowOnFile ==
  ASSUME ShipmentsType, NEW n \in Rows
  PROVE  n \in 1 .. MaxShipments /\ ShipmentRow(shipments[n])
BY DEF ShipmentsType, Rows

\* The next statement of an ingest.
LEMMA StepRow ==
  ASSUME ProcType, NEW p \in Ingests, NEW pc \in Pcs, Step(p, pc)
  PROVE  /\ ProcType' /\ proc'[p].pc = pc
         /\ \A q \in Ingests : q # p => proc'[q] = proc[q]
<1> DEFINE ended == [Idle EXCEPT !.pc = pc, !.topic = proc[p].topic]
           moved == [proc[p] EXCEPT !.pc = pc]
<1>1. IngestRow(ended) /\ ended.pc = pc
  BY DEF IngestRow, Idle
<1>2. IngestRow(moved) /\ moved.pc = pc
  BY DEF ProcType, IngestRow
<1> HIDE DEF ended, moved
<1>3. proc' = [proc EXCEPT ![p] = IF pc \in Ended THEN ended ELSE moved]
  BY DEF Step, ended, moved, ProcType
<1> QED BY <1>1, <1>2, <1>3 DEF ProcType

\* What a step leaves to the rows that linger.
RowsLinger ==
  /\ \A n \in Rows' : n \in Rows /\ shipments'[n].fos = shipments[n].fos
  /\ \A n \in Untouched' : n \in Untouched /\ shipments'[n].failures = shipments[n].failures
AllocationsLinger == \A a \in allocations : \E b \in allocations' : b.fos = a.fos
StateLingers ==
  /\ Unbooked' => order.state = "ABSENT" \/ order'.state = order.state
  /\ order'.state = "ABSENT" => order.state = "ABSENT"
ReadersLinger ==
  \A p \in Ingests : proc'[p].pc = "write" =>
    \/ proc[p].pc = "write" /\ proc'[p].read = proc[p].read
    \/ Untouched' \subseteq DOMAIN proc'[p].read
AnswersLinger ==
  Unbooked' => \A p \in Ingests : proc[p].pc \in Answering => proc'[p].pc \in Answering

LEMMA SyncLingers ==
  ASSUME SyncInv, SyncType', LockHeld', RowsLinger, AllocationsLinger, StateLingers,
         ReadersLinger, AnswersLinger
  PROVE  SyncInv'
<1>1. Allocated'
  BY DEF SyncInv, Allocated, RowsLinger, AllocationsLinger
<1>2. NoDoubleShipment'
  BY DEF SyncInv, NoDoubleShipment, RowsLinger
<1>3. ReadUnderLock'
  BY DEF SyncInv, ReadUnderLock, ReadersLinger, RowsLinger
<1>4. NothingYet'
  BY DEF SyncInv, NothingYet, StateLingers, RowsLinger
<1>5. Attended'
  <2> SUFFICES ASSUME Unbooked', ~Judged' PROVE \E p \in Ingests : proc'[p].pc \in Answering
    BY DEF Attended
  <2>1. PICK n \in Untouched' : Verdict(shipments'[n].failures) # order'.state
    BY DEF Judged
  <2>2. n \in Untouched /\ n \in Rows /\ shipments'[n].failures = shipments[n].failures
    BY <2>1 DEF RowsLinger, Untouched, DraftRows
  <2>3. order.state # "ABSENT"
    BY <2>2 DEF SyncInv, NothingYet
  <2>4. order'.state = order.state /\ Unbooked
    BY <2>3 DEF StateLingers, Unbooked
  <2>5. ~Judged
    BY <2>1, <2>2, <2>4 DEF Judged, Verdict
  <2>6. PICK p \in Ingests : proc[p].pc \in Answering
    BY <2>4, <2>5 DEF SyncInv, Attended
  <2> QED BY <2>6 DEF AnswersLinger
<1> QED BY <1>1, <1>2, <1>3, <1>4, <1>5 DEF SyncInv

LEMMA RowsSame ==
  ASSUME shipments' = shipments
  PROVE  RowsLinger /\ (ShipmentsType => ShipmentsType')
BY DEF RowsLinger, Rows, Untouched, DraftRows, ShipmentsType, ShipmentRow

LEMMA AllocationsSame ==
  ASSUME allocations' = allocations
  PROVE  AllocationsLinger /\ (AllocationsType => AllocationsType')
BY DEF AllocationsLinger, AllocationsType

LEMMA SyncStays ==
  ASSUME SyncInv, UNCHANGED <<order, allocations, shipments, proc>>
  PROVE  SyncInv'
<1>1. SyncType'
  BY RowsSame, AllocationsSame DEF SyncInv, SyncType, ProcType, OrderType, IngestRow, OrderRow
<1>2. LockHeld' /\ StateLingers /\ ReadersLinger /\ AnswersLinger
  BY DEF SyncInv, LockHeld, StateLingers, ReadersLinger, AnswersLinger, Unbooked
<1> QED BY <1>1, <1>2, RowsSame, AllocationsSame, SyncLingers

\* A step of one ingest that neither takes nor frees the lock.
LEMMA IngestMoves ==
  ASSUME SyncInv, SyncType', NEW p \in Ingests, NEW pc, proc[p].pc # "write", pc # "write",
         proc'[p].pc = pc, \A q \in Ingests : q # p => proc'[q] = proc[q],
         order'.lock = order.lock, RowsLinger, AllocationsLinger, StateLingers,
         Unbooked' /\ proc[p].pc \in Answering => pc \in Answering
  PROVE  SyncInv'
<1>1. LockHeld'
  BY DEF SyncInv, LockHeld
<1>2. ReadersLinger /\ AnswersLinger
  BY DEF ReadersLinger, AnswersLinger
<1> QED BY <1>1, <1>2, SyncLingers

\* A step of one ingest that writes no row of the others.
LEMMA IngestSteps ==
  ASSUME SyncInv, NEW p \in Ingests, NEW pc \in Pcs, proc[p].pc # "write", pc # "write",
         ProcType', proc'[p].pc = pc, \A q \in Ingests : q # p => proc'[q] = proc[q],
         UNCHANGED <<order, allocations, shipments>>,
         Unbooked /\ proc[p].pc \in Answering => pc \in Answering
  PROVE  SyncInv'
<1>1. SyncType'
  BY RowsSame, AllocationsSame DEF SyncInv, SyncType, OrderType, OrderRow
<1>2. StateLingers /\ order'.lock = order.lock /\ (Unbooked' => Unbooked)
  BY DEF StateLingers, Unbooked
<1> QED BY <1>1, <1>2, RowsSame, AllocationsSame, IngestMoves

LEMMA DeliverStands ==
  ASSUME SyncInv, NEW p \in Ingests, NEW topic, NEW payload, Deliver(p, topic, payload)
  PROVE  SyncInv'
<1> DEFINE row == [Idle EXCEPT !.pc = "upsert", !.topic = topic, !.payload = payload]
<1>1. IngestRow(row) /\ row.pc = "upsert"
  BY DEF IngestRow, Idle, Pcs
<1> HIDE DEF row
<1>2. proc[p].pc = "idle" /\ proc' = [proc EXCEPT ![p] = row] /\ UNCHANGED <<order, allocations, shipments>>
  BY Zenon DEF Deliver, Busy, row
<1>3. ProcType' /\ proc'[p].pc = "upsert" /\ \A q \in Ingests : q # p => proc'[q] = proc[q]
  BY <1>1, <1>2 DEF SyncInv, SyncType, ProcType
<1> QED BY <1>2, <1>3, IngestSteps DEF Pcs, Answering

LEMMA FetchStands ==
  ASSUME SyncInv, NEW p \in Ingests, FetchFulfillmentOrders(p)
  PROVE  SyncInv'
<1>1. proc[p].pc = "fetch" /\ UNCHANGED <<order, allocations, shipments>>
  BY DEF FetchFulfillmentOrders, Busy
<1>2. ProcType
  BY DEF SyncInv, SyncType
<1>3. CASE Step(p, "failed")
  BY <1>1, <1>2, <1>3, StepRow, IngestSteps DEF Pcs, Ended, Answering
<1>4. CASE proc' = [proc EXCEPT ![p].pc = "rebuild", ![p].fos = {f \in FOs : shopify.fos[f] = "OPEN"}]
  <2> DEFINE fos == {f \in FOs : shopify.fos[f] = "OPEN"}
             row == [proc[p] EXCEPT !.pc = "rebuild", !.fos = fos]
  <2>1. fos \in SUBSET FOs
    OBVIOUS
  <2> HIDE DEF fos
  <2>2. IngestRow(row) /\ row.pc = "rebuild"
    BY <1>2, <2>1 DEF ProcType, IngestRow, Pcs
  <2> HIDE DEF row
  <2>3. proc' = [proc EXCEPT ![p] = row]
    BY <1>2, <1>4 DEF ProcType, row, fos
  <2>4. ProcType' /\ proc'[p].pc = "rebuild" /\ \A q \in Ingests : q # p => proc'[q] = proc[q]
    BY <1>2, <2>2, <2>3 DEF ProcType
  <2> QED BY <1>1, <2>4, IngestSteps DEF Pcs, Answering
<1> QED BY <1>3, <1>4 DEF FetchFulfillmentOrders

LEMMA StartConfirmationStands ==
  ASSUME SyncInv, NEW p \in Ingests, StartConfirmation(p)
  PROVE  SyncInv'
<1> DEFINE pc == IF proc[p].topic \in {"cancelled", "fulfilled"} THEN proc[p].topic ELSE "done"
<1>1. proc[p].pc = "confirm" /\ Step(p, pc) /\ UNCHANGED <<order, allocations, shipments>>
  BY DEF StartConfirmation, Busy
<1>2. pc \in Pcs \ {"write"}
  BY DEF Pcs, Ended
<1> HIDE DEF pc
<1> QED BY <1>1, <1>2, StepRow, IngestSteps DEF SyncInv, SyncType, Answering

LEMMA UpsertStands ==
  ASSUME SyncInv, NEW p \in Ingests, Upsert(p)
  PROVE  SyncInv'
<1>1. proc[p].pc = "upsert" /\ UNCHANGED <<allocations, shipments>> /\ ProcType
  BY DEF Upsert, Busy, SyncInv, SyncType
<1>2. CASE Step(p, "refused") /\ UNCHANGED order
  BY <1>1, <1>2, StepRow, IngestSteps DEF Pcs, Ended, Answering
<1>3. CASE /\ order' = [order EXCEPT !.state = IF @ = "ABSENT" THEN "IMPORTED" ELSE @,
                                     !.content = proc[p].payload, !.pii = TRUE]
           /\ Step(p, IF order.state \in UnbookedOrderStates \cup {"ABSENT"} THEN "fetch" ELSE "confirm")
  <2> DEFINE pc == IF order.state \in UnbookedOrderStates \cup {"ABSENT"} THEN "fetch" ELSE "confirm"
             state == IF order.state = "ABSENT" THEN "IMPORTED" ELSE order.state
  <2>1. pc \in Pcs \ {"write"} /\ Step(p, pc)
    BY <1>3 DEF Pcs
  <2> HIDE DEF pc
  <2>2. ProcType' /\ proc'[p].pc = pc /\ \A q \in Ingests : q # p => proc'[q] = proc[q]
    BY <1>1, <2>1, StepRow
  <2>3. OrderRow(order) /\ order' = [order EXCEPT !.state = state, !.content = proc[p].payload, !.pii = TRUE]
    BY <1>3 DEF SyncInv, SyncType, OrderType
  <2>4. state \in OrderStates
    BY <2>3 DEF OrderRow, OrderStates, UnbookedOrderStates
  <2>5. order'.state = state /\ order'.lock = order.lock /\ OrderType'
    <3> HIDE DEF state
    <3> QED BY <2>3, <2>4 DEF OrderRow, OrderType
  <2>6. StateLingers
    BY <2>5 DEF StateLingers, Unbooked
  <2>7. SyncType'
    BY <1>1, <2>2, <2>5, RowsSame, AllocationsSame DEF SyncInv, SyncType
  <2> QED BY <1>1, <2>1, <2>2, <2>5, <2>6, <2>7, RowsSame, AllocationsSame, IngestMoves DEF Answering
<1> QED BY <1>2, <1>3 DEF Upsert

LEMMA MarkCancelledStands ==
  ASSUME SyncInv, NEW p \in Ingests, MarkCancelled(p)
  PROVE  SyncInv'
<1> DEFINE state == IF order.state = "CLOSED" THEN order.state ELSE "CANCELLED_IN_SHOPIFY"
<1>1. /\ proc[p].pc = "cancelled" /\ Step(p, "done") /\ UNCHANGED <<allocations, shipments>>
      /\ OrderRow(order) /\ ProcType
  BY DEF MarkCancelled, Busy, SyncInv, SyncType, OrderType
<1>2. order' = [order EXCEPT !.state = state]
  BY DEF MarkCancelled
<1>3. state \in OrderStates \ (UnbookedOrderStates \cup {"ABSENT"})
  BY DEF OrderStates, UnbookedOrderStates
<1> HIDE DEF state
<1>4. order'.state = state /\ order'.lock = order.lock /\ OrderType'
  BY <1>1, <1>2, <1>3 DEF OrderRow, OrderType
<1>5. StateLingers
  BY <1>3, <1>4 DEF StateLingers, Unbooked
<1>6. ProcType' /\ proc'[p].pc = "done" /\ \A q \in Ingests : q # p => proc'[q] = proc[q]
  BY <1>1, StepRow DEF Pcs, Ended
<1>7. SyncType'
  BY <1>1, <1>4, <1>6, RowsSame, AllocationsSame DEF SyncInv, SyncType
<1> QED BY <1>1, <1>4, <1>5, <1>6, <1>7, RowsSame, AllocationsSame, IngestMoves DEF Answering

LEMMA ExcludeFulfilledStands ==
  ASSUME SyncInv, NEW p \in Ingests, ExcludeFulfilled(p)
  PROVE  SyncInv'
<1> DEFINE hit == {a \in allocations : a.state = "OPEN" /\ a.fos \cap Closed # {}}
           excluded == {[a EXCEPT !.state = "EXCLUDED"] : a \in hit}
<1>1. /\ proc[p].pc = "fulfilled" /\ UNCHANGED <<order, shipments>>
      /\ allocations' = (allocations \ hit) \cup excluded
  BY DEF ExcludeFulfilled, Busy
<1>2. AllocationsType /\ ProcType
  BY DEF SyncInv, SyncType
<1>3. \A a \in hit : /\ [a EXCEPT !.state = "EXCLUDED"] \in [fos : SUBSET FOs, state : {"OPEN", "EXCLUDED"}]
                    /\ [a EXCEPT !.state = "EXCLUDED"].fos = a.fos
  BY <1>2 DEF AllocationsType
<1>4. AllocationsType'
  BY <1>1, <1>2, <1>3 DEF AllocationsType
<1>5. AllocationsLinger
  <2> SUFFICES ASSUME NEW a \in allocations PROVE \E b \in allocations' : b.fos = a.fos
    BY DEF AllocationsLinger
  <2>1. CASE a \in hit
    <3> DEFINE b == [a EXCEPT !.state = "EXCLUDED"]
    <3>1. b \in excluded /\ b.fos = a.fos
      BY <1>3, <2>1
    <3> HIDE DEF b, excluded
    <3> QED BY <1>1, <3>1
  <2>2. CASE a \notin hit
    BY <1>1, <2>2
  <2> QED BY <2>1, <2>2
<1>6. \E pc \in Pcs \ {"write"} : ProcType' /\ proc'[p].pc = pc /\ \A q \in Ingests : q # p => proc'[q] = proc[q]
  <2>1. CASE Step(p, "done")
    BY <1>2, <2>1, StepRow DEF Pcs, Ended
  <2>2. CASE proc' = [proc EXCEPT ![p].pc = "lines", ![p].fos = UNION {a.fos : a \in hit}]
    <3> DEFINE fos == UNION {a.fos : a \in hit}
               row == [proc[p] EXCEPT !.pc = "lines", !.fos = fos]
    <3>1. fos \in SUBSET FOs
      BY <1>2 DEF AllocationsType
    <3> HIDE DEF fos
    <3>2. IngestRow(row) /\ row.pc = "lines"
      BY <1>2, <3>1 DEF ProcType, IngestRow, Pcs
    <3> HIDE DEF row
    <3>3. proc' = [proc EXCEPT ![p] = row]
      BY <1>2, <2>2 DEF ProcType, row, fos
    <3>4. ProcType' /\ proc'[p].pc = "lines" /\ \A q \in Ingests : q # p => proc'[q] = proc[q]
      BY <1>2, <3>2, <3>3 DEF ProcType
    <3> QED BY <3>4 DEF Pcs
  <2> QED BY <2>1, <2>2 DEF ExcludeFulfilled
<1> HIDE DEF hit, excluded
<1>7. SyncType' /\ StateLingers /\ order'.lock = order.lock
  BY <1>1, <1>4, <1>6, RowsSame DEF SyncInv, SyncType, OrderType, OrderRow, StateLingers, Unbooked
<1> QED BY <1>1, <1>5, <1>6, <1>7, RowsSame, IngestMoves DEF Answering

\* Rows that go, and rows that are no longer untouched drafts.
LEMMA RowsGo ==
  ASSUME ShipmentsType,
         shipments' = [n \in 1 .. MaxShipments |-> shipments'[n]],
         \A n \in 1 .. MaxShipments :
           \/ shipments'[n] = Gone \/ shipments'[n] = shipments[n]
           \/ /\ shipments[n] # Gone /\ ShipmentRow(shipments'[n]) /\ shipments'[n].fos = shipments[n].fos
              /\ \/ shipments'[n].booking \notin Drafts \/ shipments'[n].attempted
                 \/ /\ shipments[n].booking \in Drafts /\ shipments'[n].attempted = shipments[n].attempted
                    /\ shipments'[n].failures = shipments[n].failures
  PROVE  RowsLinger /\ ShipmentsType'
<1>1. ShipmentsType'
  BY DEF ShipmentsType, ShipmentRow
<1>2. ASSUME NEW n \in Rows' PROVE n \in Rows /\ shipments'[n].fos = shipments[n].fos
  BY DEF Rows
<1>3. ASSUME NEW n \in Untouched'
      PROVE  n \in Untouched /\ shipments'[n].failures = shipments[n].failures
  BY <1>2 DEF Untouched, DraftRows, Rows
<1> QED BY <1>1, <1>2, <1>3 DEF RowsLinger

LEMMA DropLinesStands ==
  ASSUME SyncInv, NEW p \in Ingests, DropLines(p)
  PROVE  SyncInv'
<1>1. /\ proc[p].pc = "lines" /\ Step(p, "drop") /\ UNCHANGED <<order, allocations>>
      /\ ProcType /\ ShipmentsType
  BY DEF DropLines, Busy, SyncInv, SyncType
<1>2. shipments' = [n \in 1 .. MaxShipments |->
                     IF n \in ExcludedDrafts(p) THEN [shipments[n] EXCEPT !.lines = FALSE] ELSE shipments[n]]
  BY DEF DropLines
<1>3. ProcType' /\ proc'[p].pc = "drop" /\ \A q \in Ingests : q # p => proc'[q] = proc[q]
  BY <1>1, StepRow DEF Pcs, Ended
<1>4. ASSUME NEW n \in 1 .. MaxShipments
      PROVE  \/ shipments'[n] = shipments[n]
             \/ /\ shipments[n] # Gone /\ ShipmentRow(shipments'[n]) /\ shipments'[n].fos = shipments[n].fos
                /\ shipments[n].booking \in Drafts /\ shipments'[n].attempted = shipments[n].attempted
                /\ shipments'[n].failures = shipments[n].failures
  <2>1. CASE n \in ExcludedDrafts(p)
    <3> DEFINE now == [shipments[n] EXCEPT !.lines = FALSE]
    <3>1. n \in DraftRows /\ n \in Rows /\ ShipmentRow(shipments[n]) /\ shipments'[n] = now
      BY <1>1, <1>2, <2>1, RowOnFile DEF ExcludedDrafts, DraftRows
    <3>2. /\ ShipmentRow(now) /\ now.fos = shipments[n].fos /\ now.attempted = shipments[n].attempted
          /\ now.failures = shipments[n].failures
      BY <3>1 DEF ShipmentRow
    <3> HIDE DEF now
    <3> QED BY <3>1, <3>2 DEF DraftRows, Rows
  <2>2. CASE n \notin ExcludedDrafts(p)
    BY <1>2, <2>2
  <2> QED BY <2>1, <2>2
<1>5. RowsLinger /\ ShipmentsType'
  BY <1>1, <1>2, <1>4, RowsGo
<1>6. SyncType' /\ StateLingers /\ order'.lock = order.lock
  BY <1>1, <1>3, <1>5, AllocationsSame DEF SyncInv, SyncType, OrderType, OrderRow, StateLingers, Unbooked
<1> QED BY <1>1, <1>3, <1>5, <1>6, AllocationsSame, IngestMoves DEF Answering, Pcs

LEMMA DropStands ==
  ASSUME SyncInv, NEW p \in Ingests, DropExcludedDrafts(p)
  PROVE  SyncInv'
<1>1. proc[p].pc = "drop" /\ UNCHANGED <<order, allocations>> /\ ProcType /\ ShipmentsType
  BY DEF DropExcludedDrafts, Busy, SyncInv, SyncType
<1>2. CASE Step(p, "refused") /\ UNCHANGED shipments
  BY <1>1, <1>2, StepRow, IngestSteps DEF Pcs, Ended, Answering
<1>3. CASE Step(p, "done") /\ \E hit : shipments' = [n \in 1 .. MaxShipments |->
                                                   IF n \in hit THEN Gone ELSE shipments[n]]
  <2>1. ProcType' /\ proc'[p].pc = "done" /\ \A q \in Ingests : q # p => proc'[q] = proc[q]
    BY <1>1, <1>3, StepRow DEF Pcs, Ended
  <2>2. RowsLinger /\ ShipmentsType'
    BY <1>1, <1>3, RowsGo
  <2>3. SyncType' /\ StateLingers /\ order'.lock = order.lock
    BY <1>1, <2>1, <2>2, AllocationsSame DEF SyncInv, SyncType, OrderType, OrderRow, StateLingers, Unbooked
  <2> QED BY <1>1, <2>1, <2>2, <2>3, AllocationsSame, IngestMoves DEF Answering
<1> QED BY <1>2, <1>3 DEF DropExcludedDrafts

LEMMA CrashStands ==
  ASSUME SyncInv, NEW p \in Ingests, Crash(p)
  PROVE  SyncInv'
<1>1. Step(p, "dead") /\ UNCHANGED <<allocations, shipments>> /\ ProcType /\ OrderRow(order)
  BY DEF Crash, SyncInv, SyncType, OrderType
<1>2. order' = [order EXCEPT !.lock = IF order.lock = p THEN Nobody ELSE order.lock]
  BY DEF Crash
<1>3. ProcType' /\ proc'[p].pc = "dead" /\ \A q \in Ingests : q # p => proc'[q] = proc[q]
  BY <1>1, StepRow DEF Pcs, Ended
<1>4. /\ order'.lock = IF order.lock = p THEN Nobody ELSE order.lock
      /\ order'.state = order.state /\ OrderType'
  BY <1>1, <1>2 DEF OrderRow, OrderType
<1>5. LockHeld'
  BY <1>3, <1>4, OrdersAssumption DEF SyncInv, LockHeld
<1>6. SyncType'
  BY <1>1, <1>3, <1>4, RowsSame, AllocationsSame DEF SyncInv, SyncType
<1>7. StateLingers /\ ReadersLinger /\ AnswersLinger
  BY <1>3, <1>4 DEF StateLingers, ReadersLinger, AnswersLinger, Answering, Unbooked
<1> QED BY <1>1, <1>5, <1>6, <1>7, RowsSame, AllocationsSame, SyncLingers

LEMMA EvaluateReadStands ==
  ASSUME SyncInv, NEW p \in Ingests, EvaluateRead(p)
  PROVE  SyncInv'
<1>1. /\ proc[p].pc = "derive" /\ order.lock = Nobody /\ UNCHANGED <<allocations, shipments>>
      /\ ProcType /\ OrderRow(order)
  BY DEF EvaluateRead, Busy, SyncInv, SyncType, OrderType
<1>2. CASE ~Unbooked /\ Step(p, "confirm") /\ UNCHANGED order
  BY <1>1, <1>2, StepRow, IngestSteps DEF Pcs
<1>3. CASE /\ proc' = [proc EXCEPT ![p].pc = "write", ![p].read =
                [n \in DraftRows |-> [pii |-> shipments[n].pii, content |-> shipments[n].content]]]
           /\ order' = [order EXCEPT !.lock = p]
  <2> DEFINE read == [n \in DraftRows |-> [pii |-> shipments[n].pii, content |-> shipments[n].content]]
             row == [proc[p] EXCEPT !.pc = "write", !.read = read]
  <2>1. DOMAIN read = DraftRows
    OBVIOUS
  <2> HIDE DEF read
  <2>2. IngestRow(row) /\ row.pc = "write" /\ row.read = read
    BY <1>1 DEF ProcType, IngestRow, Pcs
  <2> HIDE DEF row
  <2>3. proc' = [proc EXCEPT ![p] = row]
    BY <1>1, <1>3 DEF ProcType, row, read
  <2>4. ProcType' /\ proc'[p] = row /\ \A q \in Ingests : q # p => proc'[q] = proc[q]
    BY <1>1, <2>2, <2>3 DEF ProcType
  <2>5. order'.lock = p /\ order'.state = order.state /\ OrderType'
    BY <1>1, <1>3 DEF OrderRow, OrderType
  <2>6. LockHeld'
    BY <1>1, <2>2, <2>4, <2>5, OrdersAssumption DEF SyncInv, LockHeld
  <2>7. ReadersLinger
    <3>1. Untouched' \subseteq DOMAIN proc'[p].read
      BY <1>1, <2>1, <2>2, <2>4 DEF Untouched, DraftRows, Rows
    <3> QED BY <2>4, <3>1 DEF ReadersLinger
  <2>8. StateLingers /\ AnswersLinger
    BY <2>2, <2>4, <2>5 DEF StateLingers, AnswersLinger, Answering, Unbooked
  <2>9. SyncType'
    BY <1>1, <2>4, <2>5, RowsSame, AllocationsSame DEF SyncInv, SyncType
  <2> QED BY <1>1, <2>6, <2>7, <2>8, <2>9, RowsSame, AllocationsSame, SyncLingers
<1> QED BY <1>2, <1>3 DEF EvaluateRead, NeedsEvaluation

LEMMA EvaluateWriteStands ==
  ASSUME SyncInv, NEW p \in Ingests, EvaluateWrite(p)
  PROVE  SyncInv'
<1> DEFINE read == proc[p].read
           derived == Derived(read)
           mode == derived.mode
           failures == derived.failures
           state == IF Unbooked THEN Verdict(failures) ELSE order.state
           row == [proc[p] EXCEPT !.pc = "confirm", !.read = <<>>]
<1>1. /\ proc[p].pc = "write" /\ UNCHANGED allocations
      /\ ProcType /\ OrderRow(order) /\ ShipmentsType
  BY DEF EvaluateWrite, Busy, SyncInv, SyncType, OrderType
<1>2. /\ order' = [order EXCEPT !.mode = mode, !.lock = Nobody, !.state = state]
      /\ shipments' = [n \in 1 .. MaxShipments |->
                         IF n \in DOMAIN read \cap DraftRows
                         THEN [shipments[n] EXCEPT !.failures = failures, !.pii = read[n].pii]
                         ELSE shipments[n]]
  BY <1>1 DEF EvaluateWrite, OrderRow
<1> HIDE DEF derived, mode, failures
<1>3. Untouched \subseteq DOMAIN read
  BY <1>1 DEF SyncInv, ReadUnderLock
<1>4. IngestRow(row) /\ row.pc = "confirm"
  BY <1>1 DEF ProcType, IngestRow, Pcs
<1>5. proc' = [proc EXCEPT ![p] = row]
  BY <1>1 DEF EvaluateWrite, ProcType
<1> HIDE DEF row
<1>6. ProcType' /\ proc'[p].pc = "confirm" /\ \A q \in Ingests : q # p => proc'[q] = proc[q]
  BY <1>1, <1>4, <1>5 DEF ProcType
<1>7. \A f : Verdict(f) \in {"READY", "INCOMPLETE"}
  BY DEF Verdict
<1>8. state \in OrderStates /\ (Unbooked => state # "ABSENT") /\ (~Unbooked => state = order.state)
  BY <1>1, <1>7 DEF OrderRow, OrderStates, UnbookedOrderStates
<1>9. order'.lock = Nobody /\ order'.state = state /\ OrderType'
  <2> HIDE DEF state
  <2> QED BY <1>1, <1>2, <1>8 DEF OrderRow, OrderType
<1>10. LockHeld' /\ \A q \in Ingests : proc'[q].pc # "write"
  BY <1>1, <1>6, <1>9, OrdersAssumption DEF SyncInv, LockHeld
<1>11. ASSUME NEW n \in 1 .. MaxShipments
       PROVE  \/ shipments'[n] = shipments[n] /\ ~(n \in DOMAIN read /\ n \in DraftRows)
              \/ /\ n \in DraftRows /\ n \in Rows /\ ShipmentRow(shipments'[n])
                 /\ shipments'[n].fos = shipments[n].fos /\ shipments'[n].booking = shipments[n].booking
                 /\ shipments'[n].attempted = shipments[n].attempted
                 /\ shipments'[n].failures = failures /\ shipments'[n] # Gone
  <2>1. CASE n \in DOMAIN read \cap DraftRows
    <3> DEFINE now == [shipments[n] EXCEPT !.failures = failures, !.pii = read[n].pii]
    <3>1. n \in Rows /\ ShipmentRow(shipments[n]) /\ shipments'[n] = now
      BY <1>1, <1>2, <2>1, RowOnFile DEF DraftRows
    <3>2. /\ ShipmentRow(now) /\ now.fos = shipments[n].fos /\ now.booking = shipments[n].booking
          /\ now.attempted = shipments[n].attempted /\ now.failures = failures
      BY <3>1 DEF ShipmentRow
    <3>3. now # Gone
      <4> HIDE DEF now
      <4> QED BY <3>2 DEF ShipmentRow, Gone, Drafts
    <3> HIDE DEF now
    <3> QED BY <2>1, <3>1, <3>2, <3>3
  <2>2. CASE n \notin DOMAIN read \cap DraftRows
    BY <1>2, <2>2
  <2> QED BY <2>1, <2>2
<1>12. ShipmentsType'
  BY <1>1, <1>2, <1>11 DEF ShipmentsType, ShipmentRow
<1>13. \A n \in Rows' : n \in Rows /\ shipments'[n].fos = shipments[n].fos
  BY <1>11 DEF Rows
<1>14. \A n \in Untouched' : shipments'[n].failures = failures
  <2> SUFFICES ASSUME NEW n \in Untouched' PROVE shipments'[n].failures = failures
    OBVIOUS
  <2>1. n \in 1 .. MaxShipments /\ n \in Rows /\ shipments'[n].booking \in Drafts /\ ~shipments'[n].attempted
    BY <1>13 DEF Untouched, DraftRows, Rows
  <2>2. CASE shipments'[n] = shipments[n] /\ ~(n \in DOMAIN read /\ n \in DraftRows)
    BY <1>3, <2>1, <2>2 DEF Untouched, DraftRows
  <2> QED BY <1>11, <2>1, <2>2
<1>15. Attended'
  <2>1. CASE Unbooked
    BY <1>9, <1>14, <2>1 DEF Attended, Judged
  <2>2. CASE ~Unbooked
    BY <1>8, <1>9, <2>2 DEF Attended, Unbooked
  <2> QED BY <2>1, <2>2
<1>16. NothingYet'
  BY <1>8, <1>9, <1>13 DEF SyncInv, NothingYet, Unbooked
<1>17. Allocated' /\ NoDoubleShipment' /\ ReadUnderLock'
  BY <1>1, <1>10, <1>13 DEF SyncInv, Allocated, NoDoubleShipment, ReadUnderLock
<1>18. SyncType'
  BY <1>1, <1>6, <1>9, <1>12, AllocationsSame DEF SyncInv, SyncType
<1> QED BY <1>10, <1>15, <1>16, <1>17, <1>18 DEF SyncInv

\* A plan's open allocations: finitely many, and no fulfillment order in two.
OpenOf(fos) == {i \in Plan(fos) : i.state = "OPEN"}

LEMMA PlanOf ==
  ASSUME NEW fos \in SUBSET FOs
  PROVE  /\ \A i \in Plan(fos) : i \in [fos : SUBSET FOs, state : {"OPEN", "EXCLUDED"}]
         /\ \A i, j \in OpenOf(fos) : i # j => i.fos \cap j.fos = {}
         /\ IsFiniteSet(OpenOf(fos))
<1> DEFINE ours == fos \ Elsewhere
           excluded == {[fos |-> {f}, state |-> "EXCLUDED"] : f \in FOs \ ours}
           kept == IF CanMerge THEN {[fos |-> ours, state |-> "OPEN"] : f \in ours}
                   ELSE {[fos |-> {f}, state |-> "OPEN"] : f \in ours}
           none == {[fos |-> {}, state |-> "OPEN"]}
<1>1. Plan(fos) = IF FOs = {} THEN none ELSE excluded \cup kept
  BY DEF Plan
<1>2. ours \subseteq FOs
  OBVIOUS
<1> HIDE DEF ours
<1>3. \A i \in excluded : i \in [fos : SUBSET FOs, state : {"OPEN", "EXCLUDED"}] /\ i.state = "EXCLUDED"
  OBVIOUS
<1>4. \A i \in none : i \in [fos : SUBSET FOs, state : {"OPEN", "EXCLUDED"}]
  OBVIOUS
<1>5. /\ \A i \in kept : i \in [fos : SUBSET FOs, state : {"OPEN", "EXCLUDED"}]
      /\ \A i, j \in kept : i # j => i.fos \cap j.fos = {}
  <2>1. CASE CanMerge
    BY <1>2, <2>1
  <2>2. CASE ~CanMerge
    BY <1>2, <2>2
  <2> QED BY <2>1, <2>2
<1>6. \A i, j \in none : i = j
  OBVIOUS
<1> HIDE DEF excluded, kept, none
<1>7. \A i \in Plan(fos) : i \in [fos : SUBSET FOs, state : {"OPEN", "EXCLUDED"}]
  BY <1>1, <1>3, <1>4, <1>5
<1>8. \A i \in OpenOf(fos) : i \in none \/ i \in kept
  BY <1>1, <1>3 DEF OpenOf
<1>9. \A i, j \in OpenOf(fos) : i # j => i.fos \cap j.fos = {}
  BY <1>1, <1>3, <1>5, <1>6, <1>8 DEF OpenOf
<1>10. IsFiniteSet(OpenOf(fos))
  <2> DEFINE g == [i \in OpenOf(fos) |-> i.fos]
  <2>1. \A i \in OpenOf(fos) : i \in [fos : SUBSET FOs, state : {"OPEN"}]
    BY <1>7 DEF OpenOf
  <2>2. g \in [OpenOf(fos) -> SUBSET FOs]
    BY <2>1
  <2>3. \A i, j \in OpenOf(fos) : g[i] = g[j] => i = j
    BY <2>1
  <2> HIDE DEF g
  <2>4. g \in Injection(OpenOf(fos), SUBSET FOs)
    BY <2>2, <2>3 DEF Injection, IsInjective
  <2>5. IsFiniteSet(SUBSET FOs)
    BY FS_SUBSET, OrdersAssumption
  <2> QED BY <2>4, <2>5, FS_Injection
<1> QED BY <1>7, <1>9, <1>10

\* The sequence a finite set is laid out in names each member once.
LEMMA LaidOut ==
  ASSUME NEW S, IsFiniteSet(S)
  PROVE  \A k, l \in DOMAIN SetToSeq(S) :
           SetToSeq(S)[k] \in S /\ (SetToSeq(S)[k] = SetToSeq(S)[l] => k = l)
<1>1. \E f \in [1 .. Cardinality(S) -> S] : IsInjective(f)
  BY FS_CardinalityType DEF ExistsBijection, Bijection, Injection
<1>2. SetToSeq(S) \in [1 .. Cardinality(S) -> S] /\ IsInjective(SetToSeq(S))
  BY <1>1 DEF SetToSeq
<1> HIDE DEF SetToSeq
<1> QED BY <1>2 DEF IsInjective

LEMMA RebuildStands ==
  ASSUME SyncInv, NEW p \in Ingests, Rebuild(p)
  PROVE  SyncInv'
<1>1. /\ proc[p].pc = "rebuild" /\ order.lock = Nobody /\ UNCHANGED order
      /\ ProcType /\ OrderRow(order) /\ ShipmentsType /\ AllocationsType
  BY DEF Rebuild, Busy, SyncInv, SyncType, OrderType
<1>2. CASE ~Unbooked /\ Step(p, "derive") /\ UNCHANGED <<allocations, shipments>>
  BY <1>1, <1>2, StepRow, IngestSteps DEF Pcs
<1>3. CASE Step(p, "refused") /\ UNCHANGED <<allocations, shipments>>
  BY <1>1, <1>3, StepRow, IngestSteps DEF Pcs, Ended, Answering
<1>4. CASE Unbooked /\ ~(Step(p, "refused") /\ UNCHANGED <<allocations, shipments>>)
  <2> DEFINE plan == Plan(proc[p].fos)
             open == SetToSeq(OpenOf(proc[p].fos))
             free == SetToSortSeq({n \in 1 .. MaxShipments : n \notin Rows \ DraftRows}, <)
             place(n) == {k \in DOMAIN open : free[k] = n}
             payload == proc[p].payload
             laid(k) == NewShipment(open[k], payload)
  <2>1. /\ ~\E a \in Deletable : StillUsed(a)
        /\ allocations' = (allocations \ Deletable) \cup plan
        /\ shipments' = [n \in 1 .. MaxShipments |->
                           IF n \in Rows \ DraftRows THEN shipments[n]
                           ELSE IF place(n) = {} THEN Gone ELSE laid(CHOOSE k \in place(n) : TRUE)]
        /\ Step(p, "derive")
    BY <1>4 DEF Rebuild, OpenOf
  <2>2. proc[p].fos \in SUBSET FOs
    BY <1>1 DEF ProcType, IngestRow
  <2>3. \A i \in plan : i \in [fos : SUBSET FOs, state : {"OPEN", "EXCLUDED"}]
    BY <2>2, PlanOf
  <2>4. \A k, l \in DOMAIN open :
          /\ open[k] \in plan /\ open[k].fos \in SUBSET FOs
          /\ k # l => open[k].fos \cap open[l].fos = {}
    <3>1. \A k, l \in DOMAIN open : open[k] \in OpenOf(proc[p].fos) /\ (open[k] = open[l] => k = l)
      BY <2>2, PlanOf, LaidOut
    <3> HIDE DEF open
    <3>2. \A i, j \in OpenOf(proc[p].fos) : i # j => i.fos \cap j.fos = {}
      BY <2>2, PlanOf
    <3>3. \A i \in OpenOf(proc[p].fos) : i \in plan
      BY DEF OpenOf
    <3> HIDE DEF plan
    <3> SUFFICES ASSUME NEW k \in DOMAIN open, NEW l \in DOMAIN open
                 PROVE  /\ open[k] \in plan /\ open[k].fos \in SUBSET FOs
                        /\ k # l => open[k].fos \cap open[l].fos = {}
      OBVIOUS
    <3>4. open[k] \in plan /\ open[k] \in [fos : SUBSET FOs, state : {"OPEN", "EXCLUDED"}]
      BY <2>3, <3>1, <3>3
    <3> QED BY <3>1, <3>2, <3>4
  <2> HIDE DEF plan, open, free
  <2>5. Rows \ DraftRows = {}
    <3> SUFFICES ASSUME NEW n \in Rows, n \notin DraftRows PROVE FALSE
      OBVIOUS
    <3>1. PICK a \in allocations : a.fos = shipments[n].fos
      BY DEF SyncInv, Allocated
    <3>2. a \in Deletable
      BY <1>1, <3>1 DEF AllocationsType, Deletable
    <3> QED BY <2>1, <3>1, <3>2 DEF StillUsed
  <2>6. \A k \in DOMAIN open : ShipmentRow(laid(k)) /\ laid(k).fos = open[k].fos
    BY <2>4 DEF ShipmentRow, NewShipment, Drafts
  <2> HIDE DEF laid
  <2>7. ASSUME NEW n \in 1 .. MaxShipments
        PROVE  shipments'[n] = Gone \/ \E k \in DOMAIN open : free[k] = n /\ shipments'[n] = laid(k)
    <3>1. CASE place(n) = {}
      BY <2>1, <2>5, <3>1
    <3>2. CASE place(n) # {}
      <4> DEFINE k == CHOOSE k \in place(n) : TRUE
      <4>1. k \in place(n)
        BY <3>2
      <4>2. shipments'[n] = laid(k)
        BY <2>1, <2>5, <3>2
      <4>3. k \in DOMAIN open /\ free[k] = n
        BY <4>1
      <4> HIDE DEF k
      <4> QED BY <4>2, <4>3
    <3> QED BY <3>1, <3>2
  <2>8. ASSUME NEW n \in Rows'
        PROVE  /\ n \in 1 .. MaxShipments
               /\ \E k \in DOMAIN open : free[k] = n /\ shipments'[n] = laid(k)
    BY <2>7 DEF Rows
  <2>9. ProcType' /\ proc'[p].pc = "derive" /\ \A q \in Ingests : q # p => proc'[q] = proc[q]
    BY <1>1, <2>1, StepRow DEF Pcs
  <2>10. AllocationsType'
    BY <1>1, <2>1, <2>3 DEF AllocationsType
  <2>11. ShipmentsType'
    BY <2>1, <2>6, <2>7 DEF ShipmentsType, ShipmentRow
  <2>12. SyncType'
    BY <1>1, <2>9, <2>10, <2>11 DEF SyncInv, SyncType, OrderType, OrderRow
  <2>13. Allocated'
    <3> SUFFICES ASSUME NEW n \in Rows' PROVE \E a \in allocations' : a.fos = shipments'[n].fos
      BY DEF Allocated
    <3>1. PICK k \in DOMAIN open : shipments'[n] = laid(k)
      BY <2>8
    <3>2. open[k] \in allocations' /\ shipments'[n].fos = open[k].fos
      BY <2>1, <2>4, <2>6, <3>1
    <3> QED BY <3>2
  <2>14. NoDoubleShipment'
    <3> SUFFICES ASSUME NEW m \in Rows', NEW n \in Rows', m # n
                 PROVE  shipments'[m].fos \cap shipments'[n].fos = {}
      BY DEF NoDoubleShipment
    <3>1. PICK k \in DOMAIN open : free[k] = m /\ shipments'[m] = laid(k)
      BY <2>8
    <3>2. PICK l \in DOMAIN open : free[l] = n /\ shipments'[n] = laid(l)
      BY <2>8
    <3>3. k # l
      BY <3>1, <3>2
    <3> QED BY <2>4, <2>6, <3>1, <3>2, <3>3
  <2>15. LockHeld' /\ ReadUnderLock'
    BY <1>1, <2>9, OrdersAssumption DEF SyncInv, LockHeld, ReadUnderLock
  <2>16. Attended'
    BY <2>9 DEF Attended, Answering
  <2>17. NothingYet'
    BY <1>1, <1>4 DEF NothingYet, Unbooked, UnbookedOrderStates
  <2> QED BY <2>12, <2>13, <2>14, <2>15, <2>16, <2>17 DEF SyncInv
<1> QED BY <1>2, <1>3, <1>4 DEF Rebuild

\* A step on the shipment rows alone, by which rows go or leave the untouched drafts.
LEMMA RowsGoStand ==
  ASSUME SyncInv, UNCHANGED <<order, allocations, proc>>, RowsLinger, ShipmentsType'
  PROVE  SyncInv'
<1>1. SyncType'
  BY AllocationsSame DEF SyncInv, SyncType, ProcType, OrderType, IngestRow, OrderRow
<1>2. LockHeld' /\ StateLingers /\ ReadersLinger /\ AnswersLinger
  BY DEF SyncInv, LockHeld, StateLingers, ReadersLinger, AnswersLinger, Unbooked
<1> QED BY <1>1, <1>2, AllocationsSame, SyncLingers

LEMMA BookStands ==
  ASSUME SyncInv, NEW n \in Rows, Book(n)
  PROVE  SyncInv'
<1> DEFINE row == [shipments[n] EXCEPT !.booking = "BOOKED", !.snapshotPii = shipments[n].pii]
<1>1. ShipmentsType /\ n \in 1 .. MaxShipments /\ ShipmentRow(shipments[n]) /\ shipments[n] # Gone
  BY RowOnFile DEF SyncInv, SyncType, Rows
<1>2. ShipmentRow(row) /\ row.fos = shipments[n].fos /\ row.booking = "BOOKED"
  BY <1>1 DEF ShipmentRow
<1> HIDE DEF row
<1>3. shipments' = [shipments EXCEPT ![n] = row]
  BY <1>1 DEF Book, row, ShipmentsType
<1>4. RowsLinger /\ ShipmentsType'
  <2>1. shipments' = [m \in 1 .. MaxShipments |-> IF m = n THEN row ELSE shipments[m]]
    BY <1>1, <1>3 DEF ShipmentsType
  <2>2. shipments' = [m \in 1 .. MaxShipments |-> shipments'[m]]
    BY <2>1
  <2>3. row.booking \notin Drafts
    BY <1>2 DEF Drafts
  <2>4. \A m \in 1 .. MaxShipments : shipments'[m] = IF m = n THEN row ELSE shipments[m]
    BY <2>1
  <2> QED BY <1>1, <1>2, <2>2, <2>3, <2>4, RowsGo
<1> QED BY <1>4, RowsGoStand DEF Book

LEMMA SettleStands ==
  ASSUME SyncInv, NEW n \in Rows, SettleBooking(n)
  PROVE  SyncInv'
<1>1. PICK b \in {"VOID", "NEEDS_MANUAL_ASSIGNMENT"} :
        shipments' = [shipments EXCEPT ![n].booking = b, ![n].attempted = TRUE]
  BY DEF SettleBooking
<1> DEFINE row == [shipments[n] EXCEPT !.booking = b, !.attempted = TRUE]
<1>2. ShipmentsType /\ n \in 1 .. MaxShipments /\ ShipmentRow(shipments[n]) /\ shipments[n] # Gone
  BY RowOnFile DEF SyncInv, SyncType, Rows
<1>3. ShipmentRow(row) /\ row.fos = shipments[n].fos /\ row.attempted
  BY <1>2 DEF ShipmentRow, Drafts
<1> HIDE DEF row
<1>4. shipments' = [shipments EXCEPT ![n] = row]
  BY <1>1, <1>2 DEF row, ShipmentsType
<1>5. RowsLinger /\ ShipmentsType'
  <2>1. shipments' = [m \in 1 .. MaxShipments |-> IF m = n THEN row ELSE shipments[m]]
    BY <1>2, <1>4 DEF ShipmentsType
  <2>2. shipments' = [m \in 1 .. MaxShipments |-> shipments'[m]]
    BY <2>1
  <2>3. \A m \in 1 .. MaxShipments : shipments'[m] = IF m = n THEN row ELSE shipments[m]
    BY <2>1
  <2> QED BY <1>2, <1>3, <2>2, <2>3, RowsGo
<1> QED BY <1>5, RowsGoStand DEF SettleBooking

LEMMA SweepActsStands ==
  ASSUME SyncInv, SweepActs
  PROVE  SyncInv'
<1>1. UNCHANGED <<order, allocations, proc>> /\ ShipmentsType
  BY DEF SweepActs, SyncInv, SyncType
<1>2. CASE shipments' = shipments
  BY <1>1, <1>2, SyncStays
<1>3. CASE shipments' = [n \in 1 .. MaxShipments |->
                          IF shipments[n].booking = "DRAFT"
                          THEN [shipments[n] EXCEPT !.booking = "NEEDS_MANUAL_ASSIGNMENT"] ELSE shipments[n]]
  <2>1. ASSUME NEW n \in 1 .. MaxShipments, shipments[n].booking = "DRAFT"
        PROVE  /\ shipments[n] # Gone /\ ShipmentRow(shipments'[n])
               /\ shipments'[n].fos = shipments[n].fos /\ shipments[n].booking \in Drafts
               /\ shipments'[n].attempted = shipments[n].attempted
               /\ shipments'[n].failures = shipments[n].failures
    <3> DEFINE row == [shipments[n] EXCEPT !.booking = "NEEDS_MANUAL_ASSIGNMENT"]
    <3>1. shipments[n] # Gone /\ ShipmentRow(shipments[n])
      BY <1>1, <2>1 DEF ShipmentsType, Gone
    <3>2. /\ ShipmentRow(row) /\ row.fos = shipments[n].fos /\ row.attempted = shipments[n].attempted
          /\ row.failures = shipments[n].failures
      BY <3>1 DEF ShipmentRow, Drafts
    <3> HIDE DEF row
    <3>3. shipments'[n] = row
      BY <1>3, <2>1 DEF row
    <3> QED BY <2>1, <3>1, <3>2, <3>3 DEF Drafts
  <2>2. \A n \in 1 .. MaxShipments : shipments[n].booking # "DRAFT" => shipments'[n] = shipments[n]
    BY <1>3
  <2>3. shipments' = [n \in 1 .. MaxShipments |-> shipments'[n]]
    BY <1>3
  <2>4. RowsLinger /\ ShipmentsType'
    BY <1>1, <2>1, <2>2, <2>3, RowsGo
  <2> QED BY <1>1, <2>4, RowsGoStand
<1> QED BY <1>2, <1>3 DEF SweepActs

LEMMA RedactStands ==
  ASSUME SyncInv, Redact
  PROVE  SyncInv'
<1>1. UNCHANGED <<allocations, proc>> /\ ShipmentsType /\ OrderRow(order)
  BY DEF Redact, SyncInv, SyncType, OrderType
<1>2. CASE order' = [order EXCEPT !.pii = FALSE] /\ UNCHANGED shipments
  <2>1. OrderType' /\ order'.state = order.state /\ order'.lock = order.lock
    BY <1>1, <1>2 DEF OrderType, OrderRow
  <2>2. SyncType'
    BY <1>1, <1>2, <2>1, RowsSame, AllocationsSame DEF SyncInv, SyncType, ProcType, IngestRow
  <2>3. LockHeld' /\ StateLingers /\ ReadersLinger /\ AnswersLinger
    BY <1>1, <2>1 DEF SyncInv, LockHeld, StateLingers, ReadersLinger, AnswersLinger, Unbooked
  <2> QED BY <1>1, <1>2, <2>2, <2>3, RowsSame, AllocationsSame, SyncLingers
<1>3. CASE /\ shipments' = [n \in 1 .. MaxShipments |->
                              IF n \in DraftRows THEN [shipments[n] EXCEPT !.pii = FALSE] ELSE shipments[n]]
           /\ UNCHANGED order
  <2>1. ASSUME NEW n \in 1 .. MaxShipments, n \in DraftRows
        PROVE  /\ shipments[n] # Gone /\ ShipmentRow(shipments'[n])
               /\ shipments'[n].fos = shipments[n].fos /\ shipments[n].booking \in Drafts
               /\ shipments'[n].attempted = shipments[n].attempted
               /\ shipments'[n].failures = shipments[n].failures
    <3> DEFINE row == [shipments[n] EXCEPT !.pii = FALSE]
    <3>1. shipments[n] # Gone /\ ShipmentRow(shipments[n]) /\ shipments[n].booking \in Drafts
      BY <1>1, <2>1, RowOnFile DEF DraftRows, Rows
    <3>2. /\ ShipmentRow(row) /\ row.fos = shipments[n].fos /\ row.attempted = shipments[n].attempted
          /\ row.failures = shipments[n].failures
      BY <3>1 DEF ShipmentRow
    <3> HIDE DEF row
    <3>3. shipments'[n] = row
      BY <1>3, <2>1 DEF row
    <3> QED BY <3>1, <3>2, <3>3
  <2>2. \A n \in 1 .. MaxShipments : n \notin DraftRows => shipments'[n] = shipments[n]
    BY <1>3
  <2>3. shipments' = [n \in 1 .. MaxShipments |-> shipments'[n]]
    BY <1>3
  <2>4. RowsLinger /\ ShipmentsType'
    BY <1>1, <2>1, <2>2, <2>3, RowsGo
  <2> QED BY <1>1, <1>3, <2>4, RowsGoStand
<1>4. CASE UNCHANGED <<order, shipments>>
  BY <1>1, <1>4, SyncStays
<1> QED BY <1>2, <1>3, <1>4 DEF Redact

LEMMA SyncStep ==
  ASSUME SyncInv, Next
  PROVE  SyncInv'
<1>1. CASE EditInShopify
  BY <1>1, SyncStays DEF EditInShopify
<1>2. CASE Redact
  BY <1>2, RedactStands
<1>3. ASSUME NEW p \in Ingests, Ingest(p) PROVE SyncInv'
  <2>1. ASSUME NEW t \in Topics, NEW c \in 1 .. MaxEdits, Deliver(p, t, c) PROVE SyncInv'
    BY <2>1, DeliverStands
  <2>2. CASE Upsert(p)
    BY <2>2, UpsertStands
  <2>3. CASE FetchFulfillmentOrders(p)
    BY <2>3, FetchStands
  <2>4. CASE Rebuild(p)
    BY <2>4, RebuildStands
  <2>5. CASE EvaluateRead(p)
    BY <2>5, EvaluateReadStands
  <2>6. CASE EvaluateWrite(p)
    BY <2>6, EvaluateWriteStands
  <2>7. CASE StartConfirmation(p)
    BY <2>7, StartConfirmationStands
  <2>8. CASE MarkCancelled(p)
    BY <2>8, MarkCancelledStands
  <2>9. CASE ExcludeFulfilled(p)
    BY <2>9, ExcludeFulfilledStands
  <2>10. CASE DropExcludedDrafts(p)
    BY <2>10, DropStands
  <2>11. CASE Crash(p)
    BY <2>11, CrashStands
  <2>12. CASE DropLines(p)
    BY <2>12, DropLinesStands
  <2> QED BY <1>3, <2>1, <2>2, <2>3, <2>4, <2>5, <2>6, <2>7, <2>8, <2>9, <2>10, <2>11, <2>12 DEF Ingest
<1>4. ASSUME NEW n \in Rows, Book(n) PROVE SyncInv'
  BY <1>4, BookStands
<1>5. ASSUME NEW n \in Rows, SettleBooking(n) PROVE SyncInv'
  BY <1>5, SettleStands
<1>6. CASE Confirm
  BY <1>6, SyncStays DEF Confirm
<1>7. CASE SweepReads
  BY <1>7, SyncStays DEF SweepReads
<1>8. CASE SweepActs
  BY <1>8, SweepActsStands
<1> QED BY <1>1, <1>2, <1>3, <1>4, <1>5, <1>6, <1>7, <1>8 DEF Next

\* order-sync.service.ts: however webhooks, sweeps, crashes, bookings and a
\* redaction interleave, no fulfillment order is in two shipments, and once the
\* ingests are over every draft no booking has touched shows the order's verdict
\* (an ingest that died after its rebuild excepted).
THEOREM IngestsNeverDouble == MCSpec => []IngestsStand
<1>1. MCInit => SyncInv
  BY SyncInitially DEF MCInit
<1>2. SyncInv /\ [MCNext]_<<focus, vars, engineVars, bookVars, gstVars>> => SyncInv'
  <2> SUFFICES ASSUME SyncInv, [MCNext]_<<focus, vars, engineVars, bookVars, gstVars>> PROVE SyncInv'
    OBVIOUS
  <2>1. CASE Next
    BY <2>1, SyncStep
  <2>2. CASE UNCHANGED vars
    BY <2>2, SyncStays DEF vars
  <2> QED BY <2>1, <2>2 DEF MCNext
<1>3. SyncInv => IngestsStand
  BY SyncStands DEF IngestsStand
<1> QED BY <1>1, <1>2, <1>3, PTL DEF MCSpec

----------------------------------------------------------------------------
(* RuleEngine.  One step decides an input: the least rule that matches, of *)
(* whose services nothing is found against those that are allowed, the     *)
(* first of them or the least by rank.                                     *)

InputOK ==
  /\ Len(input.rules) \in Nat /\ DOMAIN input.rules = 1 .. Len(input.rules)
  /\ \A k \in DOMAIN input.rules : RuleOK(input.rules[k])
  /\ input.chain \in Seq(Services) /\ input.now \in Int
  /\ \A s \in Services : FactOK(input.facts[s])

\* A set of numbers has a least one.
LEMMA LeastOf ==
  ASSUME NEW S \in SUBSET Nat, S # {}
  PROVE  Engine!Min(S) \in S /\ \A k \in S : Engine!Min(S) <= k
<1>1. PICK x \in S : \A y \in S : ~ (<<y, x>> \in OpToRel(<, Nat))
  <2>1. IsWellFoundedOn(OpToRel(<, Nat), Nat)
    BY NatLessThanWellFounded
  <2> QED BY <2>1, WFMin
<1>2. \A y \in S : x <= y
  <2>1. ASSUME NEW y \in S PROVE x <= y
    <3>1. ~ (y < x) /\ x \in Nat /\ y \in Nat
      BY <1>1 DEF OpToRel
    <3> QED BY <3>1
  <2> QED BY <2>1
<1> QED BY <1>2 DEF Engine!Min

\* The scan finds the first rule that speaks for the order.
LEMMA ScanFinds ==
  ASSUME InputOK
  PROVE  /\ Engine!Spoken = {} => Engine!Matched = 0
         /\ Engine!Spoken # {} => /\ Engine!Matched # 0 /\ Engine!Matched \in 1 .. Len(input.rules)
                                  /\ Engine!TheRule = input.rules[Engine!Matched]
<1>1. ASSUME NEW k \in 1 .. Len(input.rules)
      PROVE  Engine!RuleMatches(input.rules[k]) <=> Engine!Speaks(k)
  <2> DEFINE r == input.rules[k]
  <2>1. RuleOK(r)
    BY DEF InputOK
  <2>2. ASSUME NEW g \in Engine!Range(r.groups), NEW c \in Engine!Range(g)
        PROVE  Engine!Matches(c) <=> (c.level = "order" => c.known /\ c.holds)
    <3>1. c.level \in {"candidate", "order"} /\ c.known \in BOOLEAN /\ c.holds \in BOOLEAN
      BY <2>1 DEF RuleOK, Engine!Range
    <3> QED BY <3>1 DEF Engine!Matches
  <2>3. ~Engine!OutsideSchedule(r) <=> (r.from <= input.now /\ input.now < r.to)
    BY <2>1 DEF RuleOK, InputOK, Engine!OutsideSchedule
  <2> QED BY <2>2, <2>3 DEF Engine!RuleMatches, Engine!Speaks
<1> DEFINE S == {k \in 1 .. Len(input.rules) : Engine!RuleMatches(input.rules[k])}
<1>2. S = Engine!Spoken
  BY <1>1 DEF Engine!Spoken
<1>3. Engine!Matched = IF S # {} THEN Engine!Min(S) ELSE 0
  BY DEF Engine!Matched, Engine!SelectInSeq
<1>4. S \in SUBSET Nat /\ S \subseteq 1 .. Len(input.rules)
  BY DEF InputOK
<1> HIDE DEF S
<1>5. CASE S # {}
  <2>1. Engine!Min(S) \in S /\ \A k \in S : Engine!Min(S) <= k
    BY <1>4, <1>5, LeastOf
  <2> DEFINE m == CHOOSE k \in S : \A j \in S : k <= j
  <2>3. Engine!Min(S) = m
    BY DEF Engine!Min
  <2>4. Engine!TheRule = input.rules[m]
    BY <1>2 DEF Engine!TheRule
  <2> QED BY <1>2, <1>3, <1>4, <1>5, <2>1, <2>3, <2>4
<1>6. CASE S = {}
  BY <1>2, <1>3, <1>6
<1> QED BY <1>5, <1>6

\* Nothing is found against a service that is known, bookable, not excluded and
\* within the bounds of the rule.
LEMMA RunFinds ==
  ASSUME InputOK, NEW before, NEW services, NEW excluded, NEW filters, NEW s \in Services
  PROVE  Engine!BuildRun(before, services, excluded, filters)[s] = {} <=>
           /\ before[s] = {}
           /\ s \in Engine!Range(services) =>
                /\ input.facts[s].row /\ input.facts[s].bookable /\ s \notin excluded
                /\ Engine!FilterReasons(s, filters) = {}
<1>1. input.facts[s].row \in BOOLEAN /\ input.facts[s].bookable \in BOOLEAN
  BY DEF InputOK, FactOK
<1>2. Engine!Against(s, excluded, filters) = {} <=>
        /\ input.facts[s].row /\ input.facts[s].bookable /\ s \notin excluded
        /\ Engine!FilterReasons(s, filters) = {}
  BY <1>1 DEF Engine!Against
<1> QED BY <1>2 DEF Engine!BuildRun

\* The chain takes the first that qualifies.
Qualifies(found, s) == found[s] = {} /\ Engine!Serviceable(s)
LEMMA ChainFinds ==
  ASSUME NEW found, NEW services \in Seq(Services), NEW n, n = Engine!First(found, services)
  PROVE  \/ n = 0 /\ \A k \in 1 .. Len(services) : ~Qualifies(found, services[k])
         \/ /\ n \in 1 .. Len(services) /\ n # 0 /\ Qualifies(found, services[n])
            /\ \A k \in 1 .. Len(services) : Qualifies(found, services[k]) => n <= k
<1> DEFINE S == {k \in 1 .. Len(services) : Qualifies(found, services[k])}
<1>1. n = IF S # {} THEN Engine!Min(S) ELSE 0
  BY DEF Engine!First, Engine!SelectInSeq, Qualifies
<1>2. S \in SUBSET Nat /\ S \subseteq 1 .. Len(services)
  OBVIOUS
<1>3. S # {} => Engine!Min(S) \in S /\ \A k \in S : Engine!Min(S) <= k
  BY <1>2, LeastOf
<1> QED BY <1>1, <1>2, <1>3

\* The rank orders the able ones, and the least of them is nobody's second.
Worth(action, s) == IF action = "CHEAPEST" THEN input.facts[s].price ELSE input.facts[s].edd
RanksBefore(action, services, able, s) ==
  \A t \in able \ {s} : Engine!Before(Engine!Rank(action, services, s), Engine!Rank(action, services, t))

LEMMA RankLeast ==
  ASSUME InputOK, NEW action, NEW services \in Seq(Services),
         NEW able \in SUBSET Engine!Range(services), able # {}
  PROVE  \E s \in able : RanksBefore(action, services, able, s)
<1> DEFINE v(s) == Worth(action, s)
           tie(s) == input.facts[s].tie
           at(s) == CHOOSE k \in 1 .. Len(services) : services[k] = s
<1>1. ASSUME NEW s \in able
      PROVE  /\ s \in Services /\ v(s) \in Nat /\ tie(s) \in Nat
             /\ at(s) \in 1 .. Len(services) /\ services[at(s)] = s
  <2>1. \E k \in 1 .. Len(services) : services[k] = s
    BY DEF Engine!Range
  <2>2. at(s) \in 1 .. Len(services) /\ services[at(s)] = s
    BY <2>1
  <2>3. s \in Services
    BY <2>2
  <2> QED BY <2>2, <2>3 DEF InputOK, FactOK, Worth
<1>2. ASSUME NEW s \in able
      PROVE  /\ Engine!Rank(action, services, s) = <<v(s), tie(s), at(s)>>
             /\ at(s) \in Nat
  BY <1>1 DEF Engine!Rank, Worth
<1> HIDE DEF v, tie, at
<1>3. ASSUME NEW S, S # {}, NEW f, \A s \in S : f[s] \in Nat
      PROVE  \E s \in S : \A t \in S : f[s] <= f[t]
  <2>1. {f[s] : s \in S} \in SUBSET Nat /\ {f[s] : s \in S} # {}
    BY <1>3
  <2>2. PICK x \in {f[s] : s \in S} : \A y \in {f[s] : s \in S} : x <= y
    BY <2>1, LeastOf
  <2> QED BY <2>2
<1> DEFINE vf == [s \in able |-> v(s)]
           tf == [s \in able |-> tie(s)]
           af == [s \in able |-> at(s)]
<1>4. PICK x \in able : \A t \in able : v(x) <= v(t)
  <2>1. \E s \in able : \A t \in able : vf[s] <= vf[t]
    <3>1. \A s \in able : vf[s] \in Nat
      BY <1>1
    <3> HIDE DEF vf
    <3> QED BY <1>3, <3>1
  <2> QED BY <2>1
<1> DEFINE T == {s \in able : v(s) = v(x)}
<1>5. PICK y \in T : \A t \in T : tie(y) <= tie(t)
  <2>1. \E s \in T : \A t \in T : tf[s] <= tf[t]
    <3>1. T # {} /\ \A s \in T : tf[s] \in Nat
      BY <1>1
    <3> HIDE DEF tf, T
    <3> QED BY <1>3, <3>1
  <2> QED BY <2>1
<1> DEFINE U == {s \in T : tie(s) = tie(y)}
<1>6. PICK z \in U : \A t \in U : at(z) <= at(t)
  <2>1. \E s \in U : \A t \in U : af[s] <= af[t]
    <3>1. U # {} /\ \A s \in U : af[s] \in Nat
      BY <1>2
    <3> HIDE DEF af, U
    <3> QED BY <1>3, <3>1
  <2> QED BY <2>1
<1>7. ASSUME NEW t \in able, t # z
      PROVE  Engine!Before(<<v(z), tie(z), at(z)>>, <<v(t), tie(t), at(t)>>)
  <2>1. /\ v(z) \in Nat /\ v(t) \in Nat /\ tie(z) \in Nat /\ tie(t) \in Nat /\ at(z) \in Nat /\ at(t) \in Nat
        /\ v(z) <= v(t) /\ v(z) = v(x) /\ tie(z) = tie(y)
    BY <1>1, <1>2, <1>4
  <2>2. v(t) = v(x) => tie(z) <= tie(t)
    BY <1>5, <2>1
  <2>3. v(t) = v(x) /\ tie(t) = tie(y) => at(z) <= at(t)
    BY <1>6
  <2>4. at(z) # at(t)
    BY <1>1, <1>7
  <2>5. \/ v(z) < v(t)
        \/ v(z) = v(t) /\ tie(z) < tie(t)
        \/ v(z) = v(t) /\ tie(z) = tie(t) /\ at(z) < at(t)
    BY <2>1, <2>2, <2>3, <2>4
  <2> DEFINE a == <<v(z), tie(z), at(z)>>
             b == <<v(t), tie(t), at(t)>>
  <2>6. /\ Len(a) = 3 /\ a[1] = v(z) /\ a[2] = tie(z) /\ a[3] = at(z)
        /\ b[1] = v(t) /\ b[2] = tie(t) /\ b[3] = at(t)
    OBVIOUS
  <2> HIDE DEF a, b
  <2>7. 1 .. 0 = {} /\ 1 .. 1 = {1} /\ 1 .. 2 = {1, 2} /\ 1 .. 3 = {1, 2, 3}
    OBVIOUS
  <2>8. Engine!Before(a, b)
    BY <2>5, <2>6, <2>7 DEF Engine!Before
  <2> QED BY <2>8 DEF a, b
<1>8. RanksBefore(action, services, able, z)
  BY <1>2, <1>7 DEF RanksBefore
<1> QED BY <1>8

\* What comes before by rank is worth no more, nor comes later in the merchant's order.
LEMMA RankMeans ==
  ASSUME InputOK, NEW action, NEW services \in Seq(Services), NEW s \in Services, NEW t \in Services,
         Engine!Before(Engine!Rank(action, services, s), Engine!Rank(action, services, t))
  PROVE  \/ Worth(action, s) < Worth(action, t)
         \/ Worth(action, s) = Worth(action, t) /\ input.facts[s].tie <= input.facts[t].tie
<1> DEFINE a == Engine!Rank(action, services, s)
           b == Engine!Rank(action, services, t)
<1>1. /\ Len(a) = 3 /\ a[1] = Worth(action, s) /\ a[2] = input.facts[s].tie
      /\ b[1] = Worth(action, t) /\ b[2] = input.facts[t].tie
  BY DEF Engine!Rank, Worth
<1>2. Worth(action, s) \in Nat /\ Worth(action, t) \in Nat /\ input.facts[s].tie \in Nat /\ input.facts[t].tie \in Nat
  BY DEF InputOK, FactOK, Worth
<1> HIDE DEF a, b
<1>3. 1 .. 0 = {} /\ 1 .. 1 = {1} /\ 1 .. 2 = {1, 2} /\ 1 .. 3 = {1, 2, 3}
  OBVIOUS
<1>4. Engine!Before(a, b)
  BY DEF a, b
<1>5. PICK k \in {1, 2, 3} : a[k] < b[k] /\ \A i \in 1 .. k - 1 : a[i] = b[i]
  BY <1>1, <1>3, <1>4 DEF Engine!Before
<1>6. CASE k = 1
  BY <1>1, <1>5, <1>6
<1>7. CASE k = 2
  BY <1>1, <1>2, <1>3, <1>5, <1>7
<1>8. CASE k = 3
  BY <1>1, <1>2, <1>3, <1>5, <1>8
<1> QED BY <1>5, <1>6, <1>7, <1>8

\* What is read of an input does not change while it is decided.
LEMMA InputStays ==
  ASSUME UNCHANGED input
  PROVE  /\ InputOK' <=> InputOK
         /\ Engine!Spoken' = Engine!Spoken /\ Engine!TheRule' = Engine!TheRule
         /\ \A s : Engine!Able(s)' <=> Engine!Able(s)
         /\ \A r, s : Engine!Allowed(r, s)' <=> Engine!Allowed(r, s)
         /\ \A s : Engine!UsablePrice(s)' <=> Engine!UsablePrice(s)
         /\ \A s : Engine!EddState(s)' = Engine!EddState(s)
<1>1. InputOK' <=> InputOK
  BY DEF InputOK
<1>2. Engine!Spoken' = Engine!Spoken
  BY DEF Engine!Spoken, Engine!Speaks
<1>3. Engine!TheRule' = Engine!TheRule
  BY <1>2 DEF Engine!TheRule
<1>4. \A s : Engine!Able(s)' <=> Engine!Able(s)
  BY DEF Engine!Able, Engine!Serviceable
<1>5. \A r, s : Engine!Allowed(r, s)' <=> Engine!Allowed(r, s)
  BY <1>4 DEF Engine!Allowed, Engine!FilterReasons
<1>6. \A s : Engine!UsablePrice(s)' <=> Engine!UsablePrice(s)
  BY DEF Engine!UsablePrice
<1>7. \A s : Engine!EddState(s)' = Engine!EddState(s)
  BY DEF Engine!EddState
<1> QED BY <1>1, <1>2, <1>3, <1>4, <1>5, <1>6, <1>7

\* The default chain gives its first able service that nothing was found against.
LEMMA DefaultChain ==
  ASSUME InputOK, NEW before, Engine!RunDefaultChain(before)
  PROVE  \/ /\ \E reason \in {"NO_RULE_AND_NO_DEFAULT_CHAIN", "NO_SERVICEABLE_CANDIDATE"} :
                 outcome' = Engine!Manual(reason)
            /\ \A k \in 1 .. Len(input.chain) : before[input.chain[k]] = {} => ~Engine!Able(input.chain[k])
         \/ \E n \in 1 .. Len(input.chain) :
              /\ outcome' = Engine!Selected(input.chain[n]) /\ Engine!Able(input.chain[n])
              /\ \A k \in 1 .. Len(input.chain) :
                   before[input.chain[k]] = {} /\ Engine!Able(input.chain[k]) => n <= k
<1> DEFINE chain == input.chain
           otherwise == IF Engine!Matched = 0 THEN "NO_RULE_AND_NO_DEFAULT_CHAIN" ELSE "NO_SERVICEABLE_CANDIDATE"
           found == Engine!BuildRun(before, chain, {}, {})
           n == Engine!First(found, chain)
<1>1. chain \in Seq(Services) /\ otherwise \in {"NO_RULE_AND_NO_DEFAULT_CHAIN", "NO_SERVICEABLE_CANDIDATE"}
  BY DEF InputOK
<1>2. CASE chain = << >>
  <2>1. outcome' = Engine!Manual(otherwise)
    BY <1>2 DEF Engine!RunDefaultChain
  <2>2. 1 .. Len(chain) = {}
    BY <1>2
  <2> HIDE DEF otherwise, chain
  <2>3. \A k \in 1 .. Len(chain) : before[chain[k]] = {} => ~Engine!Able(chain[k])
    BY <2>2
  <2> QED BY <1>1, <2>1, <2>3 DEF chain
<1>3. CASE chain # << >>
  <2>1. outcome' = IF n = 0 THEN Engine!Manual(otherwise) ELSE Engine!Selected(chain[n])
    BY <1>3 DEF Engine!RunDefaultChain, Engine!RunPriorityChain
  <2>2. ASSUME NEW k \in 1 .. Len(chain)
        PROVE  Qualifies(found, chain[k]) <=> before[chain[k]] = {} /\ Engine!Able(chain[k])
    <3>1. chain[k] \in Services /\ chain[k] \in Engine!Range(chain)
      BY <1>1 DEF Engine!Range
    <3>2. Engine!FilterReasons(chain[k], {}) = {}
      BY DEF Engine!FilterReasons
    <3>3. found[chain[k]] = {} <=>
            before[chain[k]] = {} /\ input.facts[chain[k]].row /\ input.facts[chain[k]].bookable
      BY <3>1, <3>2, RunFinds
    <3> HIDE DEF found
    <3> QED BY <3>3 DEF Qualifies, Engine!Able
  <2>3. \/ n = 0 /\ \A k \in 1 .. Len(chain) : ~Qualifies(found, chain[k])
        \/ /\ n \in 1 .. Len(chain) /\ n # 0 /\ Qualifies(found, chain[n])
           /\ \A k \in 1 .. Len(chain) : Qualifies(found, chain[k]) => n <= k
    BY <1>1, ChainFinds
  <2> HIDE DEF found, n, otherwise, chain
  <2> QED BY <1>1, <2>1, <2>2, <2>3 DEF chain
<1> QED BY <1>2, <1>3

\* The rule's own run.
LEMMA RuleRun ==
  ASSUME InputOK, NEW r, RuleOK(r), NEW found,
         found = Engine!BuildRun([s \in Services |-> {}], r.services, Engine!Excluded(r), Engine!CandidateFilters(r)),
         NEW s \in Services, s \in Engine!Range(r.services)
  PROVE  Qualifies(found, s) <=> Engine!Allowed(r, s)
<1>1. found[s] = {} <=>
        /\ input.facts[s].row /\ input.facts[s].bookable /\ s \notin Engine!Excluded(r)
        /\ Engine!FilterReasons(s, Engine!CandidateFilters(r)) = {}
  BY RunFinds
<1> QED BY <1>1 DEF Qualifies, Engine!Allowed, Engine!Able, Engine!Excluded

\* The decisions are different.
LEMMA DecisionsDiffer ==
  /\ \A reason : Engine!Manual(reason).kind = "MANUAL_ASSIGNMENT" /\ Engine!Manual(reason).reason = reason
  /\ \A s : Engine!Selected(s).kind = "SELECTED" /\ Engine!Selected(s).service = s
  /\ Engine!Pending.kind = "pending"
BY DEF Engine!Manual, Engine!Selected, Engine!Pending

\* What the first rule's action would choose from.
Good(r) ==
  {s \in Services : /\ Engine!Allowed(r, s)
                    /\ r.action = "CHEAPEST" => Engine!UsablePrice(s)
                    /\ r.action = "FASTEST" => Engine!EddState(s) = "USABLE"}
WorthTo(r, s) == IF r.action \in {"CHEAPEST", "FASTEST"} THEN Worth(r.action, s) ELSE Engine!Place(r.services, s)

\* The property, of a decision o in the input that is there.
Honours(o, r) ==
  /\ r.action = "MANUAL_ONLY" <=> o = Engine!Manual("HELD_BY_RULE")
  /\ r.action # "MANUAL_ONLY" /\ Good(r) # {} =>
       /\ o.kind = "SELECTED" /\ o.service \in Good(r)
       /\ \A s \in Good(r) :
            \/ WorthTo(r, o.service) < WorthTo(r, s)
            \/ /\ WorthTo(r, o.service) = WorthTo(r, s)
               /\ input.facts[o.service].tie <= input.facts[s].tie
  /\ r.action = "PRIORITY_CHAIN" /\ Good(r) = {} => o = Engine!Manual("CHAIN_EXHAUSTED")

LEMMA HonouredStands ==
  ASSUME InputOK, UNCHANGED input, Engine!Spoken # {} => RuleOK(Engine!TheRule) /\ Honours(outcome', Engine!TheRule)
  PROVE  Engine!TopRuleDecides'
<1> DEFINE r == Engine!TheRule
           may == {s \in Services : Engine!Allowed(r, s)}
           good == CASE r.action = "CHEAPEST" -> {s \in may : Engine!UsablePrice(s)}
                     [] r.action = "FASTEST" -> {s \in may : Engine!EddState(s) = "USABLE"}
                     [] OTHER -> may
           worth(s) == CASE r.action = "CHEAPEST" -> input.facts[s].price
                         [] r.action = "FASTEST" -> input.facts[s].edd
                         [] OTHER -> Engine!Place(r.services, s)
<1>1. good = Good(r) /\ \A s : worth(s) = WorthTo(r, s)
  <2>1. CASE r.action = "CHEAPEST"
    BY <2>1 DEF Good, WorthTo, Worth
  <2>2. CASE r.action = "FASTEST"
    BY <2>2 DEF Good, WorthTo, Worth
  <2>3. CASE r.action \notin {"CHEAPEST", "FASTEST"}
    BY <2>3 DEF Good, WorthTo, Worth
  <2> QED BY <2>1, <2>2, <2>3
<1> DEFINE Decides(o) ==
             /\ r.action = "MANUAL_ONLY" <=> o = Engine!Manual("HELD_BY_RULE")
             /\ r.action # "MANUAL_ONLY" /\ good # {} =>
                  /\ o.kind = "SELECTED" /\ o.service \in good
                  /\ \A s \in good :
                       \/ worth(o.service) < worth(s)
                       \/ /\ worth(o.service) = worth(s)
                          /\ input.facts[o.service].tie <= input.facts[s].tie
             /\ r.action = "PRIORITY_CHAIN" /\ good = {} => o = Engine!Manual("CHAIN_EXHAUSTED")
<1>2. Engine!Spoken # {} => Decides(outcome')
  <2> HIDE DEF good, worth
  <2> QED BY <1>1 DEF Honours
<1> HIDE DEF Decides
<1>3. (Engine!Spoken # {} => Decides(outcome')) => Engine!TopRuleDecides'
  BY InputStays DEF Engine!TopRuleDecides, Decides, good, worth, may, r
<1> QED BY <1>2, <1>3

\* PRIORITY_CHAIN: the first of the rule's services that it allows.
LEMMA ChainHonours ==
  ASSUME InputOK, NEW r, RuleOK(r), r.action = "PRIORITY_CHAIN", NEW found,
         found = Engine!BuildRun([s \in Services |-> {}], r.services, Engine!Excluded(r), Engine!CandidateFilters(r)),
         Engine!RunPriorityChain(found, r.services, "CHAIN_EXHAUSTED")
  PROVE  Honours(outcome', r) /\ (outcome'.kind = "SELECTED" => Engine!Able(outcome'.service))
<1> DEFINE services == r.services
           n == Engine!First(found, services)
<1>1. services \in Seq(Services) /\ Len(services) \in Nat
  BY DEF RuleOK
<1>2. ASSUME NEW k \in 1 .. Len(services)
      PROVE  /\ services[k] \in Services /\ services[k] \in Engine!Range(services)
             /\ Qualifies(found, services[k]) <=> services[k] \in Good(r)
  <2>1. services[k] \in Services /\ services[k] \in Engine!Range(services)
    BY <1>1 DEF Engine!Range
  <2>2. Qualifies(found, services[k]) <=> Engine!Allowed(r, services[k])
    BY <2>1, RuleRun
  <2> QED BY <2>1, <2>2 DEF Good
<1>3. ASSUME NEW s \in Good(r)
      PROVE  /\ Engine!Able(s) /\ WorthTo(r, s) \in 1 .. Len(services) /\ services[WorthTo(r, s)] = s
             /\ \A k \in 1 .. Len(services) : services[k] = s => WorthTo(r, s) <= k
  <2> DEFINE S == {k \in 1 .. Len(services) : services[k] = s}
  <2>1. s \in Engine!Range(services) /\ Engine!Able(s)
    BY <1>3 DEF Good, Engine!Allowed
  <2>2. \E k \in 1 .. Len(services) : services[k] = s
    BY <1>1, <2>1 DEF Engine!Range
  <2>3. S \in SUBSET Nat /\ S # {}
    BY <2>2
  <2>4. WorthTo(r, s) = Engine!Min(S)
    BY DEF WorthTo, Engine!Place
  <2>5. Engine!Min(S) \in S /\ \A k \in S : Engine!Min(S) <= k
    <3> HIDE DEF S
    <3> QED BY <2>3, LeastOf
  <2> QED BY <2>1, <2>4, <2>5
<1>4. outcome' = IF n = 0 THEN Engine!Manual("CHAIN_EXHAUSTED") ELSE Engine!Selected(services[n])
  BY DEF Engine!RunPriorityChain
<1>5. \/ n = 0 /\ \A k \in 1 .. Len(services) : ~Qualifies(found, services[k])
      \/ /\ n \in 1 .. Len(services) /\ n # 0 /\ Qualifies(found, services[n])
         /\ \A k \in 1 .. Len(services) : Qualifies(found, services[k]) => n <= k
  BY <1>1, ChainFinds
<1> HIDE DEF n, services
<1>6. CASE n = 0
  <2>1. Good(r) = {}
    <3>1. ASSUME NEW s \in Good(r) PROVE FALSE
      BY <1>2, <1>3, <1>5, <1>6
    <3> QED BY <3>1
  <2>2. outcome' = Engine!Manual("CHAIN_EXHAUSTED")
    BY <1>4, <1>6
  <2> QED BY <2>1, <2>2, DecisionsDiffer DEF Honours
<1>7. CASE n # 0
  <2> DEFINE out == services[n]
  <2>1. outcome' = Engine!Selected(out) /\ n \in 1 .. Len(services) /\ out \in Good(r) /\ out \in Services
    BY <1>2, <1>4, <1>5, <1>7
  <2>2. \A k \in 1 .. Len(services) : services[k] \in Good(r) => n <= k
    BY <1>2, <1>5, <1>7
  <2>3. ASSUME NEW s \in Good(r)
        PROVE  \/ WorthTo(r, out) < WorthTo(r, s)
               \/ WorthTo(r, out) = WorthTo(r, s) /\ input.facts[out].tie <= input.facts[s].tie
    <3> DEFINE w == WorthTo(r, out)
               x == WorthTo(r, s)
    <3>1. w \in 1 .. Len(services) /\ w <= n /\ services[w] = out
      BY <1>3, <2>1
    <3>2. x \in 1 .. Len(services) /\ services[x] = s /\ n <= x
      BY <1>3, <2>2
    <3>3. input.facts[out].tie \in Nat
      BY <2>1 DEF InputOK, FactOK
    <3> HIDE DEF w, x, out
    <3>4. w < x \/ w = x
      BY <1>1, <2>1, <3>1, <3>2
    <3>5. w = x => out = s
      BY <3>1, <3>2
    <3>6. input.facts[out].tie <= input.facts[out].tie
      BY <3>3
    <3> QED BY <3>4, <3>5, <3>6 DEF w, x
  <2> HIDE DEF out
  <2>4. outcome'.kind = "SELECTED" /\ outcome'.service = out /\ outcome' # Engine!Manual("HELD_BY_RULE")
    BY <2>1, DecisionsDiffer
  <2>5. Engine!Able(out)
    BY <1>3, <2>1
  <2> QED BY <2>1, <2>3, <2>4, <2>5 DEF Honours
<1> QED BY <1>6, <1>7

\* CHEAPEST and FASTEST: of what is allowed and has a price or a date, the least;
\* if nothing has, the default chain is asked.
LEMMA OptimumHonours ==
  ASSUME InputOK, NEW r, RuleOK(r), r.action \in {"CHEAPEST", "FASTEST"}, NEW found,
         found = Engine!BuildRun([s \in Services |-> {}], r.services, Engine!Excluded(r), Engine!CandidateFilters(r)),
         Engine!Optimise(r.action, r.services, found)
  PROVE  Honours(outcome', r) /\ (outcome'.kind = "SELECTED" => Engine!Able(outcome'.service))
<1> DEFINE services == r.services
           survivors == {s \in Engine!Range(services) : found[s] = {}}
           able == {s \in survivors : Engine!Objection(r.action, s) = "NONE"}
           after == [s \in Services |->
                       IF s \in survivors \ able THEN {Engine!Objection(r.action, s)} ELSE found[s]]
<1>1. services \in Seq(Services) /\ Engine!Range(services) \subseteq Services
  BY DEF RuleOK, Engine!Range
<1>2. able = Good(r)
  <2>1. ASSUME NEW s \in Services
        PROVE  Engine!Objection(r.action, s) = "NONE" <=>
                 /\ Engine!Serviceable(s)
                 /\ r.action = "CHEAPEST" => Engine!UsablePrice(s)
                 /\ r.action = "FASTEST" => Engine!EddState(s) = "USABLE"
    <3>1. Engine!EddState(s) \in {"EDD_MISSING", "EDD_STALE", "USABLE"}
      BY DEF Engine!EddState
    <3>2. CASE ~Engine!Serviceable(s)
      BY <3>2 DEF Engine!Objection
    <3>3. CASE Engine!Serviceable(s) /\ r.action = "CHEAPEST"
      BY <3>3 DEF Engine!Objection
    <3>4. CASE Engine!Serviceable(s) /\ r.action = "FASTEST"
      BY <3>1, <3>4 DEF Engine!Objection
    <3> QED BY <3>2, <3>3, <3>4
  <2>2. ASSUME NEW s \in Services, s \in Engine!Range(services)
        PROVE  found[s] = {} /\ Engine!Serviceable(s) <=> Engine!Allowed(r, s)
    BY <2>2, RuleRun DEF Qualifies
  <2>3. ASSUME NEW s, Engine!Allowed(r, s) PROVE s \in Engine!Range(services)
    BY <2>3 DEF Engine!Allowed
  <2> HIDE DEF services
  <2> QED BY <1>1, <2>1, <2>2, <2>3 DEF Good
<1>3. CASE able = {}
  <2>1. Engine!RunDefaultChain(after)
    BY <1>3 DEF Engine!Optimise
  <2>2. \/ \E reason \in {"NO_RULE_AND_NO_DEFAULT_CHAIN", "NO_SERVICEABLE_CANDIDATE"} :
              outcome' = Engine!Manual(reason)
        \/ \E n \in 1 .. Len(input.chain) :
              outcome' = Engine!Selected(input.chain[n]) /\ Engine!Able(input.chain[n])
    <3> HIDE DEF after
    <3> QED BY <2>1, DefaultChain
  <2>3. outcome' # Engine!Manual("HELD_BY_RULE") /\ (outcome'.kind = "SELECTED" => Engine!Able(outcome'.service))
    BY <2>2, DecisionsDiffer
  <2> QED BY <1>2, <1>3, <2>3 DEF Honours
<1>4. CASE able # {}
  <2> DEFINE best == CHOOSE s \in able : \A t \in able \ {s} :
                       Engine!Before(Engine!Rank(r.action, services, s), Engine!Rank(r.action, services, t))
  <2>1. outcome' = Engine!Selected(best)
    BY <1>4 DEF Engine!Optimise
  <2>2. best \in able /\ RanksBefore(r.action, services, able, best)
    <3>1. able \in SUBSET Engine!Range(services)
      OBVIOUS
    <3>2. \E s \in able : RanksBefore(r.action, services, able, s)
      <4> HIDE DEF able, services
      <4> QED BY <1>1, <1>4, <3>1, RankLeast
    <3> HIDE DEF able, services
    <3> QED BY <3>2 DEF RanksBefore
  <2> HIDE DEF best, able
  <2>3. \A s \in Good(r) : s \in Services /\ Engine!Able(s) /\ WorthTo(r, s) = Worth(r.action, s)
    BY DEF Good, Engine!Allowed, WorthTo
  <2>4. ASSUME NEW s \in Good(r)
        PROVE  \/ WorthTo(r, best) < WorthTo(r, s)
               \/ WorthTo(r, best) = WorthTo(r, s) /\ input.facts[best].tie <= input.facts[s].tie
    <3>1. CASE s = best
      <4>1. input.facts[best].tie \in Nat
        BY <1>2, <2>2, <2>3 DEF InputOK, FactOK
      <4> QED BY <3>1, <4>1
    <3>2. CASE s # best
      <4>1. Engine!Before(Engine!Rank(r.action, services, best), Engine!Rank(r.action, services, s))
        BY <1>2, <2>2, <3>2 DEF RanksBefore
      <4>2. best \in Good(r)
        BY <1>2, <2>2
      <4> HIDE DEF services
      <4>3. \/ Worth(r.action, best) < Worth(r.action, s)
            \/ Worth(r.action, best) = Worth(r.action, s) /\ input.facts[best].tie <= input.facts[s].tie
        BY <1>1, <2>3, <4>1, <4>2, RankMeans
      <4> QED BY <2>3, <4>2, <4>3
    <3> QED BY <3>1, <3>2
  <2>5. outcome'.kind = "SELECTED" /\ outcome'.service = best /\ outcome' # Engine!Manual("HELD_BY_RULE")
    BY <2>1, DecisionsDiffer
  <2> QED BY <1>2, <2>2, <2>3, <2>4, <2>5 DEF Honours
<1> QED BY <1>3, <1>4

\* Without a rule, the first able service of the default chain.
LEMMA NoRuleStands ==
  ASSUME InputOK, UNCHANGED input, Engine!Spoken = {}, Engine!RunDefaultChain([s \in Services |-> {}])
  PROVE  Engine!RoutingStands'
<1> DEFINE chain == input.chain
           before == [s \in Services |-> {}]
<1>1. chain \in Seq(Services) /\ Len(chain) \in Nat /\ \A k \in 1 .. Len(chain) : before[chain[k]] = {}
  BY DEF InputOK
<1>2. \/ /\ \E reason \in {"NO_RULE_AND_NO_DEFAULT_CHAIN", "NO_SERVICEABLE_CANDIDATE"} :
              outcome' = Engine!Manual(reason)
         /\ \A k \in 1 .. Len(chain) : ~Engine!Able(chain[k])
      \/ \E n \in 1 .. Len(chain) :
           /\ outcome' = Engine!Selected(chain[n]) /\ Engine!Able(chain[n])
           /\ \A k \in 1 .. Len(chain) : Engine!Able(chain[k]) => n <= k
  <2>1. \/ /\ \E reason \in {"NO_RULE_AND_NO_DEFAULT_CHAIN", "NO_SERVICEABLE_CANDIDATE"} :
                outcome' = Engine!Manual(reason)
           /\ \A k \in 1 .. Len(chain) : before[chain[k]] = {} => ~Engine!Able(chain[k])
        \/ \E n \in 1 .. Len(chain) :
             /\ outcome' = Engine!Selected(chain[n]) /\ Engine!Able(chain[n])
             /\ \A k \in 1 .. Len(chain) : before[chain[k]] = {} /\ Engine!Able(chain[k]) => n <= k
    BY DefaultChain
  <2> QED BY <1>1, <2>1
<1> HIDE DEF chain, before
<1>3. ASSUME NEW s \in Engine!Range(chain)
      PROVE  /\ Engine!Place(chain, s) \in 1 .. Len(chain) /\ chain[Engine!Place(chain, s)] = s
             /\ \A k \in 1 .. Len(chain) : chain[k] = s => Engine!Place(chain, s) <= k
  <2> DEFINE S == {k \in 1 .. Len(chain) : chain[k] = s}
  <2>1. S \in SUBSET Nat /\ S # {}
    BY <1>1 DEF Engine!Range
  <2>2. Engine!Min(S) \in S /\ \A k \in S : Engine!Min(S) <= k
    <3> HIDE DEF S
    <3> QED BY <2>1, LeastOf
  <2> QED BY <2>2 DEF Engine!Place
<1>4. outcome'.kind = "SELECTED" => Engine!Able(outcome'.service)
  BY <1>2, DecisionsDiffer
<1>5. ASSUME NEW s \in Engine!Range(chain), Engine!Able(s)
      PROVE  /\ outcome'.kind = "SELECTED"
             /\ Engine!Place(chain, outcome'.service) <= Engine!Place(chain, s)
  <2>1. chain[Engine!Place(chain, s)] = s /\ Engine!Place(chain, s) \in 1 .. Len(chain)
    BY <1>3
  <2>2. PICK n \in 1 .. Len(chain) :
           /\ outcome' = Engine!Selected(chain[n])
           /\ \A k \in 1 .. Len(chain) : Engine!Able(chain[k]) => n <= k
    BY <1>2, <1>5, <2>1
  <2>3. outcome'.kind = "SELECTED" /\ outcome'.service = chain[n] /\ n <= Engine!Place(chain, s)
    BY <1>5, <2>1, <2>2, DecisionsDiffer
  <2>4. chain[n] \in Engine!Range(chain)
    BY <1>1 DEF Engine!Range
  <2>5. Engine!Place(chain, chain[n]) <= n /\ Engine!Place(chain, chain[n]) \in 1 .. Len(chain)
    BY <1>3, <2>4
  <2> QED BY <1>1, <2>1, <2>3, <2>5
<1>6. Engine!TopRuleDecides'
  BY HonouredStands
<1>7. Engine!SelectedIsAble'
  BY <1>4, <1>5, InputStays DEF Engine!SelectedIsAble, chain
<1> QED BY <1>6, <1>7 DEF Engine!RoutingStands

LEMMA EvaluateStands ==
  ASSUME InputOK, results = [s \in Services |-> {}], Engine!Evaluate
  PROVE  InputOK' /\ outcome' # Engine!Pending /\ Engine!RoutingStands'
<1>1. UNCHANGED input /\ (InputOK' <=> InputOK)
  BY InputStays DEF Engine!Evaluate
<1>2. CASE Engine!Spoken = {}
  <2>1. Engine!RunDefaultChain([s \in Services |-> {}])
    BY <1>2, ScanFinds DEF Engine!Evaluate
  <2>2. outcome' # Engine!Pending
    BY <2>1, DefaultChain, DecisionsDiffer
  <2> QED BY <1>1, <1>2, <2>1, <2>2, NoRuleStands
<1>3. CASE Engine!Spoken # {}
  <2> DEFINE r == Engine!TheRule
             found == Engine!BuildRun([s \in Services |-> {}], r.services, Engine!Excluded(r), Engine!CandidateFilters(r))
  <2>1. Engine!Matched # 0 /\ r = input.rules[Engine!Matched] /\ RuleOK(r)
    BY <1>3, ScanFinds DEF InputOK
  <2>2. ASSUME r.action = "MANUAL_ONLY"
       PROVE  /\ outcome' # Engine!Pending /\ Honours(outcome', r)
              /\ outcome'.kind = "SELECTED" => Engine!Able(outcome'.service)
    <3>1. outcome' = Engine!Manual("HELD_BY_RULE")
      BY <2>1, <2>2 DEF Engine!Evaluate
    <3> HIDE DEF r
    <3>2. Honours(outcome', r) /\ outcome'.kind # "SELECTED" /\ outcome' # Engine!Pending
      BY <2>2, <3>1, DecisionsDiffer DEF Honours
    <3> QED BY <3>2
  <2>3. ASSUME r.action = "PRIORITY_CHAIN"
       PROVE  /\ outcome' # Engine!Pending /\ Honours(outcome', r)
              /\ outcome'.kind = "SELECTED" => Engine!Able(outcome'.service)
    <3>1. Engine!RunPriorityChain(found, r.services, "CHAIN_EXHAUSTED")
      BY <2>1, <2>3 DEF Engine!Evaluate
    <3>2. outcome' # Engine!Pending
      BY <3>1, DecisionsDiffer DEF Engine!RunPriorityChain
    <3> HIDE DEF found
    <3>3. found = Engine!BuildRun([s \in Services |-> {}], r.services, Engine!Excluded(r), Engine!CandidateFilters(r))
      BY DEF found
    <3> HIDE DEF r
    <3>4. Honours(outcome', r) /\ (outcome'.kind = "SELECTED" => Engine!Able(outcome'.service))
      BY <2>1, <2>3, <3>1, <3>3, ChainHonours
    <3> QED BY <3>2, <3>4
  <2>4. ASSUME r.action \in {"CHEAPEST", "FASTEST"}
       PROVE  /\ outcome' # Engine!Pending /\ Honours(outcome', r)
              /\ outcome'.kind = "SELECTED" => Engine!Able(outcome'.service)
    <3>1. Engine!Optimise(r.action, r.services, found)
      BY <2>1, <2>4 DEF Engine!Evaluate
    <3>2. outcome' # Engine!Pending
      BY <3>1, DefaultChain, DecisionsDiffer DEF Engine!Optimise
    <3> HIDE DEF found
    <3>3. found = Engine!BuildRun([s \in Services |-> {}], r.services, Engine!Excluded(r), Engine!CandidateFilters(r))
      BY DEF found
    <3> HIDE DEF r
    <3>4. Honours(outcome', r) /\ (outcome'.kind = "SELECTED" => Engine!Able(outcome'.service))
      BY <2>1, <2>4, <3>1, <3>3, OptimumHonours
    <3> QED BY <3>2, <3>4
  <2> HIDE DEF found
  <2>5. /\ outcome' # Engine!Pending /\ Honours(outcome', r)
        /\ outcome'.kind = "SELECTED" => Engine!Able(outcome'.service)
    BY <2>1, <2>2, <2>3, <2>4 DEF RuleOK
  <2>6. Engine!TopRuleDecides'
    BY <1>1, <2>1, <2>5, HonouredStands
  <2>7. Engine!SelectedIsAble'
    BY <1>1, <1>3, <2>5, InputStays DEF Engine!SelectedIsAble
  <2> QED BY <1>1, <2>5, <2>6, <2>7 DEF Engine!RoutingStands
<1> QED BY <1>2, <1>3

\* An input is decided once, from what nothing was found against yet.
EngineInv ==
  focus = "engine" =>
    /\ InputOK /\ Engine!RoutingStands
    /\ outcome = Engine!Pending => results = [s \in Services |-> {}]

\* evaluate.ts: whatever the rules, the facts and the default chain, the first
\* rule that speaks for the order decides by its action, what it selects it
\* allows and nothing allowed is better, and what is selected can be booked.
THEOREM TheFirstRuleRoutes == MCSpec => []RoutingStands
<1>1. MCInit => EngineInv
  <2> SUFFICES ASSUME MCInit PROVE EngineInv
    OBVIOUS
  <2>1. /\ input \in [rules : Books, chain : Chains, facts : [Services -> Facts], now : {1}]
        /\ results = [s \in Services |-> {}] /\ outcome = Engine!Pending
    BY DEF MCInit, Engine!Init
  <2>2. InputOK
    BY <2>1, EngineAssumption DEF InputOK
  <2>3. Engine!RoutingStands
    BY <2>1, DecisionsDiffer DEF Engine!RoutingStands, Engine!TopRuleDecides, Engine!SelectedIsAble
  <2> QED BY <2>1, <2>2, <2>3 DEF EngineInv
<1>2. EngineInv /\ [MCNext]_<<focus, vars, engineVars, bookVars, gstVars>> => EngineInv'
  <2> SUFFICES ASSUME EngineInv, [MCNext]_<<focus, vars, engineVars, bookVars, gstVars>> PROVE EngineInv'
    OBVIOUS
  <2>1. CASE focus = "engine" /\ Engine!Next /\ UNCHANGED <<focus, vars, bookVars, gstVars>>
    <3>1. Engine!Evaluate /\ outcome = Engine!Pending
      BY <2>1 DEF Engine!Next, Engine!Evaluate
    <3> QED BY <2>1, <3>1, EvaluateStands DEF EngineInv
  <2>2. CASE UNCHANGED <<focus, engineVars>>
    <3>1. UNCHANGED input /\ outcome' = outcome /\ results' = results /\ focus' = focus
      BY <2>2 DEF engineVars
    <3>2. Engine!RoutingStands' <=> Engine!RoutingStands
      BY <3>1, InputStays DEF Engine!RoutingStands, Engine!TopRuleDecides, Engine!SelectedIsAble
    <3> QED BY <3>1, <3>2, InputStays DEF EngineInv
  <2>3. CASE focus # "engine" /\ UNCHANGED focus
    BY <2>3 DEF EngineInv
  <2> QED BY <2>1, <2>2, <2>3 DEF MCNext
<1>3. EngineInv => RoutingStands
  BY DEF EngineInv, RoutingStands
<1> QED BY <1>1, <1>2, <1>3, PTL DEF MCSpec

=============================================================================
