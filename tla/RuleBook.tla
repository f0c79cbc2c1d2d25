------------------------------- MODULE RuleBook -------------------------------
(***************************************************************************)
(* A shop's rules as rows: members edit, switch, order and delete them     *)
(* under optimistic versions and keep saved zones, while evaluations read  *)
(* the rows of a rule in one statement after another, each with a snapshot *)
(* of its own (READ COMMITTED).                                            *)
(***************************************************************************)
EXTENDS Integers, FiniteSets, FiniteSetsExt, Functions

CONSTANTS
  Rules,        \* rule ids, and the order they are created in
  Conditions,   \* conditions a member may write; one names the saved zone
  Contents,     \* the sets of groups of them that members write
  InZone,       \* the condition IN_SAVED_ZONE
  Members,      \* the members' forms
  Evaluations,  \* the evaluations
  MaxVersion    \* bound on a rule's version

VARIABLES
  rule,      \* the rows of rule
  group,     \* rows of rule_condition_group: <<rule, id>>
  cond,      \* rows of rule_condition: <<rule, group id, condition>>
  zone,      \* whether the saved zone stands
  trace,     \* rows of rule_evaluation_trace
  form,      \* what each member has in the browser
  eval,      \* the locals of loadForShipment
  written    \* the contents each rule ever had

bookVars == <<rule, group, cond, zone, trace, form, eval, written>>

NoRule == [exists |-> FALSE, version |-> 0, active |-> FALSE, position |-> 0]
Blank == [pc |-> "idle", rule |-> 0, version |-> 0, content |-> {}, conds |-> {}]
Reading == [pc |-> "idle", rules |-> [r \in {} |-> 0], groups |-> {}, conds |-> {}]

Init ==
  /\ rule = [r \in Rules |-> NoRule]
  /\ group = {} /\ cond = {} /\ zone = TRUE /\ trace = {}
  /\ form = [m \in Members |-> Blank]
  /\ eval = [e \in Evaluations |-> Reading]
  /\ written = [r \in Rules |-> {}]

----------------------------------------------------------------------------
(* A rule's content is a set of groups, a group a set of conditions.  The  *)
(* rows of a write carry ids of their own: the version that wrote them.    *)

Ids(r, v, content) == {<<r, <<v, g>>>> : g \in content}
Rows(r, v, content) == UNION {{<<r, <<v, g>>, c>> : c \in g} : g \in content}
GroupsOf(groups, r) == {x \in groups : x[1] = r}
ContentOf(groups, conds, r) ==
  {{x[3] : x \in {y \in conds : y[2] = g[2]}} : g \in GroupsOf(groups, r)}

Live == {r \in Rules : rule[r].exists}
\* assertSavedZone.
ZoneThere(content) == zone \/ ~\E g \in content : InZone \in g

InsertChildren(r, v, content) ==
  /\ group' = {x \in group : x[1] # r} \cup Ids(r, v, content)
  /\ cond' = {x \in cond : x[1] # r} \cup Rows(r, v, content)
  /\ written' = [written EXCEPT ![r] = @ \cup {content}]

\* create: at the bottom of the list.
Create(r, content) ==
  /\ ~rule[r].exists /\ written[r] = {} /\ ZoneThere(content)
  /\ rule' = [rule EXCEPT ![r] =
       [exists |-> TRUE, version |-> 1, active |-> TRUE,
        position |-> Max({0} \cup {rule[x].position : x \in Live}) + 1]]
  /\ InsertChildren(r, 1, content)
  /\ UNCHANGED <<zone, trace, form, eval>>

----------------------------------------------------------------------------
(* The forms: get reads the rule and then its children, the member edits,  *)
(* and the write carries the version that was read.                        *)

GetRule(m, r) ==
  /\ form[m].pc = "idle" /\ rule[r].exists
  /\ form' = [form EXCEPT ![m] = [Blank EXCEPT !.pc = "children", !.rule = r,
                                               !.version = rule[r].version]]
  /\ UNCHANGED <<rule, group, cond, zone, trace, eval, written>>
LoadChildren(m) ==
  /\ form[m].pc = "children"
  /\ form' = [form EXCEPT ![m].pc = "shown",
                          ![m].content = ContentOf(group, cond, form[m].rule)]
  /\ UNCHANGED <<rule, group, cond, zone, trace, eval, written>>

CurrentBug(m) == rule[form[m].rule].exists
Current(m) == rule[form[m].rule].exists /\ rule[form[m].rule].version = form[m].version

\* A write answered with VERSION_CONFLICT changes nothing.
Conflict(m) ==
  /\ form[m].pc = "shown" /\ ~Current(m)
  /\ form' = [form EXCEPT ![m] = Blank]
  /\ UNCHANGED <<rule, group, cond, zone, trace, eval, written>>
Update(m, content) ==
  LET r == form[m].rule IN
  /\ form[m].pc = "shown" /\ Current(m)
  /\ ZoneThere(content)
  /\ rule[r].version < MaxVersion
  /\ rule' = [rule EXCEPT ![r].version = @ + 1]
  /\ InsertChildren(r, rule[r].version + 1, content)
  /\ form' = [form EXCEPT ![m] = Blank]
  /\ UNCHANGED <<zone, trace, eval>>
SetActive(m) ==
  LET r == form[m].rule IN
  /\ form[m].pc = "shown" /\ Current(m)
  /\ rule[r].version < MaxVersion
  /\ rule' = [rule EXCEPT ![r].active = ~@, ![r].version = @ + 1]
  /\ form' = [form EXCEPT ![m] = Blank]
  /\ UNCHANGED <<group, cond, zone, trace, eval, written>>

\* reorder carries no version: it names every rule of the shop.
Reorder(order) ==
  /\ \A r \in Live : rule[r].version < MaxVersion
  /\ rule' = [r \in Rules |->
       IF r \in Live THEN [rule[r] EXCEPT !.position = order[r], !.version = @ + 1] ELSE rule[r]]
  /\ UNCHANGED <<group, cond, zone, trace, form, eval, written>>

----------------------------------------------------------------------------
(* What is still used is not deleted: a count, and then the DELETE.        *)

\* remove of a rule.
CountTraces(m, r) ==
  /\ form[m].pc = "idle" /\ rule[r].exists
  /\ ~\E t \in trace : t.rule = r
  /\ form' = [form EXCEPT ![m] = [Blank EXCEPT !.pc = "remove", !.rule = r]]
  /\ UNCHANGED <<rule, group, cond, zone, trace, eval, written>>
Remove(m) ==
  LET r == form[m].rule IN
  /\ form[m].pc = "remove"
  /\ rule' = [rule EXCEPT ![r] = NoRule]
  /\ group' = {x \in group : x[1] # r} /\ cond' = {x \in cond : x[1] # r}
  /\ form' = [form EXCEPT ![m] = Blank]
  /\ UNCHANGED <<zone, trace, eval, written>>

\* remove of the saved zone.
CountConditions(m) ==
  /\ form[m].pc = "idle" /\ zone
  /\ ~\E x \in cond : x[3] = InZone
  /\ form' = [form EXCEPT ![m] = [Blank EXCEPT !.pc = "zone"]]
  /\ UNCHANGED <<rule, group, cond, zone, trace, eval, written>>
RemoveZone(m) ==
  /\ form[m].pc = "zone"
  /\ zone' = FALSE
  /\ form' = [form EXCEPT ![m] = Blank]
  /\ UNCHANGED <<rule, group, cond, trace, eval, written>>

----------------------------------------------------------------------------
(* loadForShipment, on one connection.                                     *)

LoadRules(e) ==
  /\ eval[e].pc = "idle"
  /\ eval' = [eval EXCEPT ![e] = [pc |-> "groups", rules |-> [r \in Live |-> rule[r]],
                                  groups |-> {}, conds |-> {}]]
  /\ UNCHANGED <<rule, group, cond, zone, trace, form, written>>
LoadGroups(e) ==
  /\ eval[e].pc = "groups"
  /\ eval' = [eval EXCEPT ![e].pc = "conditions",
       ![e].groups = {g \in group : g[1] \in DOMAIN eval[e].rules}]
  /\ UNCHANGED <<rule, group, cond, zone, trace, form, written>>
LoadConditions(e) ==
  /\ eval[e].pc = "conditions"
  /\ eval' = [eval EXCEPT ![e].pc = "match",
       ![e].conds = {c \in cond : c[1] \in DOMAIN eval[e].rules}]
  /\ UNCHANGED <<rule, group, cond, zone, trace, form, written>>

\* The first active rule with a group all of whose conditions hold; a zone
\* that is gone holds no pincode.
Holds(truth, c) == c \in truth /\ (c = InZone => zone)
Matching(e, truth) ==
  {r \in DOMAIN eval[e].rules :
     /\ eval[e].rules[r].active
     /\ \E g \in ContentOf(eval[e].groups, eval[e].conds, r) : \A c \in g : Holds(truth, c)}
Tops(e, rs) == {r \in rs : \A x \in rs : eval[e].rules[r].position <= eval[e].rules[x].position}

\* evaluate and the trace, in the transaction that holds the shipment.
Evaluate(e, truth) ==
  /\ eval[e].pc = "match"
  /\ \/ /\ Matching(e, truth) = {} /\ UNCHANGED trace
     \/ \E r \in Tops(e, Matching(e, truth)) :
          trace' = trace \cup {[rule |-> r, version |-> eval[e].rules[r].version,
                                matched |-> ContentOf(eval[e].groups, eval[e].conds, r)]}
  /\ eval' = [eval EXCEPT ![e] = [Reading EXCEPT !.pc = "done"]]
  /\ UNCHANGED <<rule, group, cond, zone, form, written>>

Next ==
  \/ \E r \in Rules, content \in Contents : Create(r, content)
  \/ \E m \in Members :
       \/ \E r \in Rules : GetRule(m, r) \/ CountTraces(m, r)
       \/ LoadChildren(m) \/ Conflict(m) \/ SetActive(m) \/ Remove(m)
       \/ \E content \in Contents : Update(m, content)
       \/ CountConditions(m) \/ RemoveZone(m)
  \/ \E order \in [Live -> 1..Cardinality(Live)] : IsInjective(order) /\ Reorder(order)
  \/ \E e \in Evaluations :
       \/ LoadRules(e) \/ LoadGroups(e) \/ LoadConditions(e)
       \/ \E truth \in SUBSET Conditions : Evaluate(e, truth)

Spec == Init /\ [][Next]_bookVars

----------------------------------------------------------------------------

Submits(m) == form[m].pc = "shown" /\ rule' # rule /\ form'[m] # form[m]
OverwritesNothing ==
  \A m \in Members : Submits(m) =>
    /\ form[m].content = ContentOf(group, cond, form[m].rule)
    /\ form[m].version = rule[form[m].rule].version

\* INV-22: a write that is accepted replaces what its author was shown: no
\* member writes over an edit, a switch or a new order nobody told him of.
\* The version is read before the children, so a form torn by a write between
\* the two is refused.
NoSilentOverwrite == [][OverwritesNothing]_bookVars

\* What the repository says otherwise.

\* The trace is documented as the matched rule and its version.  A rule edited
\* between the statements that read its groups and its conditions has groups
\* without conditions, which match every order.
EvaluatedAsWritten == \A t \in trace : t.matched \in written[t.rule]
\* A rule an evaluation names is deactivated, never deleted.
TracesKeepRules == \A t \in trace : rule[t.rule].exists
\* A zone a rule's condition references is never deleted.
ZonesKept == zone \/ ~\E x \in cond : x[3] = InZone
=============================================================================
