------------------------------ MODULE RuleEngine ------------------------------
(***************************************************************************)
(* The routing decision: the rules scanned from the top, the action of the *)
(* first that matches, the elimination of its candidates, and the default  *)
(* chain behind it.  One state holds one input; one step decides it.       *)
(***************************************************************************)
EXTENDS Integers, Sequences, FiniteSets, SequencesExt, Functions

CONSTANTS
  Services,      \* the services the shop may book
  Books,         \* the shop's rules, in order, that are tried out
  Chains,        \* the default chains tried out (<<>> is an unset one)
  Facts,         \* what may be known of one service
  StaleAfter     \* S-18, the age at which a quote's dates are stale

VARIABLES
  input,     \* what evaluate is called with
  results,   \* candidateResults: per service the reasons against it
  outcome    \* what was decided

engineVars == <<input, results, outcome>>

----------------------------------------------------------------------------
(* A condition is [field, bound, level, known, holds]: what it is about,   *)
(* whether the order or each candidate decides it, and, of the order,      *)
(* whether its operand is known and the condition holds.  A rule is        *)
(* [active, from, to, groups, action, services, excluded]; its groups are  *)
(* sequences.  A fact is [row, bookable, serviceable, quoted, price, edd,  *)
(* age, tie, meets]: a price or a date of 0 is none, and meets holds the   *)
(* bounds of candidate conditions that the service satisfies.              *)

Pending == [kind |-> "pending"]
Selected(s) == [kind |-> "SELECTED", service |-> s]
Manual(reason) == [kind |-> "MANUAL_ASSIGNMENT", reason |-> reason]

Init ==
  /\ input \in [rules : Books, chain : Chains, facts : [Services -> Facts], now : {1}]
  /\ results = [s \in Services |-> {}]
  /\ outcome = Pending

----------------------------------------------------------------------------
(* The scan.                                                               *)

\* A candidate's condition is left to the candidates; a missing operand is
\* no match.
Matches(c) == c.level = "candidate" \/ (c.known /\ c.holds)

OutsideSchedule(r) == input.now < r.from \/ input.now >= r.to

RuleMatches(r) ==
  /\ r.active
  /\ ~OutsideSchedule(r)
  /\ \E g \in Range(r.groups) : \A c \in Range(g) : Matches(c)

\* The first rule that matches, or 0.
Matched == SelectInSeq(input.rules, RuleMatches)

----------------------------------------------------------------------------
(* The candidates.                                                         *)

\* Each field's first condition, whichever group it stands in.
OfCandidates(g) == SelectSeq(g, LAMBDA c : c.level = "candidate")
CandidateFilters(r) ==
  LET all == OfCandidates(FlattenSeq(r.groups))
  IN {all[k] : k \in {i \in 1..Len(all) : \A j \in 1..i-1 : all[j].field # all[i].field}}

FilterReasons(s, filters) ==
  {c.field : c \in {d \in filters : d.bound \notin input.facts[s].meets}}

Excluded(r) == r.excluded

\* What buildRun finds against a service, on top of what it found before.
Against(s, excluded, filters) ==
  LET fact == input.facts[s] IN
  IF ~fact.row THEN {"SERVICE_UNKNOWN"}
  ELSE (IF s \in excluded THEN {"EXCLUDED_BY_RULE"} ELSE {})
       \cup (IF fact.bookable THEN {} ELSE {"NOT_BOOKABLE"})
       \cup FilterReasons(s, filters)
BuildRun(before, services, excluded, filters) ==
  [s \in Services |->
     IF s \in Range(services) THEN before[s] \cup Against(s, excluded, filters) ELSE before[s]]

Serviceable(s) == LET fact == input.facts[s] IN fact.row /\ (fact.quoted => fact.serviceable)
UsablePrice(s) == LET fact == input.facts[s] IN fact.row /\ fact.quoted /\ fact.price # 0
EddState(s) ==
  LET fact == input.facts[s] IN
  CASE ~fact.quoted \/ fact.edd = 0 -> "EDD_MISSING"
    [] fact.quoted /\ fact.edd # 0 /\ fact.age > StaleAfter -> "EDD_STALE"
    [] OTHER -> "USABLE"

----------------------------------------------------------------------------
(* The chains.                                                             *)

\* A chain passes over what was eliminated and takes the first service nothing
\* was found against and that serves the lane.
First(found, services) ==
  SelectInSeq(services, LAMBDA s : found[s] = {} /\ Serviceable(s))
ChainResults(found, services) ==
  LET n == First(found, services)
      tried == {services[k] : k \in {i \in 1..Len(services) : n = 0 \/ i < n}}
  IN [s \in Services |->
        IF s \in tried /\ found[s] = {} THEN {"NOT_SERVICEABLE"} ELSE found[s]]
RunPriorityChain(found, services, otherwise) ==
  LET n == First(found, services) IN
  /\ results' = ChainResults(found, services)
  /\ outcome' = IF n = 0 THEN Manual(otherwise) ELSE Selected(services[n])

\* The result of a service already looked at is the one found before.
RunDefaultChain(before) ==
  LET otherwise == IF Matched = 0 THEN "NO_RULE_AND_NO_DEFAULT_CHAIN"
                   ELSE "NO_SERVICEABLE_CANDIDATE"
  IN IF input.chain = <<>>
     THEN results' = before /\ outcome' = Manual(otherwise)
     ELSE RunPriorityChain(BuildRun(before, input.chain, {}, {}), input.chain, otherwise)

----------------------------------------------------------------------------
(* The actions.                                                            *)

\* Of the survivors, those the action may choose, and what it has against
\* the others.
Objection(action, s) ==
  CASE ~Serviceable(s) -> "NOT_SERVICEABLE"
    [] Serviceable(s) /\ action = "CHEAPEST" /\ ~UsablePrice(s) -> "PRICE_UNAVAILABLE"
    [] Serviceable(s) /\ action = "FASTEST" /\ EddState(s) # "USABLE" -> EddState(s)
    [] OTHER -> "NONE"

\* The order of the candidates: what the action minimises, the merchant's
\* order, the place in the rule.
RankBug(action, services, s) ==
  <<input.facts[s].tie, input.facts[s].price, CHOOSE k \in 1..Len(services) : services[k] = s>>
Rank(action, services, s) ==
  <<IF action = "CHEAPEST" THEN input.facts[s].price ELSE input.facts[s].edd,
    input.facts[s].tie, CHOOSE k \in 1..Len(services) : services[k] = s>>
Before(a, b) ==
  \E k \in 1..Len(a) : a[k] < b[k] /\ \A i \in 1..k-1 : a[i] = b[i]

Optimise(action, services, found) ==
  LET survivors == {s \in Range(services) : found[s] = {}}
      able == {s \in survivors : Objection(action, s) = "NONE"}
      after == [s \in Services |->
                  IF s \in survivors \ able THEN {Objection(action, s)} ELSE found[s]]
  IN IF able = {} THEN RunDefaultChain(after)
     ELSE /\ results' = after
          /\ outcome' = Selected(CHOOSE s \in able : \A t \in able \ {s} :
                          Before(Rank(action, services, s), Rank(action, services, t)))

\* evaluate.
Evaluate ==
  /\ outcome = Pending
  /\ UNCHANGED input
  /\ IF Matched = 0 THEN RunDefaultChain(results)
     ELSE LET r == input.rules[Matched]
              found == BuildRun(results, r.services, Excluded(r), CandidateFilters(r))
          IN CASE r.action = "MANUAL_ONLY" ->
                    results' = results /\ outcome' = Manual("HELD_BY_RULE")
               [] r.action = "PRIORITY_CHAIN" ->
                    RunPriorityChain(found, r.services, "CHAIN_EXHAUSTED")
               [] OTHER -> Optimise(r.action, r.services, found)

Next == Evaluate
Spec == Init /\ [][Next]_engineVars

----------------------------------------------------------------------------
(* What the merchant was promised.                                         *)

\* The rules that speak for the order, read without the scan.
Speaks(k) ==
  LET r == input.rules[k] IN
  /\ r.active /\ r.from <= input.now /\ input.now < r.to
  /\ \E g \in Range(r.groups) :
       \A c \in Range(g) : c.level = "order" => (c.known /\ c.holds)
Spoken == {k \in 1..Len(input.rules) : Speaks(k)}
TheRule == input.rules[CHOOSE k \in Spoken : \A j \in Spoken : k <= j]
Able(s) == input.facts[s].row /\ input.facts[s].bookable /\ Serviceable(s)
Allowed(r, s) ==
  s \in Range(r.services) \ r.excluded /\ Able(s) /\ FilterReasons(s, CandidateFilters(r)) = {}
Place(seq, s) == Min({k \in 1..Len(seq) : seq[k] = s})

\* The first rule that speaks for the order decides: what it holds is held,
\* and a service it selects is one it allows, the first of its chain, or the
\* one nothing allowed is cheaper or faster than; only when it allows none
\* that qualifies is the default chain asked.
TopRuleDecides ==
  outcome # Pending /\ Spoken # {} =>
    LET r == TheRule
        may == {s \in Services : Allowed(r, s)}
        good == CASE r.action = "CHEAPEST" -> {s \in may : UsablePrice(s)}
                  [] r.action = "FASTEST" -> {s \in may : EddState(s) = "USABLE"}
                  [] OTHER -> may
        worth(s) == CASE r.action = "CHEAPEST" -> input.facts[s].price
                      [] r.action = "FASTEST" -> input.facts[s].edd
                      [] OTHER -> Place(r.services, s)
    IN /\ r.action = "MANUAL_ONLY" <=> outcome = Manual("HELD_BY_RULE")
       /\ r.action # "MANUAL_ONLY" /\ good # {} =>
            /\ outcome.kind = "SELECTED" /\ outcome.service \in good
            /\ \A s \in good :
                 \/ worth(outcome.service) < worth(s)
                 \/ /\ worth(outcome.service) = worth(s)
                    /\ input.facts[outcome.service].tie <= input.facts[s].tie
       /\ r.action = "PRIORITY_CHAIN" /\ good = {} => outcome = Manual("CHAIN_EXHAUSTED")

\* Nothing is selected that the shop cannot book on this lane, and without a
\* rule the default chain's first able service is.
SelectedIsAble ==
  /\ outcome.kind = "SELECTED" => Able(outcome.service)
  /\ outcome # Pending /\ Spoken = {} /\ (\E s \in Range(input.chain) : Able(s)) =>
       /\ outcome.kind = "SELECTED"
       /\ \A s \in Range(input.chain) :
            Able(s) => Place(input.chain, outcome.service) <= Place(input.chain, s)

RoutingStands == TopRuleDecides /\ SelectedIsAble

\* evaluate.ts says of PRIORITY_CHAIN that price and dates never eliminate and
\* of the default chain that the rule's exclusions do not apply to it.  The
\* code finds the reasons of the rule's own run still against a service, and
\* passes over it.
FallbackIsAChain ==
  /\ outcome.kind = "MANUAL_ASSIGNMENT"
  /\ outcome.reason = "NO_SERVICEABLE_CANDIDATE"
  => \A s \in Range(input.chain) : ~Able(s)

\* ADD-13 ands the conditions of a group and ors the groups.  The code takes
\* each field's first condition of all groups, so a second bound in a group is
\* never looked at.
GroupsDecide ==
  Spoken # {} /\ outcome.kind = "SELECTED" /\ outcome.service \notin Range(input.chain) =>
    \E g \in Range(TheRule.groups) : \A c \in Range(g) :
      IF c.level = "candidate" THEN c.bound \in input.facts[outcome.service].meets
      ELSE c.known /\ c.holds
=============================================================================
