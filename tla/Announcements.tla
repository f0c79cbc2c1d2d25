------------------------------ MODULE Announcements ------------------------------
(***************************************************************************)
(* A warning the platform announces to the shops of a plan: shown on the   *)
(* page of whoever is on the plan, and e-mailed once it is published.      *)
(***************************************************************************)
EXTENDS Integers, Sequences, FiniteSets

CONSTANTS Staff, Shops, Members, MaxPublished

VARIABLES
  post,   \* announcement
  read,   \* announcement_read: members who dismissed it
  plan,   \* the plans of each shop, the present one last
  mail,   \* shops a run of publish has still to write to, per member of staff
  mailed  \* e-mails sent, per shop

postVars == <<post, read, plan, mail, mailed>>

Nobody == {"nobody"}

Init ==
  /\ post = [state |-> "DRAFT", publishes |-> 0]
  /\ read = {}
  /\ plan \in [Shops -> {<<"basic">>, <<"pro">>}]
  /\ mail = [a \in Staff |-> Nobody]
  /\ mailed = [s \in Shops |-> 0]

Had(s, code) == \E i \in DOMAIN plan[s] : plan[s][i] = code
Has(s, code) == plan[s][Len(plan[s])] = code

\* Whoever ever subscribed to the plan.
TargetShopIds == {s \in Shops : Had(s, "basic")}
Visible(s) == post.state = "PUBLISHED" /\ Has(s, "basic")

ChangePlan(s) ==
  /\ Len(plan[s]) = 1
  /\ plan' = [plan EXCEPT ![s] = <<@[1], IF @[1] = "basic" THEN "pro" ELSE "basic">>]
  /\ UNCHANGED <<post, read, mail, mailed>>

\* Published again, the time stays and the e-mails go out again.
Publish(a) ==
  /\ mail[a] = Nobody /\ post.publishes < MaxPublished
  /\ post' = [post EXCEPT !.publishes = @ + 1, !.state = IF @ = "DRAFT" THEN "PUBLISHED" ELSE @]
  /\ mail' = [mail EXCEPT ![a] = TargetShopIds]
  /\ UNCHANGED <<read, plan, mailed>>

\* One shop after another; what fails is logged and left behind.
NotifyShop(a) ==
  /\ mail[a] # Nobody
  /\ IF mail[a] = {} THEN mail' = [mail EXCEPT ![a] = Nobody] /\ UNCHANGED mailed
     ELSE \E s \in mail[a] :
            /\ mail' = [mail EXCEPT ![a] = @ \ {s}]
            /\ mailed' \in {mailed, [mailed EXCEPT ![s] = @ + 1]}
  /\ UNCHANGED <<post, read, plan>>

Expire ==
  /\ post.state # "EXPIRED"
  /\ post' = [post EXCEPT !.state = "EXPIRED"]
  /\ UNCHANGED <<read, plan, mail, mailed>>

Dismiss(m, s) ==
  /\ Visible(s)
  /\ read' = read \cup {m}
  /\ UNCHANGED <<post, plan, mail, mailed>>

Next ==
  \/ \E a \in Staff : Publish(a) \/ NotifyShop(a)
  \/ Expire
  \/ \E s \in Shops : ChangePlan(s) \/ (\E m \in Members : Dismiss(m, s))

----------------------------------------------------------------------------

\* announcement.service.ts: a shop that never had the plan is not written to; no
\* shop is written to oftener than it was published; and what was dismissed had
\* been published.
WarningsStand ==
  /\ \A s \in Shops : mailed[s] > 0 => Had(s, "basic")
  /\ \A s \in Shops : mailed[s] <= post.publishes
  /\ read # {} => post.publishes > 0

\* The inductive invariant: a run of publish writes to shops that had the plan, and
\* what it has still to write is of a publication of its own.
Writers(s) == {a \in Staff : mail[a] # Nobody /\ s \in mail[a]}
PostsInv ==
  /\ mailed \in [Shops -> Nat] /\ post \in [state : {"DRAFT", "PUBLISHED", "EXPIRED"}, publishes : Nat]
  /\ mail = [a \in Staff |-> mail[a]] /\ plan = [s \in Shops |-> plan[s]]
  /\ \A s \in Shops : \E c, d \in {"basic", "pro"} : plan[s] \in {<<c>>, <<c, d>>}
  /\ \A a \in Staff : mail[a] # Nobody => \A s \in mail[a] : s \in Shops /\ Had(s, "basic")
  /\ \A s \in Shops : mailed[s] + Cardinality(Writers(s)) <= post.publishes
  /\ post.state = "PUBLISHED" => post.publishes > 0
  /\ WarningsStand

\* announcement.service.ts:86: a warning is e-mailed to the members it targets, once.
\* Not kept: publishing is not refused the second time.
WrittenOnce == \A s \in Shops : mailed[s] <= 1

\* announcement.service.ts:270: the e-mail reaches who sees the announcement.  Not
\* kept: a shop that left the plan is among the targets.
WrittenIfSeen == [][\A s \in Shops : mailed'[s] # mailed[s] => Has(s, "basic")]_postVars
=============================================================================
