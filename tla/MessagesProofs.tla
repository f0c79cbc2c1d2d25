----------------------------- MODULE MessagesProofs -----------------------------
(***************************************************************************)
(* What is told to people: a buyer's confirmation and links, the alerts of *)
(* a shop, the warnings of the administrators, the tickets, the track page *)
(* and the figures of the dashboard.                                       *)
(***************************************************************************)
EXTENDS MCPlatform, TLAPS, FiniteSetTheorems, WellFoundedInduction, SequenceTheorems

\* A set of numbers has a least.
LEMMA HasLeast ==
  ASSUME NEW S \in SUBSET Nat, S # {}
  PROVE  \E x \in S : \A y \in S : x <= y
<1>1. PICK x \in S : \A y \in S : ~ (<<y, x>> \in OpToRel(<, Nat))
  <2>1. IsWellFoundedOn(OpToRel(<, Nat), Nat)
    BY NatLessThanWellFounded, Zenon
  <2> QED BY <2>1, WFMin, Zenon
<1>2. ASSUME NEW y \in S PROVE x <= y
  <2>1. ~ (y < x) /\ x \in Nat /\ y \in Nat
    BY <1>1, Zenon DEF OpToRel
  <2> QED BY <2>1
<1> QED BY <1>2

----------------------------------------------------------------------------
(* CodConfirm.  r2 is the confirmation, r3 the shipment, r4 the setting,   *)
(* r5 the sweeps.                                                          *)

LEMMA ConfirmInitially == Confirm!Init => Confirm!ConfirmInv
<1> SUFFICES ASSUME Confirm!Init PROVE Confirm!ConfirmInv
  OBVIOUS
<1>1. r4.policy \in Confirm!Policies
  BY DEF Confirm!Init, Confirm!Policies
<1> QED BY <1>1 DEF Confirm!Init, Confirm!ConfirmInv, Confirm!ConfirmationsStand, Confirm!Idle

\* What a step writes: an answer where there was none, a booking of what waits for
\* one, a sweep with a policy.
Answers == \/ r2' = r2
           \/ r2.state = "none" /\ r2' = [r2 EXCEPT !.state = "PENDING"]
           \/ r2.state = "PENDING" /\ r2' = [r2 EXCEPT !.age = @ + 1]
           \/ r2.state = "PENDING" /\ \E s \in {"CONFIRMED", "EXPIRED_BOOKED", "EXPIRED_HELD"} :
                r2' = [r2 EXCEPT !.state = s, !.settled = @ + 1]
Books == \/ r3' = r3
         \/ r3.state = "none" /\ r3' = [r3 EXCEPT !.state = "DRAFT"]
         \/ r3.state \in Confirm!Queueable /\ r3' = [state |-> "QUEUED", reason |-> "none", jobs |-> r3.jobs + 1]
         \/ r3.state = "DRAFT" /\ r3' = [r3 EXCEPT !.state = "NEEDS_MANUAL_ASSIGNMENT", !.reason = "COD_UNCONFIRMED"]
Sweeps == \/ r5' = r5
          \/ \E s \in Workers : \E c : r5' = [r5 EXCEPT ![s] = c]
                                           /\ (c.at \in {"decided", "acted"} => c.policy \in Confirm!Policies)
Sets == r4'.policy \in Confirm!Policies

LEMMA ConfirmMoves ==
  ASSUME Confirm!ConfirmInv, Answers, Books, Sweeps, Sets
  PROVE  Confirm!ConfirmInv'
<1> USE DEF Confirm!ConfirmInv, Confirm!ConfirmationsStand
<1>1. /\ r2' = [state |-> r2'.state, age |-> r2'.age, settled |-> r2'.settled]
      /\ r2'.settled = (IF r2'.state \in {"none", "PENDING"} THEN 0 ELSE 1)
  <2>1. CASE r2' = r2
    BY <2>1
  <2>2. CASE r2.state = "none" /\ r2' = [r2 EXCEPT !.state = "PENDING"]
    BY <2>2
  <2>3. CASE r2.state = "PENDING" /\ r2' = [r2 EXCEPT !.age = @ + 1]
    BY <2>3
  <2>4. ASSUME r2.state = "PENDING", NEW s \in {"CONFIRMED", "EXPIRED_BOOKED", "EXPIRED_HELD"},
               r2' = [r2 EXCEPT !.state = s, !.settled = @ + 1]
        PROVE  <1>1!1 /\ <1>1!2
    <3>1. r2.settled = 0 /\ r2 = [state |-> r2.state, age |-> r2.age, settled |-> r2.settled]
      BY <2>4
    <3>2. r2' = [state |-> r2'.state, age |-> r2'.age, settled |-> r2'.settled]
      BY <2>4, <3>1
    <3>3. r2'.state = s /\ r2'.settled = 1
      BY <2>4, <3>1
    <3> QED BY <3>2, <3>3
  <2> QED BY <2>1, <2>2, <2>3, <2>4 DEF Answers
<1>2. /\ r3' = [state |-> r3'.state, reason |-> r3'.reason, jobs |-> r3'.jobs]
      /\ r3'.jobs \in {0, 1} /\ (r3'.jobs = 1 => r3'.state = "QUEUED")
  <2>1. CASE r3' = r3
    BY <2>1
  <2>2. CASE r3.state = "none" /\ r3' = [r3 EXCEPT !.state = "DRAFT"]
    BY <2>2
  <2>3. CASE r3.state \in Confirm!Queueable /\ r3' = [state |-> "QUEUED", reason |-> "none", jobs |-> r3.jobs + 1]
    BY <2>3 DEF Confirm!Queueable
  <2>4. CASE r3.state = "DRAFT" /\ r3' = [r3 EXCEPT !.state = "NEEDS_MANUAL_ASSIGNMENT", !.reason = "COD_UNCONFIRMED"]
    BY <2>4
  <2> QED BY <2>1, <2>2, <2>3, <2>4 DEF Books
<1>3. /\ r5' = [s \in Workers |-> r5'[s]]
      /\ \A s \in Workers : r5'[s].at \in {"decided", "acted"} => r5'[s].policy \in Confirm!Policies
  <2>1. CASE r5' = r5
    BY <2>1
  <2>2. ASSUME NEW s \in Workers, NEW c, r5' = [r5 EXCEPT ![s] = c],
               c.at \in {"decided", "acted"} => c.policy \in Confirm!Policies
        PROVE  <1>3!1
    BY <2>2
  <2> QED BY <2>1, <2>2 DEF Sweeps
<1> QED BY <1>1, <1>2, <1>3 DEF Sets

LEMMA ConfirmKept ==
  ASSUME Confirm!ConfirmInv, [Confirm!Next]_<<r1, r2, r3, r4, r5, r6>>
  PROVE  Confirm!ConfirmInv'
<1>0. Confirm!Idle.at \notin {"decided", "acted"}
  BY DEF Confirm!Idle
<1>1. r4.policy \in Confirm!Policies
  BY DEF Confirm!ConfirmInv
<1>2. Confirm!Queued = r3 \/ (r3.state \in Confirm!Queueable
        /\ Confirm!Queued = [state |-> "QUEUED", reason |-> "none", jobs |-> r3.jobs + 1])
  BY DEF Confirm!Queued
<1>3. CASE UNCHANGED <<r1, r2, r3, r4, r5, r6>>
  BY <1>1, <1>3, ConfirmMoves DEF Answers, Books, Sweeps, Sets
<1>4. CASE Confirm!Derive
  BY <1>1, <1>4, ConfirmMoves DEF Confirm!Derive, Answers, Books, Sweeps, Sets
<1>5. CASE Confirm!Start
  BY <1>1, <1>5, ConfirmMoves DEF Confirm!Start, Answers, Books, Sweeps, Sets
<1>6. CASE Confirm!IngestDies
  BY <1>1, <1>6, ConfirmMoves DEF Confirm!IngestDies, Answers, Books, Sweeps, Sets
<1>7. CASE Confirm!MemberBooks \/ Confirm!AutoShips
  BY <1>1, <1>2, <1>7, ConfirmMoves DEF Confirm!MemberBooks, Confirm!AutoShips, Answers, Books, Sweeps, Sets
<1>8. CASE Confirm!Confirm
  BY <1>1, <1>8, ConfirmMoves DEF Confirm!Confirm, Confirm!Pending, Answers, Books, Sweeps, Sets
<1>9. CASE Confirm!Edit
  BY <1>9, ConfirmMoves DEF Confirm!Edit, Confirm!Policies, Answers, Books, Sweeps, Sets
<1>10. CASE Confirm!Tick
  BY <1>1, <1>10, ConfirmMoves DEF Confirm!Tick, Answers, Books, Sweeps, Sets
<1>11. ASSUME NEW s \in Workers,
              \/ Confirm!ReadPending(s) \/ Confirm!Decide(s) \/ Confirm!Act(s) \/ Confirm!Settle(s)
              \/ Confirm!SweepFails(s)
       PROVE  Confirm!ConfirmInv'
  <2>1. CASE Confirm!ReadPending(s)
    <3>1. [at |-> "read", age |-> r2.age].at = "read"
      OBVIOUS
    <3>2. Sweeps
      BY <2>1, <3>1 DEF Confirm!ReadPending, Sweeps
    <3> QED BY <1>1, <2>1, <3>2, ConfirmMoves DEF Confirm!ReadPending, Answers, Books, Sets
  <2>2. CASE Confirm!Decide(s)
    <3>1. Sweeps
      <4>1. Confirm!Idle.at = "idle" /\ [at |-> "decided", policy |-> r4.policy].policy = r4.policy
        BY DEF Confirm!Idle
      <4> QED BY <1>1, <2>2, <4>1 DEF Confirm!Decide, Sweeps
    <3> QED BY <1>1, <2>2, <3>1, ConfirmMoves DEF Confirm!Decide, Answers, Books, Sets
  <2>3. CASE Confirm!Act(s)
    <3>1. r5[s].policy \in Confirm!Policies
      BY <2>3 DEF Confirm!Act, Confirm!ConfirmInv
    <3>2. Sweeps
      <4> DEFINE c == [at |-> "acted", policy |-> r5[s].policy]
      <4>1. c.policy \in Confirm!Policies /\ r5' = [r5 EXCEPT ![s] = c]
        BY <2>3, <3>1 DEF Confirm!Act
      <4> HIDE DEF c
      <4> QED BY <4>1 DEF Sweeps
    <3>3. Books
      BY <1>2, <2>3 DEF Confirm!Act, Confirm!Held, Books
    <3> QED BY <1>1, <2>3, <3>2, <3>3, ConfirmMoves DEF Confirm!Act, Answers, Sets
  <2>4. CASE Confirm!Settle(s)
    <3>1. Confirm!Outcome[r5[s].policy] \in {"EXPIRED_BOOKED", "EXPIRED_HELD"}
      BY <2>4 DEF Confirm!Settle, Confirm!ConfirmInv, Confirm!Policies, Confirm!Outcome
    <3>2. Answers
      BY <2>4, <3>1 DEF Confirm!Settle, Confirm!Pending, Answers
    <3>3. Sweeps
      BY <1>0, <2>4 DEF Confirm!Settle, Sweeps
    <3> QED BY <1>1, <2>4, <3>2, <3>3, ConfirmMoves DEF Confirm!Settle, Books, Sets
  <2>5. CASE Confirm!SweepFails(s)
    BY <1>0, <1>1, <2>5, ConfirmMoves DEF Confirm!SweepFails, Answers, Books, Sweeps, Sets
  <2> QED BY <1>11, <2>1, <2>2, <2>3, <2>4, <2>5
<1> QED BY <1>3, <1>4, <1>5, <1>6, <1>7, <1>8, <1>9, <1>10, <1>11 DEF Confirm!Next

----------------------------------------------------------------------------
(* BuyerLinks.  r2 says whether the shipment is a test, r3 is the shop, r4 *)
(* and r5 the links, r7 the requests, r8 what is dead.                     *)

LEMMA LinksInitially == Buyer!Init => Buyer!LinksInv
BY DEF Buyer!Init, Buyer!LinksInv, Buyer!None, Buyer!States, Buyer!LinkIds, Buyer!Idle

\* The links and what is dead of them; the requests.
Revocations ==
  /\ r4 \in [Buyer!LinkIds -> Buyer!States] /\ r5 \in [Buyer!LinkIds -> Buyer!States]
  /\ r8 = [track |-> r8.track, token |-> r8.token]
  /\ \A l \in r8.track : l \in Buyer!LinkIds /\ r4[l] = "revoked"
  /\ \A l \in r8.token : l \in Buyer!LinkIds /\ r5[l] = "revoked"
  /\ r2 => r4 = Buyer!None /\ r5 = Buyer!None
Asking == [at : {"resolved", "stored", "revoked"}, link : Buyer!LinkIds, late : {"no"}]
Asks(q) ==
  \/ q = Buyer!Idle
  \/ ~r2 /\ q \in Asking /\ (q.at = "revoked" => r5[q.link] = "revoked")

\* A step of one request.
LEMMA BuyerMoves ==
  ASSUME Buyer!LinksInv, Revocations', NEW b \in Workers, NEW c, r7' = [r7 EXCEPT ![b] = c], Asks(c)',
         r2' = r2, \A l \in Buyer!LinkIds : r5[l] = "revoked" => r5'[l] = "revoked"
  PROVE  Buyer!LinksInv'
<1>1. r7 = [a \in Workers |-> r7[a]] /\ \A a \in Workers : Asks(r7[a])
  BY Zenon DEF Buyer!LinksInv, Asks, Asking
<1>2. \A q : Asks(q) => Asks(q)'
  BY DEF Asks, Asking
<1>3. r7' = [a \in Workers |-> r7'[a]] /\ \A a \in Workers : Asks(r7[a])'
  <2>1. \A a \in Workers : r7'[a] = IF a = b THEN c ELSE r7[a]
    BY <1>1
  <2>2. \A a \in Workers : Asks(r7[a])'
    BY <1>1, <1>2, <2>1 DEF Asks
  <2> QED BY <1>1, <2>2
<1> QED BY <1>3, Zenon DEF Revocations, Asks, Asking, Buyer!LinksInv

LEMMA LinksKept ==
  ASSUME Buyer!LinksInv, [Buyer!Next]_<<r1, r2, r3, r4, r5, r6, r7, r8, r9>>
  PROVE  Buyer!LinksInv'
<1>1. Revocations /\ r7 = [a \in Workers |-> r7[a]] /\ \A a \in Workers : Asks(r7[a])
  BY Zenon DEF Buyer!LinksInv, Revocations, Asks, Asking
<1> DEFINE Same == r2' = r2 /\ r7' = r7 /\ \A l \in Buyer!LinkIds : r5[l] = "revoked" => r5'[l] = "revoked"
<1>2. ASSUME Same, Revocations', r2 => r4' = Buyer!None PROVE Buyer!LinksInv'
  <2>1. \A q : Asks(q) => Asks(q)'
    BY <1>2 DEF Asks, Asking
  <2>2. r7' = [a \in Workers |-> r7'[a]] /\ \A a \in Workers : Asks(r7[a])'
    BY <1>1, <1>2, <2>1
  <2> QED BY <1>2, <2>2, Zenon DEF Revocations, Asks, Asking, Buyer!LinksInv
<1>3. CASE UNCHANGED <<r1, r2, r3, r4, r5, r6, r7, r8, r9>>
  BY <1>1, <1>2, <1>3 DEF Revocations
<1>4. CASE Buyer!Send
  <2>1. ~r2 /\ r2' = r2 /\ r7' = r7 /\ r8' = r8
    BY <1>4 DEF Buyer!Send, Buyer!SkipsTest
  <2>2. ASSUME NEW rows \in [Buyer!LinkIds -> Buyer!States], NEW new \in Buyer!Minted(rows)
        PROVE  new \in [Buyer!LinkIds -> Buyer!States] /\ \A l \in Buyer!LinkIds : rows[l] = "revoked" => new[l] = "revoked"
    <3>1. PICK l \in Buyer!LinkIds : rows[l] = "none" /\ new = [rows EXCEPT ![l] = "live"]
      BY <2>2 DEF Buyer!Minted
    <3> QED BY <3>1 DEF Buyer!States
  <2>3. /\ r4' \in [Buyer!LinkIds -> Buyer!States] /\ \A l \in Buyer!LinkIds : r4[l] = "revoked" => r4'[l] = "revoked"
        /\ r5' \in [Buyer!LinkIds -> Buyer!States] /\ \A l \in Buyer!LinkIds : r5[l] = "revoked" => r5'[l] = "revoked"
    BY <1>1, <1>4, <2>2 DEF Buyer!Send, Revocations
  <2> QED BY <1>1, <1>2, <2>1, <2>3 DEF Revocations
<1>5. ASSUME NEW b \in Workers, Buyer!Resolve(b) PROVE Buyer!LinksInv'
  <2>1. r2' = r2 /\ r4' = r4 /\ r5' = r5 /\ r8' = r8
    BY <1>5 DEF Buyer!Resolve
  <2>2. PICK l \in Buyer!LinkIds : r5[l] # "none" /\
          r7' = [r7 EXCEPT ![b] = IF Buyer!Resolves(r5, l) THEN [at |-> "resolved", link |-> l, late |-> IF l \in r8.token THEN "yes" ELSE "no"]
                                  ELSE Buyer!Idle]
    BY <1>5 DEF Buyer!Resolve
  <2>3. Revocations'
    BY <1>1, <2>1 DEF Revocations
  <2>4. CASE Buyer!Resolves(r5, l)
    <3>1. l \notin r8.token
      BY <1>1, <2>4 DEF Revocations, Buyer!Resolves
    <3>2. ~r2
      BY <1>1, <2>2 DEF Revocations, Buyer!None
    <3>3. PICK c : c = [at |-> "resolved", link |-> l, late |-> IF l \in r8.token THEN "yes" ELSE "no"]
      OBVIOUS
    <3>4. c \in Asking /\ c.at = "resolved"
      BY <3>1, <3>3 DEF Asking
    <3>5. Asks(c)'
      BY <2>1, <3>2, <3>4 DEF Asks
    <3>6. r7' = [r7 EXCEPT ![b] = c]
      BY <2>2, <2>4, <3>3
    <3> QED BY <2>1, <2>3, <3>5, <3>6, BuyerMoves
  <2>5. CASE ~Buyer!Resolves(r5, l)
    <3>1. r7' = [r7 EXCEPT ![b] = Buyer!Idle] /\ Asks(Buyer!Idle)'
      BY <2>2, <2>5 DEF Asks
    <3> QED BY <2>1, <2>3, <3>1, BuyerMoves
  <2> QED BY <2>4, <2>5
\* What a request that is not idle has in hand.
<1>6. ASSUME NEW b \in Workers, r7[b].at # "idle"
          PROVE  ~r2 /\ r7[b] \in Asking /\ (r7[b].at = "revoked" => r5[r7[b].link] = "revoked")
  BY <1>1, <1>6 DEF Asks, Buyer!Idle
\* It goes on with the same link.
<1>60. ASSUME NEW q \in Asking, NEW x \in {"stored", "revoked"}, NEW c, c = [q EXCEPT !.at = x]
       PROVE  c \in Asking /\ c.at = x /\ c.link = q.link /\ q.link \in Buyer!LinkIds
  BY <1>60 DEF Asking
<1>7. ASSUME NEW b \in Workers, Buyer!Store(b) PROVE Buyer!LinksInv'
  <2>1. r2' = r2 /\ r4' = r4 /\ r5' = r5 /\ r8' = r8 /\ r7[b].at = "resolved" /\ r7' = [r7 EXCEPT ![b].at = "stored"]
    BY <1>7 DEF Buyer!Store
  <2>2. PICK c : c = [r7[b] EXCEPT !.at = "stored"]
    OBVIOUS
  <2>3. r7' = [r7 EXCEPT ![b] = c]
    BY <2>1, <2>2
  <2>4. ~r2 /\ c \in Asking /\ c.at = "stored"
    BY <1>6, <1>60, <2>1, <2>2
  <2>5. Asks(c)'
    BY <2>1, <2>4 DEF Asks
  <2>6. Revocations'
    BY <1>1, <2>1 DEF Revocations
  <2> QED BY <2>1, <2>3, <2>5, <2>6, BuyerMoves
<1>8. ASSUME NEW b \in Workers, Buyer!Revoke(b) PROVE Buyer!LinksInv'
  <2>1. r2' = r2 /\ r4' = r4 /\ r8' = r8 /\ r7[b].at = "stored"
    BY <1>8 DEF Buyer!Revoke
  <2>2. PICK l \in Buyer!LinkIds : l = r7[b].link /\ ~r2
    BY <1>6, <2>1 DEF Asking
  <2>3. CASE r1
    <3>1. r5' = [r5 EXCEPT ![l] = "revoked"] /\ r7' = [r7 EXCEPT ![b].at = "revoked"]
      BY <1>8, <2>2, <2>3 DEF Buyer!Revoke, Buyer!Revoked
    <3>2. PICK c : c = [r7[b] EXCEPT !.at = "revoked"]
      OBVIOUS
    <3>3. Revocations'
      BY <1>1, <2>1, <2>2, <3>1 DEF Revocations, Buyer!States
    <3>4. r5'[l] = "revoked" /\ \A m \in Buyer!LinkIds : r5[m] = "revoked" => r5'[m] = "revoked"
      BY <1>1, <3>1 DEF Revocations
    <3>5. c \in Asking /\ c.at = "revoked" /\ c.link = l
      BY <1>6, <1>60, <2>1, <2>2, <3>2
    <3>6. Asks(c)'
      BY <2>1, <2>2, <3>4, <3>5 DEF Asks
    <3>7. r7' = [r7 EXCEPT ![b] = c]
      BY <3>1, <3>2
    <3> QED BY <2>1, <3>3, <3>4, <3>6, <3>7, BuyerMoves
  <2>4. CASE ~r1
    <3>1. r5' = r5 /\ r7' = [r7 EXCEPT ![b] = Buyer!Idle] /\ Asks(Buyer!Idle)'
      BY <1>8, <2>4 DEF Buyer!Revoke, Asks
    <3>2. Revocations'
      BY <1>1, <2>1, <3>1 DEF Revocations
    <3> QED BY <2>1, <3>1, <3>2, BuyerMoves
  <2> QED BY <2>3, <2>4
<1>9. ASSUME NEW b \in Workers, Buyer!HandOn(b) PROVE Buyer!LinksInv'
  <2>1. /\ r2' = r2 /\ r4' = r4 /\ r5' = r5 /\ r7[b].at = "revoked" /\ r7' = [r7 EXCEPT ![b] = Buyer!Idle]
        /\ r8' = [r8 EXCEPT !.token = @ \cup {r7[b].link}]
    BY <1>9 DEF Buyer!HandOn
  <2>2. r7[b].link \in Buyer!LinkIds /\ r5[r7[b].link] = "revoked"
    BY <1>6, <2>1 DEF Asking
  <2>3. Revocations'
    BY <1>1, <2>1, <2>2 DEF Revocations
  <2>4. Asks(Buyer!Idle)'
    BY DEF Asks
  <2> QED BY <2>1, <2>3, <2>4, BuyerMoves
<1>10. ASSUME NEW b \in Workers, Buyer!Dies(b) PROVE Buyer!LinksInv'
  <2>1. /\ r2' = r2 /\ r4' = r4 /\ r5' = r5 /\ r8' = r8 /\ r7' = [r7 EXCEPT ![b] = Buyer!Idle]
        /\ Asks(Buyer!Idle)'
    BY <1>10 DEF Buyer!Dies, Asks
  <2>2. Revocations'
    BY <1>1, <2>1 DEF Revocations
  <2> QED BY <2>1, <2>2, BuyerMoves
<1>11. CASE Buyer!Uninstall \/ Buyer!Redeliver \/ Buyer!Reinstall
  <2>1. r2' = r2 /\ r4' = r4 /\ r5' = r5 /\ r8' = r8 /\ r7' = r7
    BY <1>11 DEF Buyer!Uninstall, Buyer!Redeliver, Buyer!Reinstall
  <2> QED BY <1>1, <1>2, <2>1 DEF Revocations
<1>12. CASE Buyer!Close \/ Buyer!Redact
  <2>1. r2' = r2 /\ r5' = r5 /\ r7' = r7 /\ r4' = Buyer!RevokeAll /\ r8' = [r8 EXCEPT !.track = @ \cup Buyer!Live]
    BY <1>12 DEF Buyer!Close, Buyer!Redact
  <2>2. /\ r4' \in [Buyer!LinkIds -> Buyer!States]
        /\ \A l \in Buyer!LinkIds : r4[l] \in {"live", "revoked"} => r4'[l] = "revoked"
    BY <1>1, <2>1 DEF Revocations, Buyer!RevokeAll, Buyer!States
  <2>3. r2 => r4' = Buyer!None
    BY <1>1, <2>1 DEF Revocations, Buyer!RevokeAll, Buyer!None
  <2>4. Revocations'
    BY <1>1, <2>1, <2>2, <2>3 DEF Revocations, Buyer!Live
  <2> QED BY <1>2, <2>1, <2>3, <2>4
<1> QED BY <1>3, <1>4, <1>5, <1>7, <1>8, <1>9, <1>10, <1>11, <1>12 DEF Buyer!Next

LEMMA LinksInvStands ==
  ASSUME Buyer!LinksInv
  PROVE  Buyer!LinksStand
<1>1. Revocations /\ \A a \in Workers : Asks(r7[a])
  BY Zenon DEF Buyer!LinksInv, Revocations, Asks, Asking
<1>2. \A l \in r8.track : ~Buyer!TrackOpens(l)
  BY <1>1 DEF Revocations, Buyer!TrackOpens, Buyer!Resolves
<1>3. \A b \in Workers : r7[b].at # "idle" => r7[b].late = "no"
  BY <1>1 DEF Asks, Asking, Buyer!Idle
<1> QED BY <1>1, <1>2, <1>3 DEF Revocations, Buyer!LinksStand

----------------------------------------------------------------------------
(* Notices.  r2 is the keys fired, r3 the rows in the app, r5 the log of   *)
(* messages, r6 the notifiers.                                             *)

\* What a notifier may hold.
Notifier == [pc : {"idle", "check", "raise", "notify", "members", "dispatch", "suppress"} \cup Notice!Writing,
             alert : {0} \cup Notice!Levels, to : SUBSET ShopMembers, whom : ShopMembers \cup {"nobody"}, row : 0..MaxMails]
Email == [state : {"NONE", "QUEUED", "SENT", "FAILED"}, to : ShopMembers \cup {"none", "nobody"},
          knew : {"yes", "no"}, provider : {"not asked", "accepted", "refused", "hard bounce"}]
Fits(c) == /\ c \in Notifier
           /\ c.pc \in {"idle", "check", "raise", "notify"} => c.to = {}
           /\ c.pc \in {"idle", "check"} => c.alert = 0
Owing(c, a) == c.alert = a /\ (c.pc = "notify" \/ c.to # {})

Sound(row) ==
  /\ row.knew = "yes" => row.provider = "not asked"
  /\ row.state = "SENT" => row.provider = "accepted"
  /\ row.state = "FAILED" => row.provider # "accepted"

LEMMA IdleFits ==
  /\ Fits(Notice!Idle) /\ Notice!Idle.to = {} /\ Notice!Idle.pc = "idle" /\ Notice!Idle.alert = 0
BY MessagesAssumption DEF Fits, Notifier, Notice!Idle, Notice!Levels

LEMMA NoticesInitially == Notice!Init => Notice!NoticesInv
<1> SUFFICES ASSUME Notice!Init PROVE Notice!NoticesInv
  OBVIOUS
<1>1. /\ r3 \in [ShopMembers -> [Notice!Levels -> {0, 1}]]
      /\ \A m \in ShopMembers, a \in Notice!Levels : r3[m][a] = 0
  BY DEF Notice!Init
<1>2. \A p \in Workers : Fits(r6[p]) /\ r6[p].pc = "idle" /\ r6[p].to = {}
  BY IdleFits DEF Notice!Init
<1>3. r6 \in [Workers -> Notifier]
  BY IdleFits DEF Notice!Init, Fits
<1>4. Notice!NoRow \in Email /\ Sound(Notice!NoRow)
  BY DEF Email, Sound, Notice!NoRow
<1>5. r5 \in [1..MaxMails -> Email] /\ \A i \in 1..MaxMails : r5[i] = Notice!NoRow
  BY <1>4 DEF Notice!Init
<1>6. Notice!NoticesType
  BY <1>1, <1>2, <1>3, <1>5, Zenon DEF Notice!NoticesType, Notifier, Email, Fits
<1>7. Notice!AlertsInv
  BY <1>1, <1>2 DEF Notice!AlertsInv, Notice!Owes, Notice!At
<1>8. Notice!RowsInv
  BY <1>2 DEF Notice!RowsInv, Notice!Writing
<1>9. Notice!NoticesStand
  <2>1. DOMAIN r5 = 1..MaxMails /\ \A i \in 1..MaxMails : Sound(r5[i])
    BY <1>4, <1>5
  <2>2. \A m, n \in ShopMembers, a \in Notice!Levels : r3[m][a] <= 1 /\ ~(r3[m][a] = 1)
    BY <1>1
  <2> QED BY <2>1, <2>2 DEF Notice!NoticesStand, Sound
<1> QED BY <1>6, <1>7, <1>8, <1>9 DEF Notice!NoticesInv

LEMMA NoticesHave ==
  ASSUME Notice!NoticesInv
  PROVE  /\ r6 \in [Workers -> Notifier] /\ \A p \in Workers : Fits(r6[p])
         /\ r3 \in [ShopMembers -> [Notice!Levels -> {0, 1}]] /\ r5 \in [1..MaxMails -> Email]
BY Zenon DEF Notice!NoticesInv, Notice!NoticesType, Notifier, Email, Fits

LEMMA TypeKept ==
  ASSUME Notice!NoticesInv, NEW p \in Workers, NEW c, Fits(c), r6' = [r6 EXCEPT ![p] = c],
         r3' \in [ShopMembers -> [Notice!Levels -> {0, 1}]], r5' \in [1..MaxMails -> Email]
  PROVE  Notice!NoticesType'
<1>1. r6' \in [Workers -> Notifier] /\ \A q \in Workers : Fits(r6'[q])
  BY NoticesHave DEF Fits
<1> QED BY <1>1, Zenon DEF Notice!NoticesType, Notifier, Email, Fits

\* Who owes an alert owed it before.
LEMMA AlertsKept ==
  ASSUME Notice!NoticesInv, NEW p \in Workers, NEW c, Fits(c), r6' = [r6 EXCEPT ![p] = c], r3' = r3, r2' = r2,
         \A a \in Notice!Levels : Owing(c, a) => Owing(r6[p], a) /\ \A m, n \in c.to : m = n
  PROVE  Notice!AlertsInv'
<1> USE DEF Notice!Owes, Notice!At, Owing
<1>1. \A q \in Workers : r6'[q] = IF q = p THEN c ELSE r6[q]
  BY NoticesHave
<1>2. Notice!AlertsInv
  BY DEF Notice!NoticesInv
<1> SUFFICES ASSUME NEW a \in Notice!Levels
             PROVE  /\ \A q \in Workers : Notice!Owes(q, a)' =>
                         /\ a \in r2 /\ \A s \in Workers : Notice!Owes(s, a)' => s = q
                         /\ \A m, n \in r6'[q].to : m = n
                    /\ (a \notin r2 \/ \E q \in Workers : Notice!Owes(q, a)') => \A m \in ShopMembers : r3[m][a] = 0
                    /\ \A m \in ShopMembers : r3[m][a] = 1 => \A n \in ShopMembers : r3[n][a] = 1 => m = n
  BY DEF Notice!AlertsInv
<1>3. \A q \in Workers : Notice!Owes(q, a)' => Notice!Owes(q, a)
  BY <1>1
<1>4. \A q \in Workers : Notice!Owes(q, a)' => \A m, n \in r6'[q].to : m = n
  BY <1>1, <1>2 DEF Notice!AlertsInv
<1> HIDE DEF Notice!Owes, Owing
<1> QED BY <1>2, <1>3, <1>4 DEF Notice!AlertsInv

\* Rows and messages of whoever does not write.
LEMMA RowsKept ==
  ASSUME Notice!NoticesInv, NEW p \in Workers, NEW c, r6' = [r6 EXCEPT ![p] = c], r5' = r5,
         c.pc \notin Notice!Writing
  PROVE  Notice!RowsInv'
<1>1. \A q \in Workers : r6'[q] = IF q = p THEN c ELSE r6[q]
  BY NoticesHave
<1>2. Notice!RowsInv
  BY DEF Notice!NoticesInv
<1>3. \A q \in Workers : r6'[q].pc \in Notice!Writing => r6'[q] = r6[q]
  BY <1>1
<1> SUFFICES ASSUME NEW q \in Workers, r6'[q].pc \in Notice!Writing
             PROVE  /\ r6'[q].row \in DOMAIN r5' /\ r5'[r6'[q].row].state = "QUEUED"
                    /\ r6'[q].pc # "refuse" => r5'[r6'[q].row].knew = "no"
                    /\ r6'[q].pc # "settle" => r5'[r6'[q].row].provider = "not asked"
                    /\ \A s \in Workers : r6'[s].pc \in Notice!Writing /\ r6'[s].row = r6'[q].row => s = q
  BY DEF Notice!RowsInv
<1>4. r6'[q] = r6[q]
  BY <1>3
<1>5. /\ r6[q].row \in DOMAIN r5 /\ r5[r6[q].row].state = "QUEUED"
      /\ r6[q].pc # "refuse" => r5[r6[q].row].knew = "no"
      /\ r6[q].pc # "settle" => r5[r6[q].row].provider = "not asked"
      /\ \A s \in Workers : r6[s].pc \in Notice!Writing /\ r6[s].row = r6[q].row => s = q
  BY <1>2, <1>4, Zenon DEF Notice!RowsInv
<1>6. \A s \in Workers : r6'[s].pc \in Notice!Writing /\ r6'[s].row = r6'[q].row => s = q
  BY <1>3, <1>4, <1>5
<1> QED BY <1>4, <1>5, <1>6

\* Message i, which has become row, is what c goes on with, if with any.
InHand(c, i, row) ==
  c.pc \in Notice!Writing =>
    /\ c.row = i /\ row.state = "QUEUED" /\ (c.pc # "refuse" => row.knew = "no")
    /\ (c.pc # "settle" => row.provider = "not asked")

\* A step on a message, which nobody else has in hand.
LEMMA RowMoves ==
  ASSUME Notice!NoticesInv, NEW p \in Workers, NEW c, Fits(c), r6' = [r6 EXCEPT ![p] = c], r3' = r3, r2' = r2,
         \A a \in Notice!Levels : Owing(c, a) => Owing(r6[p], a) /\ \A m, n \in c.to : m = n,
         NEW i \in 1..MaxMails, NEW row \in Email, r5' = [r5 EXCEPT ![i] = row], Sound(row),
         \A q \in Workers : r6[q].pc \in Notice!Writing /\ q # p => r6[q].row # i,
         InHand(c, i, row)
  PROVE  Notice!NoticesInv'
<1>1. \A q \in Workers : r6'[q] = IF q = p THEN c ELSE r6[q]
  BY NoticesHave
<1>2. r5' \in [1..MaxMails -> Email] /\ \A j \in 1..MaxMails : r5'[j] = IF j = i THEN row ELSE r5[j]
  BY NoticesHave
<1>3. Notice!RowsInv'
  <2>1. Notice!RowsInv
    BY DEF Notice!NoticesInv
  <2> SUFFICES ASSUME NEW q \in Workers, r6'[q].pc \in Notice!Writing
               PROVE  /\ r6'[q].row \in DOMAIN r5' /\ r5'[r6'[q].row].state = "QUEUED"
                      /\ r6'[q].pc # "refuse" => r5'[r6'[q].row].knew = "no"
                      /\ r6'[q].pc # "settle" => r5'[r6'[q].row].provider = "not asked"
                      /\ \A s \in Workers : r6'[s].pc \in Notice!Writing /\ r6'[s].row = r6'[q].row => s = q
    BY DEF Notice!RowsInv
  <2>2. DOMAIN r5' = 1..MaxMails /\ DOMAIN r5 = 1..MaxMails
    BY <1>2, NoticesHave
  <2>3. CASE q = p
    <3>1. r6'[q] = c /\ c.pc \in Notice!Writing /\ r5'[i] = row
      BY <1>1, <1>2, <2>3
    <3>2. \A s \in Workers : r6'[s].pc \in Notice!Writing /\ r6'[s].row = i => s = q
      BY <1>1, <2>3
    <3> QED BY <2>2, <3>1, <3>2 DEF InHand
  <2>4. CASE q # p
    <3>1. r6'[q] = r6[q] /\ r6[q].pc \in Notice!Writing /\ r6[q].row # i
      BY <1>1, <2>4
    <3>2. /\ r6[q].row \in DOMAIN r5 /\ r5[r6[q].row].state = "QUEUED"
          /\ r6[q].pc # "refuse" => r5[r6[q].row].knew = "no"
          /\ r6[q].pc # "settle" => r5[r6[q].row].provider = "not asked"
          /\ \A s \in Workers : r6[s].pc \in Notice!Writing /\ r6[s].row = r6[q].row => s = q
      BY <2>1, <3>1, Zenon DEF Notice!RowsInv
    <3>3. r5'[r6[q].row] = r5[r6[q].row]
      BY <1>2, <2>2, <3>1, <3>2
    <3>4. ~(c.pc \in Notice!Writing /\ c.row = r6[q].row)
      BY <3>1 DEF InHand
    <3>5. \A s \in Workers : r6'[s].pc \in Notice!Writing /\ r6'[s].row = r6'[q].row => s = q
      BY <1>1, <3>1, <3>2, <3>4
    <3> QED BY <2>2, <3>1, <3>2, <3>3, <3>5, Zenon
  <2> QED BY <2>3, <2>4
<1>4. Notice!NoticesStand'
  <2>1. \A j \in 1..MaxMails : Sound(r5[j])
    BY NoticesHave DEF Notice!NoticesInv, Notice!NoticesStand, Sound
  <2>2. \A j \in 1..MaxMails : Sound(r5'[j])
    BY <1>2, <2>1
  <2>3. DOMAIN r5' = 1..MaxMails
    BY <1>2
  <2> QED BY <2>2, <2>3 DEF Notice!NoticesInv, Notice!NoticesStand, Sound
<1>5. Notice!NoticesType'
  BY <1>2, TypeKept, NoticesHave
<1> QED BY <1>3, <1>4, <1>5, AlertsKept DEF Notice!NoticesInv

\* A step that writes nothing.
LEMMA NotifierMoves ==
  ASSUME Notice!NoticesInv, NEW p \in Workers, NEW c, Fits(c), r6' = [r6 EXCEPT ![p] = c], r3' = r3, r2' = r2, r5' = r5,
         \A a \in Notice!Levels : Owing(c, a) => Owing(r6[p], a) /\ \A m, n \in c.to : m = n,
         c.pc \notin Notice!Writing
  PROVE  Notice!NoticesInv'
<1>1. Notice!NoticesType'
  BY TypeKept, NoticesHave
<1>2. Notice!NoticesStand'
  BY DEF Notice!NoticesInv, Notice!NoticesStand
<1> QED BY <1>1, <1>2, AlertsKept, RowsKept DEF Notice!NoticesInv

LEMMA CrossedIsLevel == Notice!Crossed \in {0} \cup Notice!Levels
<1> DEFINE S == {0} \cup {l \in Notice!Levels : r1 * 100 >= l * AllowedAwbs}
<1>1. \E x \in S : \A y \in S : x >= y
  <2>1. CASE 100 \in S
    BY <2>1 DEF Notice!Levels
  <2>2. CASE 100 \notin S /\ 80 \in S
    BY <2>2 DEF Notice!Levels
  <2>3. CASE 100 \notin S /\ 80 \notin S
    BY <2>3 DEF Notice!Levels
  <2> QED BY <2>1, <2>2, <2>3
<1>2. Notice!Max(S) \in S
  BY <1>1 DEF Notice!Max
<1>3. Notice!Crossed = Notice!Max(S)
  BY DEF Notice!Crossed
<1> QED BY <1>2, <1>3

LEMMA NoticesKept ==
  ASSUME Notice!NoticesInv, [Notice!Next]_<<r1, r2, r3, r4, r5, r6>>
  PROVE  Notice!NoticesInv'
<1>1. CASE UNCHANGED <<r1, r2, r3, r4, r5, r6>>
  <2>1. r2' = r2 /\ r3' = r3 /\ r5' = r5 /\ r6' = r6
    BY <1>1
  <2>2. Notice!NoticesType'
    BY <2>1 DEF Notice!NoticesInv, Notice!NoticesType
  <2>3. Notice!RowsInv'
    BY <2>1 DEF Notice!NoticesInv, Notice!RowsInv
  <2>4. Notice!NoticesStand'
    BY <2>1 DEF Notice!NoticesInv, Notice!NoticesStand
  <2>5. \A q \in Workers, a \in Notice!Levels : Notice!Owes(q, a)' <=> Notice!Owes(q, a)
    BY <2>1 DEF Notice!Owes, Notice!At
  <2>6. Notice!AlertsInv'
    BY <2>1, <2>5 DEF Notice!NoticesInv, Notice!AlertsInv
  <2> QED BY <2>2, <2>3, <2>4, <2>6 DEF Notice!NoticesInv
<1> SUFFICES ASSUME NEW p \in Workers,
               \/ Notice!Debit(p) \/ Notice!CheckAllowance(p) \/ Notice!RaiseAlert(p) \/ Notice!NotifyOwner(p, {})
               \/ \E m \in ShopMembers : \/ m \notin Mailed /\ Notice!NotifyOwner(p, {m})
                                         \/ m \in Mailed /\ Notice!NotifyMembers(p, {m})
                                         \/ Notice!Deliver(p, m)
               \/ Notice!Delivered(p) \/ Notice!CheckSuppressed(p) \/ Notice!Refuse(p) \/ Notice!Send(p)
               \/ Notice!Settle(p) \/ Notice!SuppressAddress(p) \/ Notice!Lost(p)
             PROVE  Notice!NoticesInv'
  BY <1>1, Zenon DEF Notice!Next
<1>2. /\ r6 \in [Workers -> Notifier] /\ Fits(r6[p]) /\ r6[p] \in Notifier
      /\ r3 \in [ShopMembers -> [Notice!Levels -> {0, 1}]] /\ r5 \in [1..MaxMails -> Email]
  BY NoticesHave DEF Fits
<1>3. CASE Notice!Lost(p) \/ Notice!Delivered(p)
  <2>1. r6' = [r6 EXCEPT ![p] = Notice!Idle] /\ r3' = r3 /\ r2' = r2 /\ r5' = r5
    BY <1>3 DEF Notice!Lost, Notice!Delivered, Notice!Rest
  <2>2. \A a \in Notice!Levels : ~Owing(Notice!Idle, a)
    BY IdleFits DEF Owing
  <2>3. Notice!Idle.pc \notin Notice!Writing
    BY IdleFits DEF Notice!Writing
  <2> QED BY <2>1, <2>2, <2>3, IdleFits, NotifierMoves
<1>4. CASE Notice!Debit(p)
  <2> DEFINE c == [r6[p] EXCEPT !.pc = "check"]
  <2>1. r6' = [r6 EXCEPT ![p] = c] /\ r3' = r3 /\ r2' = r2 /\ r5' = r5 /\ r6[p].pc = "idle"
    BY <1>4 DEF Notice!Debit, Notice!Goto, Notice!At
  <2>2. c.pc = "check" /\ c.to = {} /\ c.alert = 0 /\ Fits(c)
    BY <1>2, <2>1 DEF Fits, Notifier
  <2> HIDE DEF c
  <2> QED BY <2>1, <2>2, NotifierMoves DEF Owing, Notice!Writing
<1>5. CASE Notice!CheckAllowance(p)
  <2>1. r6[p].pc = "check" /\ r3' = r3 /\ r2' = r2 /\ r5' = r5
    BY <1>5 DEF Notice!CheckAllowance, Notice!At
  <2>2. CASE Notice!Crossed = 0
    <3>1. r6' = [r6 EXCEPT ![p] = Notice!Idle]
      BY <1>5, <2>2 DEF Notice!CheckAllowance, Notice!Rest
    <3> QED BY <2>1, <3>1, IdleFits, NotifierMoves DEF Owing, Notice!Writing
  <2>3. CASE Notice!Crossed # 0
    <3> DEFINE c == [r6[p] EXCEPT !.pc = "raise", !.alert = Notice!Crossed]
    <3>1. r6' = [r6 EXCEPT ![p] = c]
      BY <1>5, <2>3 DEF Notice!CheckAllowance
    <3>2. c.pc = "raise" /\ c.to = {} /\ Fits(c)
      BY <1>2, <2>1, CrossedIsLevel DEF Fits, Notifier
    <3> HIDE DEF c
    <3> QED BY <2>1, <3>1, <3>2, NotifierMoves DEF Owing, Notice!Writing
  <2> QED BY <2>2, <2>3
<1>6. CASE Notice!RaiseAlert(p)
  <2>1. r6[p].pc = "raise" /\ r3' = r3 /\ r5' = r5 /\ r2' = r2 \cup {r6[p].alert}
    BY <1>6 DEF Notice!RaiseAlert, Notice!At
  <2>2. CASE r6[p].alert \in r2
    <3>1. r6' = [r6 EXCEPT ![p] = Notice!Idle] /\ r2' = r2
      BY <1>6, <2>1, <2>2 DEF Notice!RaiseAlert, Notice!Rest, Notice!Fresh
    <3> QED BY <2>1, <3>1, IdleFits, NotifierMoves DEF Owing, Notice!Writing
  <2>3. CASE r6[p].alert \notin r2
    <3> DEFINE c == [r6[p] EXCEPT !.pc = "notify"]
    <3>1. r6' = [r6 EXCEPT ![p] = c]
      BY <1>6, <2>3 DEF Notice!RaiseAlert, Notice!Goto, Notice!Fresh
    <3>2. c.pc = "notify" /\ c.to = {} /\ c.alert = r6[p].alert /\ Fits(c)
      BY <1>2, <2>1 DEF Fits, Notifier
    <3> HIDE DEF c
    <3>3. Notice!NoticesType' /\ Notice!RowsInv'
      BY <1>2, <2>1, <3>1, <3>2, TypeKept, RowsKept DEF Notice!Writing
    <3>4. Notice!NoticesStand'
      BY <2>1 DEF Notice!NoticesInv, Notice!NoticesStand
    <3>5. Notice!AlertsInv'
      <4>1. Notice!AlertsInv
        BY DEF Notice!NoticesInv
      <4>2. \A q \in Workers : r6'[q] = IF q = p THEN c ELSE r6[q]
        BY <1>2, <3>1
      <4> SUFFICES ASSUME NEW a \in Notice!Levels
                   PROVE  /\ \A q \in Workers : Notice!Owes(q, a)' =>
                               /\ a \in r2' /\ \A s \in Workers : Notice!Owes(s, a)' => s = q
                               /\ \A m, n \in r6'[q].to : m = n
                          /\ (a \notin r2' \/ \E q \in Workers : Notice!Owes(q, a)') => \A m \in ShopMembers : r3[m][a] = 0
                          /\ \A m \in ShopMembers : r3[m][a] = 1 => \A n \in ShopMembers : r3[n][a] = 1 => m = n
        BY <2>1 DEF Notice!AlertsInv
      <4>3. CASE a = r6[p].alert
        <5>1. \A q \in Workers : ~Notice!Owes(q, a) /\ \A m \in ShopMembers : r3[m][a] = 0
          BY <2>3, <4>1, <4>3 DEF Notice!AlertsInv
        <5>2. \A q \in Workers : Notice!Owes(q, a)' => q = p
          BY <4>2, <5>1 DEF Notice!Owes, Notice!At
        <5>3. r6'[p].to = {}
          BY <3>2, <4>2
        <5> QED BY <2>1, <4>3, <5>1, <5>2, <5>3
      <4>4. CASE a # r6[p].alert
        <5>1. \A q \in Workers : Notice!Owes(q, a)' => Notice!Owes(q, a) /\ r6'[q] = r6[q]
          BY <3>2, <4>2, <4>4 DEF Notice!Owes, Notice!At
        <5> HIDE DEF Notice!Owes
        <5> QED BY <2>1, <4>1, <4>4, <5>1 DEF Notice!AlertsInv
      <4> QED BY <4>3, <4>4
    <3> QED BY <3>3, <3>4, <3>5 DEF Notice!NoticesInv
  <2> QED BY <2>2, <2>3
<1>7. ASSUME NEW to \in SUBSET ShopMembers, \A m, n \in to : m = n, Notice!NotifyOwner(p, to)
      PROVE  Notice!NoticesInv'
  <2>1. r6[p].pc = "notify" /\ r3' = r3 /\ r2' = r2 /\ r5' = r5
    BY <1>7 DEF Notice!NotifyOwner, Notice!At
  <2>2. CASE to = {}
    <3>1. r6' = [r6 EXCEPT ![p] = Notice!Idle]
      BY <1>7, <2>2 DEF Notice!NotifyOwner, Notice!Rest
    <3> QED BY <2>1, <3>1, IdleFits, NotifierMoves DEF Owing, Notice!Writing
  <2>3. CASE to # {}
    <3> DEFINE c == [r6[p] EXCEPT !.pc = "members", !.to = to]
    <3>1. r6' = [r6 EXCEPT ![p] = c]
      BY <1>7, <2>3 DEF Notice!NotifyOwner
    <3>2. c.pc = "members" /\ c.to = to /\ c.alert = r6[p].alert /\ Fits(c)
      BY <1>2, <2>1 DEF Fits, Notifier
    <3> HIDE DEF c
    <3> QED BY <1>7, <2>1, <3>1, <3>2, NotifierMoves DEF Owing, Notice!Writing
  <2> QED BY <2>2, <2>3
<1>8. ASSUME NEW m \in ShopMembers, Notice!NotifyMembers(p, {m}) PROVE Notice!NoticesInv'
  <2> DEFINE c == [Notice!Idle EXCEPT !.pc = "members", !.to = {m}]
  <2>1. r6' = [r6 EXCEPT ![p] = c] /\ r3' = r3 /\ r2' = r2 /\ r5' = r5
    BY <1>8 DEF Notice!NotifyMembers
  <2>2. c.pc = "members" /\ c.alert = 0 /\ Fits(c)
    BY IdleFits DEF Fits, Notifier
  <2> HIDE DEF c
  <2>3. \A a \in Notice!Levels : ~Owing(c, a)
    BY <2>2 DEF Owing, Notice!Levels
  <2>4. c.pc \notin Notice!Writing
    BY <2>2 DEF Notice!Writing
  <2> QED BY <2>1, <2>2, <2>3, <2>4, NotifierMoves
<1>9. ASSUME NEW m \in ShopMembers, Notice!Deliver(p, m) PROVE Notice!NoticesInv'
  <2> DEFINE a == r6[p].alert
             c == [r6[p] EXCEPT !.to = @ \ {m}, !.pc = IF m \in Mailed THEN "dispatch" ELSE "members",
                                !.whom = IF m \in Mailed THEN m ELSE @]
  <2>1. /\ r6[p].pc = "members" /\ m \in r6[p].to /\ r2' = r2 /\ r5' = r5 /\ r6' = [r6 EXCEPT ![p] = c]
        /\ r3' = IF a \in Notice!Levels THEN [r3 EXCEPT ![m][a] = @ + 1] ELSE r3
    BY <1>9 DEF Notice!Deliver, Notice!At
  <2>2. c.pc \in {"dispatch", "members"} /\ c.alert = a /\ c.to = r6[p].to \ {m} /\ Fits(c)
    BY <1>2, <2>1 DEF Fits, Notifier
  <2> HIDE DEF c
  <2>3. \A q \in Workers : r6'[q] = IF q = p THEN c ELSE r6[q]
    BY <1>2, <2>1
  <2>4. CASE a \notin Notice!Levels
    BY <2>1, <2>2, <2>4, NotifierMoves DEF Owing, Notice!Writing
  <2>5. CASE a \in Notice!Levels
    <3>1. Notice!Owes(p, a) /\ Notice!AlertsInv
      BY <2>1 DEF Notice!Owes, Notice!NoticesInv
    <3>2. /\ a \in r2 /\ \A q \in Workers : Notice!Owes(q, a) => q = p
          /\ \A x \in ShopMembers : r3[x][a] = 0
          /\ \A x, y \in r6[p].to : x = y
      BY <2>5, <3>1, Zenon DEF Notice!AlertsInv
    <3>3. \A x \in ShopMembers, b \in Notice!Levels : r3'[x][b] = IF x = m /\ b = a THEN 1 ELSE r3[x][b]
      <4> SUFFICES ASSUME NEW x \in ShopMembers, NEW b \in Notice!Levels
                   PROVE  r3'[x][b] = IF x = m /\ b = a THEN 1 ELSE r3[x][b]
        OBVIOUS
      <4>1. r3' = [r3 EXCEPT ![m][a] = @ + 1] /\ r3[m][a] = 0
        BY <2>1, <2>5, <3>2
      <4>2. r3'[x] = IF x = m THEN [r3[m] EXCEPT ![a] = @ + 1] ELSE r3[x]
        BY <1>2, <4>1
      <4>3. r3[m] \in [Notice!Levels -> {0, 1}]
        BY <1>2
      <4> QED BY <4>1, <4>2, <4>3
    <3>4. r3' \in [ShopMembers -> [Notice!Levels -> {0, 1}]]
      <4>1. r3' = [r3 EXCEPT ![m][a] = @ + 1] /\ r3[m][a] = 0
        BY <2>1, <2>5, <3>2
      <4>2. [r3[m] EXCEPT ![a] = @ + 1] \in [Notice!Levels -> {0, 1}]
        BY <1>2, <2>5, <4>1
      <4> QED BY <1>2, <4>1, <4>2
    <3>5. c.to = {}
      BY <2>1, <2>2, <3>2
    <3>6. Notice!NoticesType' /\ Notice!RowsInv'
      BY <1>2, <2>1, <2>2, <3>4, TypeKept, RowsKept DEF Notice!Writing
    <3>7. Notice!AlertsInv'
      <4> SUFFICES ASSUME NEW b \in Notice!Levels
                   PROVE  /\ \A q \in Workers : Notice!Owes(q, b)' =>
                               /\ b \in r2 /\ \A s \in Workers : Notice!Owes(s, b)' => s = q
                               /\ \A x, y \in r6'[q].to : x = y
                          /\ (b \notin r2 \/ \E q \in Workers : Notice!Owes(q, b)') => \A x \in ShopMembers : r3'[x][b] = 0
                          /\ \A x \in ShopMembers : r3'[x][b] = 1 => \A y \in ShopMembers : r3'[y][b] = 1 => x = y
        BY <2>1 DEF Notice!AlertsInv
      <4>1. CASE b = a
        <5>1. \A q \in Workers : ~Notice!Owes(q, b)'
          <6>1. ~Notice!Owes(p, b)'
            BY <2>2, <2>3, <3>5 DEF Notice!Owes, Notice!At
          <6>2. \A q \in Workers : q # p => (Notice!Owes(q, b)' <=> Notice!Owes(q, b))
            BY <2>3 DEF Notice!Owes, Notice!At
          <6> QED BY <3>2, <4>1, <6>1, <6>2
        <5>2. \A x \in ShopMembers : r3'[x][b] = 1 => x = m
          BY <3>2, <3>3, <4>1
        <5> QED BY <3>2, <4>1, <5>1, <5>2
      <4>2. CASE b # a
        <5>1. \A q \in Workers : Notice!Owes(q, b)' => Notice!Owes(q, b) /\ r6'[q] = r6[q]
          BY <2>2, <2>3, <4>2 DEF Notice!Owes, Notice!At
        <5>2. \A x \in ShopMembers : r3'[x][b] = r3[x][b]
          BY <3>3, <4>2
        <5> QED BY <3>1, <5>1, <5>2 DEF Notice!AlertsInv
      <4> QED BY <4>1, <4>2
    <3>8. Notice!NoticesStand'
      <4>1. \A b \in Notice!Levels, x \in ShopMembers :
              /\ r3'[x][b] <= 1
              /\ \A y \in ShopMembers : r3'[x][b] = 1 /\ r3'[y][b] = 1 => x = y
        BY <3>4, <3>7 DEF Notice!AlertsInv
      <4> QED BY <2>1, <4>1 DEF Notice!NoticesInv, Notice!NoticesStand
    <3> QED BY <3>6, <3>7, <3>8 DEF Notice!NoticesInv
  <2> QED BY <2>4, <2>5
<1>10. CASE Notice!CheckSuppressed(p)
  <2> DEFINE m == r6[p].whom
             i == Notice!Min(Notice!FreeRow)
             row == [state |-> "QUEUED", to |-> m, knew |-> IF Notice!Known(m) THEN "yes" ELSE "no", provider |-> "not asked"]
             c == [r6[p] EXCEPT !.pc = IF Notice!Known(m) THEN "refuse" ELSE "send", !.whom = "nobody", !.row = i]
  <2>1. /\ r6[p].pc = "dispatch" /\ Notice!FreeRow # {} /\ r3' = r3 /\ r2' = r2
        /\ r5' = [r5 EXCEPT ![i] = row] /\ r6' = [r6 EXCEPT ![p] = c]
    BY <1>10 DEF Notice!CheckSuppressed, Notice!At
  <2>2. i \in 1..MaxMails /\ r5[i] = Notice!NoRow
    <3>1. Notice!FreeRow \in SUBSET Nat /\ Notice!FreeRow \subseteq 1..MaxMails
      BY <1>2 DEF Notice!FreeRow
    <3>2. i \in Notice!FreeRow
      <4>1. \E x \in Notice!FreeRow : \A y \in Notice!FreeRow : x <= y
        BY <2>1, <3>1, HasLeast, Zenon
      <4> QED BY <4>1 DEF Notice!Min
    <3> QED BY <3>1, <3>2 DEF Notice!FreeRow
  <2>3. row \in Email /\ row.state = "QUEUED" /\ row.provider = "not asked" /\ Sound(row)
    BY <1>2 DEF Email, Notifier, Sound
  <2>4. row.knew = IF Notice!Known(m) THEN "yes" ELSE "no"
    OBVIOUS
  <2> HIDE DEF row, i, m
  <2>5. /\ Fits(c) /\ c.row = i /\ c.to = r6[p].to /\ c.alert = r6[p].alert
        /\ c.pc \in {"refuse", "send"} /\ (c.pc # "refuse" => row.knew = "no")
    <3>1. i \in 0..MaxMails
      BY <2>2
    <3>2. /\ c \in Notifier /\ c.row = i /\ c.to = r6[p].to /\ c.alert = r6[p].alert
          /\ c.pc = IF Notice!Known(m) THEN "refuse" ELSE "send"
      BY <1>2, <3>1 DEF Notifier, Notice!Writing
    <3> QED BY <2>4, <3>2 DEF Fits
  <2> HIDE DEF c
  <2>6. \A q \in Workers : r6[q].pc \in Notice!Writing => r6[q].row # i
    <3>1. Notice!RowsInv
      BY DEF Notice!NoticesInv
    <3>2. r5[i].state # "QUEUED"
      <4>1. Notice!NoRow.state = "NONE"
        BY DEF Notice!NoRow
      <4> QED BY <2>2, <4>1
    <3> QED BY <3>2, <3>1 DEF Notice!RowsInv
  <2>7. \A b \in Notice!Levels : Owing(c, b) => Owing(r6[p], b) /\ \A x, y \in c.to : x = y
    <3> SUFFICES ASSUME NEW b \in Notice!Levels, Owing(c, b) PROVE Owing(r6[p], b) /\ \A x, y \in c.to : x = y
      OBVIOUS
    <3>1. Owing(r6[p], b) /\ Notice!Owes(p, b)
      BY <2>1, <2>5 DEF Owing, Notice!Owes
    <3>2. \A x, y \in r6[p].to : x = y
      BY <3>1 DEF Notice!NoticesInv, Notice!AlertsInv
    <3> QED BY <2>5, <3>1, <3>2
  <2>8. /\ \A q \in Workers : r6[q].pc \in Notice!Writing /\ q # p => r6[q].row # i
        /\ InHand(c, i, row)
    BY <2>3, <2>5, <2>6 DEF InHand
  <2> QED BY <2>1, <2>2, <2>3, <2>5, <2>7, <2>8, RowMoves, Zenon
\* Who writes, and goes on with whom is left.
<1>11. ASSUME r6[p].pc \in Notice!Writing
       PROVE  /\ r6[p].row \in 1..MaxMails /\ r5[r6[p].row] \in Email /\ r5[r6[p].row].state = "QUEUED"
              /\ r6[p].pc # "refuse" => r5[r6[p].row].knew = "no"
              /\ r6[p].pc # "settle" => r5[r6[p].row].provider = "not asked"
              /\ \A q \in Workers : r6[q].pc \in Notice!Writing /\ q # p => r6[q].row # r6[p].row
  <2>1. Notice!RowsInv
    BY DEF Notice!NoticesInv
  <2>2. r6[p].row \in DOMAIN r5 /\ DOMAIN r5 = 1..MaxMails
    BY <1>2, <1>11, <2>1 DEF Notice!RowsInv
  <2> QED BY <1>2, <1>11, <2>1, <2>2, Zenon DEF Notice!RowsInv
<1>12. ASSUME NEW pc \in {"members", "settle", "suppress"}, NEW c, c = [r6[p] EXCEPT !.pc = pc],
              r6[p].pc \in Notice!Writing \cup {"suppress"}
       PROVE  /\ Fits(c) /\ c.pc = pc /\ c.row = r6[p].row
              /\ \A b \in Notice!Levels : Owing(c, b) => Owing(r6[p], b) /\ \A x, y \in c.to : x = y
  <2>1. c.to = r6[p].to /\ c.alert = r6[p].alert /\ c.pc = pc /\ c.row = r6[p].row /\ Fits(c)
    BY <1>2, <1>12 DEF Fits, Notifier, Notice!Writing
  <2>2. \A b \in Notice!Levels : Owing(c, b) => Notice!Owes(p, b)
    BY <2>1 DEF Owing, Notice!Owes
  <2> QED BY <2>1, <2>2, <1>12 DEF Notice!NoticesInv, Notice!AlertsInv, Owing, Notice!Owes, Notice!At, Notice!Writing
<1>13. CASE Notice!Refuse(p)
  <2> DEFINE i == r6[p].row
             row == [r5[i] EXCEPT !.state = "FAILED"]
             c == [r6[p] EXCEPT !.pc = "members"]
  <2>1. /\ r6[p].pc \in {"refuse", "send"} /\ r3' = r3 /\ r2' = r2
        /\ r5' = [r5 EXCEPT ![i] = row] /\ r6' = [r6 EXCEPT ![p] = c]
    BY <1>13 DEF Notice!Refuse, Notice!At, Notice!Goto
  <2>2. r6[p].pc \in Notice!Writing /\ "members" \notin Notice!Writing
    BY <2>1 DEF Notice!Writing
  <2>3. row \in Email /\ row.provider = "not asked" /\ row.state = "FAILED"
    BY <1>11, <2>1, <2>2 DEF Email
  <2>4. Sound(row)
    BY <2>3 DEF Sound
  <2>5. /\ Fits(c) /\ c.pc = "members"
        /\ \A b \in Notice!Levels : Owing(c, b) => Owing(r6[p], b) /\ \A x, y \in c.to : x = y
    BY <1>12, <2>2
  <2> HIDE DEF row, c
  <2>6. InHand(c, i, row)
    BY <2>2, <2>5 DEF InHand
  <2> QED BY <1>11, <2>1, <2>2, <2>3, <2>4, <2>5, <2>6, RowMoves, Zenon
<1>14. CASE Notice!Send(p)
  <2> DEFINE i == r6[p].row
             c == [r6[p] EXCEPT !.pc = "settle"]
  <2>1. PICK said \in {"accepted", "refused", "hard bounce"} : r5' = [r5 EXCEPT ![i].provider = said]
    BY <1>14 DEF Notice!Send
  <2>2. r6[p].pc = "send" /\ r3' = r3 /\ r2' = r2 /\ r6' = [r6 EXCEPT ![p] = c]
    BY <1>14 DEF Notice!Send, Notice!At, Notice!Goto
  <2> DEFINE row == [r5[i] EXCEPT !.provider = said]
  <2>3. r6[p].pc \in Notice!Writing /\ r5' = [r5 EXCEPT ![i] = row]
    BY <2>1, <2>2 DEF Notice!Writing
  <2>4. row \in Email /\ row.state = "QUEUED" /\ row.knew = "no"
    BY <1>11, <2>2, <2>3 DEF Email
  <2>5. Sound(row)
    BY <2>4 DEF Sound
  <2>6. /\ Fits(c) /\ c.pc = "settle" /\ c.row = i
        /\ \A b \in Notice!Levels : Owing(c, b) => Owing(r6[p], b) /\ \A x, y \in c.to : x = y
    BY <1>12, <2>3
  <2> HIDE DEF row, c
  <2>7. InHand(c, i, row)
    BY <2>4, <2>6 DEF InHand
  <2> QED BY <1>11, <2>2, <2>3, <2>4, <2>5, <2>6, <2>7, RowMoves, Zenon
<1>15. CASE Notice!Settle(p)
  <2> DEFINE i == r6[p].row
             row == [r5[i] EXCEPT !.state = IF r5[i].provider = "accepted" THEN "SENT" ELSE "FAILED"]
             pc == IF r5[i].provider = "hard bounce" THEN "suppress" ELSE "members"
             c == [r6[p] EXCEPT !.pc = pc]
  <2>1. /\ r6[p].pc = "settle" /\ r3' = r3 /\ r2' = r2
        /\ r5' = [r5 EXCEPT ![i] = row] /\ r6' = [r6 EXCEPT ![p] = c]
    BY <1>15 DEF Notice!Settle, Notice!At, Notice!Goto
  <2>2. r6[p].pc \in Notice!Writing /\ pc \notin Notice!Writing /\ pc \in {"members", "settle", "suppress"}
    BY <2>1 DEF Notice!Writing
  <2>3. /\ row \in Email /\ row.knew = "no" /\ row.provider = r5[i].provider
        /\ row.state = IF r5[i].provider = "accepted" THEN "SENT" ELSE "FAILED"
    BY <1>11, <2>1, <2>2 DEF Email
  <2>4. /\ Fits(c) /\ c.pc = pc
        /\ \A b \in Notice!Levels : Owing(c, b) => Owing(r6[p], b) /\ \A x, y \in c.to : x = y
    BY <1>12, <2>2
  <2> HIDE DEF row, pc, c
  <2>5. Sound(row)
    BY <2>3 DEF Sound
  <2>6. InHand(c, i, row)
    BY <2>2, <2>4 DEF InHand
  <2> QED BY <1>11, <2>1, <2>2, <2>3, <2>4, <2>5, <2>6, RowMoves, Zenon
<1>16. CASE Notice!SuppressAddress(p)
  <2> DEFINE c == [r6[p] EXCEPT !.pc = "members"]
  <2>1. r6[p].pc = "suppress" /\ r3' = r3 /\ r2' = r2 /\ r5' = r5 /\ r6' = [r6 EXCEPT ![p] = c]
    BY <1>16 DEF Notice!SuppressAddress, Notice!At, Notice!Goto
  <2>2. /\ Fits(c) /\ c.pc = "members"
        /\ \A b \in Notice!Levels : Owing(c, b) => Owing(r6[p], b) /\ \A x, y \in c.to : x = y
    BY <1>12, <2>1
  <2> HIDE DEF c
  <2>3. c.pc \notin Notice!Writing
    BY <2>2 DEF Notice!Writing
  <2> QED BY <2>1, <2>2, <2>3, NotifierMoves, Zenon
<1>17. Notice!NotifyOwner(p, {}) => Notice!NoticesInv'
  BY <1>7
<1>18. ASSUME NEW m \in ShopMembers, Notice!NotifyOwner(p, {m}) PROVE Notice!NoticesInv'
  BY <1>7, <1>18
<1> QED BY <1>3, <1>4, <1>5, <1>6, <1>8, <1>9, <1>10, <1>13, <1>14, <1>15, <1>16, <1>17, <1>18

----------------------------------------------------------------------------
(* Announcements.  r1 is the announcement, r3 the plans, r4 what the runs  *)
(* of publish have still to write, r5 the e-mails.                         *)

LEMMA WritersAreFew ==
  /\ IsFiniteSet(Workers) => \A s : IsFiniteSet(Post!Writers(s))
  /\ \A S : Post!Cardinality(S) = Cardinality(S)
<1>1. \A s : Post!Writers(s) \subseteq Workers
  BY DEF Post!Writers
<1>2. ASSUME NEW S PROVE Post!Cardinality(S) = Cardinality(S)
  BY Zenon DEF Post!Cardinality, Cardinality
<1> QED BY <1>1, <1>2, FS_Subset

LEMMA PostsInitially == Post!Init => Post!PostsInv
<1> SUFFICES ASSUME Post!Init PROVE Post!PostsInv
  OBVIOUS
<1>1. /\ r5 \in [WarnedShops -> Nat] /\ \A s \in WarnedShops : r5[s] = 0
      /\ \A a \in Workers : r4[a] = Post!Nobody
      /\ r1 = [state |-> "DRAFT", publishes |-> 0] /\ r2 = {}
  BY DEF Post!Init
<1>2. \A s : Post!Writers(s) = {}
  BY <1>1 DEF Post!Writers
<1>3. Post!Cardinality({}) = 0
  BY WritersAreFew, FS_EmptySet
<1>4. \A s \in WarnedShops : \E c, d \in {"basic", "pro"} : r3[s] \in {<<c>>, <<c, d>>}
  BY DEF Post!Init
<1>5. r4 = [a \in Workers |-> r4[a]] /\ r3 = [s \in WarnedShops |-> r3[s]]
  BY DEF Post!Init
<1>6. Post!WarningsStand
  BY <1>1 DEF Post!WarningsStand
<1> QED BY <1>1, <1>2, <1>3, <1>4, <1>5, <1>6 DEF Post!PostsInv

LEMMA PlansGrow ==
  ASSUME Post!PostsInv, NEW s \in WarnedShops, Post!ChangePlan(s), NEW x \in WarnedShops, NEW code, Post!Had(x, code)
  PROVE  Post!Had(x, code)'
<1>1. PICK d : r3' = [r3 EXCEPT ![s] = <<r3[s][1], d>>]
  BY DEF Post!ChangePlan
<1>2. PICK c, e \in {"basic", "pro"} : r3[x] \in {<<c>>, <<c, e>>}
  BY DEF Post!PostsInv
<1>3. Len(r3[s]) = 1
  BY DEF Post!ChangePlan
<1>4. r3 = [y \in WarnedShops |-> r3[y]]
  BY DEF Post!PostsInv
<1>5. CASE x = s
  <2>1. r3[x] = <<c>>
    BY <1>2, <1>3, <1>5
  <2>2. r3'[x] = <<c, d>> /\ code = c
    BY <1>1, <1>4, <1>5, <2>1 DEF Post!Had
  <2> QED BY <2>2 DEF Post!Had
<1>6. CASE x # s
  BY <1>1, <1>4, <1>6 DEF Post!Had
<1> QED BY <1>5, <1>6

\* A step after which no shop has been written to or is to be oftener.
LEMMA PostsMove ==
  ASSUME Post!PostsInv, r5' \in [WarnedShops -> Nat],
         r1' \in [state : {"DRAFT", "PUBLISHED", "EXPIRED"}, publishes : Nat], r1.publishes <= r1'.publishes,
         r1'.state = "PUBLISHED" => r1'.publishes > 0, r2' # {} => r1'.publishes > 0,
         r4' = [a \in Workers |-> r4'[a]], r3' = [s \in WarnedShops |-> r3'[s]],
         \A s \in WarnedShops : \E c, d \in {"basic", "pro"} : r3'[s] \in {<<c>>, <<c, d>>},
         \A s \in WarnedShops : Post!Had(s, "basic") => Post!Had(s, "basic")',
         \A a \in Workers : r4'[a] # Post!Nobody => \A s \in r4'[a] : s \in WarnedShops /\ Post!Had(s, "basic"),
         \A s \in WarnedShops : r5'[s] > r5[s] => Post!Had(s, "basic"),
         \A s \in WarnedShops : r5'[s] + Cardinality(Post!Writers(s)') <= r1'.publishes,
         IsFiniteSet(Workers)
  PROVE  Post!PostsInv'
<1>1. ASSUME NEW s \in WarnedShops PROVE Post!Cardinality(Post!Writers(s)') \in Nat
  <2>1. IsFiniteSet(Post!Writers(s)')
    <3>1. Post!Writers(s)' \subseteq Workers
      BY DEF Post!Writers
    <3> QED BY <3>1, FS_Subset
  <2> QED BY <2>1, WritersAreFew, FS_CardinalityType
<1>2. \A s \in WarnedShops : r5'[s] + Post!Cardinality(Post!Writers(s)') <= r1'.publishes
  BY WritersAreFew
<1>3. \A s \in WarnedShops : r5'[s] > 0 => Post!Had(s, "basic")'
  <2>1. r5 \in [WarnedShops -> Nat] /\ \A s \in WarnedShops : r5[s] > 0 => Post!Had(s, "basic")
    BY DEF Post!PostsInv, Post!WarningsStand
  <2> QED BY <2>1
<1>4. \A s \in WarnedShops : r5'[s] <= r1'.publishes
  BY <1>1, <1>2
<1>5. Post!WarningsStand'
  BY <1>3, <1>4 DEF Post!WarningsStand
<1>6. \A a \in Workers : r4'[a] # Post!Nobody => \A s \in r4'[a] : s \in WarnedShops /\ Post!Had(s, "basic")'
  OBVIOUS
<1> HIDE DEF Post!Had
<1> QED BY <1>2, <1>5, <1>6 DEF Post!PostsInv

LEMMA PostsKept ==
  ASSUME Post!PostsInv, [Post!Next]_<<r1, r2, r3, r4, r5>>, IsFiniteSet(Workers)
  PROVE  Post!PostsInv'
<1>1. /\ r5 \in [WarnedShops -> Nat] /\ r1 \in [state : {"DRAFT", "PUBLISHED", "EXPIRED"}, publishes : Nat]
      /\ r4 = [a \in Workers |-> r4[a]] /\ r3 = [s \in WarnedShops |-> r3[s]]
      /\ \A s \in WarnedShops : \E c, d \in {"basic", "pro"} : r3[s] \in {<<c>>, <<c, d>>}
      /\ \A a \in Workers : r4[a] # Post!Nobody => \A s \in r4[a] : s \in WarnedShops /\ Post!Had(s, "basic")
      /\ r1.state = "PUBLISHED" => r1.publishes > 0
      /\ r2 # {} => r1.publishes > 0
  BY DEF Post!PostsInv, Post!WarningsStand
<1>2. \A s \in WarnedShops : /\ r5[s] + Cardinality(Post!Writers(s)) <= r1.publishes
                             /\ IsFiniteSet(Post!Writers(s)) /\ Cardinality(Post!Writers(s)) \in Nat
  BY WritersAreFew, FS_CardinalityType DEF Post!PostsInv
<1>3. ASSUME r3' = r3, NEW s PROVE Post!Had(s, "basic")' <=> Post!Had(s, "basic")
  BY <1>3 DEF Post!Had
<1>4. ASSUME r4' = r4, NEW s PROVE Post!Writers(s)' = Post!Writers(s)
  BY <1>4 DEF Post!Writers
<1>5. CASE UNCHANGED <<r1, r2, r3, r4, r5>>
  BY <1>1, <1>2, <1>3, <1>4, <1>5, PostsMove
<1>6. CASE Post!Expire \/ \E m \in Mailed, s \in WarnedShops : Post!Dismiss(m, s)
  <2>1. /\ r3' = r3 /\ r4' = r4 /\ r5' = r5 /\ r1'.publishes = r1.publishes
        /\ r1' \in [state : {"DRAFT", "PUBLISHED", "EXPIRED"}, publishes : Nat]
        /\ r1'.state = "PUBLISHED" => r1'.publishes > 0
        /\ r2' # {} => r1'.publishes > 0
    BY <1>1, <1>6 DEF Post!Expire, Post!Dismiss, Post!Visible
  <2> QED BY <1>1, <1>2, <1>3, <1>4, <2>1, PostsMove
<1>7. ASSUME NEW s \in WarnedShops, Post!ChangePlan(s) PROVE Post!PostsInv'
  <2>1. /\ r1' = r1 /\ r2' = r2 /\ r4' = r4 /\ r5' = r5 /\ Len(r3[s]) = 1
    BY <1>7 DEF Post!ChangePlan
  <2>2. PICK d \in {"basic", "pro"} : r3' = [r3 EXCEPT ![s] = <<r3[s][1], d>>]
    BY <1>7 DEF Post!ChangePlan
  <2>3. \A x \in WarnedShops : \E c, e \in {"basic", "pro"} : r3'[x] \in {<<c>>, <<c, e>>}
    <3> SUFFICES ASSUME NEW x \in WarnedShops PROVE \E c, e \in {"basic", "pro"} : r3'[x] \in {<<c>>, <<c, e>>}
      OBVIOUS
    <3>1. CASE x # s
      BY <1>1, <2>2, <3>1
    <3>2. CASE x = s
      <4>1. PICK c, e \in {"basic", "pro"} : r3[s] \in {<<c>>, <<c, e>>}
        BY <1>1
      <4>2. r3'[x] = <<c, d>>
        BY <1>1, <2>2, <3>2, <4>1
      <4> QED BY <4>2
    <3> QED BY <3>1, <3>2
  <2>4. r3' = [x \in WarnedShops |-> r3'[x]]
    BY <1>1, <2>2
  <2>5. \A x \in WarnedShops : Post!Had(x, "basic") => Post!Had(x, "basic")'
    BY <1>7, PlansGrow
  <2> QED BY <1>1, <1>2, <1>4, <2>1, <2>3, <2>4, <2>5, PostsMove
<1>8. ASSUME NEW a \in Workers, Post!Publish(a) PROVE Post!PostsInv'
  <2>1. /\ r2' = r2 /\ r3' = r3 /\ r5' = r5 /\ r4[a] = Post!Nobody
        /\ r4' = [r4 EXCEPT ![a] = Post!TargetShopIds]
        /\ r1' = [r1 EXCEPT !.publishes = @ + 1, !.state = IF @ = "DRAFT" THEN "PUBLISHED" ELSE @]
    BY <1>8 DEF Post!Publish
  <2>2. /\ r1' \in [state : {"DRAFT", "PUBLISHED", "EXPIRED"}, publishes : Nat] /\ r1'.publishes = r1.publishes + 1
    <3> DEFINE st == IF r1.state = "DRAFT" THEN "PUBLISHED" ELSE r1.state
    <3>1. r1' = [r1 EXCEPT !.publishes = r1.publishes + 1, !.state = st]
      BY <2>1, Zenon
    <3>2. st \in {"DRAFT", "PUBLISHED", "EXPIRED"} /\ r1.publishes + 1 \in Nat
      BY <1>1
    <3> HIDE DEF st
    <3> QED BY <1>1, <3>1, <3>2
  <2>3. \A b \in Workers : r4'[b] # Post!Nobody => \A s \in r4'[b] : s \in WarnedShops /\ Post!Had(s, "basic")
    BY <1>1, <2>1 DEF Post!TargetShopIds
  <2>4. ASSUME NEW s \in WarnedShops PROVE r5'[s] + Cardinality(Post!Writers(s)') <= r1'.publishes
    <3>1. Post!Writers(s)' \subseteq Post!Writers(s) \cup {a}
      BY <1>1, <2>1 DEF Post!Writers
    <3>2. /\ IsFiniteSet(Post!Writers(s) \cup {a})
          /\ Cardinality(Post!Writers(s) \cup {a}) <= Cardinality(Post!Writers(s)) + 1
      <4>1. /\ IsFiniteSet(Post!Writers(s) \cup {a})
            /\ Cardinality(Post!Writers(s) \cup {a}) =
                 IF a \in Post!Writers(s) THEN Cardinality(Post!Writers(s)) ELSE Cardinality(Post!Writers(s)) + 1
        BY <1>2, FS_AddElement, Zenon
      <4> QED BY <1>2, <4>1
    <3>3. Cardinality(Post!Writers(s)') <= Cardinality(Post!Writers(s)) + 1 /\ Cardinality(Post!Writers(s)') \in Nat
      BY <1>2, <3>1, <3>2, FS_Subset, FS_CardinalityType
    <3> QED BY <1>1, <1>2, <2>1, <2>2, <3>3
  <2>5. r4' = [b \in Workers |-> r4'[b]]
    BY <1>1, <2>1
  <2> QED BY <1>1, <1>3, <2>1, <2>2, <2>3, <2>4, <2>5, PostsMove
<1>9. ASSUME NEW a \in Workers, Post!NotifyShop(a) PROVE Post!PostsInv'
  <2>1. r1' = r1 /\ r2' = r2 /\ r3' = r3 /\ r4[a] # Post!Nobody
    BY <1>9 DEF Post!NotifyShop
  <2>2. CASE r4[a] = {}
    <3>1. r4' = [r4 EXCEPT ![a] = Post!Nobody] /\ r5' = r5
      BY <1>9, <2>2 DEF Post!NotifyShop
    <3>2. \A s : Post!Writers(s)' = Post!Writers(s)
      BY <1>1, <2>2, <3>1 DEF Post!Writers
    <3> QED BY <1>1, <1>2, <1>3, <2>1, <3>1, <3>2, PostsMove
  <2>3. CASE r4[a] # {}
    <3>1. PICK s \in r4[a] : r4' = [r4 EXCEPT ![a] = @ \ {s}] /\ r5' \in {r5, [r5 EXCEPT ![s] = @ + 1]}
      BY <1>9, <2>3 DEF Post!NotifyShop
    <3>2. s \in WarnedShops /\ Post!Had(s, "basic") /\ a \in Post!Writers(s)
      BY <1>1, <2>1, <3>1 DEF Post!Writers
    <3>3. /\ r5' \in [WarnedShops -> Nat] /\ r5'[s] <= r5[s] + 1
          /\ \A x \in WarnedShops : x # s => r5'[x] = r5[x]
      BY <1>1, <3>1, <3>2
    <3>4. ASSUME NEW x \in WarnedShops PROVE r5'[x] + Cardinality(Post!Writers(x)') <= r1.publishes
      <4>1. CASE x = s
        <5>1. Post!Writers(x)' \subseteq Post!Writers(x) \ {a}
          BY <1>1, <3>1, <4>1 DEF Post!Writers
        <5>2. /\ IsFiniteSet(Post!Writers(x) \ {a})
              /\ Cardinality(Post!Writers(x) \ {a}) = Cardinality(Post!Writers(x)) - 1
          BY <1>2, <3>2, <4>1, FS_RemoveElement
        <5>3. Cardinality(Post!Writers(x)') <= Cardinality(Post!Writers(x)) - 1 /\ Cardinality(Post!Writers(x)') \in Nat
          BY <5>1, <5>2, FS_Subset, FS_CardinalityType
        <5> QED BY <1>1, <1>2, <3>3, <4>1, <5>3
      <4>2. CASE x # s
        <5>1. Post!Writers(x)' \subseteq Post!Writers(x)
          BY <1>1, <2>1, <3>1, <4>2 DEF Post!Writers
        <5>2. Cardinality(Post!Writers(x)') <= Cardinality(Post!Writers(x)) /\ Cardinality(Post!Writers(x)') \in Nat
          BY <1>2, <5>1, FS_Subset, FS_CardinalityType
        <5> QED BY <1>1, <1>2, <3>3, <4>2, <5>2
      <4> QED BY <4>1, <4>2
    <3>5. \A b \in Workers : r4'[b] # Post!Nobody => \A x \in r4'[b] : x \in WarnedShops /\ Post!Had(x, "basic")
      BY <1>1, <2>1, <3>1
    <3>6. r4' = [b \in Workers |-> r4'[b]]
      BY <1>1, <3>1
    <3>7. \A x \in WarnedShops : r5'[x] > r5[x] => Post!Had(x, "basic")
      BY <1>1, <3>2, <3>3
    <3> QED BY <1>1, <1>3, <2>1, <3>3, <3>4, <3>5, <3>6, <3>7, PostsMove
  <2> QED BY <2>2, <2>3
<1> QED BY <1>5, <1>6, <1>7, <1>8, <1>9 DEF Post!Next

----------------------------------------------------------------------------
(* Helpdesk.  r1 is the tickets, r2 the requests.                          *)

TicketStates == {"OPEN", "IN_PROGRESS", "RESOLVED", "CLOSED"}
TicketRow == [number : Nat, state : TicketStates, version : Int,
              assigned : {"yes", "no"}, responded : {"yes", "no"}, resolved : {"yes", "no"}]
Request == [pc : {"idle", "number", "member", "admin", "page", "transit"}, t : Nat,
            state : TicketStates \cup {"none"}, version : Int]
TrueTo(row, t) ==
  /\ row.number = t
  /\ row.resolved = "yes" <=> row.state \in {"RESOLVED", "CLOSED"}
  /\ row.responded = "yes" => row.state # "OPEN"
About(c) == /\ c.pc \in {"member", "admin", "page", "transit"} => c.t \in DOMAIN r1
            /\ c.pc = "transit" => c.state \in TicketStates

LEMMA StatesOfTickets == DOMAIN Ticket!TicketTransitions = TicketStates
BY DEF Ticket!TicketTransitions, TicketStates

Queries ==
  /\ r1 \in Seq(TicketRow) /\ r2 \in [Workers -> Request]
  /\ \A t \in DOMAIN r1 : TrueTo(r1[t], t)
  /\ \A p \in Workers : /\ About(r2[p])
                        /\ r2[p].pc = "number" => /\ r2[p].version = Len(r1) + 1
                                                  /\ \A q \in Workers : r2[q].pc = "number" => q = p

LEMMA HelpHas == (Ticket!HelpInv <=> Queries) /\ (Ticket!HelpInv' <=> Queries')
<1>1. Ticket!HelpInv <=> Queries
  BY StatesOfTickets, Zenon DEF Ticket!HelpInv, Ticket!TicketsStand, Ticket!At, TicketRow, Request, TrueTo, About, Queries
<1>2. Ticket!HelpInv' <=> Queries'
  BY StatesOfTickets, Zenon DEF Ticket!HelpInv, Ticket!TicketsStand, Ticket!At, TicketRow, Request, TrueTo, About, Queries
<1> QED BY <1>1, <1>2

LEMMA HelpIdles == Ticket!Idle \in Request /\ Ticket!Idle.pc = "idle" /\ About(Ticket!Idle)
BY DEF Ticket!Idle, Request, About

\* What a request begins with.
LEMMA NumberBegins ==
  ASSUME NEW x \in Int
  PROVE  /\ [Ticket!Idle EXCEPT !.pc = "number", !.version = x] \in Request
         /\ [Ticket!Idle EXCEPT !.pc = "number", !.version = x].pc = "number"
         /\ [Ticket!Idle EXCEPT !.pc = "number", !.version = x].version = x
<1>1. PICK c : c = [Ticket!Idle EXCEPT !.pc = "number", !.version = x]
  OBVIOUS
<1>2. c.pc = "number" /\ c.version = x
  BY <1>1 DEF Ticket!Idle
<1>3. c \in Request
  BY <1>1, HelpIdles DEF Request
<1> QED BY <1>1, <1>2, <1>3

LEMMA HelpInitially == Ticket!Init => Queries
<1> SUFFICES ASSUME Ticket!Init PROVE Queries
  OBVIOUS
<1>1. r1 = <<>> /\ r1 \in Seq(TicketRow) /\ DOMAIN r1 = {}
  BY DEF Ticket!Init
<1>2. r2 \in [Workers -> Request] /\ \A p \in Workers : r2[p] = Ticket!Idle
  BY HelpIdles DEF Ticket!Init
<1>3. \A p \in Workers : About(r2[p]) /\ r2[p].pc # "number"
  BY <1>2, HelpIdles
<1> HIDE DEF About, TicketRow, Request
<1> QED BY <1>1, <1>2, <1>3, Zenon DEF Queries

\* The numbers given are those from 1 on.
LEMMA NextIsNext ==
  ASSUME Queries
  PROVE  Ticket!NextNumber = Len(r1) + 1
<1> DEFINE S == {0} \cup {r1[t].number : t \in DOMAIN r1}
<1>1. Len(r1) \in Nat /\ DOMAIN r1 = 1..Len(r1) /\ \A t \in DOMAIN r1 : r1[t].number = t
  BY DEF Queries, TrueTo
<1>2. Len(r1) \in S /\ \A y \in S : y \in Nat /\ y <= Len(r1)
  <2>1. CASE Len(r1) = 0
    BY <1>1, <2>1
  <2>2. CASE Len(r1) # 0
    <3>1. Len(r1) \in DOMAIN r1 /\ r1[Len(r1)].number = Len(r1)
      BY <1>1, <2>2
    <3> QED BY <1>1, <3>1
  <2> QED BY <2>1, <2>2
<1> HIDE DEF S
<1>3. Ticket!Max(S) \in S /\ \A y \in S : Ticket!Max(S) >= y
  <2>1. \E x \in S : \A y \in S : x >= y
    BY <1>1, <1>2
  <2> QED BY <2>1 DEF Ticket!Max
<1>4. Ticket!Max(S) = Len(r1)
  BY <1>1, <1>2, <1>3
<1>5. Ticket!NextNumber = Ticket!Max(S) + 1
  BY Zenon DEF Ticket!NextNumber, S
<1> QED BY <1>4, <1>5

\* A request goes on, and no ticket changes.
LEMMA RequestMoves ==
  ASSUME Queries, NEW p \in Workers, NEW c \in Request, r2' = [r2 EXCEPT ![p] = c], r1' = r1, About(c),
         c.pc = "number" => c.version = Len(r1) + 1 /\ \A q \in Workers : r2[q].pc # "number"
  PROVE  Queries'
<1>1. /\ r2' \in [Workers -> Request] /\ r1' \in Seq(TicketRow) /\ \A t \in DOMAIN r1' : TrueTo(r1'[t], t)
  BY DEF Queries
<1>2. \A q \in Workers : r2'[q] = IF q = p THEN c ELSE r2[q]
  BY DEF Queries
<1>3. ASSUME NEW q \in Workers PROVE About(r2[q])'
  <2>1. About(c) /\ About(r2[q])
    BY DEF Queries
  <2> QED BY <1>2, <2>1 DEF About
<1>4. ASSUME NEW q \in Workers, r2'[q].pc = "number"
      PROVE  r2'[q].version = Len(r1') + 1 /\ \A s \in Workers : r2'[s].pc = "number" => s = q
  <2>1. CASE q = p
    BY <1>2, <1>4, <2>1
  <2>2. CASE q # p
    <3>1. r2[q].pc = "number" /\ r2'[q] = r2[q] /\ c.pc # "number"
      BY <1>2, <1>4, <2>2
    <3> QED BY <1>2, <2>2, <3>1 DEF Queries
  <2> QED BY <2>1, <2>2
<1> HIDE DEF About, TicketRow, Request, TrueTo
<1> QED BY <1>1, <1>3, <1>4 DEF Queries

\* A request is done, and has written a ticket.
LEMMA TicketMoves ==
  ASSUME Queries, NEW p \in Workers, NEW t \in DOMAIN r1, NEW row \in TicketRow, TrueTo(row, t),
         r1' = [r1 EXCEPT ![t] = row], r2' = [r2 EXCEPT ![p] = Ticket!Idle]
  PROVE  Queries'
<1>1. r1 \in Seq(TicketRow) /\ r2 \in [Workers -> Request]
  BY DEF Queries
<1>2. r1' \in Seq(TicketRow) /\ Len(r1') = Len(r1) /\ DOMAIN r1' = DOMAIN r1
  BY <1>1 DEF TicketRow
<1>3. \A i \in DOMAIN r1 : r1'[i] = IF i = t THEN row ELSE r1[i]
  BY <1>1
<1>4. \A i \in DOMAIN r1' : TrueTo(r1'[i], i)
  BY <1>2, <1>3 DEF Queries
<1>5. r2' \in [Workers -> Request] /\ \A q \in Workers : r2'[q] = IF q = p THEN Ticket!Idle ELSE r2[q]
  BY <1>1, HelpIdles
<1>6. ASSUME NEW q \in Workers PROVE About(r2[q])'
  <2>1. About(Ticket!Idle) /\ About(r2[q])
    BY HelpIdles DEF Queries
  <2> QED BY <1>2, <1>5, <2>1 DEF About
<1>7. ASSUME NEW q \in Workers, r2'[q].pc = "number"
      PROVE  r2'[q].version = Len(r1') + 1 /\ \A s \in Workers : r2'[s].pc = "number" => s = q
  <2>1. q # p /\ r2'[q] = r2[q]
    BY <1>5, <1>7, HelpIdles
  <2>2. r2[q].version = Len(r1) + 1 /\ \A s \in Workers : r2[s].pc = "number" => s = q
    BY <1>7, <2>1 DEF Queries
  <2> QED BY <1>2, <1>5, <2>1, <2>2, HelpIdles
<1> HIDE DEF About, TicketRow, Request, TrueTo
<1> QED BY <1>2, <1>4, <1>5, <1>6, <1>7 DEF Queries

LEMMA HelpKept ==
  ASSUME Queries, [Ticket!Next]_<<r1, r2, r3>>
  PROVE  Queries'
<1>1. CASE UNCHANGED <<r1, r2, r3>>
  BY <1>1, Zenon DEF Queries, About
<1> SUFFICES ASSUME NEW p \in Workers,
               \/ Ticket!ReadNumber(p) \/ Ticket!CreateTicket(p)
               \/ \E t \in DOMAIN r1 : \/ \E as \in {"member", "admin"} : Ticket!ReadForReply(p, t, as)
                                      \/ Ticket!OpenPage(p, t)
               \/ Ticket!ReplyAsMember(p) \/ Ticket!ReplyAsAdmin(p)
               \/ Ticket!Assign(p) \/ Ticket!ReadForTransition(p) \/ Ticket!Transition(p) \/ Ticket!Leave(p)
             PROVE  Queries'
  BY <1>1, Zenon DEF Ticket!Next
<1>2. /\ r1 \in Seq(TicketRow) /\ r2 \in [Workers -> Request] /\ r2[p] \in Request /\ About(r2[p])
      /\ \A t \in DOMAIN r1 : TrueTo(r1[t], t) /\ r1[t] \in TicketRow
  BY DEF Queries
<1>3. ASSUME r1' = r1, r2' = [r2 EXCEPT ![p] = Ticket!Idle] PROVE Queries'
  BY <1>3, HelpIdles, RequestMoves
<1>4. CASE Ticket!Leave(p)
  BY <1>3, <1>4 DEF Ticket!Leave, Ticket!Rest
<1>5. CASE Ticket!ReadNumber(p)
  <2> DEFINE c == [Ticket!Idle EXCEPT !.pc = "number", !.version = Ticket!NextNumber]
  <2>1. r2' = [r2 EXCEPT ![p] = c] /\ r1' = r1 /\ \A q \in Workers : r2[q].pc # "number"
    BY <1>5 DEF Ticket!ReadNumber, Ticket!ShopLocked, Ticket!At
  <2>2. Ticket!NextNumber = Len(r1) + 1 /\ Len(r1) \in Nat
    BY <1>2, NextIsNext
  <2>3. c.pc = "number" /\ c.version = Len(r1) + 1 /\ c \in Request
    <3>1. Ticket!NextNumber \in Int
      BY <2>2
    <3>2. c \in Request /\ c.pc = "number" /\ c.version = Ticket!NextNumber
      BY <3>1, NumberBegins, Zenon
    <3> HIDE DEF c
    <3> QED BY <2>2, <3>2
  <2> HIDE DEF c
  <2> QED BY <2>1, <2>3, RequestMoves DEF About
<1>6. CASE Ticket!CreateTicket(p)
  <2> DEFINE row == [number |-> r2[p].version, state |-> "OPEN", version |-> 1,
                     assigned |-> "no", responded |-> "no", resolved |-> "no"]
  <2>1. r1' = Append(r1, row) /\ r2' = [r2 EXCEPT ![p] = Ticket!Idle] /\ r2[p].pc = "number"
    BY <1>6 DEF Ticket!CreateTicket, Ticket!Rest, Ticket!At
  <2>2. /\ r2[p].version = Len(r1) + 1 /\ Len(r1) \in Nat
        /\ \A q \in Workers : r2[q].pc = "number" => q = p
    BY <1>2, <2>1 DEF Queries
  <2>3. row \in TicketRow /\ TrueTo(row, Len(r1) + 1)
    BY <2>2 DEF TicketRow, TicketStates, TrueTo
  <2> HIDE DEF row
  <2>4. /\ r1' \in Seq(TicketRow) /\ DOMAIN r1' = DOMAIN r1 \cup {Len(r1) + 1}
        /\ \A i \in DOMAIN r1' : r1'[i] = IF i = Len(r1) + 1 THEN row ELSE r1[i]
    BY <1>2, <2>1, <2>3
  <2>5. \A i \in DOMAIN r1' : TrueTo(r1'[i], i)
    BY <1>2, <2>3, <2>4
  <2>6. r2' \in [Workers -> Request] /\ \A q \in Workers : r2'[q] = IF q = p THEN Ticket!Idle ELSE r2[q]
    BY <1>2, <2>1, HelpIdles
  <2>7. ASSUME NEW q \in Workers PROVE About(r2[q])' /\ r2'[q].pc # "number"
    <3>1. About(Ticket!Idle) /\ About(r2[q]) /\ DOMAIN r1 \subseteq DOMAIN r1'
      BY <2>4, HelpIdles DEF Queries
    <3>2. r2'[q].pc # "number"
      BY <2>2, <2>6, HelpIdles
    <3> QED BY <2>6, <3>1, <3>2 DEF About
  <2> HIDE DEF About, TicketRow, Request, TrueTo
  <2> QED BY <2>4, <2>5, <2>6, <2>7 DEF Queries
<1>7. ASSUME NEW t \in DOMAIN r1, NEW as \in {"member", "admin"}, Ticket!ReadForReply(p, t, as) PROVE Queries'
  <2>1. PICK c : c = [Ticket!Idle EXCEPT !.pc = as, !.t = t, !.state = r1[t].state]
    OBVIOUS
  <2>2. r2' = [r2 EXCEPT ![p] = c] /\ r1' = r1
    BY <1>7, <2>1 DEF Ticket!ReadForReply
  <2>3. c.pc = as /\ c.t = t
    BY <2>1 DEF Ticket!Idle
  <2>4. t \in Nat /\ r1[t].state \in TicketStates
    BY <1>2 DEF TicketRow
  <2>5. c \in Request
    BY <2>1, <2>4, HelpIdles DEF Request
  <2> QED BY <2>2, <2>3, <2>5, RequestMoves DEF About
<1>8. ASSUME NEW t \in DOMAIN r1, Ticket!OpenPage(p, t) PROVE Queries'
  <2> DEFINE c == [Ticket!Idle EXCEPT !.pc = "page", !.t = t, !.version = r1[t].version]
  <2>1. r2' = [r2 EXCEPT ![p] = c] /\ r1' = r1
    BY <1>8 DEF Ticket!OpenPage
  <2>2. c \in Request /\ c.pc = "page" /\ c.t = t
    <3>1. r1[t].state \in TicketStates /\ r1[t].version \in Int /\ t \in Nat
      BY <1>2 DEF TicketRow
    <3> QED BY <3>1 DEF Request, Ticket!Idle
  <2> HIDE DEF c
  <2> QED BY <2>1, <2>2, RequestMoves DEF About
<1>9. CASE Ticket!ReadForTransition(p)
  <2> DEFINE c == [r2[p] EXCEPT !.pc = "transit", !.state = r1[r2[p].t].state]
  <2>1. r2' = [r2 EXCEPT ![p] = c] /\ r1' = r1 /\ r2[p].pc = "page"
    BY <1>9 DEF Ticket!ReadForTransition, Ticket!At, Ticket!Mine
  <2>2. r2[p].t \in DOMAIN r1 /\ r1[r2[p].t].state \in TicketStates
    BY <1>2, <2>1 DEF About, TicketRow
  <2>3. c \in Request /\ c.pc = "transit" /\ c.t = r2[p].t /\ c.state = r1[r2[p].t].state
    BY <1>2, <2>2 DEF Request
  <2> HIDE DEF c
  <2> QED BY <2>1, <2>2, <2>3, RequestMoves DEF About
<1>10. ASSUME r2[p].pc \in {"member", "admin", "page", "transit"}
       PROVE  r2[p].t \in DOMAIN r1 /\ r1[r2[p].t] \in TicketRow /\ TrueTo(r1[r2[p].t], r2[p].t)
  BY <1>2, <1>10 DEF About
<1> DEFINE t == r2[p].t
           row == r1[r2[p].t]
<1>11. CASE Ticket!ReplyAsMember(p)
  <2>1. r2[p].pc = "member" /\ r2' = [r2 EXCEPT ![p] = Ticket!Idle]
    BY <1>11 DEF Ticket!ReplyAsMember, Ticket!At, Ticket!Rest
  <2>2. r1' = r1 \/ r1' = [r1 EXCEPT ![t] = Ticket!Reopened(row)]
    BY <1>11 DEF Ticket!ReplyAsMember, Ticket!Mine
  <2>3. row \in TicketRow /\ TrueTo(row, t) /\ t \in DOMAIN r1
    BY <1>10, <2>1
  <2> HIDE DEF row, t
  <2>4. Ticket!Reopened(row) \in TicketRow /\ TrueTo(Ticket!Reopened(row), t)
    <3>1. /\ Ticket!Reopened(row) \in TicketRow /\ Ticket!Reopened(row).number = row.number
          /\ Ticket!Reopened(row).state = "IN_PROGRESS" /\ Ticket!Reopened(row).resolved = "no"
      <4>1. Ticket!Reopened(row) = [row EXCEPT !.state = "IN_PROGRESS", !.resolved = "no", !.version = row.version + 1]
        BY Zenon DEF Ticket!Reopened
      <4>2. row.version + 1 \in Int
        BY <2>3 DEF TicketRow
      <4> QED BY <2>3, <4>1, <4>2 DEF TicketRow, TicketStates
    <3> QED BY <2>3, <3>1 DEF TrueTo
  <2> QED BY <1>3, <2>1, <2>2, <2>3, <2>4, TicketMoves
<1>12. CASE Ticket!ReplyAsAdmin(p)
  <2> DEFINE new == [row EXCEPT !.responded = "yes", !.version = @ + 1, !.state = IF @ = "OPEN" THEN "IN_PROGRESS" ELSE @]
  <2>1. r2[p].pc = "admin" /\ r2' = [r2 EXCEPT ![p] = Ticket!Idle]
    BY <1>12 DEF Ticket!ReplyAsAdmin, Ticket!At, Ticket!Rest
  <2>4. r1' = [r1 EXCEPT ![t] = new]
    BY <1>12, Zenon DEF Ticket!ReplyAsAdmin, Ticket!Mine
  <2>2. row \in TicketRow /\ TrueTo(row, t) /\ t \in DOMAIN r1
    BY <1>10, <2>1
  <2> HIDE DEF row, t
  <2>3. new \in TicketRow /\ TrueTo(new, t)
    <3>1. /\ new.number = row.number /\ new.resolved = row.resolved
          /\ new.state = IF row.state = "OPEN" THEN "IN_PROGRESS" ELSE row.state
      BY <2>2 DEF TicketRow
    <3>2. new \in TicketRow
      <4> DEFINE st == IF row.state = "OPEN" THEN "IN_PROGRESS" ELSE row.state
      <4>1. st \in TicketStates /\ row.version + 1 \in Int
        BY <2>2 DEF TicketRow, TicketStates
      <4>2. new = [row EXCEPT !.responded = "yes", !.version = row.version + 1, !.state = st]
        BY Zenon
      <4> HIDE DEF st
      <4> QED BY <2>2, <4>1, <4>2 DEF TicketRow
    <3> HIDE DEF new
    <3> QED BY <2>2, <3>1, <3>2 DEF TrueTo, TicketRow, TicketStates
  <2> HIDE DEF new
  <2> QED BY <2>1, <2>2, <2>3, <2>4, TicketMoves
<1>13. CASE Ticket!Assign(p)
  <2> DEFINE new == [row EXCEPT !.assigned = IF @ = "yes" THEN "no" ELSE "yes", !.version = @ + 1]
  <2>1. r2[p].pc = "page" /\ r2' = [r2 EXCEPT ![p] = Ticket!Idle]
    BY <1>13 DEF Ticket!Assign, Ticket!At, Ticket!Rest
  <2>2. row \in TicketRow /\ TrueTo(row, t) /\ t \in DOMAIN r1
    BY <1>10, <2>1
  <2>3. r1' = r1 \/ r1' = [r1 EXCEPT ![t] = new]
    BY <1>2, <1>13, <2>2 DEF Ticket!Assign
  <2> HIDE DEF row, t
  <2>4. new \in TicketRow /\ TrueTo(new, t)
    <3>1. /\ new.number = row.number /\ new.resolved = row.resolved
          /\ new.state = row.state /\ new.responded = row.responded
      BY <2>2 DEF TicketRow
    <3>2. new \in TicketRow
      <4> DEFINE as == IF row.assigned = "yes" THEN "no" ELSE "yes"
      <4>1. as \in {"yes", "no"} /\ row.version + 1 \in Int
        BY <2>2 DEF TicketRow
      <4>2. new = [row EXCEPT !.assigned = as, !.version = row.version + 1]
        BY Zenon
      <4> HIDE DEF as
      <4> QED BY <2>2, <4>1, <4>2 DEF TicketRow
    <3> HIDE DEF new
    <3> QED BY <2>2, <3>1, <3>2 DEF TrueTo
  <2> HIDE DEF new
  <2> QED BY <1>3, <2>1, <2>2, <2>3, <2>4, TicketMoves
<1>14. CASE Ticket!Transition(p)
  <2>1. r2[p].pc = "transit" /\ r2' = [r2 EXCEPT ![p] = Ticket!Idle]
    BY <1>14 DEF Ticket!Transition, Ticket!At, Ticket!Rest
  <2>2. row \in TicketRow /\ TrueTo(row, t) /\ t \in DOMAIN r1 /\ r2[p].state \in TicketStates
    BY <1>2, <1>10, <2>1 DEF About
  <2> DEFINE new(to) == [row EXCEPT !.state = to, !.version = @ + 1, !.resolved = IF to = "RESOLVED" THEN "yes" ELSE @]
  <2>3. PICK to \in Ticket!TicketTransitions[r2[p].state] :
          r1' = IF row.version = r2[p].version /\ row.state = r2[p].state THEN [r1 EXCEPT ![t] = new(to)] ELSE r1
    BY <1>14, Zenon DEF Ticket!Transition, Ticket!Mine
  <2>4. CASE r1' = r1
    BY <1>3, <2>1, <2>4
  <2>5. CASE row.state = r2[p].state /\ r1' = [r1 EXCEPT ![t] = new(to)]
    <3>1. /\ to \in TicketStates /\ to # "OPEN"
          /\ to = "CLOSED" => row.state = "RESOLVED"
          /\ to = "IN_PROGRESS" => row.state = "OPEN"
      BY <2>2, <2>3, <2>5 DEF Ticket!TicketTransitions, TicketStates
    <3> HIDE DEF row, t
    <3>2. /\ new(to).number = row.number /\ new(to).state = to /\ new(to).responded = row.responded
          /\ new(to).resolved = IF to = "RESOLVED" THEN "yes" ELSE row.resolved
      BY <2>2 DEF TicketRow
    <3>3. new(to) \in TicketRow
      <4> DEFINE done == IF to = "RESOLVED" THEN "yes" ELSE row.resolved
      <4>1. done \in {"yes", "no"} /\ row.version + 1 \in Int
        BY <2>2 DEF TicketRow
      <4>2. new(to) = [row EXCEPT !.state = to, !.version = row.version + 1, !.resolved = done]
        BY Zenon
      <4> HIDE DEF done
      <4> QED BY <2>2, <3>1, <4>1, <4>2 DEF TicketRow
    <3> HIDE DEF new
    <3>4. TrueTo(new(to), t)
      BY <2>2, <3>1, <3>2, <3>3 DEF TrueTo, TicketRow, TicketStates
    <3> QED BY <2>1, <2>2, <2>5, <3>3, <3>4, TicketMoves
  <2> QED BY <2>3, <2>4, <2>5
<1> QED BY <1>4, <1>5, <1>6, <1>7, <1>8, <1>9, <1>11, <1>12, <1>13, <1>14

----------------------------------------------------------------------------
(* TrackLookup.  r4 is Redis's count, r5 the log, r6 the requests, r7 the   *)
(* guesses.                                                                *)

Outcomes == {"match", "failure"}
EndsIn(l, n) == n <= Len(l) /\ \A i \in (Len(l) - n + 1)..Len(l) : l[i] = "failure"
LookupLog(l) == l \in Seq(Outcomes) /\ Len(l) <= CaptchaAfter
Least(g) == IF g < CaptchaAfter THEN g ELSE CaptchaAfter

LEMMA LookupHas ==
  ASSUME Lookup!LookupInv
  PROVE  /\ r7 \in Nat /\ r4 \in Nat /\ LookupLog(r5) /\ EndsIn(r5, Least(r7))
         /\ r6 = [c \in Workers |-> r6[c]]
         /\ \A c \in Workers : r6[c].at = "screened" => r6[c].solved \in {"yes", "no"}
         /\ r7 + Lookup!Cardinality(Lookup!Unsolved) <= CaptchaAfter + Lookup!Cardinality(Workers) - 1
BY DEF Lookup!LookupInv, Lookup!Known, Lookup!At, LookupLog, Outcomes, EndsIn, Least

LEMMA UnsolvedAreFew ==
  ASSUME MessagesAssumption, NEW S \in SUBSET Workers
  PROVE  /\ IsFiniteSet(S) /\ Lookup!Cardinality(S) = Cardinality(S) /\ Cardinality(S) \in Nat
         /\ Cardinality(S) <= Cardinality(Workers) /\ Cardinality(Workers) \in Nat
         /\ Lookup!Cardinality(Workers) = Cardinality(Workers)
<1>1. IsFiniteSet(Workers)
  BY DEF MessagesAssumption
<1>2. IsFiniteSet(S) /\ Cardinality(S) <= Cardinality(Workers)
  BY <1>1, FS_Subset
<1>3. Lookup!Cardinality(S) = Cardinality(S) /\ Lookup!Cardinality(Workers) = Cardinality(Workers)
  BY Zenon DEF Lookup!Cardinality, Cardinality
<1> QED BY <1>1, <1>2, <1>3, FS_CardinalityType

\* One row more, and no more of them than are read.
LEMMA LogGrows ==
  ASSUME MessagesAssumption, LookupLog(r5), NEW outcome \in Outcomes
  PROVE  /\ LookupLog(Lookup!Row(outcome))
         /\ \A n \in Nat : EndsIn(r5, n) /\ outcome = "failure" => EndsIn(Lookup!Row(outcome), Least(n + 1))
<1> DEFINE rows == Append(r5, outcome)
<1>1. CaptchaAfter \in Nat \ {0} /\ r5 \in Seq(Outcomes) /\ Len(r5) \in Nat /\ Len(r5) <= CaptchaAfter
  BY DEF MessagesAssumption, LookupLog
<1>2. /\ rows \in Seq(Outcomes) /\ Len(rows) = Len(r5) + 1
      /\ \A i \in 1..Len(rows) : rows[i] = IF i = Len(r5) + 1 THEN outcome ELSE r5[i]
  BY <1>1
<1>3. Lookup!Row(outcome) = IF Len(rows) > CaptchaAfter THEN Tail(rows) ELSE rows
  BY Zenon DEF Lookup!Row
<1> HIDE DEF rows
<1>4. CASE Len(rows) <= CaptchaAfter
  <2>1. Lookup!Row(outcome) = rows
    BY <1>1, <1>2, <1>3, <1>4
  <2>2. ASSUME NEW n \in Nat, EndsIn(r5, n), outcome = "failure" PROVE EndsIn(rows, Least(n + 1))
    <3>1. n <= Len(r5) /\ \A i \in (Len(r5) - n + 1)..Len(r5) : r5[i] = "failure"
      BY <2>2 DEF EndsIn
    <3>2. Least(n + 1) = n + 1
      BY <1>1, <1>2, <1>4, <3>1 DEF Least
    <3>3. \A i \in (Len(rows) - (n + 1) + 1)..Len(rows) : rows[i] = "failure"
      BY <1>1, <1>2, <2>2, <3>1
    <3> QED BY <1>1, <1>2, <3>1, <3>2, <3>3 DEF EndsIn
  <2> QED BY <1>2, <1>4, <2>1, <2>2 DEF LookupLog
<1>5. CASE Len(rows) > CaptchaAfter
  <2>1. Lookup!Row(outcome) = Tail(rows) /\ Len(rows) = CaptchaAfter + 1 /\ Len(r5) = CaptchaAfter
    BY <1>1, <1>2, <1>3, <1>5
  <2>2. /\ Tail(rows) \in Seq(Outcomes) /\ Len(Tail(rows)) = CaptchaAfter
        /\ \A i \in 1..CaptchaAfter : Tail(rows)[i] = rows[i + 1]
    BY <1>1, <1>2, <2>1
  <2>3. ASSUME NEW n \in Nat, EndsIn(r5, n), outcome = "failure" PROVE EndsIn(Tail(rows), Least(n + 1))
    <3>1. n <= Len(r5) /\ \A i \in (Len(r5) - n + 1)..Len(r5) : r5[i] = "failure"
      BY <2>3 DEF EndsIn
    <3>2. Least(n + 1) \in Nat /\ Least(n + 1) <= CaptchaAfter /\ Least(n + 1) <= n + 1
      BY <1>1 DEF Least
    <3>3. ASSUME NEW i \in (CaptchaAfter - Least(n + 1) + 1)..CaptchaAfter PROVE Tail(rows)[i] = "failure"
      <4>1. i \in 1..CaptchaAfter /\ i + 1 \in (Len(r5) - n + 1)..(Len(r5) + 1)
        BY <1>1, <2>1, <3>2, <3>3
      <4>2. Tail(rows)[i] = rows[i + 1] /\ i + 1 \in 1..Len(rows)
        BY <2>1, <2>2, <4>1
      <4> QED BY <1>1, <1>2, <2>1, <2>3, <3>1, <4>1, <4>2
    <3> QED BY <2>2, <3>2, <3>3 DEF EndsIn
  <2> QED BY <2>1, <2>2, <2>3, <1>1 DEF LookupLog
<1> QED BY <1>1, <1>2, <1>4, <1>5

\* Fewer failures at the end are failures too.
LEMMA EndsInFewer ==
  ASSUME LookupLog(r5), NEW n \in Nat, NEW m \in Nat, m <= n, EndsIn(r5, n)
  PROVE  EndsIn(r5, m)
<1>1. Len(r5) \in Nat
  BY DEF LookupLog
<1> QED BY <1>1 DEF EndsIn

\* Who finds few failures at the end of the log finds them all.
LEMMA FailuresAreSeen ==
  ASSUME LookupLog(r5), NEW n \in Nat, EndsIn(r5, n)
  PROVE  Lookup!TrailingFailures \in Nat /\ n <= Lookup!TrailingFailures
<1> DEFINE Ok(m) == /\ \A i \in (Len(r5) - m + 1)..Len(r5) : r5[i] = "failure"
                    /\ m < Len(r5) => r5[Len(r5) - m] = "match"
           S == {m \in 0..Len(r5) : m < Len(r5) => r5[Len(r5) - m] = "match"}
<1>1. Len(r5) \in Nat /\ \A i \in 1..Len(r5) : r5[i] \in Outcomes
  BY DEF LookupLog
<1>2. S \in SUBSET Nat /\ Len(r5) \in S
  BY <1>1
<1>3. PICK m \in S : \A k \in S : m <= k
  BY <1>2, HasLeast, Zenon
<1>4. \A i \in (Len(r5) - m + 1)..Len(r5) : r5[i] = "failure"
  <2> SUFFICES ASSUME NEW i \in (Len(r5) - m + 1)..Len(r5) PROVE r5[i] = "failure"
    OBVIOUS
  <2>1. m \in 0..Len(r5)
    BY <1>3
  <2>2. i \in 1..Len(r5) /\ Len(r5) - i \in 0..Len(r5) /\ Len(r5) - i < m /\ Len(r5) - (Len(r5) - i) = i
    BY <1>1, <2>1
  <2>3. Len(r5) - i \notin S
    BY <1>1, <1>3, <2>1, <2>2
  <2>4. r5[i] # "match"
    BY <2>2, <2>3
  <2> QED BY <1>1, <2>2, <2>4 DEF Outcomes
<1>5. m \in 0..Len(r5) /\ Ok(m)
  BY <1>3, <1>4
<1> DEFINE t == Lookup!TrailingFailures
<1>6. t \in 0..Len(r5) /\ Ok(t)
  <2>1. t = CHOOSE k \in 0..Len(r5) : Ok(k)
    BY Zenon DEF Lookup!TrailingFailures
  <2> HIDE DEF t, Ok
  <2> QED BY <1>5, <2>1
<1> HIDE DEF t
<1>7. ASSUME t < n PROVE FALSE
  <2>1. t < Len(r5) /\ Len(r5) - t \in (Len(r5) - n + 1)..Len(r5)
    BY <1>1, <1>6, <1>7 DEF EndsIn
  <2>2. r5[Len(r5) - t] = "failure" /\ r5[Len(r5) - t] = "match"
    BY <1>6, <2>1 DEF EndsIn
  <2> QED BY <2>2
<1> QED BY <1>1, <1>6, <1>7 DEF t

LEMMA LookupInitially ==
  ASSUME MessagesAssumption, Lookup!Init
  PROVE  Lookup!LookupInv
<1>1. r7 = 0 /\ r4 = 0 /\ r5 = << >> /\ r6 = [c \in Workers |-> Lookup!Idle] /\ Lookup!Idle.at = "idle"
  BY DEF Lookup!Init, Lookup!Idle
<1>2. Lookup!Unsolved = {}
  BY <1>1 DEF Lookup!Unsolved, Lookup!At
<1>3. Lookup!Cardinality({}) = 0 /\ Lookup!Cardinality(Workers) \in Nat /\ CaptchaAfter \in Nat \ {0}
  BY UnsolvedAreFew, FS_EmptySet DEF MessagesAssumption
<1>4. Lookup!Known = 0
  BY <1>1, <1>3 DEF Lookup!Known
<1>5. r5 \in Seq({"match", "failure"}) /\ Len(r5) = 0
  BY <1>1
<1>6. \A c \in Workers : r6[c].at # "screened"
  BY <1>1
<1> QED BY <1>1, <1>2, <1>3, <1>4, <1>5, <1>6 DEF Lookup!LookupInv, Lookup!At

\* What holds after a step that leaves no more guesses to come than there were.
LEMMA LookupMoves ==
  ASSUME MessagesAssumption, Lookup!LookupInv, r4' \in Nat, r7' \in Nat, LookupLog(r5'), EndsIn(r5', Least(r7')),
         r6' = [c \in Workers |-> r6'[c]],
         \A c \in Workers : r6'[c].at = "screened" => r6'[c].solved \in {"yes", "no"},
         r7' + Cardinality(Lookup!Unsolved') <= CaptchaAfter + Cardinality(Workers) - 1
  PROVE  Lookup!LookupInv'
<1>1. Lookup!Unsolved' \subseteq Workers
  BY DEF Lookup!Unsolved
<1>2. Lookup!Cardinality(Lookup!Unsolved') = Cardinality(Lookup!Unsolved') /\ Lookup!Cardinality(Workers) = Cardinality(Workers)
  BY <1>1, UnsolvedAreFew
<1>3. Lookup!Known' = Least(r7')
  BY DEF Lookup!Known, Least
<1>4. r7' + Lookup!Cardinality(Lookup!Unsolved') <= CaptchaAfter + Lookup!Cardinality(Workers) - 1
  BY <1>2
<1> HIDE DEF Least
<1> QED BY <1>3, <1>4 DEF Lookup!LookupInv, Lookup!At, LookupLog, Outcomes, EndsIn

\* No guess, and nobody comes past the check.
LEMMA LookupRests ==
  ASSUME MessagesAssumption, Lookup!LookupInv, r4' \in Nat, r7' = r7, r5' \in {r5, Lookup!Row("failure")},
         r6' = r6 \/ \E c \in Workers : \E rec : rec.at # "screened" /\ r6' = [r6 EXCEPT ![c] = rec]
  PROVE  Lookup!LookupInv'
<1>1. LookupLog(r5') /\ EndsIn(r5', Least(r7'))
  <2>1. CASE r5' = r5
    BY <2>1, LookupHas
  <2>2. CASE r5' = Lookup!Row("failure")
    <3>1. "failure" \in Outcomes /\ LookupLog(r5) /\ Least(r7) \in Nat /\ EndsIn(r5, Least(r7)) /\ r7 \in Nat
      BY LookupHas DEF Outcomes, Least, MessagesAssumption
    <3>2. LookupLog(r5') /\ EndsIn(r5', Least(Least(r7) + 1))
      BY <2>2, <3>1, LogGrows
    <3>3. Least(r7) <= Least(Least(r7) + 1) /\ Least(Least(r7) + 1) \in Nat
      BY <3>1 DEF Least, MessagesAssumption
    <3>4. Len(r5') \in Nat
      BY <3>2 DEF LookupLog
    <3> HIDE DEF Least
    <3> QED BY <3>1, <3>2, <3>3, <3>4 DEF EndsIn
  <2> QED BY <2>1, <2>2
<1>2. /\ r6' = [c \in Workers |-> r6'[c]]
      /\ \A c \in Workers : r6'[c].at = "screened" => r6'[c] = r6[c]
  BY LookupHas
<1>3. Lookup!Unsolved' \subseteq Lookup!Unsolved /\ Lookup!Unsolved \subseteq Workers
  BY <1>2 DEF Lookup!Unsolved, Lookup!At
<1>4. /\ Cardinality(Lookup!Unsolved') <= Cardinality(Lookup!Unsolved) /\ Cardinality(Lookup!Unsolved') \in Nat
      /\ r7 + Cardinality(Lookup!Unsolved) <= CaptchaAfter + Cardinality(Workers) - 1
      /\ Cardinality(Lookup!Unsolved) \in Nat /\ Cardinality(Workers) \in Nat /\ r7 \in Nat /\ CaptchaAfter \in Nat
  <2>1. IsFiniteSet(Lookup!Unsolved) /\ Cardinality(Lookup!Unsolved) \in Nat /\ Cardinality(Workers) \in Nat
        /\ Lookup!Cardinality(Lookup!Unsolved) = Cardinality(Lookup!Unsolved)
        /\ Lookup!Cardinality(Workers) = Cardinality(Workers)
    BY <1>3, UnsolvedAreFew
  <2>2. Cardinality(Lookup!Unsolved') <= Cardinality(Lookup!Unsolved) /\ Cardinality(Lookup!Unsolved') \in Nat
    BY <1>3, <2>1, FS_Subset, FS_CardinalityType
  <2> QED BY <2>1, <2>2, LookupHas DEF MessagesAssumption
<1>5. r7' + Cardinality(Lookup!Unsolved') <= CaptchaAfter + Cardinality(Workers) - 1
  BY <1>4
<1>6. \A c \in Workers : r6'[c].at = "screened" => r6'[c].solved \in {"yes", "no"}
  BY <1>2, LookupHas
<1> QED BY <1>1, <1>2, <1>5, <1>6, LookupMoves, LookupHas

LEMMA LookupKept ==
  ASSUME MessagesAssumption, Lookup!LookupInv, [Lookup!Next]_<<r1, r2, r3, r4, r5, r6, r7, r8>>
  PROVE  Lookup!LookupInv'
<1>1. /\ r7 \in Nat /\ r4 \in Nat /\ LookupLog(r5) /\ EndsIn(r5, Least(r7)) /\ r6 = [c \in Workers |-> r6[c]]
      /\ \A c \in Workers : r6[c].at = "screened" => r6[c].solved \in {"yes", "no"}
      /\ CaptchaAfter \in Nat \ {0}
  BY LookupHas DEF MessagesAssumption
<1>2. /\ Lookup!Unsolved \subseteq Workers /\ IsFiniteSet(Lookup!Unsolved)
      /\ Cardinality(Lookup!Unsolved) \in Nat /\ Cardinality(Workers) \in Nat
      /\ r7 + Cardinality(Lookup!Unsolved) <= CaptchaAfter + Cardinality(Workers) - 1
  <2>1. Lookup!Unsolved \subseteq Workers
    BY DEF Lookup!Unsolved
  <2> QED BY <2>1, UnsolvedAreFew, LookupHas
<1>3. CASE UNCHANGED <<r1, r2, r3, r4, r5, r6, r7, r8>>
  BY <1>1, <1>3, LookupRests
<1>4. CASE Lookup!Lapse \/ Lookup!Redact \/ Lookup!Uninstall
  <2>1. r4' \in Nat /\ r5' = r5 /\ r6' = r6 /\ r7' = r7
    BY <1>1, <1>4 DEF Lookup!Lapse, Lookup!Redact, Lookup!Uninstall
  <2> QED BY <2>1, LookupRests
<1>5. ASSUME NEW c \in Workers, NEW rec, r6' = [r6 EXCEPT ![c] = rec], rec.at # "screened", r7' = r7, r4' \in Nat,
             r5' \in {r5, Lookup!Row("failure")}
      PROVE  Lookup!LookupInv'
  BY <1>5, LookupRests
<1>6. ASSUME NEW c \in Workers, Lookup!Log(c, "failure"), r7' = r7, r4' = r4 PROVE Lookup!LookupInv'
  <2>1. PICK rec : rec = [at |-> "failed"]
    OBVIOUS
  <2>2. r6' = [r6 EXCEPT ![c] = rec] /\ rec.at # "screened" /\ r5' = Lookup!Row("failure")
    BY <1>6, <2>1 DEF Lookup!Log, Lookup!Go
  <2> QED BY <1>1, <1>5, <1>6, <2>2
<1>7. ASSUME NEW c \in Workers, Lookup!Done(c), r7' = r7, r4' \in Nat, r5' = r5 PROVE Lookup!LookupInv'
  <2>1. r6' = [r6 EXCEPT ![c] = Lookup!Idle] /\ Lookup!Idle.at # "screened"
    BY <1>7 DEF Lookup!Done, Lookup!Go, Lookup!Idle
  <2> QED BY <1>5, <1>7, <2>1
<1>8. ASSUME NEW c \in Workers, Lookup!Count(c) PROVE Lookup!LookupInv'
  <2>1. PICK rec : rec = [at |-> IF r3.n = 0 THEN "expire" ELSE "counted", over |-> r3.n >= Allowed]
    OBVIOUS
  <2>2. r6' = [r6 EXCEPT ![c] = rec] /\ r4' = r4 /\ r5' = r5 /\ r7' = r7
    BY <1>8, <2>1 DEF Lookup!Count, Lookup!Go
  <2>3. rec.at # "screened"
    BY <2>1
  <2> QED BY <1>1, <1>5, <2>2, <2>3
<1>9. ASSUME NEW c \in Workers, Lookup!Gone(c) PROVE Lookup!LookupInv'
  BY <1>1, <1>9, LookupRests DEF Lookup!Gone
<1>10. ASSUME NEW c \in Workers, Lookup!SetExpiry(c) PROVE Lookup!LookupInv'
  <2>1. PICK rec : rec = [at |-> "counted", over |-> r6[c].over]
    OBVIOUS
  <2>2. r6' = [r6 EXCEPT ![c] = rec] /\ r4' = r4 /\ r5' = r5 /\ r7' = r7
    BY <1>10, <2>1 DEF Lookup!SetExpiry, Lookup!Go
  <2> QED BY <1>1, <1>5, <2>1, <2>2
<1>11. ASSUME NEW c \in Workers, Lookup!Throttled(c) PROVE Lookup!LookupInv'
  BY <1>6, <1>11 DEF Lookup!Throttled
<1>12. ASSUME NEW c \in Workers, Lookup!RecordFailure(c) \/ Lookup!RecordSuccess(c) \/ Lookup!Dies(c)
       PROVE  Lookup!LookupInv'
  <2>1. Lookup!Done(c) /\ r7' = r7 /\ r4' \in Nat /\ r5' = r5
    BY <1>1, <1>12 DEF Lookup!RecordFailure, Lookup!RecordSuccess, Lookup!Dies
  <2> QED BY <1>7, <2>1
\* Past the check: without a CAPTCHA only when the log shows fewer failures than
\* the limit, and so when there were fewer guesses.
<1>13. ASSUME NEW c \in Workers, Lookup!Screen(c) PROVE Lookup!LookupInv'
  <2>1. r4' = r4 /\ r7' = r7 /\ r6[c].at = "counted"
    BY <1>13 DEF Lookup!Screen, Lookup!At
  <2>2. CASE Lookup!Log(c, "failure")
    BY <1>6, <2>1, <2>2
  <2>3. ASSUME NEW s \in {"yes", "no"}, r5' = r5, NEW rec, rec = [at |-> "screened", solved |-> s],
               r6' = [r6 EXCEPT ![c] = rec],
               s = "no" => r7 < CaptchaAfter
        PROVE  Lookup!LookupInv'
    <3>1. /\ r6' = [b \in Workers |-> r6'[b]] /\ \A b \in Workers : r6'[b] = IF b = c THEN rec ELSE r6[b]
          /\ rec.solved = s
      BY <1>1, <2>3
    <3>2. \A b \in Workers : r6'[b].at = "screened" => r6'[b].solved \in {"yes", "no"}
      BY <1>1, <3>1
    <3>3. r7' + Cardinality(Lookup!Unsolved') <= CaptchaAfter + Cardinality(Workers) - 1
      <4>1. CASE s = "no"
        <5>1. Lookup!Unsolved' \subseteq Workers
          BY DEF Lookup!Unsolved
        <5>2. Cardinality(Lookup!Unsolved') <= Cardinality(Workers) /\ Cardinality(Lookup!Unsolved') \in Nat
          BY <5>1, UnsolvedAreFew
        <5> QED BY <1>1, <1>2, <2>1, <2>3, <4>1, <5>2
      <4>2. CASE s = "yes"
        <5>1. Lookup!Unsolved' = Lookup!Unsolved
          BY <2>1, <3>1, <4>2 DEF Lookup!Unsolved, Lookup!At
        <5> QED BY <1>2, <2>1, <5>1
      <4> QED BY <2>3, <4>1, <4>2
    <3> HIDE DEF Least
    <3> QED BY <1>1, <2>1, <2>3, <3>1, <3>2, <3>3, LookupMoves
  <2>4. CASE Lookup!ConsecutiveFailures < CaptchaAfter
    <3>1. PICK rec : rec = [at |-> "screened", solved |-> "no"]
      OBVIOUS
    <3>2. r6' = [r6 EXCEPT ![c] = rec] /\ r5' = r5
      BY <1>13, <2>4, <3>1 DEF Lookup!Screen, Lookup!Go
    <3>3. Least(r7) \in Nat
      BY <1>1 DEF Least
    <3>4. Lookup!TrailingFailures \in Nat /\ Least(r7) <= Lookup!TrailingFailures
      BY <1>1, <3>3, FailuresAreSeen
    <3>5. Lookup!TrailingFailures < CaptchaAfter
      BY <1>1, <2>4, <3>4 DEF Lookup!ConsecutiveFailures, Lookup!Larger
    <3>6. r7 < CaptchaAfter
      BY <1>1, <3>3, <3>4, <3>5 DEF Least
    <3> QED BY <2>3, <3>1, <3>2, <3>6
  <2>5. CASE ~(Lookup!ConsecutiveFailures < CaptchaAfter) /\ ~Lookup!Log(c, "failure")
    <3>1. PICK rec : rec = [at |-> "screened", solved |-> "yes"]
      OBVIOUS
    <3>2. r6' = [r6 EXCEPT ![c] = rec] /\ r5' = r5
      BY <1>13, <2>5, <3>1 DEF Lookup!Screen, Lookup!Go
    <3> QED BY <2>3, <3>1, <3>2
  <2> QED BY <2>2, <2>4, <2>5
<1>14. ASSUME NEW c \in Workers, Lookup!Compare(c) PROVE Lookup!LookupInv'
  <2>1. r6[c].at = "screened" /\ r4' = r4 /\ r6[c].solved \in {"yes", "no"}
    BY <1>1, <1>14 DEF Lookup!Compare, Lookup!At
  <2>2. ASSUME NEW rec, r6' = [r6 EXCEPT ![c] = rec], rec.at # "screened"
        PROVE  /\ r6' = [b \in Workers |-> r6'[b]]
               /\ \A b \in Workers : r6'[b].at = "screened" => r6'[b].solved \in {"yes", "no"}
               /\ Lookup!Unsolved' = Lookup!Unsolved \ {c}
    <3>1. r6' = [b \in Workers |-> r6'[b]] /\ \A b \in Workers : r6'[b] = IF b = c THEN rec ELSE r6[b]
      BY <1>1, <2>2
    <3>2. Lookup!Unsolved' = Lookup!Unsolved \ {c}
      BY <2>2, <3>1 DEF Lookup!Unsolved, Lookup!At
    <3> QED BY <1>1, <2>2, <3>1, <3>2
  <2>3. /\ Cardinality(Lookup!Unsolved \ {c}) =
             IF c \in Lookup!Unsolved THEN Cardinality(Lookup!Unsolved) - 1 ELSE Cardinality(Lookup!Unsolved)
        /\ Cardinality(Lookup!Unsolved \ {c}) \in Nat /\ Cardinality(Lookup!Unsolved \ {c}) <= Cardinality(Workers)
    <3>1. Lookup!Unsolved \ {c} \subseteq Workers
      BY <1>2
    <3> QED BY <1>2, <3>1, UnsolvedAreFew, FS_RemoveElement
  <2>4. CASE Lookup!Log(c, "match") /\ r7' = 0
    <3>1. PICK rec : rec = [at |-> "matched"]
      OBVIOUS
    <3>2. r6' = [r6 EXCEPT ![c] = rec] /\ rec.at # "screened" /\ r5' = Lookup!Row("match")
      BY <2>4, <3>1 DEF Lookup!Log, Lookup!Go
    <3>3. LookupLog(r5')
      BY <1>1, <3>2, LogGrows DEF Outcomes
    <3>4. EndsIn(r5', Least(r7')) /\ r7' \in Nat
      BY <1>1, <2>4, <3>3 DEF Least, EndsIn, LookupLog
    <3>5. r7' + Cardinality(Lookup!Unsolved') <= CaptchaAfter + Cardinality(Workers) - 1
      <4>1. Lookup!Unsolved' = Lookup!Unsolved \ {c}
        BY <2>2, <3>2
      <4>2. Cardinality(Lookup!Unsolved') = Cardinality(Lookup!Unsolved \ {c})
        BY <4>1
      <4> QED BY <1>1, <1>2, <2>3, <2>4, <4>2
    <3> HIDE DEF Least
    <3> QED BY <1>1, <2>1, <2>2, <3>2, <3>3, <3>4, <3>5, LookupMoves
  <2>5. CASE Lookup!Log(c, "failure") /\ r7' = IF r6[c].solved = "yes" THEN r7 ELSE r7 + 1
    <3>1. CASE r6[c].solved = "yes"
      BY <1>6, <2>1, <2>5, <3>1
    <3>2. CASE r6[c].solved = "no"
      <4>1. PICK rec : rec = [at |-> "failed"]
        OBVIOUS
      <4>2. r6' = [r6 EXCEPT ![c] = rec] /\ rec.at # "screened" /\ r5' = Lookup!Row("failure") /\ r7' = r7 + 1
        BY <2>5, <3>2, <4>1 DEF Lookup!Log, Lookup!Go
      <4>3. Least(r7) \in Nat /\ Least(Least(r7) + 1) = Least(r7 + 1)
        BY <1>1 DEF Least
      <4>4. LookupLog(r5') /\ EndsIn(r5', Least(r7'))
        BY <1>1, <4>2, <4>3, LogGrows DEF Outcomes
      <4>5. c \in Lookup!Unsolved
        BY <2>1, <3>2 DEF Lookup!Unsolved, Lookup!At
      <4>6. r7' + Cardinality(Lookup!Unsolved') <= CaptchaAfter + Cardinality(Workers) - 1
        <5>1. Lookup!Unsolved' = Lookup!Unsolved \ {c}
          BY <2>2, <4>2
        <5>2. Cardinality(Lookup!Unsolved') = Cardinality(Lookup!Unsolved \ {c})
          BY <5>1
        <5> QED BY <1>1, <1>2, <2>3, <4>2, <4>5, <5>2
      <4>7. r7' \in Nat
        BY <1>1, <4>2
      <4> HIDE DEF Least
      <4> QED BY <1>1, <2>1, <2>2, <4>2, <4>4, <4>6, <4>7, LookupMoves
    <3> QED BY <2>1, <3>1, <3>2
  <2> QED BY <1>14, <2>4, <2>5 DEF Lookup!Compare
<1> QED BY <1>3, <1>4, <1>8, <1>9, <1>10, <1>11, <1>12, <1>13, <1>14 DEF Lookup!Next

LEMMA LookupInvStands ==
  ASSUME MessagesAssumption, Lookup!LookupInv
  PROVE  Lookup!GuessesAreBounded
<1>1. Lookup!Unsolved \in SUBSET Workers
  BY DEF Lookup!Unsolved
<1>2. /\ Lookup!Cardinality(Lookup!Unsolved) \in Nat /\ Lookup!Cardinality(Workers) \in Nat
      /\ CaptchaAfter \in Nat /\ r7 \in Nat
  BY <1>1, UnsolvedAreFew, LookupHas DEF MessagesAssumption
<1>3. r7 + Lookup!Cardinality(Lookup!Unsolved) <= CaptchaAfter + Lookup!Cardinality(Workers) - 1
  BY LookupHas
<1> QED BY <1>2, <1>3 DEF Lookup!GuessesAreBounded

----------------------------------------------------------------------------
(* Rollup.  r1 is the hour, r2 the parcels, r3 the rows, r4 the sweep, r5   *)
(* whether anything moved since it began.                                  *)

Cards == Figures!CardRows(r1)
EventsNow == Figures!EventRows(Figures!Restated(r1))
ParcelRow(h) == [booked : 0..h, state : {"OPEN", "DELIVERED", "VOID"}, picked : SUBSET (1..h), delivered : SUBSET (1..h)]
KeyStands(k) == /\ k = [kind |-> k.kind, hour |-> k.hour, side |-> k.side] /\ k.hour \in 1..r1
                /\ k.kind = "cohort" => Figures!Cohort(k.hour, k.side) # {}
SweepStands == /\ r4 = [step |-> r4.step, hour |-> r4.hour, got |-> r4.got]
               /\ r4.step \in 0..5 /\ (r4.step > 0 => r4.hour \in 1..r1)
               /\ r4.step = 4 => r4.got = << >>
               /\ r4.step = 5 => \A k \in DOMAIN r4.got : k.kind \in Figures!EventKinds
KeysStand == \A k \in DOMAIN r3 \cup DOMAIN r4.got : KeyStands(k)
KnownStands ==
  /\ r5 = "sweeping" =>
       /\ r4.step > 0 /\ r4.hour = r1
       /\ r4.step \in {2, 3} => Figures!Says(r4.got, Cards)
       /\ r4.step \in {4, 5} => Figures!Says(r3, Cards)
       /\ r4.step = 5 => Figures!Says(r4.got, EventsNow)
  /\ r5 = "yes" => r4.step = 0 /\ Figures!Says(r3, Cards) /\ Figures!Says(r3, EventsNow)
Rolled == r1 \in Nat \ {0} /\ r2 \in [Parcels -> ParcelRow(r1)] /\ SweepStands /\ KeysStand /\ KnownStands

LEMMA RolledIs == (Figures!RollupInv <=> Rolled) /\ (Figures!RollupInv' <=> Rolled')
<1>1. Figures!RollupInv <=> Rolled
  BY Zenon DEF Figures!RollupInv, Rolled, SweepStands, KeysStand, KnownStands, KeyStands, ParcelRow, Cards, EventsNow, Figures!Key
<1>2. Figures!RollupInv' <=> Rolled'
  BY Zenon DEF Figures!RollupInv, Rolled, SweepStands, KeysStand, KnownStands, KeyStands, ParcelRow, Cards, EventsNow, Figures!Key
<1> QED BY <1>1, <1>2

\* What the figures are about does not move while they are only read.
LEMMA FiguresStay ==
  ASSUME r2' = r2
  PROVE  /\ r1' = r1 => Cards' = Cards /\ EventsNow' = EventsNow
         /\ \A k : r1' = r1 /\ KeyStands(k) => KeyStands(k)'
<1> USE DEF Figures!Booked
<1>1. ASSUME r1' = r1 PROVE Cards' = Cards
  BY <1>1 DEF Cards, Figures!CardRows, Figures!PickupPending, Figures!ListDelayed
<1>2. ASSUME r1' = r1 PROVE EventsNow' = EventsNow
  BY <1>2 DEF EventsNow, Figures!EventRows, Figures!Restated, Figures!CohortRows, Figures!PickupRows, Figures!DeliveryRows,
              Figures!Groups, Figures!Cohort, Figures!Outcome
<1>3. ASSUME NEW k, r1' = r1, KeyStands(k) PROVE KeyStands(k)'
  BY <1>3 DEF KeyStands, Figures!Cohort
<1> QED BY <1>1, <1>2, <1>3

LEMMA RollupInitially == Figures!Init => Rolled
<1> SUFFICES ASSUME Figures!Init PROVE Rolled
  OBVIOUS
<1>1. r1 = 1 /\ r3 = << >> /\ r5 = "no" /\ r4 = [step |-> 0, hour |-> 0, got |-> << >>]
  BY DEF Figures!Init
<1>2. r2 \in [Parcels -> ParcelRow(r1)]
  BY <1>1 DEF Figures!Init, ParcelRow
<1>3. KeysStand /\ KnownStands /\ SweepStands
  BY <1>1 DEF KeysStand, KnownStands, SweepStands
<1> QED BY <1>1, <1>2, <1>3 DEF Rolled

\* The parcels move: no cohort loses all it had.
LEMMA ParcelsMove ==
  ASSUME Rolled, r1' \in Nat, r1 <= r1', r2' \in [Parcels -> ParcelRow(r1')], r3' = r3, r4' = r4, r5' = "no",
         \A p \in Parcels : r2[p].booked > 0 => r2'[p].booked = r2[p].booked
  PROVE  Rolled'
<1>1. r1 \in Nat \ {0}
  BY DEF Rolled
<1>2. ASSUME NEW k, KeyStands(k) PROVE KeyStands(k)'
  <2>1. Figures!Cohort(k.hour, k.side) \subseteq Figures!Cohort(k.hour, k.side)'
    BY DEF Figures!Cohort, Figures!Booked
  <2> QED BY <1>1, <1>2, <2>1 DEF KeyStands
<1>3. KeysStand'
  BY <1>2 DEF Rolled, KeysStand
<1>4. SweepStands'
  BY <1>1 DEF Rolled, SweepStands
<1>5. KnownStands'
  BY DEF KnownStands
<1> QED BY <1>1, <1>3, <1>4, <1>5 DEF Rolled

\* The rows that are read are of the hours they are asked for.
LEMMA Overs ==
  ASSUME NEW a, NEW b
  PROVE  /\ DOMAIN Figures!Over(a, b) = DOMAIN a \cup DOMAIN b
         /\ \A k \in DOMAIN a : Figures!Over(a, b)[k] = a[k]
         /\ \A k \in DOMAIN b : k \notin DOMAIN a => Figures!Over(a, b)[k] = b[k]
BY DEF Figures!Over

LEMMA GroupKeys ==
  ASSUME NEW kind, NEW window, NEW found
  PROVE  \A k \in DOMAIN Figures!Groups(kind, window, found) :
           k = [kind |-> k.kind, hour |-> k.hour, side |-> k.side] /\ k.kind = kind /\ k.hour \in window
<1> DEFINE keys == {k \in [kind : {kind}, hour : window, side : Figures!Sides] :
                      {p \in Figures!Booked : Figures!Side(p) = k.side /\ <<p, k.hour>> \in found} # {}}
<1>1. DOMAIN Figures!Groups(kind, window, found) = keys
  BY DEF Figures!Groups
<1> QED BY <1>1

LEMMA SnapshotKeys ==
  ASSUME Rolled, r4.step > 0, NEW k \in DOMAIN Figures!Over(Figures!CardRows(r4.hour),
           Figures!Over(Figures!MovementRows(r4.hour, "OPEN"), Figures!MovementRows(r4.hour, "DELIVERED")))
  PROVE  KeyStands(k)
<1>1. r4.hour \in 1..r1
  BY DEF Rolled, SweepStands
<1>2. CASE k \in DOMAIN Figures!CardRows(r4.hour)
  BY <1>1, <1>2 DEF Figures!CardRows, KeyStands
<1>3. CASE k \in DOMAIN Figures!MovementRows(r4.hour, "OPEN") \cup DOMAIN Figures!MovementRows(r4.hour, "DELIVERED")
  <2>1. k = [kind |-> k.kind, hour |-> k.hour, side |-> k.side] /\ k.kind \in {"OPEN", "DELIVERED"} /\ k.hour \in {r4.hour}
    BY <1>3, GroupKeys DEF Figures!MovementRows
  <2> QED BY <1>1, <2>1 DEF KeyStands
<1>4. k \in DOMAIN Figures!CardRows(r4.hour) \cup
            DOMAIN Figures!Over(Figures!MovementRows(r4.hour, "OPEN"), Figures!MovementRows(r4.hour, "DELIVERED"))
  BY Overs, Zenon
<1>5. DOMAIN Figures!Over(Figures!MovementRows(r4.hour, "OPEN"), Figures!MovementRows(r4.hour, "DELIVERED")) =
        DOMAIN Figures!MovementRows(r4.hour, "OPEN") \cup DOMAIN Figures!MovementRows(r4.hour, "DELIVERED")
  BY Overs, Zenon
<1> QED BY <1>2, <1>3, <1>4, <1>5

LEMMA EventKeys ==
  ASSUME NEW window \in SUBSET (1..r1), NEW k \in DOMAIN Figures!EventRows(window)
  PROVE  KeyStands(k) /\ k.kind \in Figures!EventKinds
<1>1. CASE k \in DOMAIN Figures!CohortRows(window)
  <2>1. k \in {c \in [kind : {"cohort"}, hour : window, side : Figures!Sides] : Figures!Cohort(c.hour, c.side) # {}}
    BY <1>1 DEF Figures!CohortRows
  <2> QED BY <2>1 DEF KeyStands, Figures!EventKinds
<1>2. CASE k \in DOMAIN Figures!PickupRows(window) \cup DOMAIN Figures!DeliveryRows(window)
  <2>1. k = [kind |-> k.kind, hour |-> k.hour, side |-> k.side] /\ k.kind \in {"pickup", "delivery"} /\ k.hour \in window
    BY <1>2, GroupKeys DEF Figures!PickupRows, Figures!DeliveryRows
  <2> QED BY <2>1 DEF KeyStands, Figures!EventKinds
<1> QED BY <1>1, <1>2, Overs DEF Figures!EventRows

\* What is collected or written says what it takes in, and what it leaves.
LEMMA OversSay ==
  ASSUME NEW a, NEW b, NEW what
  PROVE  /\ Figures!Says(a, what) => Figures!Says(Figures!Over(a, b), what)
         /\ Figures!Says(b, what) /\ DOMAIN a \cap DOMAIN what = {} => Figures!Says(Figures!Over(a, b), what)
<1>1. ASSUME Figures!Says(a, what), NEW k \in DOMAIN what
      PROVE  k \in DOMAIN Figures!Over(a, b) /\ Figures!Over(a, b)[k] = what[k]
  <2>1. k \in DOMAIN a /\ a[k] = what[k]
    BY <1>1, Zenon DEF Figures!Says
  <2>2. k \in DOMAIN Figures!Over(a, b) /\ Figures!Over(a, b)[k] = a[k]
    BY <2>1 DEF Figures!Over
  <2> QED BY <2>1, <2>2
<1>2. ASSUME Figures!Says(b, what), DOMAIN a \cap DOMAIN what = {}, NEW k \in DOMAIN what
      PROVE  k \in DOMAIN Figures!Over(a, b) /\ Figures!Over(a, b)[k] = what[k]
  <2>1. k \in DOMAIN b /\ b[k] = what[k]
    BY <1>2, Zenon DEF Figures!Says
  <2>2. k \notin DOMAIN a
    BY <1>2
  <2>3. k \in DOMAIN Figures!Over(a, b) /\ Figures!Over(a, b)[k] = b[k]
    BY <2>1, <2>2 DEF Figures!Over
  <2> QED BY <2>1, <2>3
<1> QED BY <1>1, <1>2, Zenon DEF Figures!Says

LEMMA CardsApart ==
  /\ \A window : DOMAIN Figures!EventRows(window) \cap DOMAIN Cards = {}
  /\ \A got : (\A k \in DOMAIN got : k.kind \in Figures!EventKinds) => DOMAIN got \cap DOMAIN Cards = {}
<1>1. \A k \in DOMAIN Cards : k.kind \in {"pickup_pending", "delayed"}
  BY DEF Cards, Figures!CardRows
<1>2. ASSUME NEW window, NEW k \in DOMAIN Figures!EventRows(window) PROVE k.kind \in Figures!EventKinds
  <2>1. k \in DOMAIN Figures!CohortRows(window) \cup DOMAIN Figures!Over(Figures!PickupRows(window), Figures!DeliveryRows(window))
    BY Overs, Zenon DEF Figures!EventRows
  <2>2. DOMAIN Figures!Over(Figures!PickupRows(window), Figures!DeliveryRows(window)) =
          DOMAIN Figures!PickupRows(window) \cup DOMAIN Figures!DeliveryRows(window)
    BY Overs, Zenon
  <2>3. CASE k \in DOMAIN Figures!CohortRows(window)
    BY <2>3 DEF Figures!CohortRows, Figures!EventKinds
  <2>4. CASE k \in DOMAIN Figures!PickupRows(window) \cup DOMAIN Figures!DeliveryRows(window)
    BY <2>4, GroupKeys DEF Figures!PickupRows, Figures!DeliveryRows, Figures!EventKinds
  <2> QED BY <2>1, <2>2, <2>3, <2>4
<1>3. Figures!EventKinds \cap {"pickup_pending", "delayed"} = {}
  BY DEF Figures!EventKinds
<1> QED BY <1>1, <1>2, <1>3

\* The sweep goes on: what is known of the rows is known.
LEMMA SweepMoves ==
  ASSUME Rolled, r1' = r1, r2' = r2, SweepStands',
         \A k \in DOMAIN r3' \cup DOMAIN r4'.got : KeyStands(k),
         r5' = "sweeping" =>
           /\ r4'.step > 0 /\ r4'.hour = r1
           /\ r4'.step \in {2, 3} => Figures!Says(r4'.got, Cards)
           /\ r4'.step \in {4, 5} => Figures!Says(r3', Cards)
           /\ r4'.step = 5 => Figures!Says(r4'.got, EventsNow),
         r5' = "yes" => r4'.step = 0 /\ Figures!Says(r3', Cards) /\ Figures!Says(r3', EventsNow)
  PROVE  Rolled'
<1>1. Cards' = Cards /\ EventsNow' = EventsNow
  BY FiguresStay
<1>2. KeysStand'
  BY FiguresStay DEF KeysStand
<1>3. \A book, what : Figures!Says(book, what) <=> \A k \in DOMAIN what : k \in DOMAIN book /\ book[k] = what[k]
  BY Zenon DEF Figures!Says
<1>4. KnownStands'
  BY <1>1, Zenon DEF KnownStands, Figures!Says
<1> QED BY <1>2, <1>4 DEF Rolled

LEMMA RollupKept ==
  ASSUME Rolled, [Figures!Next]_<<r1, r2, r3, r4, r5, r6>>
  PROVE  Rolled'
<1>1. /\ r1 \in Nat \ {0} /\ r2 \in [Parcels -> ParcelRow(r1)] /\ KnownStands
      /\ r4 = [step |-> r4.step, hour |-> r4.hour, got |-> r4.got]
      /\ r4.step \in 0..5 /\ (r4.step > 0 => r4.hour \in 1..r1)
      /\ (r4.step = 4 => r4.got = << >>)
      /\ (r4.step = 5 => \A k \in DOMAIN r4.got : k.kind \in Figures!EventKinds)
      /\ \A k \in DOMAIN r3 \cup DOMAIN r4.got : KeyStands(k)
  BY DEF Rolled, SweepStands, KeysStand
<1>2. CASE UNCHANGED <<r1, r2, r3, r4, r5, r6>>
  <2>1. SweepStands'
    BY <1>1, <1>2 DEF SweepStands
  <2> QED BY <1>1, <1>2, <2>1, SweepMoves DEF KnownStands
<1>3. CASE Figures!Tick
  <2>1. r1' = r1 + 1 /\ r2' = r2 /\ r3' = r3 /\ r4' = r4 /\ r5' = "no"
    BY <1>3 DEF Figures!Tick, Figures!Moved
  <2>2. r2' \in [Parcels -> ParcelRow(r1')]
    BY <1>1, <2>1 DEF ParcelRow
  <2> QED BY <1>1, <2>1, <2>2, ParcelsMove
<1>4. ASSUME NEW p \in Parcels, NEW row \in ParcelRow(r1), r2[p].booked > 0 => row.booked = r2[p].booked,
             r2' = [r2 EXCEPT ![p] = row], r1' = r1, r3' = r3, r4' = r4, r5' = "no"
      PROVE  Rolled'
  <2>1. r2' \in [Parcels -> ParcelRow(r1')]
    BY <1>1, <1>4
  <2>2. \A q \in Parcels : r2'[q] = IF q = p THEN row ELSE r2[q]
    BY <1>1, <1>4
  <2> QED BY <1>1, <1>4, <2>1, <2>2, ParcelsMove
<1>5. ASSUME NEW p \in Parcels, Figures!Book(p) PROVE Rolled'
  <2>1. PICK row : row = [r2[p] EXCEPT !.booked = r1]
    OBVIOUS
  <2>2. r2[p] \in ParcelRow(r1) /\ r2[p].booked = 0
    BY <1>1, <1>5 DEF Figures!Book
  <2>3. row \in ParcelRow(r1)
    BY <1>1, <2>1, <2>2 DEF ParcelRow
  <2>4. r2' = [r2 EXCEPT ![p] = row] /\ r1' = r1 /\ r3' = r3 /\ r4' = r4 /\ r5' = "no"
    BY <1>5, <2>1 DEF Figures!Book, Figures!Moved
  <2>5. r2[p].booked > 0 => row.booked = r2[p].booked
    BY <2>2
  <2> QED BY <1>4, <2>3, <2>4, <2>5, Zenon
<1>6. ASSUME NEW p \in Parcels, Figures!Void(p) PROVE Rolled'
  <2>1. PICK row : row = [r2[p] EXCEPT !.state = "VOID"]
    OBVIOUS
  <2>2. r2[p] \in ParcelRow(r1)
    BY <1>1
  <2>3. row \in ParcelRow(r1) /\ row.booked = r2[p].booked
    BY <2>1, <2>2 DEF ParcelRow
  <2>4. r2' = [r2 EXCEPT ![p] = row] /\ r1' = r1 /\ r3' = r3 /\ r4' = r4 /\ r5' = "no"
    BY <1>6, <2>1 DEF Figures!Void, Figures!Moved
  <2> QED BY <1>4, <2>3, <2>4
<1>7. ASSUME NEW p \in Parcels, Figures!Scan(p) PROVE Rolled'
  <2>1. PICK h \in r2[p].booked..r1 :
          r2' = [r2 EXCEPT ![p] = IF r2[p].picked = {} THEN [r2[p] EXCEPT !.picked = {h}]
                                  ELSE [r2[p] EXCEPT !.delivered = @ \cup {h}, !.state = "DELIVERED"]]
    BY <1>7 DEF Figures!Scan
  <2>2. r2[p] \in ParcelRow(r1) /\ r2[p].booked > 0
    BY <1>1, <1>7 DEF Figures!Scan
  <2>3. h \in 1..r1
    BY <1>1, <2>1, <2>2 DEF ParcelRow
  <2>4. r1' = r1 /\ r3' = r3 /\ r4' = r4 /\ r5' = "no"
    BY <1>7 DEF Figures!Scan, Figures!Moved
  <2>5. CASE r2[p].picked = {}
    <3>1. PICK row : row = [r2[p] EXCEPT !.picked = {h}]
      OBVIOUS
    <3>2. row \in ParcelRow(r1) /\ row.booked = r2[p].booked
      BY <2>2, <2>3, <3>1 DEF ParcelRow
    <3> QED BY <1>4, <2>1, <2>4, <2>5, <3>1, <3>2
  <2>6. CASE r2[p].picked # {}
    <3>1. PICK row : row = [r2[p] EXCEPT !.delivered = r2[p].delivered \cup {h}, !.state = "DELIVERED"]
      OBVIOUS
    <3>2. r2[p].delivered \cup {h} \in SUBSET (1..r1)
      BY <2>2, <2>3 DEF ParcelRow
    <3>3. row \in ParcelRow(r1) /\ row.booked = r2[p].booked
      BY <2>2, <3>1, <3>2 DEF ParcelRow
    <3>4. r2' = [r2 EXCEPT ![p] = row]
      BY <2>1, <2>6, <3>1
    <3> QED BY <1>4, <2>4, <3>3, <3>4
  <2> QED BY <2>5, <2>6
<1>8. CASE Figures!Begin
  <2>1. r4' = [step |-> 1, hour |-> r1, got |-> << >>] /\ r5' = "sweeping" /\ r1' = r1 /\ r2' = r2 /\ r3' = r3
    BY <1>8 DEF Figures!Begin
  <2>2. SweepStands' /\ DOMAIN r4'.got = {} /\ r4'.step = 1 /\ r4'.hour = r1
    BY <1>1, <2>1 DEF SweepStands
  <2> QED BY <1>1, <2>1, <2>2, SweepMoves
<1>9. CASE Figures!Fail
  <2>1. r4' = [step |-> 0, hour |-> 0, got |-> << >>] /\ r5' = "no" /\ r1' = r1 /\ r2' = r2 /\ r3' = r3
    BY <1>9 DEF Figures!Fail
  <2>2. SweepStands' /\ DOMAIN r4'.got = {}
    BY <1>1, <2>1 DEF SweepStands
  <2> QED BY <1>1, <2>1, <2>2, SweepMoves
<1>10. CASE Figures!ReadSnapshot
  <2> DEFINE moves == Figures!Over(Figures!MovementRows(r4.hour, "OPEN"), Figures!MovementRows(r4.hour, "DELIVERED"))
             new == Figures!Over(Figures!CardRows(r4.hour), moves)
             got == Figures!Over(new, r4.got)
  <2>1. r4.step > 0 /\ Figures!Program[r4.step] = "snapshot"
    BY <1>10 DEF Figures!ReadSnapshot, Figures!Doing
  <2>2. r4.step = 1
    BY <1>1, <2>1 DEF Figures!Program
  <2>3. r4' = [r4 EXCEPT !.step = r4.step + 1, !.got = got] /\ r1' = r1 /\ r2' = r2 /\ r3' = r3 /\ r5' = r5
    BY <1>10 DEF Figures!ReadSnapshot, Figures!Collect
  <2>4. \A k \in DOMAIN new : KeyStands(k)
    BY <2>2, SnapshotKeys
  <2>5. r4.hour = r1 => Figures!Says(got, Cards)
    <3>1. Figures!Says(Cards, Cards)
      BY DEF Figures!Says
    <3>2. Figures!Says(Figures!Over(Cards, moves), Cards)
      BY <3>1, OversSay, Zenon
    <3>3. Figures!Says(Figures!Over(Figures!Over(Cards, moves), r4.got), Cards)
      BY <3>2, OversSay, Zenon
    <3> QED BY <3>3 DEF Cards
  <2>6. DOMAIN got = DOMAIN new \cup DOMAIN r4.got
    BY Overs, Zenon
  <2> HIDE DEF new, got
  <2>7. r4'.step = 2 /\ r4'.got = got /\ r4'.hour = r4.hour /\ r4' = [step |-> r4'.step, hour |-> r4'.hour, got |-> r4'.got]
    <3>1. PICK c : c = [r4 EXCEPT !.step = r4.step + 1, !.got = got]
      OBVIOUS
    <3>2. c = [step |-> r4.step + 1, hour |-> r4.hour, got |-> got]
      BY <1>1, <3>1
    <3>3. r4' = c
      BY <2>3, <3>1, Zenon
    <3>4. r4' = [step |-> r4.step + 1, hour |-> r4.hour, got |-> got]
      BY <3>2, <3>3, Zenon
    <3> QED BY <2>2, <3>4
  <2>8. SweepStands'
    BY <1>1, <2>2, <2>3, <2>7 DEF SweepStands
  <2>9. \A k \in DOMAIN r3' \cup DOMAIN r4'.got : KeyStands(k)
    BY <1>1, <2>3, <2>4, <2>6, <2>7
  <2>10. r5' = "sweeping" => r4'.step > 0 /\ r4'.hour = r1 /\ Figures!Says(r4'.got, Cards)
    BY <1>1, <2>3, <2>5, <2>7 DEF KnownStands
  <2>11. r5' # "yes"
    BY <1>1, <2>2, <2>3 DEF KnownStands
  <2> QED BY <2>3, <2>7, <2>8, <2>9, <2>10, <2>11, SweepMoves
<1>11. CASE Figures!ReadEvents
  <2> DEFINE new == Figures!EventRows(Figures!WindowNow)
             got == Figures!Over(new, r4.got)
  <2>1. r4.step > 0 /\ Figures!Program[r4.step] = "events"
    BY <1>11 DEF Figures!ReadEvents, Figures!Doing
  <2>2. r4.step \in {2, 4}
    BY <1>1, <2>1 DEF Figures!Program
  <2>3. r4' = [r4 EXCEPT !.step = r4.step + 1, !.got = got] /\ r1' = r1 /\ r2' = r2 /\ r3' = r3 /\ r5' = r5
    BY <1>11 DEF Figures!ReadEvents, Figures!Collect
  <2>4. Figures!WindowNow \in SUBSET (1..r1)
    BY <1>1, <2>2 DEF Figures!WindowNow, Figures!Restated
  <2>5. \A k \in DOMAIN new : KeyStands(k) /\ k.kind \in Figures!EventKinds
    BY <2>4, EventKeys
  <2>6. DOMAIN got = DOMAIN new \cup DOMAIN r4.got
    BY Overs, Zenon
  <2>7. Figures!Says(r4.got, Cards) => Figures!Says(got, Cards)
    BY CardsApart, OversSay, Zenon
  <2>8. r4.step = 4 /\ r4.hour = r1 => Figures!Says(got, EventsNow)
    <3>1. r4.step = 4 /\ r4.hour = r1 => new = EventsNow
      BY DEF EventsNow, Figures!WindowNow
    <3>2. Figures!Says(new, new)
      BY DEF Figures!Says
    <3>3. Figures!Says(got, new)
      BY <3>2, OversSay, Zenon
    <3> HIDE DEF got, new
    <3> QED BY <3>1, <3>3
  <2> HIDE DEF new, got
  <2>9. r4'.step = r4.step + 1 /\ r4'.got = got /\ r4'.hour = r4.hour
        /\ r4' = [step |-> r4'.step, hour |-> r4'.hour, got |-> r4'.got]
    BY <1>1, <2>3
  <2>10. SweepStands'
    <3>1. r4.step = 4 => DOMAIN got = DOMAIN new
      <4>1. DOMAIN << >> = {}
        OBVIOUS
      <4>2. r4.step = 4 => DOMAIN r4.got = {}
        BY <1>1, <4>1, Zenon
      <4> QED BY <2>6, <4>2
    <3> QED BY <1>1, <2>2, <2>3, <2>5, <2>9, <3>1 DEF SweepStands
  <2>11. \A k \in DOMAIN r3' \cup DOMAIN r4'.got : KeyStands(k)
    BY <1>1, <2>3, <2>5, <2>6, <2>9
  <2>12. r5' = "sweeping" =>
           /\ r4'.step > 0 /\ r4'.hour = r1
           /\ r4'.step \in {2, 3} => Figures!Says(r4'.got, Cards)
           /\ r4'.step \in {4, 5} => Figures!Says(r3', Cards)
           /\ r4'.step = 5 => Figures!Says(r4'.got, EventsNow)
    BY <1>1, <2>2, <2>3, <2>7, <2>8, <2>9 DEF KnownStands
  <2>13. r5' # "yes"
    BY <1>1, <2>2, <2>3 DEF KnownStands
  <2> QED BY <2>3, <2>10, <2>11, <2>12, <2>13, SweepMoves
<1>12. CASE Figures!Upsert
  <2>1. r4.step > 0 /\ Figures!Program[r4.step] = "write"
    BY <1>12 DEF Figures!Upsert, Figures!Doing
  <2>2. r4.step \in {3, 5} /\ Len(Figures!Program) = 5
    BY <1>1, <2>1 DEF Figures!Program
  <2>3. /\ r3' = Figures!Over(r4.got, r3) /\ r1' = r1 /\ r2' = r2
        /\ r4' = IF r4.step = 5 THEN [step |-> 0, hour |-> r4.hour, got |-> << >>]
                 ELSE [r4 EXCEPT !.step = r4.step + 1, !.got = << >>]
        /\ r5' = IF r4.step = 5 /\ r5 = "sweeping" THEN "yes" ELSE r5
    BY <1>12, <2>2 DEF Figures!Upsert
  <2>4. DOMAIN r3' = DOMAIN r4.got \cup DOMAIN r3
    BY <2>3, Overs
  <2>5. /\ r4'.got = << >> /\ r4'.hour = r4.hour /\ r4'.step = (IF r4.step = 5 THEN 0 ELSE 4)
        /\ r4' = [step |-> r4'.step, hour |-> r4'.hour, got |-> r4'.got]
    <3>1. CASE r4.step = 3
      <4>1. r4' = [r4 EXCEPT !.step = 4, !.got = << >>]
        BY <2>3, <3>1
      <4>2. r4' = [step |-> 4, hour |-> r4.hour, got |-> << >>]
        <5>1. PICK c : c = [r4 EXCEPT !.step = 4, !.got = << >>]
          OBVIOUS
        <5>2. c = [step |-> 4, hour |-> r4.hour, got |-> << >>]
          BY <1>1, <5>1
        <5> QED BY <4>1, <5>1, <5>2
      <4> QED BY <3>1, <4>2
    <3>2. CASE r4.step = 5
      BY <2>3, <3>2
    <3> QED BY <2>2, <3>1, <3>2
  <2>6. SweepStands' /\ DOMAIN r4'.got = {}
    BY <1>1, <2>2, <2>3, <2>5 DEF SweepStands
  <2>7. \A k \in DOMAIN r3' \cup DOMAIN r4'.got : KeyStands(k)
    BY <1>1, <2>4, <2>6
  <2>8. \A what : Figures!Says(r4.got, what) => Figures!Says(r3', what)
    BY <2>3, OversSay
  <2>9. r4.step = 5 /\ Figures!Says(r3, Cards) => Figures!Says(r3', Cards)
    <3>1. r4.step = 5 => DOMAIN r4.got \cap DOMAIN Cards = {}
      BY <1>1, CardsApart
    <3> QED BY <2>3, <3>1, OversSay
  <2>10. CASE r4.step = 3
    <3>1. r5' = r5 /\ r4'.step = 4
      BY <2>3, <2>5, <2>10
    <3> QED BY <1>1, <2>3, <2>5, <2>6, <2>7, <2>8, <2>10, <3>1, SweepMoves DEF KnownStands
  <2>11. CASE r4.step = 5
    <3>1. r5' # "sweeping" /\ r4'.step = 0 /\ (r5' = "yes" => r5 = "sweeping" \/ r5 = "yes")
      BY <2>3, <2>5, <2>11
    <3>2. r5' = "yes" => Figures!Says(r3', Cards) /\ Figures!Says(r3', EventsNow)
      BY <1>1, <2>8, <2>9, <2>11, <3>1 DEF KnownStands
    <3> QED BY <2>3, <2>6, <2>7, <3>1, <3>2, SweepMoves
  <2> QED BY <2>2, <2>10, <2>11
<1> QED BY <1>2, <1>3, <1>5, <1>6, <1>7, <1>8, <1>9, <1>10, <1>11, <1>12 DEF Figures!Next

\* Sums are unfolded as the fold of the community modules unfolds them.
Pick(s) == CHOOSE x \in s : TRUE
Unfolds(g, f, S) ==
  g = [s \in SUBSET S |-> IF s = {} THEN 0 ELSE f[Pick(s)] + g[s \ {Pick(s)}]]

LEMMA UnfoldsOnce ==
  ASSUME NEW f, NEW S, IsFiniteSet(S), NEW g, NEW h, Unfolds(g, f, S), Unfolds(h, f, S)
  PROVE  g = h
<1> DEFINE bad == {s \in SUBSET S : g[s] # h[s]}
           sizes == {Cardinality(s) : s \in bad}
<1>1. \A s \in SUBSET S : IsFiniteSet(s) /\ Cardinality(s) \in Nat
  BY FS_Subset, FS_CardinalityType
<1>2. bad = {}
  <2> SUFFICES ASSUME bad # {} PROVE FALSE
    OBVIOUS
  <2>1. sizes \in SUBSET Nat /\ sizes # {}
    BY <1>1
  <2>2. PICK n \in sizes : \A m \in sizes : n <= m
    BY <2>1, HasLeast, Zenon
  <2>3. PICK s \in bad : n = Cardinality(s)
    OBVIOUS
  <2>4. s # {}
    BY DEF Unfolds
  <2>5. Pick(s) \in s
    BY <2>4 DEF Pick
  <2>6. s \ {Pick(s)} \in SUBSET S /\ Cardinality(s \ {Pick(s)}) = n - 1
    BY <1>1, <2>3, <2>5, FS_RemoveElement
  <2>7. s \ {Pick(s)} \notin bad
    BY <2>1, <2>2, <2>6
  <2>8. g[s \ {Pick(s)}] = h[s \ {Pick(s)}]
    BY <2>6, <2>7
  <2> QED BY <2>4, <2>8 DEF Unfolds
<1>3. g = [s \in SUBSET S |-> g[s]] /\ h = [s \in SUBSET S |-> h[s]]
  BY DEF Unfolds
<1> QED BY <1>2, <1>3

LEMMA SumUnfolds ==
  ASSUME NEW f, NEW S, IsFiniteSet(S), NEW g, Unfolds(g, f, S)
  PROVE  Figures!SumFunctionOnSet(f, S) = g[S]
<1> DEFINE fold == CHOOSE h : h = [s \in SUBSET S |-> IF s = {} THEN 0
                       ELSE f[CHOOSE x \in s : TRUE] + h[s \ {CHOOSE x \in s : TRUE}]]
<1>1. Figures!SumFunctionOnSet(f, S) = fold[S]
  BY Zenon DEF Figures!SumFunctionOnSet, Figures!FoldFunctionOnSet, Figures!MapThenFoldSet
<1>2. Unfolds(fold, f, S)
  BY Zenon DEF Unfolds, Pick
<1>3. fold = g
  BY <1>2, UnfoldsOnce, Zenon
<1> QED BY <1>1, <1>3

\* The sum of the sizes of sets that lie apart is the size of their union.
LEMMA SumOfParts ==
  ASSUME NEW K, IsFiniteSet(K), NEW P, IsFiniteSet(P), NEW part, \A k \in K : part[k] \in SUBSET P,
         \A j, k \in K : j # k => part[j] \cap part[k] = {},
         NEW f, \A k \in K : f[k] = Cardinality(part[k])
  PROVE  Figures!SumFunctionOnSet(f, K) = Cardinality(UNION {part[k] : k \in K})
<1> DEFINE All(s) == UNION {part[k] : k \in s}
           g == [s \in SUBSET K |-> Cardinality(All(s))]
<1>1. ASSUME NEW s \in SUBSET K, s # {}
      PROVE  g[s] = f[Pick(s)] + g[s \ {Pick(s)}]
  <2>1. Pick(s) \in s /\ Pick(s) \in K
    BY <1>1 DEF Pick
  <2>2. PICK k \in K : k = Pick(s)
    BY <2>1
  <2>3. All(s) = part[k] \cup All(s \ {k})
    BY <2>1, <2>2
  <2>4. part[k] \cap All(s \ {k}) = {}
    BY <2>2
  <2>5. part[k] \in SUBSET P /\ All(s \ {k}) \in SUBSET P
    OBVIOUS
  <2>6. IsFiniteSet(part[k]) /\ IsFiniteSet(All(s \ {k}))
    BY <2>5, FS_Subset
  <2>7. Cardinality(part[k] \cap All(s \ {k})) = 0
    BY <2>4, FS_EmptySet
  <2>8. Cardinality(All(s)) = Cardinality(part[k]) + Cardinality(All(s \ {k})) - 0
    <3> HIDE DEF All
    <3> QED BY <2>3, <2>6, <2>7, FS_Union, Zenon
  <2>9. Cardinality(part[k]) \in Nat /\ Cardinality(All(s \ {k})) \in Nat
    BY <2>6, FS_CardinalityType
  <2>10. Cardinality(All(s)) = Cardinality(part[k]) + Cardinality(All(s \ {k}))
    <3> HIDE DEF All
    <3> QED BY <2>8, <2>9
  <2>11. g[s] = Cardinality(All(s)) /\ g[s \ {k}] = Cardinality(All(s \ {k}))
    BY Zenon
  <2> QED BY <2>2, <2>10, <2>11
<1>2. g[{}] = 0
  <2>1. All({}) = {}
    OBVIOUS
  <2> QED BY <2>1, FS_EmptySet
<1>3. Unfolds(g, f, K)
  <2>1. \A s \in SUBSET K : g[s] = IF s = {} THEN 0 ELSE f[Pick(s)] + g[s \ {Pick(s)}]
    BY <1>1, <1>2, Zenon
  <2>2. g = [s \in SUBSET K |-> g[s]]
    BY Zenon
  <2> HIDE DEF g
  <2> QED BY <2>1, <2>2 DEF Unfolds
<1>4. g[K] = Cardinality(UNION {part[k] : k \in K})
  BY Zenon
<1> HIDE DEF g
<1> QED BY <1>3, <1>4, SumUnfolds

Window == Figures!Restated(r1)

LEMMA CountsAgree == \A S : Figures!Cardinality(S) = Cardinality(S)
<1> SUFFICES ASSUME NEW S PROVE Figures!Cardinality(S) = Cardinality(S)
  OBVIOUS
<1> QED BY Zenon DEF Figures!Cardinality, Cardinality

LEMMA RestatedIs == Rolled => Window \in SUBSET (1..r1) /\ r1 \in Window
<1> SUFFICES ASSUME Rolled PROVE Window \in SUBSET (1..r1) /\ r1 \in Window
  OBVIOUS
<1>1. r1 \in Nat \ {0}
  BY DEF Rolled
<1>2. Back \in Nat
  BY MessagesAssumption DEF MessagesAssumption
<1> QED BY <1>1, <1>2 DEF Window, Figures!Restated

\* Of the rows that say what the event families say, those of the cohorts.
LEMMA EventsSay ==
  ASSUME Figures!Says(r3, EventsNow)
  PROVE  /\ \A k \in DOMAIN Figures!CohortRows(Window) : k \in DOMAIN r3 /\ r3[k] = Figures!CohortRows(Window)[k]
         /\ DOMAIN Figures!PickupRows(Window) \subseteq DOMAIN r3
         /\ DOMAIN Figures!DeliveryRows(Window) \subseteq DOMAIN r3
<1> DEFINE later == Figures!Over(Figures!PickupRows(Window), Figures!DeliveryRows(Window))
<1>1. EventsNow = Figures!Over(Figures!CohortRows(Window), later)
  BY Zenon DEF EventsNow, Window, Figures!EventRows
<1>2. DOMAIN later = DOMAIN Figures!PickupRows(Window) \cup DOMAIN Figures!DeliveryRows(Window)
  BY Overs, Zenon
<1> HIDE DEF later
<1>3. DOMAIN EventsNow = DOMAIN Figures!CohortRows(Window) \cup DOMAIN later
  BY <1>1, Overs, Zenon
<1>4. \A k \in DOMAIN EventsNow : k \in DOMAIN r3 /\ r3[k] = EventsNow[k]
  BY Zenon DEF Figures!Says
<1>5. \A k \in DOMAIN Figures!CohortRows(Window) : EventsNow[k] = Figures!CohortRows(Window)[k]
  <2> SUFFICES ASSUME NEW k \in DOMAIN Figures!CohortRows(Window)
               PROVE  EventsNow[k] = Figures!CohortRows(Window)[k]
    OBVIOUS
  <2>1. Figures!Over(Figures!CohortRows(Window), later)[k] = Figures!CohortRows(Window)[k]
    BY DEF Figures!Over
  <2> QED BY <1>1, <2>1
<1> QED BY <1>2, <1>3, <1>4, <1>5

\* Summed up, the cohorts of the window are the parcels booked in it.
LEMMA CohortsAddUp ==
  ASSUME Rolled, Figures!Says(r3, EventsNow), NEW side \in Figures!Sides, NEW i, NEW F,
         \A h : Figures!Outcome(Figures!Cohort(h, side))[i] = Cardinality(Figures!Cohort(h, side) \cap F)
  PROVE  Figures!SumOf({"cohort"}, side, Window, i) = Cardinality(Figures!BookedIn(side, Window) \cap F)
<1> DEFINE K == Figures!KeysOf({"cohort"}, side, Window)
           f == [k \in K |-> r3[k][i]]
           part == [k \in K |-> Figures!Cohort(k.hour, side) \cap F]
<1>1. \A k \in K : k = Figures!Key("cohort", k.hour, side) /\ k.hour \in Window /\ Figures!Cohort(k.hour, side) # {}
  BY DEF Rolled, KeysStand, KeyStands, Figures!KeysOf, Figures!Key
<1>2. ASSUME NEW h \in Window, Figures!Cohort(h, side) # {}
      PROVE  /\ Figures!Key("cohort", h, side) \in K
             /\ r3[Figures!Key("cohort", h, side)] = Figures!Outcome(Figures!Cohort(h, side))
  <2>1. PICK k : k = Figures!Key("cohort", h, side)
    OBVIOUS
  <2>2. /\ k \in [kind : {"cohort"}, hour : Window, side : Figures!Sides]
        /\ k.hour = h /\ k.side = side /\ k.kind = "cohort"
    BY <2>1 DEF Figures!Key
  <2>3. /\ k \in DOMAIN Figures!CohortRows(Window)
        /\ Figures!CohortRows(Window)[k] = Figures!Outcome(Figures!Cohort(h, side))
    BY <1>2, <2>2 DEF Figures!CohortRows
  <2>4. k \in DOMAIN r3 /\ r3[k] = Figures!Outcome(Figures!Cohort(h, side))
    BY <2>3, EventsSay
  <2> QED BY <2>1, <2>2, <2>4 DEF Figures!KeysOf
<1>3. \A k \in K : f[k] = Cardinality(part[k])
  <2> SUFFICES ASSUME NEW k \in K PROVE r3[k][i] = Cardinality(Figures!Cohort(k.hour, side) \cap F)
    OBVIOUS
  <2>1. r3[k] = Figures!Outcome(Figures!Cohort(k.hour, side))
    BY <1>1, <1>2
  <2> QED BY <2>1
<1>4. IsFiniteSet(K)
  <2>1. IsFiniteSet(Window)
    <3>1. IsFiniteSet(1..r1)
      BY FS_Interval DEF Rolled
    <3> QED BY <3>1, RestatedIs, FS_Subset
  <2> DEFINE g == [h \in Window |-> Figures!Key("cohort", h, side)]
             image == {g[h] : h \in Window}
  <2>2. g \in Surjection(Window, image)
    BY DEF Surjection
  <2>3. IsFiniteSet(image)
    <3> HIDE DEF g, image
    <3> QED BY <2>1, <2>2, FS_Surjection
  <2>4. K \subseteq image
    <3> HIDE DEF K
    <3> QED BY <1>1
  <2> QED BY <2>3, <2>4, FS_Subset
<1>5. IsFiniteSet(Parcels)
  BY MessagesAssumption DEF MessagesAssumption
<1>6. \A k \in K : part[k] \in SUBSET Parcels
  BY DEF Figures!Cohort, Figures!Booked
<1>7. ASSUME NEW j \in K, NEW k \in K, j # k PROVE part[j] \cap part[k] = {}
  <2>1. j.hour # k.hour
    <3> HIDE DEF K
    <3> QED BY <1>1, <1>7
  <2> QED BY <2>1 DEF Figures!Cohort
<1>8. UNION {part[k] : k \in K} = Figures!BookedIn(side, Window) \cap F
  <2>1. ASSUME NEW k \in K PROVE part[k] \subseteq Figures!BookedIn(side, Window) \cap F
    BY <1>1 DEF Figures!BookedIn, Figures!Cohort
  <2>2. ASSUME NEW p \in Figures!BookedIn(side, Window) \cap F PROVE \E k \in K : p \in part[k]
    <3>1. r2[p].booked \in Window /\ p \in Figures!Cohort(r2[p].booked, side) \cap F
      BY DEF Figures!BookedIn, Figures!Cohort
    <3>2. PICK k \in K : k = Figures!Key("cohort", r2[p].booked, side)
      BY <1>2, <3>1
    <3>3. k.hour = r2[p].booked
      BY <3>2 DEF Figures!Key
    <3> QED BY <3>1, <3>3
  <2> QED BY <2>1, <2>2
<1>9. Figures!SumOf({"cohort"}, side, Window, i) = Figures!SumFunctionOnSet(f, K)
  <2>1. DOMAIN f = K
    OBVIOUS
  <2>2. Figures!SumOf({"cohort"}, side, Window, i) = Figures!SumFunctionOnSet(f, DOMAIN f)
    BY Zenon DEF Figures!SumOf, Figures!SumFunction
  <2> QED BY <2>1, <2>2
<1> HIDE DEF K, f, part
<1> QED BY <1>3, <1>4, <1>5, <1>6, <1>7, <1>8, <1>9, SumOfParts

\* The latest hour that has cards is the hour it is.
LEMMA CardsSay ==
  ASSUME Rolled, Figures!Says(r3, Cards), NEW kind \in {"pickup_pending", "delayed"}, NEW side \in Figures!Sides
  PROVE  Figures!Card(kind, side) =
           IF kind = "pickup_pending" THEN Cardinality(Figures!PickupPending(side))
           ELSE IF side = "test" THEN 0 ELSE Cardinality(Figures!ListDelayed(r1))
<1>1. \A what \in {"pickup_pending", "delayed"} :
        /\ Figures!Key(what, r1, side) \in DOMAIN r3
        /\ r3[Figures!Key(what, r1, side)] = Cards[Figures!Key(what, r1, side)]
  <2> SUFFICES ASSUME NEW what \in {"pickup_pending", "delayed"}
               PROVE  Figures!Key(what, r1, side) \in DOMAIN Cards
    BY Zenon DEF Figures!Says
  <2> QED BY DEF Cards, Figures!CardRows, Figures!Key
<1>2. r1 \in Figures!CardHours(side)
  <2>1. PICK k \in DOMAIN r3 : k = Figures!Key("pickup_pending", r1, side)
    BY <1>1
  <2>2. k.kind = "pickup_pending" /\ k.side = side /\ k.hour = r1
    BY <2>1 DEF Figures!Key
  <2> QED BY <2>2 DEF Figures!CardHours
<1>3. \A h \in Figures!CardHours(side) : h \in 1..r1
  BY DEF Figures!CardHours, Rolled, KeysStand, KeyStands
<1>4. Figures!Max(Figures!CardHours(side)) = r1
  <2>1. r1 \in Nat
    BY DEF Rolled
  <2>2. \A h \in Figures!CardHours(side) : r1 >= h
    BY <1>3, <2>1
  <2>3. \A x \in Figures!CardHours(side) : (\A h \in Figures!CardHours(side) : x >= h) => x = r1
    BY <1>2, <1>3, <2>1
  <2> QED BY <1>2, <2>2, <2>3 DEF Figures!Max
<1>5. Cards[Figures!Key(kind, r1, side)] =
        <<IF kind = "pickup_pending" THEN Figures!Cardinality(Figures!PickupPending(side))
          ELSE IF side = "test" THEN 0 ELSE Figures!Cardinality(Figures!ListDelayed(r1))>>
  <2>1. PICK k : k = Figures!Key(kind, r1, side)
    OBVIOUS
  <2>2. /\ k \in [kind : {"pickup_pending", "delayed"}, hour : {r1}, side : Figures!Sides]
        /\ k.hour = r1 /\ k.side = side /\ k.kind = kind
    BY <2>1 DEF Figures!Key
  <2>3. Cards[k] = <<IF k.kind = "pickup_pending" THEN Figures!Cardinality(Figures!PickupPending(k.side))
                     ELSE IF k.side = "test" THEN 0 ELSE Figures!Cardinality(Figures!ListDelayed(r1))>>
    BY <2>2 DEF Cards, Figures!CardRows
  <2> QED BY <2>1, <2>2, <2>3
<1> QED BY <1>1, <1>4, <1>5, CountsAgree DEF Figures!Card

LEMMA RollupStands == Rolled => Figures!FiguresStand
<1> SUFFICES ASSUME Rolled, r5 = "yes", NEW side \in Figures!Sides
             PROVE  /\ Figures!Card("pickup_pending", side) = Figures!Cardinality(Figures!PickupPending(side))
                    /\ Figures!Card("delayed", side) = (IF side = "test" THEN 0 ELSE Figures!Cardinality(Figures!ListDelayed(r1)))
                    /\ Figures!Performance(side, Window) =
                         [booked |-> Figures!Cardinality(Figures!BookedIn(side, Window)),
                          delivered |-> Figures!Of(side, Window, "DELIVERED"), open |-> Figures!Of(side, Window, "OPEN")]
                    /\ \A p \in Figures!Booked : Figures!Side(p) = side =>
                         /\ Figures!First(r2[p].picked) \in Window =>
                              Figures!Key("pickup", Figures!First(r2[p].picked), side) \in DOMAIN r3
                         /\ Figures!First(r2[p].delivered) \in Window =>
                              Figures!Key("delivery", Figures!First(r2[p].delivered), side) \in DOMAIN r3
  BY Zenon DEF Figures!FiguresStand, Window
<1>1. Figures!Says(r3, Cards) /\ Figures!Says(r3, EventsNow)
  BY Zenon DEF Rolled, KnownStands
<1>2. Figures!Card("pickup_pending", side) = Cardinality(Figures!PickupPending(side))
  BY <1>1, CardsSay
<1>3. Figures!Card("delayed", side) = (IF side = "test" THEN 0 ELSE Cardinality(Figures!ListDelayed(r1)))
  BY <1>1, CardsSay
<1>4. Figures!SumOf({"cohort"}, side, Window, 1) = Cardinality(Figures!BookedIn(side, Window))
  <2>1. \A h : Figures!Outcome(Figures!Cohort(h, side))[1] = Cardinality(Figures!Cohort(h, side) \cap Parcels)
    <3> SUFFICES ASSUME NEW h
                 PROVE  Figures!Outcome(Figures!Cohort(h, side))[1] = Cardinality(Figures!Cohort(h, side) \cap Parcels)
      OBVIOUS
    <3>1. Figures!Cohort(h, side) \cap Parcels = Figures!Cohort(h, side)
      BY DEF Figures!Cohort, Figures!Booked
    <3> QED BY <3>1, CountsAgree DEF Figures!Outcome
  <2>2. Figures!BookedIn(side, Window) \cap Parcels = Figures!BookedIn(side, Window)
    BY DEF Figures!BookedIn, Figures!Booked
  <2> QED BY <1>1, <2>1, <2>2, CohortsAddUp
<1>5. ASSUME NEW state, NEW i, <<state, i>> \in {<<"DELIVERED", 2>>, <<"OPEN", 4>>}
      PROVE  Figures!SumOf({"cohort"}, side, Window, i) = Figures!Of(side, Window, state)
  <2> DEFINE F == {p \in Parcels : r2[p].state = state}
  <2>1. \A h : Figures!Outcome(Figures!Cohort(h, side))[i] = Cardinality(Figures!Cohort(h, side) \cap F)
    <3> SUFFICES ASSUME NEW h
                 PROVE  Figures!Outcome(Figures!Cohort(h, side))[i] = Cardinality(Figures!Cohort(h, side) \cap F)
      OBVIOUS
    <3>1. Figures!Cohort(h, side) \cap F = {p \in Figures!Cohort(h, side) : r2[p].state = state}
      BY DEF Figures!Cohort, Figures!Booked
    <3>2. Figures!Outcome(Figures!Cohort(h, side))[i] =
            Figures!Cardinality({p \in Figures!Cohort(h, side) : r2[p].state = state})
      <4>1. CASE state = "DELIVERED" /\ i = 2
        BY <4>1 DEF Figures!Outcome
      <4>2. CASE state = "OPEN" /\ i = 4
        BY <4>2 DEF Figures!Outcome
      <4> QED BY <1>5, <4>1, <4>2
    <3> QED BY <3>1, <3>2, CountsAgree
  <2>2. Figures!BookedIn(side, Window) \cap F = {p \in Figures!BookedIn(side, Window) : r2[p].state = state}
    BY DEF Figures!BookedIn, Figures!Booked
  <2>3. Figures!Of(side, Window, state) = Cardinality({p \in Figures!BookedIn(side, Window) : r2[p].state = state})
    BY CountsAgree, Zenon DEF Figures!Of
  <2> HIDE DEF F
  <2> QED BY <1>1, <2>1, <2>2, <2>3, CohortsAddUp
<1>6. ASSUME NEW p \in Figures!Booked, Figures!Side(p) = side, Figures!First(r2[p].picked) \in Window
      PROVE  Figures!Key("pickup", Figures!First(r2[p].picked), side) \in DOMAIN r3
  <2>1. PICK k : k = Figures!Key("pickup", Figures!First(r2[p].picked), side)
    OBVIOUS
  <2>2. /\ k \in [kind : {"pickup"}, hour : Window, side : Figures!Sides]
        /\ k.hour = Figures!First(r2[p].picked) /\ k.side = side
    BY <1>6, <2>1 DEF Figures!Key
  <2>3. k \in DOMAIN Figures!PickupRows(Window)
    BY <1>6, <2>2 DEF Figures!PickupRows, Figures!Groups
  <2> QED BY <1>1, <2>1, <2>3, EventsSay
<1>7. ASSUME NEW p \in Figures!Booked, Figures!Side(p) = side, Figures!First(r2[p].delivered) \in Window
      PROVE  Figures!Key("delivery", Figures!First(r2[p].delivered), side) \in DOMAIN r3
  <2> DEFINE D == r2[p].delivered
             h == Figures!First(D)
  <2>1. D \in SUBSET (1..r1) /\ r1 \in Nat /\ Window \in SUBSET (1..r1)
    BY RestatedIs DEF Rolled, ParcelRow, Figures!Booked
  <2>2. D # {} /\ h \in D /\ \A x \in D : h <= x
    <3>1. D # {}
      BY <1>7, <2>1 DEF Figures!First
    <3>2. h = CHOOSE x \in D : \A y \in D : x <= y
      BY <3>1 DEF Figures!First, Figures!Min
    <3>3. D \in SUBSET Nat
      BY <2>1
    <3>4. \E x \in D : \A y \in D : x <= y
      BY <3>1, <3>3, HasLeast
    <3> QED BY <3>1, <3>2, <3>4
  <2>3. Figures!First(D \cap Window) = h
    <3>1. h \in D \cap Window /\ \A x \in D \cap Window : h <= x
      BY <1>7, <2>2
    <3>2. \A y \in D \cap Window : (\A x \in D \cap Window : y <= x) => y = h
      BY <2>1, <2>2, <3>1
    <3>3. Figures!Min(D \cap Window) = h
      BY <3>1, <3>2 DEF Figures!Min
    <3> QED BY <3>1, <3>3 DEF Figures!First
  <2>4. PICK k : k = Figures!Key("delivery", h, side)
    OBVIOUS
  <2>5. k \in [kind : {"delivery"}, hour : Window, side : Figures!Sides] /\ k.hour = h /\ k.side = side
    BY <1>7, <2>4 DEF Figures!Key
  <2>6. k \in DOMAIN Figures!DeliveryRows(Window)
    <3> DEFINE found == {<<q, Figures!First(r2[q].delivered \cap Window)>> : q \in Figures!Booked}
    <3>1. <<p, k.hour>> \in found
      BY <1>7, <2>3, <2>5
    <3>2. Figures!DeliveryRows(Window) = Figures!Groups("delivery", Window, found)
      BY Zenon DEF Figures!DeliveryRows
    <3> HIDE DEF found, h
    <3>3. p \in {q \in Figures!Booked : Figures!Side(q) = k.side /\ <<q, k.hour>> \in found}
      BY <1>7, <2>5, <3>1
    <3>4. k \in DOMAIN Figures!Groups("delivery", Window, found)
      BY <2>5, <3>3 DEF Figures!Groups
    <3> QED BY <3>2, <3>4
  <2> QED BY <1>1, <2>4, <2>6, EventsSay
<1>8. /\ Figures!SumOf({"cohort"}, side, Window, 2) = Figures!Of(side, Window, "DELIVERED")
      /\ Figures!SumOf({"cohort"}, side, Window, 4) = Figures!Of(side, Window, "OPEN")
  BY <1>5
<1>9. Figures!Performance(side, Window) =
        [booked |-> Figures!Cardinality(Figures!BookedIn(side, Window)),
         delivered |-> Figures!Of(side, Window, "DELIVERED"), open |-> Figures!Of(side, Window, "OPEN")]
  BY <1>4, <1>8, CountsAgree DEF Figures!Performance
<1> QED BY <1>2, <1>3, <1>6, <1>7, <1>9, CountsAgree

----------------------------------------------------------------------------

\* notification.service.ts, ticket.service.ts, cod-confirmation, buyer links, the
\* track page's look-up and rollup.service.ts: for any members, shops, buyers,
\* parcels, requests and budgets: an alert once in a cycle and nothing to an
\* address known to bounce; a warning reached those who had the plan, once for each
\* time it was published; a ticket's stamps say where it stands; a confirmation is
\* settled once and books once; a link that died is answered no more; guesses at a
\* parcel are bounded; and the figures of a sweep nothing moved under are those of
\* the parcels.
THEOREM MessagesAreSound == Spec => []MessagesStand
<1> DEFINE I == /\ focus = "notices" => Notice!NoticesInv
                /\ focus = "posts" => Post!PostsInv
                /\ focus = "tickets" => Queries
                /\ focus = "confirm" => Confirm!ConfirmInv
                /\ focus = "links" => Buyer!LinksInv
                /\ focus = "lookup" => Lookup!LookupInv
                /\ focus = "rollup" => Rolled
<1>1. Init => I
  BY NoticesInitially, PostsInitially, HelpInitially, ConfirmInitially, LinksInitially, LookupInitially, RollupInitially,
     MessagesAssumption, Zenon DEF Init
<1>2. I /\ [Next]_vars => I'
  <2> SUFFICES ASSUME I, [Next]_vars PROVE I'
    OBVIOUS
  <2>1. UNCHANGED focus
    BY DEF Next, vars
  <2>2. CASE focus = "notices"
    <3>1. [Notice!Next]_<<r1, r2, r3, r4, r5, r6>>
      BY <2>2 DEF Next, vars
    <3> QED BY <2>1, <2>2, <3>1, NoticesKept
  <2>3. CASE focus = "posts"
    <3>1. [Post!Next]_<<r1, r2, r3, r4, r5>>
      BY <2>3 DEF Next, vars
    <3>2. IsFiniteSet(Workers)
      BY MessagesAssumption DEF MessagesAssumption
    <3> QED BY <2>1, <2>3, <3>1, <3>2, PostsKept
  <2>4. CASE focus = "tickets"
    <3>1. [Ticket!Next]_<<r1, r2, r3>>
      BY <2>4 DEF Next, vars
    <3> QED BY <2>1, <2>4, <3>1, HelpKept
  <2>5. CASE focus = "confirm"
    <3>1. [Confirm!Next]_<<r1, r2, r3, r4, r5, r6>>
      BY <2>5 DEF Next, vars
    <3> QED BY <2>1, <2>5, <3>1, ConfirmKept
  <2>6. CASE focus = "links"
    <3>1. [Buyer!Next]_<<r1, r2, r3, r4, r5, r6, r7, r8, r9>>
      BY <2>6 DEF Next, vars
    <3> QED BY <2>1, <2>6, <3>1, LinksKept
  <2>7. CASE focus = "lookup"
    <3>1. [Lookup!Next]_<<r1, r2, r3, r4, r5, r6, r7, r8>>
      BY <2>7 DEF Next, vars
    <3> QED BY <2>1, <2>7, <3>1, LookupKept, MessagesAssumption
  <2>8. CASE focus = "rollup"
    <3>1. [Figures!Next]_<<r1, r2, r3, r4, r5, r6>>
      BY <2>8 DEF Next, vars
    <3> QED BY <2>1, <2>8, <3>1, RollupKept
  <2> QED BY <2>1, <2>2, <2>3, <2>4, <2>5, <2>6, <2>7, <2>8
<1>3. I => MessagesStand
  <2>1. Notice!NoticesInv => Notice!NoticesStand
    BY DEF Notice!NoticesInv
  <2>2. Post!PostsInv => Post!WarningsStand
    BY DEF Post!PostsInv
  <2>3. Queries => Ticket!TicketsStand
    BY HelpHas DEF Ticket!HelpInv
  <2>4. Confirm!ConfirmInv => Confirm!ConfirmationsStand
    BY DEF Confirm!ConfirmInv
  <2>5. Lookup!LookupInv => Lookup!GuessesAreBounded
    BY LookupInvStands, MessagesAssumption
  <2> QED BY <2>1, <2>2, <2>3, <2>4, <2>5, LinksInvStands, RollupStands DEF MessagesStand
<1> QED BY <1>1, <1>2, <1>3, PTL DEF Spec

=============================================================================
