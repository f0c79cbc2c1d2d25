-------------------------------- MODULE Access --------------------------------
(***************************************************************************)
(* Who may enter a shop: the Shopify install and the entry token, members  *)
(* and their roles, access requests, the Owner, and the sessions, each a   *)
(* database row and a Redis copy.  A request is a process whose statements *)
(* interleave with those of the others.                                    *)
(***************************************************************************)
EXTENDS Integers, FiniteSets

CONSTANTS
  Staff,          \* Shopify staff users of the shop
  Natives,        \* native members (e-mail and password)
  Requests,       \* requests served at once
  Sessions,       \* session rows
  MaxInstalls     \* bound on install callbacks

VARIABLES
  shop,       \* its account_state and the installs so far
  member,     \* the shop_member rows
  access,     \* the staff users with a PENDING access_request
  tokens,     \* staff users holding an unspent entry token
  session,    \* the member_session rows; reads is the member row the login had read
  cache,      \* the sessions Redis holds, with the role it answers
  req         \* per request: what it has read and still has to do

accessVars == <<shop, member, access, tokens, session, cache, req>>

----------------------------------------------------------------------------

People == Staff \cup Natives
NoMember == [role |-> "NONE", live |-> FALSE]
NoSession == [of |-> "none", live |-> FALSE, fresh |-> TRUE]
Free == [pc |-> "free", who |-> "none", read |-> NoMember, sid |-> 0, targets |-> {}]

ActiveOwners == {u \in People : member[u].role = "OWNER" /\ member[u].live}
Grantable == {"OPERATOR"}   \* any role but OWNER

Init ==
  /\ shop = [state |-> "NONE", installs |-> 0]
  /\ member = [u \in People |-> NoMember]
  /\ access = {}
  /\ tokens = {}
  /\ session = [s \in Sessions |-> NoSession]
  /\ cache = [s \in Sessions |-> "none"]
  /\ req = [r \in Requests |-> Free]

Begin(r, pc, who, read) ==
  req' = [req EXCEPT ![r] = [Free EXCEPT !.pc = pc, !.who = who, !.read = read]]
End(r) == req' = [req EXCEPT ![r] = Free]

\* The handlers that end with sessions.invalidateMember: the rows first, then
\* the Redis keys of the rows it returned.
Invalidate(r, people) == req' = [req EXCEPT ![r] = [Free EXCEPT !.pc = "rows", !.targets = people]]

----------------------------------------------------------------------------
(* Install.                                                                *)

\* handleCallback once the nonce is spent and the code exchanged: a shop that
\* is not INR is refused, one that was uninstalled starts again as TRIALING.
UpsertShop(r, u) ==
  /\ req[r] = Free /\ shop.installs < MaxInstalls
  /\ shop' = [state |-> "TRIALING", installs |-> shop.installs + 1]
  /\ Begin(r, "staff", u, NoMember)
  /\ UNCHANGED <<member, access, tokens, session, cache>>

\* upsertStaffMember counts the members, then inserts the first as Owner; the
\* unique indexes refuse a second row of the user and a second Owner.
CountMembers(r) ==
  /\ req[r].pc = "staff"
  /\ IF \A u \in People : member[u] = NoMember
     THEN req' = [req EXCEPT ![r].pc = "first"] /\ UNCHANGED tokens
     ELSE End(r) /\ tokens' = tokens \cup {req[r].who}
  /\ UNCHANGED <<shop, member, access, session, cache>>

InsertOwner(r) ==
  /\ req[r].pc = "first"
  /\ IF member[req[r].who] # NoMember \/ ActiveOwners # {}
     THEN UNCHANGED <<member, tokens>>
     ELSE /\ member' = [member EXCEPT ![req[r].who] = [role |-> "OWNER", live |-> TRUE]]
          /\ tokens' = tokens \cup {req[r].who}
  /\ End(r)
  /\ UNCHANGED <<shop, access, session, cache>>

\* app/uninstalled: the state, then every session of the shop.
Uninstall(r) ==
  /\ req[r] = Free /\ shop.state = "TRIALING"
  /\ shop' = [shop EXCEPT !.state = "UNINSTALLED"]
  /\ Invalidate(r, People)
  /\ UNCHANGED <<member, access, tokens, session, cache>>

----------------------------------------------------------------------------
(* Sessions.                                                               *)

\* exchange: the token is spent; then shop, member and, unless it is cached or
\* Shopify does not answer, whether Shopify still knows the staff user.
Exchange(r, u) ==
  /\ req[r] = Free /\ u \in tokens
  /\ tokens' = tokens \ {u}
  /\ IF shop.state = "UNINSTALLED" \/ ~member[u].live THEN UNCHANGED <<req, member>>
     ELSE \/ Begin(r, "create", u, member[u]) /\ UNCHANGED member
          \/ member' = [member EXCEPT ![u].live = FALSE] /\ Invalidate(r, {u})
  /\ UNCHANGED <<shop, access, session, cache>>

\* login and consumeMagicLink read the member row, then create the session.
NativeLogin(r, n) ==
  /\ req[r] = Free /\ member[n].live
  /\ Begin(r, "create", n, member[n])
  /\ UNCHANGED <<shop, member, access, tokens, session, cache>>

\* consumePasswordReset ends with every session of the member.
PasswordReset(r, n) ==
  /\ req[r] = Free /\ member[n].live
  /\ Invalidate(r, {n})
  /\ UNCHANGED <<shop, member, access, tokens, session, cache>>

\* create: the row, then the Redis copy with the role the login had read.
\* fresh: the row read still stood when the session was made.
CreateSession(r) ==
  /\ req[r].pc = "create"
  /\ \E s \in Sessions :
       /\ session[s] = NoSession /\ \A t \in Sessions : t < s => session[t] # NoSession
       /\ session' = [session EXCEPT ![s] =
            [of |-> req[r].who, live |-> TRUE,
             fresh |-> member[req[r].who] = req[r].read /\ shop.state # "UNINSTALLED"]]
       /\ req' = [req EXCEPT ![r].pc = "cache", ![r].sid = s]
  /\ UNCHANGED <<shop, member, access, tokens, cache>>

CacheSession(r) ==
  /\ req[r].pc = "cache"
  /\ cache' = [cache EXCEPT ![req[r].sid] = req[r].read.role]
  /\ End(r)
  /\ UNCHANGED <<shop, member, access, tokens, session>>

\* resolve: Redis first; on a miss the rows, and then Redis is filled again.
Valid(s) == session[s].live /\ member[session[s].of].live
Resolve(r, s) ==
  /\ req[r] = Free /\ cache[s] = "none" /\ session[s] # NoSession /\ Valid(s)
  /\ req' = [req EXCEPT ![r] = [Free EXCEPT !.pc = "cache", !.sid = s, !.read = member[session[s].of]]]
  /\ UNCHANGED <<shop, member, access, tokens, session, cache>>

\* A Redis copy expires with the inactivity of its session.
Expire(s) ==
  /\ cache[s] # "none"
  /\ cache' = [cache EXCEPT ![s] = "none"]
  /\ UNCHANGED <<shop, member, access, tokens, session, req>>

InvalidateRows(r) ==
  /\ req[r].pc = "rows"
  /\ LET hit == {s \in Sessions : session[s].live /\ session[s].of \in req[r].targets}
     IN /\ session' = [s \in Sessions |-> IF s \in hit THEN [session[s] EXCEPT !.live = FALSE] ELSE session[s]]
        /\ req' = [req EXCEPT ![r] = IF hit = {} THEN Free ELSE [Free EXCEPT !.pc = "evict", !.targets = hit]]
  /\ UNCHANGED <<shop, member, access, tokens, cache>>

Evict(r) ==
  /\ req[r].pc = "evict"
  /\ cache' = [s \in Sessions |-> IF s \in req[r].targets THEN "none" ELSE cache[s]]
  /\ End(r)
  /\ UNCHANGED <<shop, member, access, tokens, session>>

Logout(r, s) ==
  /\ req[r] = Free /\ session[s].live
  /\ session' = [session EXCEPT ![s].live = FALSE]
  /\ req' = [req EXCEPT ![r] = [Free EXCEPT !.pc = "evict", !.targets = {s}]]
  /\ UNCHANGED <<shop, member, access, tokens, cache>>

----------------------------------------------------------------------------
(* Roles.  The version of the request's page is checked by the UPDATE, so  *)
(* that a handler acts on the row it was shown or not at all.              *)

GrantRole(u, role) ==
  /\ ActiveOwners # {} /\ ~member[u].live
  /\ member' = [member EXCEPT ![u] = [role |-> role, live |-> TRUE]]
  /\ UNCHANGED <<shop, access, tokens, session, cache, req>>

\* An accepted native invite makes a member, never an Owner.
JoinNative(n, role) ==
  /\ ActiveOwners # {} /\ member[n] = NoMember
  /\ member' = [member EXCEPT ![n] = [role |-> role, live |-> TRUE]]
  /\ UNCHANGED <<shop, access, tokens, session, cache, req>>

ChangeRole(r, u, role) ==
  /\ req[r] = Free /\ member[u].live /\ member[u].role # "OWNER" /\ member[u].role # role
  /\ member' = [member EXCEPT ![u].role = role]
  /\ Invalidate(r, {u})
  /\ UNCHANGED <<shop, access, tokens, session, cache>>

RevokeMember(r, u) ==
  /\ req[r] = Free /\ member[u].live /\ member[u].role # "OWNER"
  /\ member' = [member EXCEPT ![u].live = FALSE]
  /\ Invalidate(r, {u})
  /\ UNCHANGED <<shop, access, tokens, session, cache>>

\* Only a staff member may become Owner (OVR-1); one transaction under locks.
MayOwn(u) == u \in Staff
TransferOwnership(r, owner, u, role) ==
  /\ req[r] = Free /\ owner \in ActiveOwners /\ u # owner /\ member[u].live /\ MayOwn(u)
  /\ member' = [member EXCEPT ![owner].role = role, ![u].role = "OWNER"]
  /\ Invalidate(r, {owner, u})
  /\ UNCHANGED <<shop, access, tokens, session, cache>>

\* The old Owner is revoked and the claimant made Owner, member or not.
DeposedBug(u) == member[u]
Deposed(u) == [member[u] EXCEPT !.live = FALSE]
ClaimOwnership(r, u) ==
  /\ req[r] = Free /\ shop.state # "NONE" /\ u \notin ActiveOwners
  /\ member' = [v \in People |-> IF v = u THEN [role |-> "OWNER", live |-> TRUE]
                                 ELSE IF v \in ActiveOwners THEN Deposed(v) ELSE member[v]]
  /\ Invalidate(r, ActiveOwners \cup {u})
  /\ UNCHANGED <<shop, access, tokens, session, cache>>

----------------------------------------------------------------------------
(* Access requests: at most one pending per staff user.                    *)

RequestAccess(u) ==
  /\ shop.state # "NONE" /\ ~member[u].live /\ u \notin access
  /\ access' = access \cup {u}
  /\ UNCHANGED <<shop, member, tokens, session, cache, req>>

\* Granting resolves the request and makes the member in one transaction,
\* which fails when the user has become an active member in between.
GrantAccess(u, role) ==
  /\ u \in access /\ ~member[u].live /\ ActiveOwners # {}
  /\ access' = access \ {u}
  /\ member' = [member EXCEPT ![u] = [role |-> role, live |-> TRUE]]
  /\ UNCHANGED <<shop, tokens, session, cache, req>>

\* Denied by the Owner or withdrawn by the requester.
ResolveRequest(u) ==
  /\ u \in access
  /\ access' = access \ {u}
  /\ UNCHANGED <<shop, member, tokens, session, cache, req>>

----------------------------------------------------------------------------

Next ==
  \/ \E r \in Requests :
       \/ CountMembers(r) \/ InsertOwner(r) \/ Uninstall(r)
       \/ CreateSession(r) \/ CacheSession(r) \/ InvalidateRows(r) \/ Evict(r)
       \/ \E s \in Sessions : Resolve(r, s) \/ Logout(r, s)
       \/ \E u \in Staff : UpsertShop(r, u) \/ Exchange(r, u) \/ ClaimOwnership(r, u)
       \/ \E n \in Natives : NativeLogin(r, n) \/ PasswordReset(r, n)
       \/ \E u \in People : RevokeMember(r, u) \/ \E role \in Grantable : ChangeRole(r, u, role)
       \/ \E owner, u \in People, role \in Grantable : TransferOwnership(r, owner, u, role)
  \/ \E s \in Sessions : Expire(s)
  \/ \E u \in Staff : RequestAccess(u) \/ ResolveRequest(u)
                      \/ \E role \in Grantable : GrantRole(u, role) \/ GrantAccess(u, role)
  \/ \E n \in Natives, role \in Grantable : JoinNative(n, role)

Spec == Init /\ [][Next]_accessVars

----------------------------------------------------------------------------

TypeOK ==
  /\ shop.state \in {"NONE", "TRIALING", "UNINSTALLED"}
  /\ \A u \in People : member[u].role \in Grantable \cup {"OWNER", "NONE"}
  /\ tokens \subseteq Staff /\ access \subseteq Staff

\* A shop never has two active Owners, and the Owner is a staff user of Shopify:
\* not by two first members at install, a transfer, or a claim (§9.1.2, OVR-1).
OneStaffOwner == Cardinality(ActiveOwners) <= 1 /\ ActiveOwners \subseteq Staff

\* Once the requests in progress have ended, no session row that was made from a
\* member row that still stood is live for a revoked member or an uninstalled
\* shop: every handler that takes access away reaches the rows (RW-04).
Quiet == \A r \in Requests : req[r].pc \notin {"rows", "evict"}
AccessTakenAway ==
  Quiet => \A s \in Sessions :
             session[s].live /\ session[s].fresh => member[session[s].of].live /\ shop.state # "UNINSTALLED"

----------------------------------------------------------------------------

MemberRow == [role : Grantable \cup {"OWNER", "NONE"}, live : BOOLEAN]
SessionRow == [of : People \cup {"none"}, live : BOOLEAN, fresh : BOOLEAN]
\* A first member is a staff user; a login goes on for a member that was active.
HandStands(h) ==
  /\ h \in [pc : {"free", "staff", "first", "create", "cache", "rows", "evict"},
             who : People \cup {"none"}, read : MemberRow, sid : Sessions \cup {0},
             targets : {h.targets}]
  /\ h.pc \in {"staff", "first"} => h.who \in Staff
  /\ h.pc = "create" => h.who \in People /\ h.read.live
  /\ h.pc = "cache" => h.sid \in Sessions
\* What a fresh session loses, a request still has to take from it.
Doomed(s) == \E r \in Requests : req[r].pc = "rows" /\ session[s].of \in req[r].targets
SessionStands(s) ==
  session[s].live /\ session[s].fresh =>
    (member[session[s].of].live /\ shop.state # "UNINSTALLED") \/ Doomed(s)

\* The inductive invariant.
AccessInv ==
  /\ shop \in [state : {"NONE", "TRIALING", "UNINSTALLED"}, installs : {shop.installs}]
  /\ member \in [People -> MemberRow]
  /\ session \in [Sessions -> SessionRow] /\ \A s \in Sessions : session[s].live => session[s].of \in People
  /\ tokens \subseteq Staff
  /\ req = [r \in Requests |-> req[r]] /\ \A r \in Requests : HandStands(req[r])
  /\ ActiveOwners \subseteq Staff /\ \A u, v \in ActiveOwners : u = v
  /\ \A s \in Sessions : SessionStands(s)

\* No session outlives the access of its member (spec.md:784, INV-1).
RevokedHasNoSession ==
  (\A r \in Requests : req[r] = Free) =>
    \A s \in Sessions : cache[s] # "none" => member[session[s].of].live
=============================================================================
