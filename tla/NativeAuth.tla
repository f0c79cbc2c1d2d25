------------------------------ MODULE NativeAuth ------------------------------
(***************************************************************************)
(* One native member of a shop (OVR-1): the invites sent to an e-mail, the *)
(* credential with its password, TOTP secret, lockout and reset token, and *)
(* the magic links.  Handlers that read, compute (argon2, TOTP) and then   *)
(* write are two steps; the rest are single statements.                    *)
(***************************************************************************)
EXTENDS Integers, FiniteSets

CONSTANTS
  Calls,           \* requests served at once
  Invites, Links,  \* invite and magic-link tokens
  LockThreshold,   \* LOCK_THRESHOLD
  MaxSecrets, MaxResets, MaxFailures  \* bounds on enrolments, reset tokens and failures counted

VARIABLES
  invite,   \* per token: NONE, LIVE, REVOKED, ACCEPTED
  joined,   \* the invites a member row was made from
  cred,     \* the member_credential row, and the secrets a code was verified against
  link,     \* per magic link: NONE, ISSUED, USED; and the sessions made of it
  call,     \* per request: what it has read
  failures  \* wrong passwords since the count was last reset

authVars == <<invite, joined, cred, link, call, failures>>

----------------------------------------------------------------------------

Waiting == [pc |-> "idle", token |-> 0]
Secrets == 1..MaxSecrets
Member == joined # {}

Init ==
  /\ invite = [i \in Invites |-> "NONE"]
  /\ joined = {}
  /\ cred = [secret |-> 0, confirmed |-> FALSE, verified |-> {}, failed |-> 0, locked |-> FALSE,
             reset |-> 0, resets |-> 0]
  /\ link = [l \in Links |-> [state |-> "NONE", sessions |-> 0]]
  /\ call = [c \in Calls |-> Waiting]
  /\ failures = 0

Start(c, pc, token) == call' = [call EXCEPT ![c] = [pc |-> pc, token |-> token]]
Finish(c) == call' = [call EXCEPT ![c] = Waiting]

----------------------------------------------------------------------------
(* Invites.                                                                *)

CreateInvite(i) ==
  /\ invite[i] = "NONE" /\ invite' = [invite EXCEPT ![i] = "LIVE"]
  /\ UNCHANGED <<joined, cred, link, call, failures>>

RevokeInvite(i) ==
  /\ invite[i] = "LIVE" /\ invite' = [invite EXCEPT ![i] = "REVOKED"]
  /\ UNCHANGED <<joined, cred, link, call, failures>>

\* resendInvite reads a live invite, then in one transaction revokes it,
\* whatever it has become, and inserts another with the same e-mail.
ReadForResend(c, i) ==
  /\ call[c] = Waiting /\ invite[i] = "LIVE"
  /\ Start(c, "resend", i)
  /\ UNCHANGED <<invite, joined, cred, link, failures>>

ResendInvite(c) ==
  /\ call[c].pc = "resend"
  /\ \E j \in Invites : invite[j] = "NONE"
                        /\ invite' = [invite EXCEPT ![call[c].token] = "REVOKED", ![j] = "LIVE"]
  /\ Finish(c)
  /\ UNCHANGED <<joined, cred, link, failures>>

\* acceptInvite reads the invite, hashes the password, then in one transaction
\* inserts the member, its credential, and marks the invite if it is still
\* live.  A second member row with the e-mail is refused by the unique index.
ReadInvite(c, i) ==
  /\ call[c] = Waiting /\ invite[i] = "LIVE"
  /\ Start(c, "accept", i)
  /\ UNCHANGED <<invite, joined, cred, link, failures>>

EmailFree == ~Member
AcceptInvite(c) ==
  /\ call[c].pc = "accept"
  /\ IF EmailFree
     THEN /\ joined' = joined \cup {call[c].token}
          /\ invite' = [invite EXCEPT ![call[c].token] = IF @ = "LIVE" THEN "ACCEPTED" ELSE @]
     ELSE UNCHANGED <<joined, invite>>
  /\ Finish(c)
  /\ UNCHANGED <<cred, link, failures>>

----------------------------------------------------------------------------
(* TOTP.                                                                   *)

\* A new secret replaces the old and is unconfirmed.
EnrollTotp ==
  /\ Member /\ cred.secret < MaxSecrets
  /\ cred' = [cred EXCEPT !.secret = @ + 1, !.confirmed = FALSE]
  /\ UNCHANGED <<invite, joined, link, call, failures>>

\* confirmTotp reads the secret and verifies the code against it; the UPDATE
\* that confirms names the member only.
VerifyCode(c) ==
  /\ call[c] = Waiting /\ cred.secret > 0
  /\ cred' = [cred EXCEPT !.verified = @ \cup {cred.secret}]
  /\ Start(c, "confirm", cred.secret)
  /\ UNCHANGED <<invite, joined, link, failures>>

ConfirmTotp(c) ==
  /\ call[c].pc = "confirm"
  /\ cred' = [cred EXCEPT !.confirmed = TRUE]
  /\ Finish(c)
  /\ UNCHANGED <<invite, joined, link, failures>>

----------------------------------------------------------------------------
(* Password login.                                                         *)

\* Read the row and, unless it is locked, verify the password.
ReadCredential(c) ==
  /\ call[c] = Waiting /\ Member /\ ~cred.locked
  /\ \/ Start(c, "wrong", 0)
     \/ cred.confirmed /\ Start(c, "right", 0)   \* unconfirmed TOTP, or a wrong code, ends here
  /\ UNCHANGED <<invite, joined, cred, link, failures>>

\* failed_attempts = failed_attempts + 1, and the lock with the threshold's.
CountFailure(failed, c) == failed + 1
RecordFailure(c) ==
  /\ call[c].pc = "wrong" /\ failures < MaxFailures
  /\ LET n == CountFailure(cred.failed, c)
     IN cred' = [cred EXCEPT !.failed = n, !.locked = @ \/ n >= LockThreshold]
  /\ failures' = failures + 1
  /\ Finish(c)
  /\ UNCHANGED <<invite, joined, link>>

LoginSucceeds(c) ==
  /\ call[c].pc = "right"
  /\ cred' = [cred EXCEPT !.failed = 0, !.locked = FALSE]
  /\ failures' = 0
  /\ Finish(c)
  /\ UNCHANGED <<invite, joined, link>>

\* LOCK_MINUTES go by; the count stays.
LockExpires ==
  /\ cred.locked /\ cred' = [cred EXCEPT !.locked = FALSE]
  /\ UNCHANGED <<invite, joined, link, call, failures>>

----------------------------------------------------------------------------
(* Magic link and password reset.                                          *)

RequestMagicLink(l) ==
  /\ Member /\ link[l].state = "NONE"
  /\ link' = [link EXCEPT ![l].state = "ISSUED"]
  /\ UNCHANGED <<invite, joined, cred, call, failures>>

\* One UPDATE ... WHERE used_at IS NULL claims the token; the session follows.
Claim(l) == IF link[l].state = "ISSUED" THEN "USED" ELSE "REFUSED"
ConsumeMagicLink(c, l) ==
  /\ call[c] = Waiting /\ link[l].state # "NONE" /\ Claim(l) # "REFUSED"
  /\ link' = [link EXCEPT ![l].state = Claim(l)]
  /\ Start(c, "session", l)
  /\ UNCHANGED <<invite, joined, cred, failures>>

MakeSession(c) ==
  /\ call[c].pc = "session"
  /\ link' = [link EXCEPT ![call[c].token].sessions = @ + 1]
  /\ Finish(c)
  /\ UNCHANGED <<invite, joined, cred, failures>>

RequestPasswordReset ==
  /\ Member /\ cred.resets < MaxResets
  /\ cred' = [cred EXCEPT !.resets = @ + 1, !.reset = cred.resets + 1]
  /\ UNCHANGED <<invite, joined, link, call, failures>>

ReadResetToken(c) ==
  /\ call[c] = Waiting /\ cred.reset > 0
  /\ Start(c, "reset", cred.reset)
  /\ UNCHANGED <<invite, joined, cred, link, failures>>

\* The UPDATE names the member, clears whatever token is there, and unlocks.
ConsumePasswordReset(c) ==
  /\ call[c].pc = "reset"
  /\ cred' = [cred EXCEPT !.reset = 0, !.failed = 0, !.locked = FALSE]
  /\ failures' = 0
  /\ Finish(c)
  /\ UNCHANGED <<invite, joined, link>>

----------------------------------------------------------------------------

Next ==
  \/ \E i \in Invites : CreateInvite(i) \/ RevokeInvite(i)
  \/ EnrollTotp \/ LockExpires \/ RequestPasswordReset
  \/ \E l \in Links : RequestMagicLink(l)
  \/ \E c \in Calls :
       \/ \E i \in Invites : ReadForResend(c, i) \/ ReadInvite(c, i)
       \/ ResendInvite(c) \/ AcceptInvite(c) \/ VerifyCode(c) \/ ConfirmTotp(c)
       \/ ReadCredential(c) \/ RecordFailure(c) \/ LoginSucceeds(c)
       \/ \E l \in Links : ConsumeMagicLink(c, l)
       \/ MakeSession(c) \/ ReadResetToken(c) \/ ConsumePasswordReset(c)

Spec == Init /\ [][Next]_authVars

----------------------------------------------------------------------------

\* A token is worth what it was issued for once: one member for all the invites
\* of an e-mail, one session for a magic link, whoever consumes them at the
\* same time (acceptInvite, consumeMagicLink).
TokensSpentOnce ==
  /\ Cardinality(joined) <= 1
  /\ \A l \in Links : link[l].sessions <= 1

\* No failed password is lost from the count the lock is decided on, however
\* many are tried at once, and none is forgotten but by a success or a reset
\* (login, consumePasswordReset).
FailuresCounted == cred.failed = failures

\* The session of a magic link is made of it, or still to be made, once.
Making(c, l) == call[c].pc = "session" /\ call[c].token = l
LinkStands(l) ==
  /\ link[l] \in [state : {"NONE", "ISSUED", "USED"}, sessions : {0, 1}]
  /\ \A c, d \in Calls : Making(c, l) /\ Making(d, l) => c = d
  /\ link[l].sessions = 1 \/ (\E c \in Calls : Making(c, l)) => link[l].state = "USED"
  /\ (\E c \in Calls : Making(c, l)) => link[l].sessions = 0

\* The inductive invariant.
AuthInv ==
  /\ cred \in [secret : Nat, confirmed : BOOLEAN, verified : SUBSET Nat, failed : {cred.failed},
               locked : BOOLEAN, reset : Nat, resets : Nat]
  /\ cred.failed = failures
  /\ call = [c \in Calls |-> call[c]] /\ link = [l \in Links |-> link[l]]
  /\ \A c \in Calls : call[c].pc = "session" => call[c].token \in Links
  /\ \A i, j \in joined : i = j
  /\ \A l \in Links : LinkStands(l)

\* A confirmed TOTP secret is one a code was verified against
\* ("A re-enroll replaces the secret and forces re-confirmation").
ConfirmedWasVerified == cred.confirmed => cred.secret \in cred.verified
=============================================================================
