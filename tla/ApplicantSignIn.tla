-------------------------- MODULE ApplicantSignIn --------------------------
(***************************************************************************)
(* Sign-in by invitation and one-time code, and the sessions it opens      *)
(* (src/app/auth/applicant.py, src/app/routes/applicant_auth.py) over the  *)
(* in-memory repository.  The handlers are coroutines without an await     *)
(* after the body is read, so each is one step.                            *)
(***************************************************************************)
EXTENDS RequestGate

CONSTANTS
  None,
  Invitations, InvitationExpires,
  PreauthLifetime, OtpLifetime, IdleLifetime, AbsoluteLifetime,
  MaxAttempts,   \* ChallengeRecord.max_attempts (5)
  MaxContexts, MaxCodes, MaxSessions  \* bounds of a behaviour

VARIABLES
  revoked,     \* invitations that were revoked
  contexts,    \* PreAuthRecord by number
  challenges,  \* context -> ChallengeRecord
  mail,        \* delivered codes: [context, at]; a code is its number
  failed,      \* contexts with failed_verifications >= 1
  sessions,    \* StoredSession by number
  opened,      \* history: which code opened a session, and when
  tries        \* history: wrong guesses against each code

signInVars == <<revoked, contexts, challenges, mail, failed, opened, tries>>

ASSUME SignInAssumption ==
  /\ None \notin Invitations
  /\ InvitationExpires \in [Invitations -> Nat]
  /\ PreauthLifetime \in Nat \ {0} /\ OtpLifetime \in Nat \ {0}
  /\ IdleLifetime \in Nat \ {0} /\ AbsoluteLifetime \in Nat \ {0}
  /\ IdleLifetime <= AbsoluteLifetime
  /\ MaxAttempts \in Nat \ {0}
  /\ MaxContexts \in Nat /\ MaxCodes \in Nat /\ MaxSessions \in Nat

SignInInit ==
  /\ revoked = {}
  /\ contexts = << >> /\ challenges = << >>
  /\ mail = << >> /\ failed = {}
  /\ sessions = << >>
  /\ opened = << >> /\ tries = << >>

\* An operator revokes an invitation (external: no code under src/ does).
Revoke(i) ==
  /\ i \notin revoked
  /\ revoked' = revoked \cup {i}
  /\ UNCHANGED <<now, gateVars, contexts, challenges, mail, failed, sessions, opened, tries>>

ActiveInvitation(i) == i \in Invitations /\ i \notin revoked /\ now < InvitationExpires[i]

\* The link of the mail: a context is made for an unknown link as well.
Establish(i) ==
  /\ Len(contexts) < MaxContexts
  /\ contexts' = Append(contexts, [invitation |-> IF ActiveInvitation(i) THEN i ELSE None,
                                   expires |-> now + PreauthLifetime, consumed |-> FALSE])
  /\ UNCHANGED <<now, gateVars, revoked, challenges, mail, failed, sessions, opened, tries>>

\* The repository's context: unknown, used and expired ones are all absent.
LiveContext(c) ==
  /\ c \in DOMAIN contexts
  /\ ~contexts[c].consumed
  /\ now < contexts[c].expires
  /\ contexts[c].invitation # None

---------------------------------------------------------------------------
(* Asking for a code.                                                      *)

CodeLimits(c) == {<<"INVITATION", c>>, <<"IP", 0>>, <<"GLOBAL", 0>>}

\* put_challenge: the new challenge takes the place of the earlier one.
NewChallenge(c) ==
  [code |-> Len(mail) + 1, expires |-> now + OtpLifetime, attempts |-> 0, consumed |-> FALSE]

IssueCode(c) ==
  IF LiveContext(c) /\ ActiveInvitation(contexts[c].invitation)
  THEN /\ challenges' = [k \in DOMAIN challenges \cup {c} |-> IF k = c THEN NewChallenge(c) ELSE challenges[k]]
       /\ mail' = Append(mail, [context |-> c, at |-> now])
       /\ tries' = Append(tries, 0)
  ELSE UNCHANGED <<challenges, mail, tries>>

RequestCode(c, t, answered) ==
  /\ Len(mail) < MaxCodes
  /\ Count(CodeLimits(c))
  /\ IF ~WithinLimits(CodeLimits(c)) THEN Unused /\ UNCHANGED <<challenges, mail, tries>>
     ELSE /\ Use(t, Verifies(t, answered))
          /\ IF Verifies(t, answered) THEN IssueCode(c) ELSE UNCHANGED <<challenges, mail, tries>>
  /\ UNCHANGED <<now, revoked, contexts, failed, sessions, opened>>

---------------------------------------------------------------------------
(* Entering a code.                                                        *)

VerifyLimits(c) == {<<"VERIFY_CONTEXT", c>>, <<"VERIFY_IP", 0>>, <<"VERIFY_GLOBAL", 0>>}

\* A plausible bug: the code's own expiry is left to the context's.
ComparableForLong(c) ==
  /\ LiveContext(c)
  /\ c \in DOMAIN challenges
  /\ ~challenges[c].consumed
  /\ challenges[c].attempts < MaxAttempts

\* The challenge a code is compared with at all.
Comparable(c) ==
  /\ LiveContext(c)
  /\ c \in DOMAIN challenges
  /\ ~challenges[c].consumed
  /\ now < challenges[c].expires
  /\ challenges[c].attempts < MaxAttempts

NewSession(app, source) ==
  [application |-> app, source |-> source,
   idle |-> now + IdleLifetime, absolute |-> now + AbsoluteLifetime]

\* verify_code with the delivered code, or with a wrong one (0).
WrongCode(c, code) == Comparable(c) /\ code # challenges[c].code

RightCode(c, code) ==
  /\ Comparable(c)
  /\ code = challenges[c].code
  /\ ActiveInvitation(contexts[c].invitation)

VerifyCode(c, code) ==
  /\ challenges' = IF WrongCode(c, code) THEN [challenges EXCEPT ![c].attempts = @ + 1]
                   ELSE IF RightCode(c, code) THEN [challenges EXCEPT ![c].consumed = TRUE]
                   ELSE challenges
  /\ tries' = IF WrongCode(c, code) THEN [tries EXCEPT ![challenges[c].code] = @ + 1] ELSE tries
  /\ contexts' = IF RightCode(c, code) THEN [contexts EXCEPT ![c].consumed = TRUE] ELSE contexts
  /\ sessions' = IF RightCode(c, code) THEN Append(sessions, NewSession(contexts[c].invitation, <<"INVITATION", contexts[c].invitation>>)) ELSE sessions
  /\ opened' = IF RightCode(c, code) THEN Append(opened, [code |-> code, context |-> c, at |-> now]) ELSE opened
  /\ failed' = IF RightCode(c, code) THEN failed \ {c} ELSE failed \cup {c}

Verify(c, code, t, answered) ==
  LET check == c \in failed
      passed == check => Verifies(t, answered)
      unchanged == UNCHANGED <<challenges, tries, contexts, sessions, opened, failed>>
  IN /\ Count(VerifyLimits(c))
     /\ IF ~WithinLimits(VerifyLimits(c)) THEN Unused /\ unchanged
        ELSE /\ IF check THEN Use(t, Verifies(t, answered)) ELSE Unused
             /\ IF passed THEN VerifyCode(c, code) ELSE unchanged
     /\ UNCHANGED <<now, revoked, mail>>

---------------------------------------------------------------------------
(* Using a session.                                                        *)

\* The in-memory repository's session, and authenticate's sliding expiry.
LiveSession(s) == now < sessions[s].idle /\ now < sessions[s].absolute

Slid(s) == [sessions EXCEPT ![s].idle = Min({now + IdleLifetime, sessions[s].absolute})]

Authenticate(s) ==
  /\ LiveSession(s)
  /\ sessions' = Slid(s)
  /\ UNCHANGED <<now, gateVars, signInVars>>

\* The cookie a browser sends: none (0) until a link was followed.
Cookies == IF contexts = << >> THEN {0} ELSE DOMAIN contexts

SignInNext ==
  \/ \E i \in Invitations : Revoke(i)
  \/ \E i \in Invitations \cup {None} : Establish(i)
  \/ \E c \in Cookies, t \in Tokens, answered \in BOOLEAN :
       \/ RequestCode(c, t, answered)
       \/ \E code \in 0..Len(mail) : Verify(c, code, t, answered)
  \/ \E s \in DOMAIN sessions : Authenticate(s)

---------------------------------------------------------------------------

\* The code that opens a session was the last one delivered in its context,
\* no older than OTP_LIFETIME, opens no second one, and was guessed wrongly
\* fewer than max_attempts times; no code is guessed wrongly more often than
\* that (request_code, put_challenge, verify_code).
CodeOpensOneSession ==
  /\ \A i, j \in DOMAIN opened : opened[i].context = opened[j].context => i = j
  /\ \A i \in DOMAIN opened :
       LET o == opened[i] IN
       /\ mail[o.code].context = o.context
       /\ o.at < mail[o.code].at + OtpLifetime
       /\ tries[o.code] < MaxAttempts
       /\ \A n \in DOMAIN mail : n > o.code /\ mail[n].context = o.context => mail[n].at > o.at
  /\ \A n \in DOMAIN tries : tries[n] <= MaxAttempts

---------------------------------------------------------------------------
(* Why it does.                                                            *)

SignInTypeOK ==
  /\ contexts \in Seq([invitation : Invitations \cup {None}, expires : Nat, consumed : BOOLEAN])
  /\ DOMAIN challenges \subseteq DOMAIN contexts
  /\ \A c \in DOMAIN challenges :
        challenges[c] \in [code : Nat, expires : Nat, attempts : 0..MaxAttempts, consumed : BOOLEAN]
  /\ mail \in Seq([context : Nat, at : Nat])
  /\ tries \in Seq(0..MaxAttempts) /\ Len(tries) = Len(mail)
  /\ opened \in Seq([code : Nat, context : Nat, at : Nat])

\* A context's challenge is the last code delivered in it.
ChallengeIsTheLatest ==
  \A c \in DOMAIN challenges :
     LET x == challenges[c] IN
     /\ x.code \in DOMAIN mail /\ mail[x.code].context = c
     /\ x.expires = mail[x.code].at + OtpLifetime
     /\ tries[x.code] = x.attempts
     /\ \A n \in DOMAIN mail : mail[n].context = c => n <= x.code

\* The context whose code opened a session is used up, so its challenge stays.
OpenedIsUsedUp ==
  \A i \in DOMAIN opened :
     LET o == opened[i] IN
     /\ o.context \in DOMAIN challenges /\ contexts[o.context].consumed
     /\ o.code = challenges[o.context].code
     /\ o.at < mail[o.code].at + OtpLifetime
     /\ challenges[o.context].attempts < MaxAttempts

SignInInv ==
  SignInTypeOK /\ ChallengeIsTheLatest /\ OpenedIsUsedUp /\ CodeOpensOneSession
=============================================================================
