------------------------- MODULE ApplicantIdentity -------------------------
(***************************************************************************)
(* How an Entra identity comes to be linked to an application, by an       *)
(* access request (src/app/applicant/access.py, routes/applicant_access.py)*)
(* or by the rollout scripts (src/scripts/reconcile-applicant-emails.py,   *)
(* provision-applicant-entra.py, activate-applicant-identities.py), and    *)
(* the sessions of linked applicants and of administrators' synthetic      *)
(* workspaces over the SQL repository.  A deployment serves invitations    *)
(* or Entra identities: the SQL repository cannot do the former.           *)
(***************************************************************************)
EXTENDS ApplicantSignIn

CONSTANTS
  Applications,
  Emails,        \* an Entra user is named by its mail address
  Actors,        \* administrators
  MaxAccess, MaxWorkspaces, MaxRuns,  \* bounds of a behaviour
  Evidence       \* what reconcile may find: email -> [docs, cv, family, given, initial]

VARIABLES
  repository,  \* "InMemory" or "Sql"
  access,      \* ApplicantAccessRequest by number
  identities,  \* ApplicantEntraIdentity rows
  workspaces,  \* ApplicantSyntheticWorkspace by number
  members,     \* external: users that exist in Entra -> member of the group
  candidates,  \* the file reconcile writes: application -> email or None
  script,      \* the provisioning script: its rows, and those still to do
  record,      \* the file it writes: application -> user
  runs,        \* how often a script was started
  seen,        \* the identities activate has read, None when it is not running
  served       \* history: the last page served, [application, to]

identityVars == <<access, identities, workspaces, members, candidates, script, record, runs, seen, served>>

vars == <<now, gateVars, signInVars, sessions, repository, identityVars>>

\* The synthetic pilot's own application and user.
Pilot == <<"pilot", 0>>

ASSUME IdentityAssumption ==
  /\ {None, Pilot} \cap (Applications \cup Emails \cup Actors) = {}
  /\ \A ev \in Evidence : ev \in [Emails ->
       [docs : Nat, cv : BOOLEAN, family : BOOLEAN, given : BOOLEAN, initial : BOOLEAN]]

Idle == [rows |-> << >>, todo |-> {}, running |-> FALSE]

Init ==
  /\ GateInit /\ SignInInit
  /\ repository \in {"InMemory", "Sql"}
  /\ access = << >> /\ identities = {} /\ workspaces = << >>
  /\ members = << >>
  /\ candidates = [a \in Applications |-> None]
  /\ script = Idle /\ record = << >> /\ runs = 0 /\ seen = None
  /\ served = None

---------------------------------------------------------------------------
(* Access requests.                                                        *)

Open(status) == {r \in DOMAIN access : access[r].status \in status}

AccessLimits == {<<"ACCESS_IP", 0>>} \cup (IF Allowed(<<"ACCESS_IP", 0>>) THEN {<<"ACCESS_GLOBAL", 0>>} ELSE {})

\* An open request of the same address is returned, not repeated.
NewRequest(e) ==
  IF Len(access) = MaxAccess \/ \E r \in Open({"PENDING", "APPROVED"}) : access[r].email = e THEN access
  ELSE Append(access, [email |-> e, status |-> "PENDING", object |-> None])

RequestAccess(e, t, answered) ==
  /\ Count(AccessLimits)
  /\ IF ~WithinLimits(AccessLimits) THEN Unused /\ UNCHANGED access
     ELSE /\ Use(t, Verifies(t, answered))
          /\ access' = IF Verifies(t, answered) THEN NewRequest(e) ELSE access
  /\ UNCHANGED <<now, signInVars, sessions, identities, workspaces, members, candidates, script, record, runs, seen, served>>

ReviewAccess(r, decision) ==
  /\ access[r].status = "PENDING"
  /\ access' = [access EXCEPT ![r].status = decision]
  /\ UNCHANGED <<now, gateVars, signInVars, sessions, identities, workspaces, members, candidates, script, record, runs, seen, served>>

Conflicts(a, e) == {i \in identities : i.application = a \/ i.object = e}

Link(a, e, kind) == [application |-> a, object |-> e, kind |-> kind, enabled |-> TRUE]

\* A plausible bug: the request's own status is not looked at again.
ProvisionableReviewed(r, a, e) == access[r].status # "PENDING" /\ Conflicts(a, e) = {}

\* ProvisionApplicantAccessRequest; the administrator names application and user.
Provisionable(r, a, e) == access[r].status = "APPROVED" /\ Conflicts(a, e) = {}

ProvisionAccess(r, a, e) ==
  /\ Provisionable(r, a, e)
  /\ access' = [access EXCEPT ![r].status = "PROVISIONED", ![r].object = e]
  /\ identities' = identities \cup {Link(a, e, "APPLICANT")}
  /\ UNCHANGED <<now, gateVars, signInVars, sessions, workspaces, members, candidates, script, record, runs, seen, served>>

\* An administrator of the database disables an identity (external).
Disable(i) ==
  /\ i.enabled
  /\ identities' = (identities \ {i}) \cup {[i EXCEPT !.enabled = FALSE]}
  /\ UNCHANGED <<now, gateVars, signInVars, sessions, access, workspaces, members, candidates, script, record, runs, seen, served>>

---------------------------------------------------------------------------
(* The rollout: addresses found in documents, users invited, links made.   *)

Found(ev) == {e \in Emails : ev[e].docs > 0}

\* A long family or given name in the address, or the initial and the family name.
NameMatch(x) == x.family \/ x.given \/ x.initial

HighConfidence(ev, e) ==
  \/ ev[e].docs >= 2
  \/ ev[e].cv /\ NameMatch(ev[e])
  \/ Cardinality(Found(ev)) = 1

Score(x) ==
  x.docs * 100 + (IF x.cv THEN 40 ELSE 0) + (IF x.family THEN 30 ELSE 0) + (IF x.given THEN 20 ELSE 0)

Candidates(ev) == {e \in Found(ev) : HighConfidence(ev, e)}

\* The best candidate when it is alone or leads by 60.
Resolved(ev) ==
  {e \in Candidates(ev) : \A f \in Candidates(ev) \ {e} : Score(ev[e]) - Score(ev[f]) >= 60}

Answer(ev) == IF Resolved(ev) = {} THEN None ELSE CHOOSE e \in Resolved(ev) : TRUE

Answers == {Answer(ev) : ev \in Evidence}

StartRun == runs < MaxRuns /\ runs' = runs + 1

Reconcile ==
  /\ StartRun
  /\ candidates' \in [Applications -> Answers]
  /\ UNCHANGED <<now, gateVars, signInVars, sessions, access, identities, workspaces, members, script, record, seen, served>>

ResolvedRows == {a \in Applications : candidates[a] # None}

StartProvisioning ==
  /\ StartRun
  /\ ~script.running
  /\ \A a, b \in ResolvedRows : candidates[a] = candidates[b] => a = b
  /\ script' = [rows |-> [a \in ResolvedRows |-> candidates[a]], todo |-> ResolvedRows, running |-> TRUE]
  /\ UNCHANGED <<now, gateVars, signInVars, sessions, access, identities, workspaces, members, candidates, record, seen, served>>

\* A plausible bug: a user that exists already is taken for a member.
InvitedOnly(e, joined) ==
  [u \in DOMAIN members \cup {e} |-> IF u \in DOMAIN members THEN members[u] ELSE joined]

\* A row ends with the user in the group, or the script ends with the row
\* half done: the user perhaps invited, perhaps not a member.
Invited(e, joined) ==
  [u \in DOMAIN members \cup {e} |-> IF u = e THEN joined \/ (e \in DOMAIN members /\ members[e]) ELSE members[u]]

ProvisionRow(a) ==
  /\ a \in script.todo
  /\ members' = Invited(script.rows[a], TRUE)
  /\ script' = [script EXCEPT !.todo = @ \ {a}]
  /\ UNCHANGED <<now, gateVars, signInVars, sessions, access, identities, workspaces, candidates, record, seen, runs, served>>

ProvisionRowFails(a) ==
  /\ a \in script.todo
  /\ members' \in {members, Invited(script.rows[a], FALSE)}
  /\ script' = Idle
  /\ UNCHANGED <<now, gateVars, signInVars, sessions, access, identities, workspaces, candidates, record, seen, runs, served>>

WriteRecord ==
  /\ script.running /\ script.todo = {}
  /\ record' = script.rows
  /\ script' = Idle
  /\ UNCHANGED <<now, gateVars, signInVars, sessions, access, identities, workspaces, members, candidates, seen, runs, served>>

\* activate reads the rows it would conflict with, without locks that last,
\* and refuses a record that contradicts one of them.
ActivateRead ==
  /\ StartRun
  /\ seen = None
  /\ record # << >>
  /\ \A a \in DOMAIN record : \A i \in Conflicts(a, record[a]) : i.application = a /\ i.object = record[a]
  /\ seen' = identities
  /\ UNCHANGED <<now, gateVars, signInVars, sessions, access, identities, workspaces, members, candidates, script, record, served>>

\* The pilot is linked in the same run.
PilotLink == Link(Pilot, Pilot, "SYNTHETIC_TEST")

\* One transaction: the unique constraints refuse all of it when a request
\* was provisioned meanwhile.
Missing == {a \in DOMAIN record : ~\E i \in seen : i.application = a}

ActivateCommit ==
  /\ seen # None
  /\ identities' = IF \E a \in Missing : Conflicts(a, record[a]) # {} THEN identities
                   ELSE identities \cup {Link(a, record[a], "LEGACY_APPLICANT") : a \in Missing}
                                   \cup {i \in {PilotLink} : Conflicts(Pilot, Pilot) = {}}
  /\ seen' = None
  /\ UNCHANGED <<now, gateVars, signInVars, sessions, access, workspaces, members, candidates, script, record, runs, served>>

---------------------------------------------------------------------------
(* Sessions over the SQL repository.                                       *)

Linked(e) == {i \in identities : i.object = e /\ i.enabled}

IsMember(e) == e \in DOMAIN members /\ members[e]

\* sign-in: the principal is a live member of the applicants' group.
EntraSignIn(e) ==
  /\ Len(sessions) < MaxSessions
  /\ IsMember(e)
  /\ \E i \in Linked(e) : sessions' = Append(sessions, NewSession(i.application, <<"ENTRA", e>>))
  /\ UNCHANGED <<now, gateVars, signInVars, identityVars>>

CreateSynthetic(p) ==
  /\ Len(sessions) < MaxSessions /\ Len(workspaces) < MaxWorkspaces
  /\ workspaces' = Append(workspaces, [actor |-> p, closed |-> FALSE])
  /\ sessions' = Append(sessions, NewSession(<<"synthetic", Len(workspaces) + 1>>, <<"SYNTHETIC", p>>))
  /\ UNCHANGED <<now, gateVars, signInVars, access, identities, members, candidates, script, record, runs, seen, served>>

CloseWorkspace(w) ==
  /\ ~workspaces[w].closed
  /\ workspaces' = [workspaces EXCEPT ![w].closed = TRUE]
  /\ UNCHANGED <<now, gateVars, signInVars, sessions, access, identities, members, candidates, script, record, runs, seen, served>>

\* GetApplicantSessionV19: the session's source must still stand.
SourceStands(s) ==
  LET x == sessions[s] IN
  IF x.source[1] = "SYNTHETIC"
  THEN workspaces[x.application[2]].actor = x.source[2] /\ ~workspaces[x.application[2]].closed
  ELSE \E i \in Linked(x.source[2]) : i.application = x.application

\* A plausible bug: any applicant may use any applicant's session.
AnyMemberFits(s, principal) ==
  IF sessions[s].source[1] = "ENTRA" THEN IsMember(principal) ELSE sessions[s].source[2] = principal

\* Whom a page or API call of this session is answered: the principal the
\* request carries, an administrator p or an Entra user e.
PrincipalFits(s, principal) ==
  /\ sessions[s].source[2] = principal
  /\ sessions[s].source[1] = "ENTRA" => IsMember(principal)

\* The session slides also when the principal is then refused.
ServePage(s, principal) ==
  /\ LiveSession(s) /\ SourceStands(s)
  /\ sessions' = Slid(s)
  /\ served' = IF PrincipalFits(s, principal)
               THEN [application |-> sessions[s].application, to |-> principal] ELSE served
  /\ UNCHANGED <<now, gateVars, signInVars, access, identities, workspaces, members, candidates, script, record, runs, seen>>

IdentityNext ==
  \/ /\ now = 0
     /\ \E e \in Emails, t \in Tokens, answered \in BOOLEAN : RequestAccess(e, t, answered)
  \/ \E r \in DOMAIN access : \/ \E decision \in {"APPROVED", "REJECTED"} : ReviewAccess(r, decision)
                              \/ \E a \in Applications, e \in Emails : ProvisionAccess(r, a, e)
  \/ \E i \in identities : i.kind # "SYNTHETIC_TEST" /\ Disable(i)
  \/ \E a \in Applications : ProvisionRow(a) \/ ProvisionRowFails(a)
  \/ Reconcile \/ StartProvisioning \/ WriteRecord \/ ActivateRead \/ ActivateCommit
  \/ \E e \in Emails : EntraSignIn(e)
  \/ \E p \in Actors : CreateSynthetic(p)
  \/ \E w \in DOMAIN workspaces : CloseWorkspace(w)
  \/ \E s \in DOMAIN sessions, principal \in Emails \cup Actors : ServePage(s, principal)

\* Bound: over the SQL repository the clock starts with the first session,
\* and access is requested before it moves.
TimePasses ==
  /\ repository = "Sql" => sessions # << >>
  /\ Tick
  /\ UNCHANGED <<gateVars, signInVars, sessions, repository, identityVars>>

Next ==
  \/ TimePasses
  \/ repository = "InMemory" /\ SignInNext /\ UNCHANGED <<repository, identityVars>>
  \/ repository = "Sql" /\ IdentityNext /\ UNCHANGED repository

Spec == Init /\ [][Next]_vars

---------------------------------------------------------------------------

\* Applications and Entra users are linked one to one whichever way the link
\* came about, an address has one open request, and a request is provisioned
\* exactly when it was approved and its user's link exists
\* (ProvisionApplicantAccessRequest racing activate).
LinksAreOneToOne ==
  /\ \A i, j \in identities : i.application = j.application \/ i.object = j.object => i = j
  /\ \A r, q \in Open({"PENDING", "APPROVED"}) : access[r].email = access[q].email => r = q
  /\ \A r, q \in Open({"PROVISIONED"}) : access[r].object = access[q].object => r = q
  /\ {access[r].object : r \in Open({"PROVISIONED"})} = {i.object : i \in {j \in identities : j.kind = "APPLICANT"}}

\* A link made by activate is of a user the provisioning script put into the
\* applicants' group, so that its owner can sign in, even after runs that
\* stopped half-way (provision writes its record last).
ActivatedApplicantCanSignIn ==
  \A i \in identities : i.kind = "LEGACY_APPLICANT" => IsMember(i.object)

\* A page of an application is served to the user linked to it, one of a
\* synthetic workspace to the administrator who made it
\* (enforce_live_applicant_identity, workspace_page).
PageServedToOwner ==
  served # None =>
     \/ \E i \in identities : i.application = served.application /\ i.object = served.to
     \/ \E w \in DOMAIN workspaces : served.application = <<"synthetic", w>> /\ workspaces[w].actor = served.to

---------------------------------------------------------------------------
(* Why they are.                                                           *)

Statuses == {"PENDING", "APPROVED", "REJECTED", "PROVISIONED"}

\* What a session may be of, over either repository.
Subjects == Invitations \cup Applications \cup {Pilot} \cup ({"synthetic"} \X Nat)

LinkTypeOK ==
  /\ access \in Seq([email : Emails, status : Statuses, object : Emails \cup {None}])
  /\ identities \subseteq [application : Applications \cup {Pilot}, object : Emails \cup {Pilot},
                          kind : {"APPLICANT", "LEGACY_APPLICANT", "SYNTHETIC_TEST"},
                          enabled : BOOLEAN]
  /\ candidates \in [Applications -> Emails \cup {None}]

SessionTypeOK ==
  /\ repository \in {"InMemory", "Sql"}
  /\ workspaces \in Seq([actor : Actors, closed : BOOLEAN])
  /\ sessions \in Seq([application : Subjects,
                       source : {"INVITATION", "ENTRA", "SYNTHETIC"} \X (Invitations \cup Emails \cup Actors),
                       idle : Nat, absolute : Nat])

\* The session of a synthetic workspace is of a workspace that exists.
SyntheticSessionsHaveWorkspaces ==
  \A s \in DOMAIN sessions :
     sessions[s].source[1] = "SYNTHETIC" =>
        \E w \in DOMAIN workspaces : sessions[s].application = <<"synthetic", w>>

\* Each application with a user of its own.
OneToOne(rows) ==
  /\ DOMAIN rows \subseteq Applications
  /\ \A a \in DOMAIN rows : rows[a] \in Emails
  /\ \A a, b \in DOMAIN rows : rows[a] = rows[b] => a = b

\* The rows the script is done with, and those of its record, are of members.
RowsDoneAreMembers ==
  /\ OneToOne(script.rows) /\ script.todo \subseteq DOMAIN script.rows
  /\ \A a \in DOMAIN script.rows \ script.todo : IsMember(script.rows[a])
  /\ OneToOne(record)
  /\ \A a \in DOMAIN record : IsMember(record[a])

LinksInv ==
  LinkTypeOK /\ RowsDoneAreMembers /\ LinksAreOneToOne /\ ActivatedApplicantCanSignIn

SessionsInv ==
  SessionTypeOK /\ SyntheticSessionsHaveWorkspaces /\ PageServedToOwner

\* In every interleaving of visitors, administrators, scripts and the clock:
\* the inductive invariants of the gates, the sign-in, the links and the
\* sessions (rate_limit.py, turnstile.py, applicant.py, access.py, the
\* rollout scripts).
IdentityInv == LimiterInv /\ VerifierInv /\ SignInInv /\ LinksInv /\ SessionsInv
=============================================================================
