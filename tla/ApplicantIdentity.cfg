CONSTANTS
  None = None
  Limit = 2
  Window = 2
  MaxEntries = 2
  Tokens = {0, 1}
  Issued <- MCIssued
  TokenLifetime = 2
  ReplayMemory = 2
  MaxTime = 3
  Invitations = {i1}
  InvitationExpires <- MCExpires
  PreauthLifetime = 3
  OtpLifetime = 2
  IdleLifetime = 2
  AbsoluteLifetime = 3
  MaxAttempts = 1
  MaxContexts = 1
  MaxCodes = 2
  MaxSessions = 1
  MaxAccess = 2
  MaxWorkspaces = 1
  MaxRuns = 4
  Applications = {a1, a2}
  Emails = {e1, e2}
  Actors = {p1}
  Evidence <- MCEvidence
SYMMETRY Symmetry
SPECIFICATION Spec
INVARIANTS
  NoBurstBeyondTwoWindows
  ResponseAcceptedOnce
  CodeOpensOneSession
  LinksAreOneToOne
  ActivatedApplicantCanSignIn
  PageServedToOwner
CHECK_DEADLOCK FALSE
