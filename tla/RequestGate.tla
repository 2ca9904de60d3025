---------------------------- MODULE RequestGate ----------------------------
(***************************************************************************)
(* The two gates every anonymous applicant request passes: the in-process  *)
(* rate limiter (src/app/auth/rate_limit.py) and the Turnstile check with  *)
(* its replay memory (src/app/auth/turnstile.py).  Time is a counter; both *)
(* gates keep their state in memory and forget only what has expired, and  *)
(* only when their dictionary is full.                                     *)
(***************************************************************************)
EXTENDS Integers, Sequences, FiniteSets, FiniteSetsExt, Functions

CONSTANTS
  Limit,          \* requests of one subject per window
  Window,         \* the window, in units of time
  MaxEntries,     \* the size at which a dictionary is pruned (10,000)
  Tokens,         \* Turnstile responses
  Issued,         \* when each response was issued to a browser
  TokenLifetime,  \* how long siteverify accepts a response
  ReplayMemory,   \* how long a used response is surely remembered
  MaxTime

VARIABLES
  now,
  buckets,  \* the limiter: subject -> [started, count]
  used,     \* the verifier: response -> when it was accepted
  allowed,  \* history: subject -> when it was let through lately: [at, nth]
  accepted  \* history: response -> how often it was accepted

gateVars == <<buckets, used, allowed, accepted>>

ASSUME GateAssumption ==
  /\ Limit \in Nat \ {0} /\ Window \in Nat \ {0} /\ MaxEntries \in Nat \ {0}
  /\ TokenLifetime \in Nat /\ ReplayMemory \in Nat /\ MaxTime \in Nat
  /\ Issued \in [Tokens -> Nat]
  /\ TokenLifetime <= ReplayMemory

Time == 0..MaxTime

GateInit ==
  /\ now = 0
  /\ buckets = << >> /\ used = << >>
  /\ allowed = << >>
  /\ accepted = [t \in Tokens |-> 0]

Tick == now < MaxTime /\ now' = now + 1

---------------------------------------------------------------------------
(* The rate limiter.                                                       *)

Current(b) == now < b.started + Window

\* A plausible bug: a full dictionary starts afresh.
NoBuckets == {k \in DOMAIN buckets : Cardinality(DOMAIN buckets) < MaxEntries}

KeptBuckets == {k \in DOMAIN buckets : Cardinality(DOMAIN buckets) < MaxEntries \/ Current(buckets[k])}

Stored(k) == k \in KeptBuckets /\ Current(buckets[k])

Allowed(k) == Stored(k) => buckets[k].count < Limit

\* The bucket of k after one call of allow.
Counted(k) ==
  IF ~Stored(k) THEN [started |-> now, count |-> 1]
  ELSE [buckets[k] EXCEPT !.count = IF Allowed(k) THEN @ + 1 ELSE @]

\* When k was let through within the last window's length.
Recently(k) == IF k \in DOMAIN allowed THEN {p \in allowed[k] : now < p.at + Window} ELSE {}

\* ... and once more now.
LetThrough(k) ==
  Recently(k) \cup {[at |-> now, nth |-> Cardinality({p \in Recently(k) : p.at = now})]}

\* One call of allow per subject; the subjects of one request are distinct.
Count(keys) ==
  /\ buckets' = [k \in KeptBuckets \cup keys |-> IF k \in keys THEN Counted(k) ELSE buckets[k]]
  /\ allowed' = [k \in DOMAIN allowed \cup keys |->
                   IF k \in keys /\ Allowed(k) THEN LetThrough(k) ELSE Recently(k)]

\* Every subject's call is made, also after one that refuses.
WithinLimits(keys) == \A k \in keys : Allowed(k)

---------------------------------------------------------------------------
(* Turnstile.                                                              *)

\* A plausible bug: a full memory starts afresh.
Forgotten == {t \in DOMAIN used : Cardinality(DOMAIN used) < MaxEntries}

Remembered == {t \in DOMAIN used : Cardinality(DOMAIN used) < MaxEntries \/ now - used[t] < ReplayMemory}

\* External: siteverify, which vouches for a response while it is fresh.
Siteverify(t) == Issued[t] <= now /\ now < Issued[t] + TokenLifetime

\* answered is FALSE when the call fails, times out or names another page.
Verifies(t, answered) == t \notin Remembered /\ answered /\ Siteverify(t)

Use(t, ok) ==
  /\ used' = [u \in Remembered \cup (IF ok THEN {t} ELSE {}) |-> IF ok /\ u = t THEN now ELSE used[u]]
  /\ accepted' = [accepted EXCEPT ![t] = IF ok THEN @ + 1 ELSE @]

Unused == UNCHANGED <<used, accepted>>

---------------------------------------------------------------------------

\* The fixed windows of allow, and the pruning of a full dictionary, never
\* let a subject through more than 2 * Limit times within one window's length.
NoBurstBeyondTwoWindows ==
  \A k \in DOMAIN allowed : Cardinality(allowed[k]) <= 2 * Limit

\* verify accepts a Turnstile response once, although it forgets used ones
\* when its memory is full: what it forgets, siteverify no longer vouches for.
ResponseAcceptedOnce == \A t \in Tokens : accepted[t] <= 1

---------------------------------------------------------------------------
(* Why they do not.                                                        *)

LimiterTypeOK ==
  /\ now \in Nat
  /\ DOMAIN buckets \subseteq DOMAIN allowed
  /\ \A k \in DOMAIN buckets : buckets[k] \in [started : 0..now, count : 1..Limit]
  /\ \A k \in DOMAIN allowed : IsFiniteSet(allowed[k]) /\ allowed[k] \subseteq [at : Nat, nth : Nat]

\* What the bucket of k counts, and what was let through before it.
Since(k) == {p \in allowed[k] : buckets[k].started <= p.at}
Before(k) == {p \in allowed[k] : p.at < buckets[k].started}

\* A bucket counts what it let through and ends within its window; what came
\* before it, or from a bucket that was dropped, is of one bucket.
PassagesAreCounted ==
  \A k \in DOMAIN allowed :
     IF k \in DOMAIN buckets
     THEN /\ Cardinality(Since(k)) <= buckets[k].count
          /\ Cardinality(Before(k)) <= Limit
          /\ \A p \in allowed[k] : p.at < buckets[k].started + Window
     ELSE /\ Cardinality(allowed[k]) <= Limit
          /\ \A p \in allowed[k] : p.at < now

VerifierTypeOK ==
  /\ DOMAIN used \subseteq Tokens
  /\ \A t \in DOMAIN used : used[t] \in Nat
  /\ accepted \in [Tokens -> Nat]

\* A response that was accepted is remembered, or too old for siteverify.
AcceptedIsKnown ==
  /\ \A t \in DOMAIN used : Issued[t] <= used[t]
  /\ \A t \in Tokens : accepted[t] = 1 => t \in DOMAIN used \/ Issued[t] + TokenLifetime <= now

LimiterInv == LimiterTypeOK /\ PassagesAreCounted
VerifierInv == VerifierTypeOK /\ AcceptedIsKnown /\ ResponseAcceptedOnce
=============================================================================
