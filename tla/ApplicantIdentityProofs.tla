---------------------- MODULE ApplicantIdentityProofs ----------------------
(***************************************************************************)
(* Proofs that the gates of the anonymous requests, the sign-in by one-    *)
(* time code and the links of Entra identities keep their promises for any *)
(* number of visitors, contexts, applications and runs of the scripts.     *)
(***************************************************************************)
EXTENDS ApplicantIdentity, FiniteSetTheorems, TLAPS

(* The rate limiter.                                                       *)

\* A subset of a finite set is no larger; one more element is at most one more.
LEMMA NoLarger ==
  ASSUME NEW S, IsFiniteSet(S), NEW T, T \subseteq S
  PROVE  IsFiniteSet(T) /\ Cardinality(T) \in Nat /\ Cardinality(S) \in Nat
         /\ Cardinality(T) <= Cardinality(S)
BY FS_Subset, FS_CardinalityType

LEMMA OneMore ==
  ASSUME NEW S, IsFiniteSet(S), NEW x, NEW T, T \subseteq S \cup {x}
  PROVE  IsFiniteSet(T) /\ Cardinality(T) \in Nat /\ Cardinality(S) \in Nat
         /\ Cardinality(T) <= Cardinality(S) + 1
<1>1. IsFiniteSet(S \cup {x}) /\ Cardinality(S \cup {x}) <= Cardinality(S) + 1
      /\ Cardinality(S) \in Nat
  BY SMTT(30), FS_AddElement, FS_CardinalityType
<1>2. IsFiniteSet(T) /\ Cardinality(T) \in Nat /\ Cardinality(S \cup {x}) \in Nat
      /\ Cardinality(T) <= Cardinality(S \cup {x})
  BY <1>1, NoLarger
<1> QED
  BY <1>1, <1>2

\* What was let through lately is part of the history.
LEMMA RecentlyShrinks ==
  ASSUME LimiterTypeOK, NEW k
  PROVE  /\ IsFiniteSet(Recently(k)) /\ Recently(k) \subseteq [at : Nat, nth : Nat]
         /\ k \in DOMAIN allowed => Recently(k) \subseteq allowed[k]
         /\ k \notin DOMAIN allowed => Recently(k) = {}
<1>1. CASE k \in DOMAIN allowed
  <2>1. Recently(k) \subseteq allowed[k]
    BY <1>1 DEF Recently
  <2> QED
    BY <1>1, <2>1, NoLarger DEF LimiterTypeOK
<1>2. CASE k \notin DOMAIN allowed
  BY <1>2, FS_EmptySet DEF Recently
<1> QED
  BY <1>1, <1>2

\* What an ended bucket let through within the last window's length is no
\* more than it counted: earlier buckets ended a window before it did.
LEMMA RecentIsOfOneBucket ==
  ASSUME LimiterInv, NEW k, k \notin DOMAIN buckets \/ ~Current(buckets[k])
  PROVE  Cardinality(Recently(k)) \in Nat /\ Cardinality(Recently(k)) <= Limit
         /\ \A p \in Recently(k) : p.at < now
<1> USE GateAssumption DEF LimiterInv
<1>1. IsFiniteSet(Recently(k)) /\ Recently(k) \subseteq [at : Nat, nth : Nat]
  BY RecentlyShrinks
<1>2. CASE k \notin DOMAIN allowed
  BY <1>2, RecentlyShrinks, FS_EmptySet
<1>3. CASE k \in DOMAIN allowed /\ k \notin DOMAIN buckets
  <2>1. /\ Cardinality(allowed[k]) <= Limit /\ IsFiniteSet(allowed[k])
        /\ \A p \in allowed[k] : p.at < now
    BY <1>3 DEF PassagesAreCounted, LimiterTypeOK
  <2>2. Recently(k) \subseteq allowed[k]
    BY <1>3, RecentlyShrinks
  <2>3. /\ Cardinality(Recently(k)) \in Nat /\ Cardinality(allowed[k]) \in Nat
        /\ Cardinality(Recently(k)) <= Cardinality(allowed[k])
    BY <2>1, <2>2, NoLarger
  <2> QED
    BY <2>1, <2>2, <2>3
<1>4. CASE k \in DOMAIN buckets
  <2>1. /\ k \in DOMAIN allowed /\ now \in Nat
        /\ buckets[k].started \in Nat /\ buckets[k].count \in 1..Limit
        /\ IsFiniteSet(allowed[k])
    BY <1>4 DEF LimiterTypeOK
  <2>2. buckets[k].started + Window <= now
    BY <1>4, <2>1 DEF Current
  <2>3. Cardinality(Since(k)) <= buckets[k].count
        /\ \A p \in allowed[k] : p.at < buckets[k].started + Window
    BY <1>4, <2>1 DEF PassagesAreCounted
  <2>4. Recently(k) \subseteq Since(k)
    <3>1. ASSUME NEW p \in Recently(k) PROVE p \in Since(k)
      <4>1. p \in allowed[k] /\ now < p.at + Window /\ p.at \in Nat
        BY <1>1, <2>1 DEF Recently
      <4> QED
        BY <2>1, <2>2, <4>1 DEF Since
    <3> QED
      BY <3>1
  <2>5. IsFiniteSet(Since(k))
    BY <2>1, NoLarger DEF Since
  <2>6. /\ Cardinality(Recently(k)) \in Nat /\ Cardinality(Since(k)) \in Nat
        /\ Cardinality(Recently(k)) <= Cardinality(Since(k))
    BY <2>4, <2>5, NoLarger
  <2>7. \A p \in Recently(k) : p.at < now
    <3>1. ASSUME NEW p \in Recently(k) PROVE p.at < now
      <4>1. p \in allowed[k] /\ p.at \in Nat
        BY <1>1, <2>1 DEF Recently
      <4> QED
        BY <2>1, <2>2, <2>3, <4>1
    <3> QED
      BY <3>1
  <2> QED
    BY <2>1, <2>3, <2>6, <2>7
<1> QED
  BY <1>2, <1>3, <1>4

\* What a call of allow leaves behind for one subject.
PassagesOf(k) ==
  IF k \in DOMAIN buckets
  THEN /\ Cardinality(Since(k)) <= buckets[k].count
       /\ Cardinality(Before(k)) <= Limit
       /\ \A p \in allowed[k] : p.at < buckets[k].started + Window
  ELSE /\ Cardinality(allowed[k]) <= Limit
       /\ \A p \in allowed[k] : p.at < now

\* A bucket that goes on: it counts one more if it lets one more through.
LEMMA BucketGoesOn ==
  ASSUME LimiterInv, NEW k \in DOMAIN buckets, now' = now,
         k \in DOMAIN buckets', k \in DOMAIN allowed',
         buckets'[k].started = buckets[k].started,
         \/ buckets'[k].count = buckets[k].count /\ allowed'[k] = Recently(k)
         \/ /\ buckets'[k].count = buckets[k].count + 1 /\ Current(buckets[k])
            /\ \E n : allowed'[k] = Recently(k) \cup {[at |-> now, nth |-> n]}
  PROVE  PassagesOf(k)'
<1> USE GateAssumption DEF LimiterInv
<1>1. /\ k \in DOMAIN allowed /\ now \in Nat /\ IsFiniteSet(allowed[k])
      /\ buckets[k].started \in Nat /\ buckets[k].count \in 1..Limit
  BY DEF LimiterTypeOK
<1>2. /\ Cardinality(Since(k)) <= buckets[k].count /\ Cardinality(Before(k)) <= Limit
      /\ \A p \in allowed[k] : p.at < buckets[k].started + Window
  BY <1>1 DEF PassagesAreCounted
<1>3. IsFiniteSet(Since(k)) /\ IsFiniteSet(Before(k))
  BY <1>1, NoLarger DEF Since, Before
<1>4. Recently(k) \subseteq allowed[k]
  BY <1>1, RecentlyShrinks
<1>5. CASE buckets'[k].count = buckets[k].count /\ allowed'[k] = Recently(k)
  <2>1. Since(k)' \subseteq Since(k) /\ Before(k)' \subseteq Before(k)
    BY <1>4, <1>5 DEF Since, Before
  <2>2. /\ Cardinality(Since(k)') \in Nat /\ Cardinality(Since(k)) \in Nat
        /\ Cardinality(Since(k)') <= Cardinality(Since(k))
    BY <1>3, <2>1, NoLarger
  <2>3. /\ Cardinality(Before(k)') \in Nat /\ Cardinality(Before(k)) \in Nat
        /\ Cardinality(Before(k)') <= Cardinality(Before(k))
    BY <1>3, <2>1, NoLarger
  <2> QED
    BY <1>1, <1>2, <1>4, <1>5, <2>2, <2>3 DEF PassagesOf
<1>6. ASSUME NEW n, Current(buckets[k]), buckets'[k].count = buckets[k].count + 1,
             allowed'[k] = Recently(k) \cup {[at |-> now, nth |-> n]}
      PROVE  PassagesOf(k)'
  <2> DEFINE e == [at |-> now, nth |-> n]
  <2>1. e.at = now /\ buckets[k].started <= now /\ now < buckets[k].started + Window
    BY <1>6 DEF LimiterTypeOK, Current
  <2> HIDE DEF e
  <2>2. allowed'[k] = Recently(k) \cup {e}
    BY <1>6 DEF e
  <2>3. Since(k)' \subseteq Since(k) \cup {e}
    BY <1>4, <2>2 DEF Since
  <2>4. Before(k)' \subseteq Before(k)
    BY <1>1, <1>4, <2>1, <2>2 DEF Before
  <2>5. /\ Cardinality(Since(k)') \in Nat /\ Cardinality(Since(k)) \in Nat
        /\ Cardinality(Since(k)') <= Cardinality(Since(k)) + 1
    BY <1>3, <2>3, OneMore
  <2>6. /\ Cardinality(Before(k)') \in Nat /\ Cardinality(Before(k)) \in Nat
        /\ Cardinality(Before(k)') <= Cardinality(Before(k))
    BY <1>3, <2>4, NoLarger
  <2>7. \A p \in allowed'[k] : p.at < buckets'[k].started + Window
    BY <1>2, <1>4, <2>1, <2>2
  <2> QED
    BY <1>1, <1>2, <1>6, <2>5, <2>6, <2>7 DEF PassagesOf
<1> QED
  BY <1>5, <1>6

\* A bucket that starts: only one bucket's passages can lie before it.
LEMMA BucketStarts ==
  ASSUME LimiterInv, NEW k, k \notin DOMAIN buckets \/ ~Current(buckets[k]),
         k \in DOMAIN buckets', now' = now,
         buckets'[k] = [started |-> now, count |-> 1],
         NEW n, allowed'[k] = Recently(k) \cup {[at |-> now, nth |-> n]}
  PROVE  PassagesOf(k)'
<1> USE GateAssumption
<1> DEFINE e == [at |-> now, nth |-> n]
<1>1. e.at = now /\ now \in Nat
  BY DEF LimiterInv, LimiterTypeOK
<1>2. allowed'[k] = Recently(k) \cup {e} /\ buckets'[k].started = now /\ buckets'[k].count = 1
  OBVIOUS
<1> HIDE DEF e
<1>3. /\ Cardinality(Recently(k)) \in Nat /\ Cardinality(Recently(k)) <= Limit
      /\ \A p \in Recently(k) : p.at < now
  BY RecentIsOfOneBucket
<1>4. IsFiniteSet(Recently(k)) /\ Recently(k) \subseteq [at : Nat, nth : Nat]
  BY RecentlyShrinks DEF LimiterInv
<1>5. \A p \in Recently(k) : p.at \in Nat /\ ~(now <= p.at)
  BY <1>1, <1>3, <1>4
<1>6. Since(k)' \subseteq {e}
  BY <1>2, <1>5 DEF Since
<1>7. Before(k)' \subseteq Recently(k)
  BY <1>1, <1>2 DEF Before
<1>8. Cardinality(Since(k)') <= 1
  <2>1. IsFiniteSet({e}) /\ Cardinality({e}) = 1
    BY FS_Singleton
  <2> QED
    BY <1>6, <2>1, NoLarger
<1>9. Cardinality(Before(k)') \in Nat /\ Cardinality(Before(k)') <= Cardinality(Recently(k))
  BY <1>4, <1>7, NoLarger
<1>10. \A p \in allowed'[k] : p.at < buckets'[k].started + Window
  BY <1>1, <1>2, <1>3, <1>5
<1> QED
  BY <1>2, <1>3, <1>8, <1>9, <1>10 DEF PassagesOf

\* The calls of allow that a request makes, whatever its subjects.
LEMMA CountKeepsLimiter ==
  ASSUME LimiterInv, NEW keys, Count(keys), now' = now
  PROVE  LimiterInv'
<1> USE GateAssumption
<1>1. /\ DOMAIN buckets' = KeptBuckets \cup keys /\ DOMAIN allowed' = DOMAIN allowed \cup keys
      /\ \A k \in KeptBuckets \cup keys : buckets'[k] = IF k \in keys THEN Counted(k) ELSE buckets[k]
      /\ \A k \in DOMAIN allowed \cup keys :
            allowed'[k] = IF k \in keys /\ Allowed(k) THEN LetThrough(k) ELSE Recently(k)
  BY DEF Count
<1>2. /\ KeptBuckets \subseteq DOMAIN buckets /\ DOMAIN buckets \subseteq DOMAIN allowed /\ now \in Nat
      /\ \A k \in DOMAIN buckets : buckets[k] \in [started : 0..now, count : 1..Limit]
  BY DEF LimiterInv, LimiterTypeOK, KeptBuckets
<1>3. \A k \in DOMAIN buckets \ KeptBuckets : ~Current(buckets[k])
  BY DEF KeptBuckets
<1>4. ASSUME NEW k \in keys
      PROVE  \/ /\ ~Stored(k) /\ Allowed(k) /\ Counted(k) = [started |-> now, count |-> 1]
                /\ k \notin DOMAIN buckets \/ ~Current(buckets[k])
             \/ /\ Stored(k) /\ Allowed(k) /\ k \in DOMAIN buckets /\ Current(buckets[k])
                /\ buckets[k].count < Limit
                /\ Counted(k) = [buckets[k] EXCEPT !.count = buckets[k].count + 1]
             \/ /\ Stored(k) /\ ~Allowed(k) /\ k \in DOMAIN buckets
                /\ Counted(k) = [buckets[k] EXCEPT !.count = buckets[k].count]
  BY <1>2, <1>3 DEF Stored, Allowed, Counted
<1>5. ASSUME NEW k \in DOMAIN buckets' PROVE buckets'[k] \in [started : 0..now', count : 1..Limit]
  <2>1. CASE k \notin keys
    BY <1>1, <1>2, <2>1
  <2>2. CASE k \in keys
    BY <1>1, <1>2, <1>4, <2>2
  <2> QED
    BY <2>1, <2>2
<1>6. ASSUME NEW k
      PROVE  LetThrough(k) = Recently(k) \cup
                {[at |-> now, nth |-> Cardinality({p \in Recently(k) : p.at = now})]}
  BY DEF LetThrough
<1>7. ASSUME NEW k \in DOMAIN allowed'
      PROVE  IsFiniteSet(allowed'[k]) /\ allowed'[k] \subseteq [at : Nat, nth : Nat]
  <2>1. IsFiniteSet(Recently(k)) /\ Recently(k) \subseteq [at : Nat, nth : Nat]
    BY RecentlyShrinks DEF LimiterInv
  <2>2. Cardinality({p \in Recently(k) : p.at = now}) \in Nat
    BY <2>1, NoLarger
  <2>3. IsFiniteSet(LetThrough(k)) /\ LetThrough(k) \subseteq [at : Nat, nth : Nat]
    <3> DEFINE e == [at |-> now, nth |-> Cardinality({p \in Recently(k) : p.at = now})]
    <3>1. LetThrough(k) = Recently(k) \cup {e} /\ e \in [at : Nat, nth : Nat]
      BY <1>2, <1>6, <2>2
    <3> HIDE DEF e
    <3>2. IsFiniteSet(Recently(k) \cup {e})
      BY <2>1, FS_AddElement
    <3> QED
      BY <2>1, <3>1, <3>2
  <2> QED
    BY <1>1, <2>1, <2>3
<1>8. ASSUME NEW k \in DOMAIN allowed' PROVE PassagesOf(k)'
  <2>1. CASE k \in keys
    <3>1. k \in DOMAIN buckets' /\ buckets'[k] = Counted(k)
      BY <1>1, <2>1
    <3>2. CASE ~Stored(k)
      BY <1>1, <1>4, <1>6, <2>1, <3>1, <3>2, BucketStarts
    <3>3. CASE Stored(k) /\ Allowed(k)
      <4>1. /\ k \in DOMAIN buckets /\ Current(buckets[k])
            /\ buckets'[k] = [buckets[k] EXCEPT !.count = buckets[k].count + 1]
            /\ allowed'[k] = LetThrough(k)
        BY <1>1, <1>4, <2>1, <3>1, <3>3
      <4>2. buckets'[k].started = buckets[k].started /\ buckets'[k].count = buckets[k].count + 1
        BY <1>2, <4>1
      <4> QED
        BY <1>6, <3>1, <4>1, <4>2, BucketGoesOn
    <3>4. CASE Stored(k) /\ ~Allowed(k)
      <4>1. /\ k \in DOMAIN buckets /\ allowed'[k] = Recently(k)
            /\ buckets'[k] = [buckets[k] EXCEPT !.count = buckets[k].count]
        BY <1>1, <1>4, <2>1, <3>1, <3>4
      <4>2. buckets'[k].started = buckets[k].started /\ buckets'[k].count = buckets[k].count
        BY <1>2, <4>1
      <4> QED
        BY <3>1, <4>1, <4>2, BucketGoesOn
    <3> QED
      BY <3>2, <3>3, <3>4
  <2>2. CASE k \notin keys /\ k \in KeptBuckets
    BY <1>1, <1>2, <2>2, BucketGoesOn
  <2>3. CASE k \notin keys /\ k \notin KeptBuckets
    <3>1. k \notin DOMAIN buckets' /\ allowed'[k] = Recently(k)
      BY <1>1, <2>3
    <3>2. Cardinality(Recently(k)) <= Limit /\ \A p \in Recently(k) : p.at < now
      BY <1>3, <2>3, RecentIsOfOneBucket
    <3> QED
      BY <3>1, <3>2 DEF PassagesOf
  <2> QED
    BY <2>1, <2>2, <2>3
<1>9. LimiterTypeOK'
  BY <1>1, <1>2, <1>5, <1>7 DEF LimiterTypeOK
<1>10. PassagesAreCounted'
  BY <1>8 DEF PassagesAreCounted, PassagesOf
<1> QED
  BY <1>9, <1>10 DEF LimiterInv

\* The clock moves on.
LEMMA TickKeepsLimiter ==
  ASSUME LimiterInv, now' \in Nat, now <= now', UNCHANGED <<buckets, allowed>>
  PROVE  LimiterInv'
<1>1. now \in Nat /\ 0..now \subseteq 0..now'
  BY DEF LimiterInv, LimiterTypeOK
<1>2. LimiterTypeOK'
  BY <1>1 DEF LimiterInv, LimiterTypeOK
<1>3. ASSUME NEW k \in DOMAIN allowed, k \notin DOMAIN buckets
      PROVE  \A p \in allowed[k] : p.at < now'
  <2>1. \A p \in allowed[k] : p.at < now /\ p.at \in Nat
    BY <1>3 DEF LimiterInv, LimiterTypeOK, PassagesAreCounted
  <2> QED
    BY <1>1, <2>1
<1>4. PassagesAreCounted'
  BY <1>3 DEF LimiterInv, PassagesAreCounted, Since, Before
<1> QED
  BY <1>2, <1>4 DEF LimiterInv

\* A bucket's own passages and those of the one before it make two windows.
LEMMA TwoWindows == LimiterInv => NoBurstBeyondTwoWindows
<1> USE GateAssumption
<1>1. SUFFICES ASSUME LimiterInv, NEW k \in DOMAIN allowed
               PROVE  Cardinality(allowed[k]) <= 2 * Limit
  BY DEF NoBurstBeyondTwoWindows
<1>2. IsFiniteSet(allowed[k]) /\ allowed[k] \subseteq [at : Nat, nth : Nat]
  BY <1>1 DEF LimiterInv, LimiterTypeOK
<1>3. Cardinality(allowed[k]) \in Nat
  BY <1>2, FS_CardinalityType
<1>4. CASE k \notin DOMAIN buckets
  <2>1. Cardinality(allowed[k]) <= Limit
    BY <1>1, <1>4 DEF LimiterInv, PassagesAreCounted
  <2> QED
    BY <1>3, <2>1
<1>5. CASE k \in DOMAIN buckets
  <2>1. buckets[k].started \in Nat /\ buckets[k].count \in 1..Limit
    BY <1>1, <1>5 DEF LimiterInv, LimiterTypeOK
  <2>2. Cardinality(Since(k)) <= buckets[k].count /\ Cardinality(Before(k)) <= Limit
    BY <1>1, <1>5 DEF LimiterInv, PassagesAreCounted
  <2>3. allowed[k] = Since(k) \cup Before(k)
    BY <1>2, <2>1 DEF Since, Before
  <2>4. IsFiniteSet(Since(k)) /\ IsFiniteSet(Before(k)) /\ IsFiniteSet(Since(k) \cap Before(k))
    BY <1>2, <2>3, NoLarger
  <2>5. /\ Cardinality(Since(k)) \in Nat /\ Cardinality(Before(k)) \in Nat
        /\ Cardinality(Since(k) \cap Before(k)) \in Nat
    BY <2>4, FS_CardinalityType
  <2>6. Cardinality(allowed[k])
          = Cardinality(Since(k)) + Cardinality(Before(k)) - Cardinality(Since(k) \cap Before(k))
    BY <2>3, <2>4, FS_Union
  <2> QED
    BY <1>3, <2>1, <2>2, <2>5, <2>6
<1> QED
  BY <1>4, <1>5

-----------------------------------------------------------------------------
(* Turnstile.                                                              *)

\* A response that is verified was not accepted before: what the memory has
\* dropped, siteverify no longer vouches for.
LEMMA VerifiedIsNew ==
  ASSUME VerifierInv, now \in Nat, NEW t \in Tokens, NEW answered, Verifies(t, answered)
  PROVE  accepted[t] = 0
<1> USE GateAssumption
<1>1. t \notin Remembered /\ Issued[t] \in Nat /\ Issued[t] <= now /\ now < Issued[t] + TokenLifetime
  BY DEF Verifies, Siteverify
<1>2. accepted[t] \in Nat /\ accepted[t] <= 1
  BY DEF VerifierInv, VerifierTypeOK, ResponseAcceptedOnce
<1>3. SUFFICES ASSUME accepted[t] = 1 PROVE FALSE
  BY <1>2
<1>4. t \in DOMAIN used /\ used[t] \in Nat /\ Issued[t] <= used[t]
  BY <1>1, <1>3 DEF VerifierInv, AcceptedIsKnown, VerifierTypeOK
<1>5. now - used[t] >= ReplayMemory
  BY <1>1, <1>4 DEF Remembered
<1> QED
  BY <1>1, <1>4, <1>5

\* What the memory drops is too old to be accepted again.
LEMMA DroppedIsOld ==
  ASSUME VerifierInv, now \in Nat, NEW t \in DOMAIN used, t \notin Remembered
  PROVE  Issued[t] + TokenLifetime <= now
<1> USE GateAssumption
<1>1. t \in Tokens /\ Issued[t] \in Nat /\ used[t] \in Nat /\ Issued[t] <= used[t]
  BY DEF VerifierInv, VerifierTypeOK, AcceptedIsKnown
<1>2. now - used[t] >= ReplayMemory
  BY <1>1 DEF Remembered
<1> QED
  BY <1>1, <1>2

LEMMA UseKeepsVerifier ==
  ASSUME VerifierInv, now \in Nat, now' = now, NEW t \in Tokens, NEW answered \in BOOLEAN,
         Use(t, Verifies(t, answered))
  PROVE  VerifierInv'
<1> USE GateAssumption
<1> DEFINE ok == Verifies(t, answered)
<1>1. /\ used' = [u \in Remembered \cup (IF ok THEN {t} ELSE {}) |-> IF ok /\ u = t THEN now ELSE used[u]]
      /\ accepted' = [accepted EXCEPT ![t] = IF ok THEN accepted[t] + 1 ELSE accepted[t]]
  BY DEF Use
<1>2. /\ Remembered \subseteq DOMAIN used /\ DOMAIN used \subseteq Tokens
      /\ \A u \in DOMAIN used : used[u] \in Nat /\ Issued[u] <= used[u]
      /\ accepted \in [Tokens -> Nat] /\ \A u \in Tokens : accepted[u] <= 1
  BY DEF VerifierInv, VerifierTypeOK, AcceptedIsKnown, ResponseAcceptedOnce, Remembered
<1>3. ok => accepted[t] = 0 /\ Issued[t] <= now
  BY VerifiedIsNew DEF Verifies, Siteverify
<1>4. \A u \in Tokens : accepted[u] = 1 => u \in Remembered \/ Issued[u] + TokenLifetime <= now
  BY DroppedIsOld DEF VerifierInv, AcceptedIsKnown
<1> HIDE DEF ok
<1>5. CASE ok
  <2>1. /\ DOMAIN used' = Remembered \cup {t}
        /\ \A u \in Remembered \cup {t} : used'[u] = IF u = t THEN now ELSE used[u]
    BY <1>1, <1>5
  <2>2. /\ accepted' \in [Tokens -> Nat] /\ accepted'[t] = 1
        /\ \A u \in Tokens : u # t => accepted'[u] = accepted[u]
    BY <1>1, <1>2, <1>3, <1>5
  <2> QED
    BY <1>2, <1>3, <1>4, <1>5, <2>1, <2>2
    DEF VerifierInv, VerifierTypeOK, AcceptedIsKnown, ResponseAcceptedOnce
<1>6. CASE ~ok
  <2>1. /\ DOMAIN used' = Remembered /\ \A u \in Remembered : used'[u] = used[u]
        /\ accepted' = accepted
    BY <1>1, <1>2, <1>6
  <2> QED
    BY <1>2, <1>4, <2>1 DEF VerifierInv, VerifierTypeOK, AcceptedIsKnown, ResponseAcceptedOnce
<1> QED
  BY <1>5, <1>6

LEMMA TickKeepsVerifier ==
  ASSUME VerifierInv, now \in Nat, now' \in Nat, now <= now', UNCHANGED <<used, accepted>>
  PROVE  VerifierInv'
<1> USE GateAssumption
<1>1. \A t \in Tokens : Issued[t] + TokenLifetime <= now => Issued[t] + TokenLifetime <= now'
  OBVIOUS
<1> QED
  BY <1>1 DEF VerifierInv, VerifierTypeOK, AcceptedIsKnown, ResponseAcceptedOnce

-----------------------------------------------------------------------------
(* The sign-in by one-time code.                                           *)

\* A sequence with one element replaced.
LEMMA Replacing ==
  ASSUME NEW S, NEW s \in Seq(S), NEW i \in 1..Len(s), NEW v \in S
  PROVE  /\ [s EXCEPT ![i] = v] \in Seq(S) /\ Len([s EXCEPT ![i] = v]) = Len(s)
         /\ DOMAIN [s EXCEPT ![i] = v] = DOMAIN s
         /\ [s EXCEPT ![i] = v][i] = v
         /\ \A j \in 1..Len(s) : j # i => [s EXCEPT ![i] = v][j] = s[j]
OBVIOUS

LEMMA ElementOf ==
  ASSUME NEW S, NEW s \in Seq(S), NEW i \in 1..Len(s)
  PROVE  s[i] \in S
OBVIOUS

\* No context opened two sessions.
OpenedOnce == \A i, j \in DOMAIN opened : opened[i].context = opened[j].context => i = j

\* Then the code of a session was the last one of its context.
LEMMA OneSession ==
  SignInTypeOK /\ ChallengeIsTheLatest /\ OpenedIsUsedUp /\ OpenedOnce => CodeOpensOneSession
<1>1. SUFFICES ASSUME SignInTypeOK, ChallengeIsTheLatest, OpenedIsUsedUp, OpenedOnce
               PROVE  CodeOpensOneSession
  OBVIOUS
<1>2. \A n \in DOMAIN tries : tries[n] <= MaxAttempts
  BY <1>1, SignInAssumption DEF SignInTypeOK
<1>3. ASSUME NEW i \in DOMAIN opened
      PROVE  LET o == opened[i] IN
             /\ mail[o.code].context = o.context
             /\ o.at < mail[o.code].at + OtpLifetime
             /\ tries[o.code] < MaxAttempts
             /\ \A n \in DOMAIN mail : n > o.code /\ mail[n].context = o.context => mail[n].at > o.at
  <2> DEFINE o == opened[i]
  <2>1. /\ o.context \in DOMAIN challenges /\ o.code = challenges[o.context].code
        /\ o.at < mail[o.code].at + OtpLifetime
        /\ challenges[o.context].attempts < MaxAttempts
    BY <1>1 DEF OpenedIsUsedUp
  <2>2. /\ o.code \in DOMAIN mail /\ mail[o.code].context = o.context
        /\ tries[o.code] < MaxAttempts
        /\ \A n \in DOMAIN mail : mail[n].context = o.context => n <= o.code
    BY <1>1, <2>1 DEF ChallengeIsTheLatest
  <2>3. \A n \in DOMAIN mail : n \in Nat
    BY <1>1 DEF SignInTypeOK
  <2> HIDE DEF o
  <2>4. \A n \in DOMAIN mail : n > o.code /\ mail[n].context = o.context => FALSE
    BY <2>2, <2>3
  <2> QED
    BY <2>1, <2>2, <2>4 DEF o
<1> QED
  BY <1>1, <1>2, <1>3 DEF CodeOpensOneSession, OpenedOnce

\* What the invariant says, sequence by sequence.
LEMMA SignInFacts ==
  ASSUME SignInInv
  PROVE  /\ SignInTypeOK /\ ChallengeIsTheLatest /\ OpenedIsUsedUp /\ OpenedOnce
         /\ Len(contexts) \in Nat /\ DOMAIN contexts = 1..Len(contexts)
         /\ Len(mail) \in Nat /\ DOMAIN mail = 1..Len(mail) /\ DOMAIN tries = 1..Len(mail)
         /\ Len(opened) \in Nat /\ DOMAIN opened = 1..Len(opened)
BY DEF SignInInv, CodeOpensOneSession, OpenedOnce, SignInTypeOK

LEMMA SignInAtRest ==
  ASSUME SignInInv, UNCHANGED <<contexts, challenges, mail, opened, tries>>
  PROVE  SignInInv'
BY DEF SignInInv, SignInTypeOK, ChallengeIsTheLatest, OpenedIsUsedUp, CodeOpensOneSession

LEMMA EstablishKeepsSignIn ==
  ASSUME SignInInv, now \in Nat, NEW i \in Invitations \cup {None}, Establish(i)
  PROVE  SignInInv'
<1> USE SignInAssumption
<1> DEFINE r == [invitation |-> IF ActiveInvitation(i) THEN i ELSE None,
                 expires |-> now + PreauthLifetime, consumed |-> FALSE]
<1>1. contexts' = Append(contexts, r) /\ UNCHANGED <<challenges, mail, opened, tries>>
  BY DEF Establish
<1>2. r \in [invitation : Invitations \cup {None}, expires : Nat, consumed : BOOLEAN]
  BY DEF ActiveInvitation
<1> HIDE DEF r
<1>3. /\ contexts' \in Seq([invitation : Invitations \cup {None}, expires : Nat, consumed : BOOLEAN])
      /\ DOMAIN contexts \subseteq DOMAIN contexts'
      /\ \A c \in DOMAIN contexts : contexts'[c] = contexts[c]
  BY SMTT(30), <1>1, <1>2 DEF SignInInv, SignInTypeOK
<1>4. SignInTypeOK' /\ ChallengeIsTheLatest'
  BY <1>1, <1>3 DEF SignInInv, SignInTypeOK, ChallengeIsTheLatest
<1>5. OpenedIsUsedUp' /\ OpenedOnce'
  BY <1>1, <1>3, SignInFacts DEF SignInTypeOK, OpenedIsUsedUp, OpenedOnce
<1>6. CodeOpensOneSession'
  BY <1>4, <1>5, OneSession, PTL
<1> QED
  BY <1>4, <1>5, <1>6 DEF SignInInv

\* A new code takes the place of the earlier one, in a context that is live.
LEMMA IssueKeepsSignIn ==
  ASSUME SignInInv, now \in Nat, NEW c, IssueCode(c), UNCHANGED <<contexts, opened>>
  PROVE  SignInInv'
<1> USE SignInAssumption
<1> DEFINE n == Len(mail) + 1
           x == [code |-> n, expires |-> now + OtpLifetime, attempts |-> 0, consumed |-> FALSE]
           m == [context |-> c, at |-> now]
<1>1. CASE ~(LiveContext(c) /\ ActiveInvitation(contexts[c].invitation))
  BY <1>1, SignInAtRest DEF IssueCode
<1>2. CASE LiveContext(c) /\ ActiveInvitation(contexts[c].invitation)
  <2>1. /\ challenges' = [k \in DOMAIN challenges \cup {c} |-> IF k = c THEN x ELSE challenges[k]]
        /\ mail' = Append(mail, m) /\ tries' = Append(tries, 0)
    BY <1>2 DEF IssueCode, NewChallenge
  <2>2. c \in DOMAIN contexts /\ ~contexts[c].consumed
    BY <1>2 DEF LiveContext
  <2>3. /\ Len(mail) \in Nat /\ DOMAIN mail = 1..Len(mail) /\ Len(tries) = Len(mail)
        /\ mail \in Seq([context : Nat, at : Nat]) /\ tries \in Seq(0..MaxAttempts)
        /\ DOMAIN contexts = 1..Len(contexts) /\ Len(contexts) \in Nat
        /\ DOMAIN challenges \subseteq DOMAIN contexts
    BY SignInFacts DEF SignInTypeOK
  <2>4. /\ m \in [context : Nat, at : Nat] /\ m.context = c /\ m.at = now
        /\ x.code = n /\ x.expires = now + OtpLifetime /\ x.attempts = 0
        /\ x \in [code : Nat, expires : Nat, attempts : 0..MaxAttempts, consumed : BOOLEAN]
    BY <2>2, <2>3
  <2> HIDE DEF x, m
  <2>5. /\ mail' \in Seq([context : Nat, at : Nat]) /\ tries' \in Seq(0..MaxAttempts)
        /\ Len(tries') = Len(mail') /\ DOMAIN mail' = 1..n
        /\ mail'[n] = m /\ tries'[n] = 0
        /\ \A j \in 1..Len(mail) : mail'[j] = mail[j] /\ tries'[j] = tries[j]
    BY <2>1, <2>3, <2>4
  <2>6. /\ DOMAIN challenges' = DOMAIN challenges \cup {c} /\ challenges'[c] = x
        /\ \A d \in DOMAIN challenges : d # c => challenges'[d] = challenges[d]
    BY <2>1
  <2>7. SignInTypeOK'
    BY <2>2, <2>4, <2>5, <2>6 DEF SignInInv, SignInTypeOK
  <2>8. ASSUME NEW d \in DOMAIN challenges'
        PROVE  LET y == challenges'[d] IN
               /\ y.code \in DOMAIN mail' /\ mail'[y.code].context = d
               /\ y.expires = mail'[y.code].at + OtpLifetime
               /\ tries'[y.code] = y.attempts
               /\ \A j \in DOMAIN mail' : mail'[j].context = d => j <= y.code
    <3>1. CASE d = c
      BY SMTT(30), <2>3, <2>4, <2>5, <2>6, <3>1
    <3>2. CASE d # c
      <4>1. LET y == challenges[d] IN
            /\ y.code \in 1..Len(mail) /\ mail[y.code].context = d
            /\ y.expires = mail[y.code].at + OtpLifetime
            /\ tries[y.code] = y.attempts
            /\ \A j \in 1..Len(mail) : mail[j].context = d => j <= y.code
        BY <2>3, <2>6, <3>2 DEF SignInInv, ChallengeIsTheLatest
      <4>2. challenges'[d] = challenges[d] /\ \A j \in 1..n : j = n \/ j \in 1..Len(mail)
        <5>1. challenges'[d] = challenges[d]
          BY <2>6, <3>2
        <5>2. \A k \in Nat : \A j \in 1..(k + 1) : j = k + 1 \/ j \in 1..k
          OBVIOUS
        <5> QED
          BY <2>3, <5>1, <5>2
      <4>3. \A j \in DOMAIN mail' : mail'[j].context = d => j <= challenges[d].code
        <5>1. ASSUME NEW j \in DOMAIN mail', mail'[j].context = d
              PROVE  j <= challenges[d].code
          <6>1. j # n
            BY <2>4, <2>5, <3>2, <5>1
          <6>2. j \in 1..Len(mail) /\ mail'[j] = mail[j]
            BY <2>5, <4>2, <6>1
          <6> QED
            BY <4>1, <5>1, <6>2
        <5> QED
          BY <5>1
      <4>4. mail'[challenges[d].code] = mail[challenges[d].code]
            /\ tries'[challenges[d].code] = tries[challenges[d].code]
            /\ challenges[d].code \in DOMAIN mail'
        <5>1. challenges[d].code \in 1..Len(mail)
          BY <4>1
        <5>2. 1..Len(mail) \subseteq DOMAIN mail'
          BY <2>3, <2>5
        <5> QED
          BY ONLY <2>5, <5>1, <5>2
      <4> QED
        BY <4>1, <4>2, <4>3, <4>4
    <3> QED
      BY <3>1, <3>2
  <2>9. OpenedIsUsedUp'
    <3>1. ASSUME NEW i \in DOMAIN opened
          PROVE  LET o == opened[i] IN
                 /\ o.context \in DOMAIN challenges' /\ contexts[o.context].consumed
                 /\ o.code = challenges'[o.context].code
                 /\ o.at < mail'[o.code].at + OtpLifetime
                 /\ challenges'[o.context].attempts < MaxAttempts
      <4>1. LET o == opened[i] IN
            /\ o.context \in DOMAIN challenges /\ contexts[o.context].consumed
            /\ o.code = challenges[o.context].code /\ o.code \in 1..Len(mail)
            /\ o.at < mail[o.code].at + OtpLifetime
            /\ challenges[o.context].attempts < MaxAttempts
        BY <2>3 DEF SignInInv, OpenedIsUsedUp, ChallengeIsTheLatest
      <4> QED
        BY <2>2, <2>5, <2>6, <4>1
    <3> QED
      BY <3>1 DEF OpenedIsUsedUp
  <2>10. ChallengeIsTheLatest' /\ OpenedOnce'
    BY <2>8, SignInFacts DEF ChallengeIsTheLatest, OpenedOnce
  <2>11. CodeOpensOneSession'
    BY <2>7, <2>9, <2>10, OneSession, PTL
  <2> QED
    BY <2>7, <2>9, <2>10, <2>11 DEF SignInInv
<1> QED
  BY <1>1, <1>2

\* A wrong guess is counted against the context's code, a right one uses the
\* context up.
LEMMA VerifyKeepsSignIn ==
  ASSUME SignInInv, now \in Nat, NEW c, NEW code, VerifyCode(c, code), mail' = mail
  PROVE  SignInInv'
<1> USE SignInAssumption
<1> DEFINE x == challenges[c]
<1>1. CASE ~WrongCode(c, code) /\ ~RightCode(c, code)
  BY <1>1, SignInAtRest DEF VerifyCode
<1>2. ASSUME Comparable(c)
      PROVE  /\ c \in DOMAIN challenges /\ c \in DOMAIN contexts /\ ~contexts[c].consumed
             /\ now < x.expires /\ x.attempts < MaxAttempts
             /\ x \in [code : Nat, expires : Nat, attempts : 0..MaxAttempts, consumed : BOOLEAN]
             /\ x.code \in 1..Len(mail) /\ mail[x.code].context = c /\ tries[x.code] = x.attempts
             /\ x.expires = mail[x.code].at + OtpLifetime
  BY <1>2, SignInFacts DEF Comparable, LiveContext, SignInTypeOK, ChallengeIsTheLatest
<1>3. CASE WrongCode(c, code)
  <2>1. /\ challenges' = [challenges EXCEPT ![c] = [challenges[c] EXCEPT !.attempts = challenges[c].attempts + 1]]
        /\ tries' = [tries EXCEPT ![x.code] = tries[x.code] + 1]
        /\ contexts' = contexts /\ opened' = opened
    BY <1>3 DEF VerifyCode, WrongCode, RightCode
  <2>2. /\ c \in DOMAIN challenges /\ x.attempts < MaxAttempts
        /\ x \in [code : Nat, expires : Nat, attempts : 0..MaxAttempts, consumed : BOOLEAN]
        /\ x.code \in 1..Len(mail) /\ mail[x.code].context = c /\ tries[x.code] = x.attempts
    BY <1>2, <1>3 DEF WrongCode
  <2>3. /\ DOMAIN challenges' = DOMAIN challenges
        /\ challenges'[c] = [x EXCEPT !.attempts = x.attempts + 1]
        /\ \A d \in DOMAIN challenges : d # c => challenges'[d] = challenges[d]
    BY <2>1, <2>2
  <2>4. /\ challenges'[c] \in [code : Nat, expires : Nat, attempts : 0..MaxAttempts, consumed : BOOLEAN]
        /\ challenges'[c].code = x.code /\ challenges'[c].expires = x.expires
        /\ challenges'[c].attempts = x.attempts + 1
    <3>1. \A y \in [code : Nat, expires : Nat, attempts : 0..MaxAttempts, consumed : BOOLEAN] :
             y.attempts < MaxAttempts =>
                LET z == [y EXCEPT !.attempts = y.attempts + 1] IN
                /\ z \in [code : Nat, expires : Nat, attempts : 0..MaxAttempts, consumed : BOOLEAN]
                /\ z.code = y.code /\ z.expires = y.expires /\ z.attempts = y.attempts + 1
      BY ONLY SignInAssumption
    <3>2. PICK y : y = x
      OBVIOUS
    <3> QED
      BY ONLY <2>2, <2>3, <3>1, <3>2
  <2> HIDE DEF x
  <2>5. /\ tries' \in Seq(0..MaxAttempts) /\ Len(tries') = Len(mail)
        /\ tries'[x.code] = x.attempts + 1
        /\ \A j \in 1..Len(mail) : j # x.code => tries'[j] = tries[j]
    <3>1. tries \in Seq(0..MaxAttempts) /\ x.code \in 1..Len(tries) /\ Len(tries) = Len(mail)
      BY <2>2, SignInFacts DEF SignInTypeOK
    <3>2. tries[x.code] + 1 \in 0..MaxAttempts /\ tries[x.code] + 1 = x.attempts + 1
      BY <2>2
    <3> QED
      BY SMTT(30), <2>1, <3>1, <3>2, Replacing
  <2>6. SignInTypeOK'
    BY <2>1, <2>3, <2>4, <2>5 DEF SignInInv, SignInTypeOK
  <2>7. ChallengeIsTheLatest'
    <3>1. ASSUME NEW d \in DOMAIN challenges
          PROVE  LET y == challenges'[d] IN
                 /\ y.code \in DOMAIN mail /\ mail[y.code].context = d
                 /\ y.expires = mail[y.code].at + OtpLifetime
                 /\ tries'[y.code] = y.attempts
                 /\ \A j \in DOMAIN mail : mail[j].context = d => j <= y.code
      <4>1. LET y == challenges[d] IN
            /\ y.code \in DOMAIN mail /\ mail[y.code].context = d
            /\ y.expires = mail[y.code].at + OtpLifetime
            /\ tries[y.code] = y.attempts
            /\ \A j \in DOMAIN mail : mail[j].context = d => j <= y.code
        BY DEF SignInInv, ChallengeIsTheLatest
      <4>2. CASE d = c
        BY <2>4, <2>5, <4>1, <4>2 DEF x
      <4>3. CASE d # c
        BY ZenonT(60), <2>2, <2>3, <2>5, <4>1, <4>3, SignInFacts
      <4> QED
        BY <4>2, <4>3
    <3> QED
      BY <2>3, <3>1 DEF ChallengeIsTheLatest
  <2>8. OpenedIsUsedUp' /\ OpenedOnce'
    <3>1. \A d \in DOMAIN challenges : challenges'[d].code = challenges[d].code
      BY <2>3, <2>4 DEF x
    <3>2. \A i \in DOMAIN opened : opened[i].context # c
      BY <1>2, <1>3, SignInFacts DEF WrongCode, OpenedIsUsedUp
    <3> QED
      BY SMTT(30), <2>1, <2>3, <3>1, <3>2, SignInFacts DEF OpenedIsUsedUp, OpenedOnce
  <2>9. CodeOpensOneSession'
    BY <2>6, <2>7, <2>8, OneSession, PTL
  <2> QED
    BY <2>6, <2>7, <2>8, <2>9 DEF SignInInv
<1>4. CASE RightCode(c, code)
  <2> DEFINE o == [code |-> code, context |-> c, at |-> now]
  <2>1. /\ challenges' = [challenges EXCEPT ![c] = [challenges[c] EXCEPT !.consumed = TRUE]]
        /\ tries' = tries
        /\ contexts' = [contexts EXCEPT ![c] = [contexts[c] EXCEPT !.consumed = TRUE]]
        /\ opened' = Append(opened, o) /\ code = x.code
    BY <1>4 DEF VerifyCode, WrongCode, RightCode
  <2>2. /\ c \in DOMAIN challenges /\ c \in DOMAIN contexts /\ ~contexts[c].consumed
        /\ now < x.expires /\ x.attempts < MaxAttempts
        /\ x \in [code : Nat, expires : Nat, attempts : 0..MaxAttempts, consumed : BOOLEAN]
        /\ x.code \in 1..Len(mail) /\ mail[x.code].context = c
        /\ x.expires = mail[x.code].at + OtpLifetime
    BY <1>2, <1>4 DEF RightCode
  <2>3. /\ DOMAIN challenges' = DOMAIN challenges
        /\ challenges'[c] = [x EXCEPT !.consumed = TRUE]
        /\ \A d \in DOMAIN challenges : d # c => challenges'[d] = challenges[d]
    BY <2>1, <2>2
  <2>4. /\ challenges'[c] \in [code : Nat, expires : Nat, attempts : 0..MaxAttempts, consumed : BOOLEAN]
        /\ challenges'[c].code = x.code /\ challenges'[c].expires = x.expires
        /\ challenges'[c].attempts = x.attempts
    BY <2>2, <2>3
  <2>5. /\ o \in [code : Nat, context : Nat, at : Nat] /\ o.code = x.code /\ o.context = c /\ o.at = now
    BY SMTT(30), <2>1, <2>2, SignInFacts
  <2> HIDE DEF x, o
  <2>6. /\ contexts' \in Seq([invitation : Invitations \cup {None}, expires : Nat, consumed : BOOLEAN])
        /\ DOMAIN contexts' = DOMAIN contexts /\ contexts'[c].consumed
        /\ \A d \in DOMAIN contexts : d # c => contexts'[d] = contexts[d]
    <3> DEFINE r == [contexts[c] EXCEPT !.consumed = TRUE]
    <3>1. /\ contexts \in Seq([invitation : Invitations \cup {None}, expires : Nat, consumed : BOOLEAN])
          /\ c \in 1..Len(contexts) /\ DOMAIN contexts = 1..Len(contexts)
      BY <2>2, SignInFacts DEF SignInTypeOK
    <3>2. contexts[c] \in [invitation : Invitations \cup {None}, expires : Nat, consumed : BOOLEAN]
      BY ONLY <3>1, ElementOf
    <3>3. r \in [invitation : Invitations \cup {None}, expires : Nat, consumed : BOOLEAN] /\ r.consumed
      BY ONLY <3>2
    <3>4. contexts' = [contexts EXCEPT ![c] = r]
      BY <2>1
    <3> HIDE DEF r
    <3> QED
      BY <3>1, <3>3, <3>4, Replacing
  <2>7. /\ opened' \in Seq([code : Nat, context : Nat, at : Nat])
        /\ DOMAIN opened' = 1..(Len(opened) + 1) /\ opened'[Len(opened) + 1] = o
        /\ \A i \in 1..Len(opened) : opened'[i] = opened[i]
    BY <2>1, <2>5, SignInFacts DEF SignInTypeOK
  <2>8. SignInTypeOK'
    BY <2>1, <2>3, <2>4, <2>6, <2>7 DEF SignInInv, SignInTypeOK
  <2>9. /\ \A d \in DOMAIN challenges :
              /\ challenges'[d].code = challenges[d].code
              /\ challenges'[d].expires = challenges[d].expires
              /\ challenges'[d].attempts = challenges[d].attempts
    BY <2>3, <2>4 DEF x
  <2>10. ChallengeIsTheLatest'
    BY <2>1, <2>3, <2>9 DEF SignInInv, ChallengeIsTheLatest
  <2>11. \A i \in 1..Len(opened) : opened[i].context # c
    BY <2>2, SignInFacts DEF OpenedIsUsedUp
  <2>12. Len(opened) \in Nat /\ \A i \in DOMAIN opened' : i = Len(opened) + 1 \/ i \in 1..Len(opened)
    BY <2>7, SignInFacts
  <2>13. OpenedOnce'
    <3>1. \A i, j \in 1..Len(opened) : opened[i].context = opened[j].context => i = j
      BY SignInFacts DEF OpenedOnce
    <3> QED
      BY <2>5, <2>7, <2>11, <2>12, <3>1 DEF OpenedOnce
  <2>14. OpenedIsUsedUp'
    <3>1. ASSUME NEW i \in DOMAIN opened'
          PROVE  LET p == opened'[i] IN
                 /\ p.context \in DOMAIN challenges' /\ contexts'[p.context].consumed
                 /\ p.code = challenges'[p.context].code
                 /\ p.at < mail[p.code].at + OtpLifetime
                 /\ challenges'[p.context].attempts < MaxAttempts
      <4>1. CASE i = Len(opened) + 1
        BY ZenonT(60), <2>2, <2>3, <2>4, <2>5, <2>6, <2>7, <4>1
      <4>2. CASE i \in 1..Len(opened)
        <5>1. LET p == opened[i] IN
              /\ p.context \in DOMAIN challenges /\ contexts[p.context].consumed
              /\ p.context \in DOMAIN contexts
              /\ p.code = challenges[p.context].code
              /\ p.at < mail[p.code].at + OtpLifetime
              /\ challenges[p.context].attempts < MaxAttempts
          BY <4>2, SignInFacts DEF OpenedIsUsedUp, SignInTypeOK
        <5>2. opened'[i] = opened[i] /\ DOMAIN challenges' = DOMAIN challenges
          BY <2>3, <2>7, <4>2
        <5>3. PICK d : d = opened[i].context
          OBVIOUS
        <5>4. contexts'[d].consumed
          BY <2>6, <5>1, <5>3
        <5>5. /\ challenges'[d].code = challenges[d].code
              /\ challenges'[d].attempts = challenges[d].attempts
          BY <2>9, <5>1, <5>3
        <5> QED
          BY ONLY <5>1, <5>2, <5>3, <5>4, <5>5
      <4> QED
        BY <2>12, <4>1, <4>2
    <3> QED
      BY <3>1 DEF OpenedIsUsedUp
  <2>15. CodeOpensOneSession'
    BY <2>8, <2>10, <2>13, <2>14, OneSession, PTL
  <2> QED
    BY <2>8, <2>10, <2>14, <2>15 DEF SignInInv
<1> QED
  BY <1>1, <1>3, <1>4

-----------------------------------------------------------------------------
(* The links of Entra identities.                                          *)

\* LinksAreOneToOne, request by request and link by link.
LinksMatch ==
  /\ \A i, j \in identities : i.application = j.application \/ i.object = j.object => i = j
  /\ \A r, q \in DOMAIN access :
        access[r].status \in {"PENDING", "APPROVED"} /\ access[q].status \in {"PENDING", "APPROVED"}
        /\ access[r].email = access[q].email => r = q
  /\ \A r, q \in DOMAIN access :
        access[r].status = "PROVISIONED" /\ access[q].status = "PROVISIONED"
        /\ access[r].object = access[q].object => r = q
  /\ \A r \in DOMAIN access : access[r].status = "PROVISIONED" =>
        \E i \in identities : i.kind = "APPLICANT" /\ i.object = access[r].object
  /\ \A i \in identities : i.kind = "APPLICANT" =>
        \E r \in DOMAIN access : access[r].status = "PROVISIONED" /\ access[r].object = i.object

LEMMA LinksMatched == LinksMatch <=> LinksAreOneToOne
<1>1. ({access[r].object : r \in Open({"PROVISIONED"})}
         = {i.object : i \in {j \in identities : j.kind = "APPLICANT"}})
      <=> /\ \A r \in DOMAIN access : access[r].status = "PROVISIONED" =>
                \E i \in identities : i.kind = "APPLICANT" /\ i.object = access[r].object
          /\ \A i \in identities : i.kind = "APPLICANT" =>
                \E r \in DOMAIN access : access[r].status = "PROVISIONED" /\ access[r].object = i.object
  BY DEF Open
<1> QED
  BY <1>1 DEF LinksMatch, LinksAreOneToOne, Open

\* The requests change and the links do not.
LEMMA RequestsKeepLinks ==
  ASSUME LinksInv, UNCHANGED <<identities, members, candidates, script, record>>,
         access' \in Seq([email : Emails, status : Statuses, object : Emails \cup {None}]),
         LinksMatch'
  PROVE  LinksInv'
<1>1. LinksAreOneToOne'
  BY LinksMatched, PTL
<1> QED
  BY <1>1 DEF LinksInv, LinkTypeOK, RowsDoneAreMembers, OneToOne, IsMember, ActivatedApplicantCanSignIn

LEMMA LinksAtRest ==
  ASSUME LinksInv, UNCHANGED <<access, identities, members, candidates, script, record>>
  PROVE  LinksInv'
<1>1. LinksMatch
  BY LinksMatched DEF LinksInv
<1>2. LinksMatch'
  BY <1>1 DEF LinksMatch
<1> QED
  BY <1>2, RequestsKeepLinks DEF LinksInv, LinkTypeOK

LEMMA NewRequestKeepsLinks ==
  ASSUME LinksInv, NEW e \in Emails, access' = NewRequest(e),
         UNCHANGED <<identities, members, candidates, script, record>>
  PROVE  LinksInv'
<1> DEFINE x == [email |-> e, status |-> "PENDING", object |-> None]
<1>1. CASE Len(access) = MaxAccess \/ \E r \in Open({"PENDING", "APPROVED"}) : access[r].email = e
  BY <1>1, LinksAtRest DEF NewRequest
<1>2. CASE ~(Len(access) = MaxAccess \/ \E r \in Open({"PENDING", "APPROVED"}) : access[r].email = e)
  <2>1. access' = Append(access, x) /\ \A r \in Open({"PENDING", "APPROVED"}) : access[r].email # e
    BY <1>2 DEF NewRequest
  <2>2. /\ access \in Seq([email : Emails, status : Statuses, object : Emails \cup {None}])
        /\ x \in [email : Emails, status : Statuses, object : Emails \cup {None}]
        /\ x.email = e /\ x.status = "PENDING"
    BY DEF LinksInv, LinkTypeOK, Statuses
  <2> HIDE DEF x
  <2>3. /\ access' \in Seq([email : Emails, status : Statuses, object : Emails \cup {None}])
        /\ DOMAIN access = 1..Len(access) /\ DOMAIN access' = 1..(Len(access) + 1)
        /\ access'[Len(access) + 1] = x /\ Len(access) \in Nat
        /\ \A r \in 1..Len(access) : access'[r] = access[r]
    BY <2>1, <2>2
  <2>4. /\ \A r \in DOMAIN access' : r = Len(access) + 1 \/ r \in DOMAIN access
        /\ \A r \in DOMAIN access : r \in DOMAIN access' /\ access'[r] = access[r]
    BY <2>3
  <2>5. LinksMatch
    BY LinksMatched DEF LinksInv
  <2>6. \A r \in DOMAIN access : access[r].status \in {"PENDING", "APPROVED"} => access[r].email # e
    BY <2>1 DEF Open
  <2>7. LinksMatch'
    <3>1. /\ \A r, q \in DOMAIN access' :
                access'[r].status \in {"PENDING", "APPROVED"} /\ access'[q].status \in {"PENDING", "APPROVED"}
                /\ access'[r].email = access'[q].email => r = q
      BY <2>2, <2>3, <2>4, <2>5, <2>6 DEF LinksMatch
    <3>2. \A r \in DOMAIN access' : access'[r].status = "PROVISIONED" => r \in DOMAIN access
      BY <2>2, <2>3, <2>4
    <3> QED
      BY <2>4, <2>5, <3>1, <3>2 DEF LinksMatch
  <2> QED
    BY <2>3, <2>7, RequestsKeepLinks
<1> QED
  BY <1>1, <1>2

LEMMA RequestType ==
  ASSUME LinksInv, NEW r \in DOMAIN access
  PROVE  access[r] \in [email : Emails, status : Statuses, object : Emails \cup {None}]
<1>1. access \in Seq([email : Emails, status : Statuses, object : Emails \cup {None}])
      /\ r \in 1..Len(access)
  BY DEF LinksInv, LinkTypeOK
<1> QED
  BY ONLY <1>1, ElementOf

\* What a request becomes when one of its fields is set.
LEMMA RequestSet ==
  ASSUME LinksInv, NEW r \in DOMAIN access, NEW y,
         y \in [email : Emails, status : Statuses, object : Emails \cup {None}],
         access' = [access EXCEPT ![r] = y]
  PROVE  /\ access' \in Seq([email : Emails, status : Statuses, object : Emails \cup {None}])
         /\ DOMAIN access' = DOMAIN access /\ access'[r] = y
         /\ \A q \in DOMAIN access : q # r => access'[q] = access[q]
<1>1. access \in Seq([email : Emails, status : Statuses, object : Emails \cup {None}])
      /\ r \in 1..Len(access) /\ DOMAIN access = 1..Len(access)
  BY DEF LinksInv, LinkTypeOK
<1> QED
  BY <1>1, Replacing

LEMMA ReviewKeepsLinks ==
  ASSUME LinksInv, NEW r \in DOMAIN access, NEW decision \in {"APPROVED", "REJECTED"},
         ReviewAccess(r, decision)
  PROVE  LinksInv'
<1> DEFINE y == [access[r] EXCEPT !.status = decision]
<1>1. /\ access[r].status = "PENDING" /\ access' = [access EXCEPT ![r] = y]
      /\ UNCHANGED <<identities, members, candidates, script, record>>
  BY DEF ReviewAccess
<1>2. access[r] \in [email : Emails, status : Statuses, object : Emails \cup {None}]
  BY RequestType
<1>3. /\ y \in [email : Emails, status : Statuses, object : Emails \cup {None}]
      /\ y.email = access[r].email /\ y.status = decision /\ y.object = access[r].object
  BY <1>2 DEF Statuses
<1> HIDE DEF y
<1>4. /\ access' \in Seq([email : Emails, status : Statuses, object : Emails \cup {None}])
      /\ DOMAIN access' = DOMAIN access /\ access'[r] = y
      /\ \A q \in DOMAIN access : q # r => access'[q] = access[q]
  BY <1>1, <1>3, RequestSet
<1>5. LinksMatch
  BY LinksMatched DEF LinksInv
<1>6. LinksMatch'
  <2>1. \A q \in DOMAIN access :
           /\ access'[q].email = access[q].email /\ access'[q].object = access[q].object
           /\ access'[q].status = "PROVISIONED" <=> access[q].status = "PROVISIONED"
           /\ access'[q].status \in {"PENDING", "APPROVED"} => access[q].status \in {"PENDING", "APPROVED"}
    BY <1>1, <1>3, <1>4
  <2> QED
    BY <1>1, <1>4, <1>5, <2>1 DEF LinksMatch
<1> QED
  BY <1>1, <1>4, <1>6, RequestsKeepLinks

\* A link made for an approved request conflicts with none.
LEMMA ProvisionKeepsLinks ==
  ASSUME LinksInv, NEW r \in DOMAIN access, NEW a \in Applications, NEW e \in Emails,
         ProvisionAccess(r, a, e)
  PROVE  LinksInv'
<1> DEFINE y == [access[r] EXCEPT !.status = "PROVISIONED", !.object = e]
           l == Link(a, e, "APPLICANT")
<1>1. access[r] \in [email : Emails, status : Statuses, object : Emails \cup {None}]
  BY RequestType
<1>2. /\ access[r].status = "APPROVED" /\ \A i \in identities : i.application # a /\ i.object # e
      /\ access' = [access EXCEPT ![r] = y]
      /\ identities' = identities \cup {l}
      /\ UNCHANGED <<members, candidates, script, record>>
  BY <1>1 DEF ProvisionAccess, Provisionable, Conflicts
<1>3. /\ y \in [email : Emails, status : Statuses, object : Emails \cup {None}]
      /\ y.email = access[r].email /\ y.status = "PROVISIONED" /\ y.object = e
  BY <1>1 DEF Statuses
<1>4. /\ l \in [application : Applications \cup {Pilot}, object : Emails \cup {Pilot},
                kind : {"APPLICANT", "LEGACY_APPLICANT", "SYNTHETIC_TEST"}, enabled : BOOLEAN]
      /\ l.application = a /\ l.object = e /\ l.kind = "APPLICANT"
  BY DEF Link
<1> HIDE DEF y, l
<1>5. /\ access' \in Seq([email : Emails, status : Statuses, object : Emails \cup {None}])
      /\ DOMAIN access' = DOMAIN access /\ access'[r] = y
      /\ \A q \in DOMAIN access : q # r => access'[q] = access[q]
  BY <1>2, <1>3, RequestSet
<1>6. LinksMatch
  BY LinksMatched DEF LinksInv
<1>7. \A q \in DOMAIN access : access[q].status = "PROVISIONED" => q # r /\ access[q].object # e
  BY <1>2, <1>6 DEF LinksMatch
<1>8. LinksMatch'
  <2>1. \A i, j \in identities' : i.application = j.application \/ i.object = j.object => i = j
    BY <1>2, <1>4, <1>6 DEF LinksMatch
  <2>2. \A p, q \in DOMAIN access' :
           access'[p].status \in {"PENDING", "APPROVED"} /\ access'[q].status \in {"PENDING", "APPROVED"}
           /\ access'[p].email = access'[q].email => p = q
    BY <1>3, <1>5, <1>6 DEF LinksMatch
  <2>3. \A p, q \in DOMAIN access' :
           access'[p].status = "PROVISIONED" /\ access'[q].status = "PROVISIONED"
           /\ access'[p].object = access'[q].object => p = q
    BY <1>3, <1>5, <1>6, <1>7 DEF LinksMatch
  <2>4. \A q \in DOMAIN access' : access'[q].status = "PROVISIONED" =>
           \E i \in identities' : i.kind = "APPLICANT" /\ i.object = access'[q].object
    BY <1>2, <1>3, <1>4, <1>5, <1>6 DEF LinksMatch
  <2>5. \A i \in identities' : i.kind = "APPLICANT" =>
           \E q \in DOMAIN access' : access'[q].status = "PROVISIONED" /\ access'[q].object = i.object
    BY <1>2, <1>3, <1>4, <1>5, <1>6, <1>7 DEF LinksMatch
  <2> QED
    BY <2>1, <2>2, <2>3, <2>4, <2>5 DEF LinksMatch
<1>9. LinksAreOneToOne'
  BY <1>8, LinksMatched, PTL
<1>10. LinkTypeOK'
  BY <1>2, <1>4, <1>5 DEF LinksInv, LinkTypeOK
<1>11. ActivatedApplicantCanSignIn'
  BY <1>2, <1>4 DEF LinksInv, ActivatedApplicantCanSignIn, IsMember
<1>12. RowsDoneAreMembers'
  BY <1>2 DEF LinksInv, RowsDoneAreMembers, OneToOne, IsMember
<1> QED
  BY <1>9, <1>10, <1>11, <1>12 DEF LinksInv

\* A disabled identity keeps its application, its user and its kind.
LEMMA DisableKeepsLinks ==
  ASSUME LinksInv, NEW i \in identities, Disable(i)
  PROVE  LinksInv'
<1> DEFINE l == [i EXCEPT !.enabled = FALSE]
<1>1. /\ identities' = (identities \ {i}) \cup {l}
      /\ UNCHANGED <<access, members, candidates, script, record>>
  BY DEF Disable
<1>2. /\ l \in [application : Applications \cup {Pilot}, object : Emails \cup {Pilot},
                kind : {"APPLICANT", "LEGACY_APPLICANT", "SYNTHETIC_TEST"}, enabled : BOOLEAN]
      /\ l.application = i.application /\ l.object = i.object /\ l.kind = i.kind
  BY DEF LinksInv, LinkTypeOK
<1> HIDE DEF l
<1>3. LinksMatch
  BY LinksMatched DEF LinksInv
<1>4. LinksMatch'
  <2>1. \A j, k \in identities' : j.application = k.application \/ j.object = k.object => j = k
    BY <1>1, <1>2, <1>3 DEF LinksMatch
  <2>2. \A q \in DOMAIN access : access[q].status = "PROVISIONED" =>
           \E j \in identities' : j.kind = "APPLICANT" /\ j.object = access[q].object
    BY <1>1, <1>2, <1>3 DEF LinksMatch
  <2>3. \A j \in identities' : j.kind = "APPLICANT" =>
           \E q \in DOMAIN access : access[q].status = "PROVISIONED" /\ access[q].object = j.object
    BY <1>1, <1>2, <1>3 DEF LinksMatch
  <2> QED
    BY <1>1, <1>3, <2>1, <2>2, <2>3 DEF LinksMatch
<1>5. LinksAreOneToOne'
  BY <1>4, LinksMatched, PTL
<1>6. LinkTypeOK'
  BY <1>1, <1>2 DEF LinksInv, LinkTypeOK
<1>7. ActivatedApplicantCanSignIn'
  BY <1>1, <1>2 DEF LinksInv, ActivatedApplicantCanSignIn, IsMember
<1>8. RowsDoneAreMembers'
  BY <1>1 DEF LinksInv, RowsDoneAreMembers, OneToOne, IsMember
<1> QED
  BY <1>5, <1>6, <1>7, <1>8 DEF LinksInv

\* The scripts change what they know, and the links stay.
LEMMA RolloutKeepsLinks ==
  ASSUME LinksInv, UNCHANGED <<access, identities>>,
         candidates' \in [Applications -> Emails \cup {None}],
         \A e : IsMember(e) => IsMember(e)',
         RowsDoneAreMembers'
  PROVE  LinksInv'
<1>1. LinksMatch
  BY LinksMatched DEF LinksInv
<1>2. LinksMatch'
  BY <1>1 DEF LinksMatch
<1>3. LinksAreOneToOne'
  BY <1>2, LinksMatched, PTL
<1>4. ActivatedApplicantCanSignIn'
  <2>1. ASSUME NEW i \in identities, i.kind = "LEGACY_APPLICANT"
        PROVE  i.object \in DOMAIN members' /\ members'[i.object]
    <3>1. IsMember(i.object)
      BY <2>1 DEF LinksInv, ActivatedApplicantCanSignIn
    <3>2. PICK e : e = i.object
      OBVIOUS
    <3> QED
      BY <3>1, <3>2 DEF IsMember
  <2> QED
    BY <2>1 DEF ActivatedApplicantCanSignIn, IsMember
<1> QED
  BY <1>3, <1>4 DEF LinksInv, LinkTypeOK

\* What reconcile resolves is one of the addresses found, or none.
LEMMA AnswerIsFound ==
  ASSUME NEW ev
  PROVE  Answer(ev) \in Emails \cup {None}
<1>1. Resolved(ev) \subseteq Emails
  BY DEF Resolved, Candidates, Found
<1>2. CASE Resolved(ev) = {}
  BY <1>2 DEF Answer
<1>3. CASE Resolved(ev) # {}
  <2>1. (CHOOSE e \in Resolved(ev) : TRUE) \in Resolved(ev)
    BY <1>3
  <2> QED
    BY <1>1, <1>3, <2>1 DEF Answer
<1> QED
  BY <1>2, <1>3

LEMMA ReconcileKeepsLinks ==
  ASSUME LinksInv, Reconcile
  PROVE  LinksInv'
<1>1. /\ candidates' \in [Applications -> Answers]
      /\ UNCHANGED <<access, identities, members, script, record>>
  BY DEF Reconcile
<1>2. Answers \subseteq Emails \cup {None}
  BY AnswerIsFound DEF Answers
<1>3. candidates' \in [Applications -> Emails \cup {None}]
  BY <1>1, <1>2
<1>4. RowsDoneAreMembers'
  BY <1>1 DEF LinksInv, RowsDoneAreMembers, OneToOne, IsMember
<1> QED
  BY <1>1, <1>3, <1>4, RolloutKeepsLinks DEF IsMember

\* Inviting a user takes nobody out of the group.
LEMMA InvitedStay ==
  ASSUME NEW e, NEW joined \in BOOLEAN, members' \in {members, Invited(e, joined)}
  PROVE  /\ \A u : IsMember(u) => IsMember(u)'
         /\ joined /\ members' = Invited(e, joined) => IsMember(e)'
<1>1. CASE members' = members
  BY <1>1 DEF IsMember, Invited
<1>2. CASE members' = Invited(e, joined)
  BY <1>2 DEF IsMember, Invited
<1> QED
  BY <1>1, <1>2

LEMMA StartKeepsLinks ==
  ASSUME LinksInv, StartProvisioning
  PROVE  LinksInv'
<1>1. /\ \A a, b \in ResolvedRows : candidates[a] = candidates[b] => a = b
      /\ script' = [rows |-> [a \in ResolvedRows |-> candidates[a]], todo |-> ResolvedRows, running |-> TRUE]
      /\ UNCHANGED <<access, identities, members, candidates, record>>
  BY DEF StartProvisioning
<1>2. /\ DOMAIN script'.rows = ResolvedRows /\ script'.todo = ResolvedRows
      /\ \A a \in ResolvedRows : script'.rows[a] = candidates[a]
  BY <1>1
<1>3. ResolvedRows \subseteq Applications /\ \A a \in ResolvedRows : candidates[a] \in Emails
  BY DEF ResolvedRows, LinksInv, LinkTypeOK
<1>4. OneToOne(script'.rows)
  BY <1>1, <1>2, <1>3 DEF OneToOne
<1>5. RowsDoneAreMembers'
  BY <1>1, <1>2, <1>4 DEF LinksInv, RowsDoneAreMembers, OneToOne, IsMember
<1> QED
  BY <1>1, <1>5, RolloutKeepsLinks DEF LinksInv, LinkTypeOK, IsMember

LEMMA ProvisionRowKeepsLinks ==
  ASSUME LinksInv, NEW a \in Applications, ProvisionRow(a)
  PROVE  LinksInv'
<1>1. /\ a \in script.todo /\ members' = Invited(script.rows[a], TRUE)
      /\ script' = [script EXCEPT !.todo = script.todo \ {a}]
      /\ UNCHANGED <<access, identities, candidates, record>>
  BY DEF ProvisionRow
<1>2. PICK e : e = script.rows[a]
  OBVIOUS
<1>3. (\A u : IsMember(u) => IsMember(u)') /\ IsMember(e)'
  BY <1>1, <1>2, InvitedStay
<1>4. OneToOne(script.rows) /\ script.todo \subseteq DOMAIN script.rows
      /\ (\A b \in DOMAIN script.rows \ script.todo : IsMember(script.rows[b]))
      /\ OneToOne(record) /\ (\A b \in DOMAIN record : IsMember(record[b]))
  BY DEF LinksInv, RowsDoneAreMembers
<1>5. script'.rows = script.rows /\ script'.todo = script.todo \ {a}
  BY <1>1
<1>6. RowsDoneAreMembers'
  <2>1. ASSUME NEW b \in DOMAIN script'.rows \ script'.todo
        PROVE  script'.rows[b] \in DOMAIN members' /\ members'[script'.rows[b]]
    <3>1. CASE b = a
      BY <1>2, <1>3, <1>5, <3>1 DEF IsMember
    <3>2. CASE b # a
      <4>1. PICK u : u = script.rows[b]
        OBVIOUS
      <4>2. IsMember(u)
        BY <1>4, <1>5, <3>2, <4>1
      <4>3. IsMember(u)'
        BY <1>3, <4>2
      <4> QED
        BY <1>5, <4>1, <4>3 DEF IsMember
    <3> QED
      BY <3>1, <3>2
  <2>2. ASSUME NEW b \in DOMAIN record
        PROVE  record[b] \in DOMAIN members' /\ members'[record[b]]
    <3>1. PICK u : u = record[b]
      OBVIOUS
    <3>2. IsMember(u)'
      BY <1>3, <1>4, <3>1
    <3> QED
      BY <3>1, <3>2 DEF IsMember
  <2>3. OneToOne(script.rows)' /\ script'.todo \subseteq DOMAIN script'.rows
    BY <1>4, <1>5 DEF OneToOne
  <2>4. OneToOne(record)'
    BY <1>1, <1>4 DEF OneToOne
  <2> QED
    BY <1>1, <2>1, <2>2, <2>3, <2>4 DEF RowsDoneAreMembers, IsMember
<1> QED
  BY <1>1, <1>3, <1>6, RolloutKeepsLinks DEF LinksInv, LinkTypeOK

\* The script ends, half-way or with its record.
LEMMA StoppedKeepsLinks ==
  ASSUME LinksInv, NEW a \in Applications, ProvisionRowFails(a)
  PROVE  LinksInv'
<1>1. /\ members' \in {members, Invited(script.rows[a], FALSE)} /\ script' = Idle
      /\ UNCHANGED <<access, identities, candidates, record>>
  BY DEF ProvisionRowFails
<1>2. PICK e : e = script.rows[a]
  OBVIOUS
<1>3. \A u : IsMember(u) => IsMember(u)'
  BY <1>1, <1>2, InvitedStay
<1>4. script'.rows = << >> /\ script'.todo = {} /\ DOMAIN script'.rows = {}
  BY <1>1 DEF Idle
<1>5. ASSUME NEW b \in DOMAIN record
      PROVE  record[b] \in DOMAIN members' /\ members'[record[b]]
  <2>1. PICK u : u = record[b]
    OBVIOUS
  <2>2. IsMember(u)'
    BY <1>3, <2>1 DEF LinksInv, RowsDoneAreMembers
  <2> QED
    BY <2>1, <2>2 DEF IsMember
<1>6. RowsDoneAreMembers'
  BY <1>1, <1>4, <1>5 DEF LinksInv, RowsDoneAreMembers, OneToOne, IsMember
<1> QED
  BY <1>1, <1>3, <1>6, RolloutKeepsLinks DEF LinksInv, LinkTypeOK

LEMMA WriteRecordKeepsLinks ==
  ASSUME LinksInv, WriteRecord
  PROVE  LinksInv'
<1>1. /\ script.todo = {} /\ record' = script.rows /\ script' = Idle
      /\ UNCHANGED <<access, identities, members, candidates>>
  BY DEF WriteRecord
<1>2. script'.rows = << >> /\ script'.todo = {} /\ DOMAIN script'.rows = {}
  BY <1>1 DEF Idle
<1>3. OneToOne(script.rows) /\ \A a \in DOMAIN script.rows : IsMember(script.rows[a])
  BY <1>1 DEF LinksInv, RowsDoneAreMembers
<1>4. RowsDoneAreMembers'
  BY <1>1, <1>2, <1>3 DEF RowsDoneAreMembers, OneToOne, IsMember
<1> QED
  BY <1>1, <1>4, RolloutKeepsLinks DEF LinksInv, LinkTypeOK, IsMember

\* activate's transaction: no row it adds conflicts with a link, and no two
\* of them with each other, since the record is one to one.
LEMMA ActivateKeepsLinks ==
  ASSUME LinksInv, ActivateCommit
  PROVE  LinksInv'
<1> DEFINE new == {Link(a, record[a], "LEGACY_APPLICANT") : a \in Missing}
           pilot == {i \in {PilotLink} : Conflicts(Pilot, Pilot) = {}}
<1>1. UNCHANGED <<access, members, candidates, script, record>>
  BY DEF ActivateCommit
<1>2. CASE \E a \in Missing : Conflicts(a, record[a]) # {}
  BY <1>1, <1>2, LinksAtRest DEF ActivateCommit
<1>3. CASE ~\E a \in Missing : Conflicts(a, record[a]) # {}
  <2>1. identities' = identities \cup new \cup pilot
    BY <1>3 DEF ActivateCommit
  <2>2. OneToOne(record) /\ (\A a \in DOMAIN record : IsMember(record[a])) /\ Missing \subseteq DOMAIN record
    BY DEF LinksInv, RowsDoneAreMembers, Missing
  <2>3. ASSUME NEW l \in new
        PROVE  \E a \in DOMAIN record :
                  /\ l = Link(a, record[a], "LEGACY_APPLICANT")
                  /\ l.application = a /\ l.object = record[a] /\ l.kind = "LEGACY_APPLICANT"
                  /\ a \in Applications /\ record[a] \in Emails
                  /\ \A i \in identities : i.application # a /\ i.object # record[a]
                  /\ IsMember(record[a])
    <3>1. PICK a \in Missing : l = Link(a, record[a], "LEGACY_APPLICANT")
      OBVIOUS
    <3>2. l.application = a /\ l.object = record[a] /\ l.kind = "LEGACY_APPLICANT"
      BY <3>1 DEF Link
    <3>3. \A i \in identities : i.application # a /\ i.object # record[a]
      BY <1>3, <3>1 DEF Conflicts
    <3> QED
      BY <2>2, <3>1, <3>2, <3>3 DEF OneToOne
  <2>4. ASSUME NEW l \in pilot
        PROVE  /\ l = PilotLink /\ l.application = Pilot /\ l.object = Pilot /\ l.kind = "SYNTHETIC_TEST"
               /\ \A i \in identities : i.application # Pilot /\ i.object # Pilot
    BY DEF PilotLink, Link, Conflicts
  <2>5. identities' \subseteq [application : Applications \cup {Pilot}, object : Emails \cup {Pilot},
                              kind : {"APPLICANT", "LEGACY_APPLICANT", "SYNTHETIC_TEST"},
                              enabled : BOOLEAN]
    <3>1. identities \subseteq [application : Applications \cup {Pilot}, object : Emails \cup {Pilot},
                                kind : {"APPLICANT", "LEGACY_APPLICANT", "SYNTHETIC_TEST"},
                                enabled : BOOLEAN]
      BY DEF LinksInv, LinkTypeOK
    <3>2. PilotLink \in [application : Applications \cup {Pilot}, object : Emails \cup {Pilot},
                         kind : {"APPLICANT", "LEGACY_APPLICANT", "SYNTHETIC_TEST"},
                         enabled : BOOLEAN]
      BY DEF PilotLink, Link
    <3>3. ASSUME NEW a \in Applications, NEW e \in Emails
          PROVE  Link(a, e, "LEGACY_APPLICANT")
                   \in [application : Applications \cup {Pilot}, object : Emails \cup {Pilot},
                        kind : {"APPLICANT", "LEGACY_APPLICANT", "SYNTHETIC_TEST"},
                        enabled : BOOLEAN]
      BY DEF Link
    <3> HIDE DEF new, pilot
    <3> QED
      BY <2>1, <2>3, <2>4, <3>1, <3>2, <3>3
  <2> HIDE DEF new, pilot
  <2>6. Pilot \notin Applications /\ Pilot \notin Emails
    BY IdentityAssumption
  <2>7. \A a, b \in DOMAIN record : record[a] = record[b] => a = b
    BY <2>2 DEF OneToOne
  <2>8. LinksMatch
    BY LinksMatched DEF LinksInv
  <2>9. \A i, j \in identities' : i.application = j.application \/ i.object = j.object => i = j
    <3>1. \A i, j \in identities : i.application = j.application \/ i.object = j.object => i = j
      BY <2>8 DEF LinksMatch
    <3>2. \A i \in identities, j \in new : i.application # j.application /\ i.object # j.object
      BY <2>3
    <3>3. \A i \in identities, j \in pilot : i.application # j.application /\ i.object # j.object
      BY <2>4
    <3>4. \A i \in new, j \in pilot : i.application # j.application /\ i.object # j.object
      BY <2>3, <2>4, <2>6
    <3>5. \A i, j \in new : i.application = j.application \/ i.object = j.object => i = j
      BY <2>3, <2>7
    <3>6. \A i, j \in pilot : i = j
      BY <2>4
    <3> QED
      BY ONLY <2>1, <3>1, <3>2, <3>3, <3>4, <3>5, <3>6
  <2>10. \A i \in identities' : i.kind = "APPLICANT" => i \in identities
    BY <2>1, <2>3, <2>4
  <2>11. LinksMatch'
    BY <1>1, <2>1, <2>8, <2>9, <2>10 DEF LinksMatch
  <2>12. LinksAreOneToOne'
    BY <2>11, LinksMatched, PTL
  <2>13. ASSUME NEW i \in identities', i.kind = "LEGACY_APPLICANT"
         PROVE  IsMember(i.object)
    <3>1. CASE i \in identities
      BY <2>13, <3>1 DEF LinksInv, ActivatedApplicantCanSignIn
    <3>2. CASE i \in new
      BY <2>3, <3>2
    <3>3. CASE i \in pilot
      BY <2>4, <2>13, <3>3
    <3> QED
      BY <2>1, <3>1, <3>2, <3>3
  <2>14. ActivatedApplicantCanSignIn'
    BY <1>1, <2>13 DEF ActivatedApplicantCanSignIn, IsMember
  <2>15. RowsDoneAreMembers' /\ LinkTypeOK'
    BY <1>1, <2>5 DEF LinksInv, LinkTypeOK, RowsDoneAreMembers, OneToOne, IsMember
  <2> QED
    BY <2>12, <2>14, <2>15 DEF LinksInv
<1> QED
  BY <1>2, <1>3

-----------------------------------------------------------------------------
(* The sessions.                                                           *)

SessionRecord ==
  [application : Subjects,
   source : {"INVITATION", "ENTRA", "SYNTHETIC"} \X (Invitations \cup Emails \cup Actors),
   idle : Nat, absolute : Nat]

\* No link and no workspace is forgotten.
LinksStay ==
  /\ \A i \in identities : \E j \in identities' : j.application = i.application /\ j.object = i.object
  /\ \A w \in DOMAIN workspaces : w \in DOMAIN workspaces' /\ workspaces'[w].actor = workspaces[w].actor

\* So the last page stays a page of its owner.
LEMMA OwnerStays ==
  ASSUME PageServedToOwner, LinksStay, served' = served
  PROVE  PageServedToOwner'
<1>1. CASE served = None
  BY <1>1 DEF PageServedToOwner
<1>2. ASSUME NEW i \in identities, i.application = served.application, i.object = served.to
      PROVE  PageServedToOwner'
  BY <1>2 DEF PageServedToOwner, LinksStay
<1>3. ASSUME NEW w \in DOMAIN workspaces, served.application = <<"synthetic", w>>,
             workspaces[w].actor = served.to
      PROVE  PageServedToOwner'
  BY <1>3 DEF PageServedToOwner, LinksStay
<1> QED
  BY <1>1, <1>2, <1>3 DEF PageServedToOwner

\* Links change, sessions and workspaces do not.
LEMMA SessionsAtRest ==
  ASSUME SessionsInv, UNCHANGED <<repository, workspaces, sessions, served>>,
         \A i \in identities : \E j \in identities' : j.application = i.application /\ j.object = i.object
  PROVE  SessionsInv'
<1>1. PageServedToOwner'
  BY OwnerStays DEF SessionsInv, LinksStay
<1> QED
  BY <1>1 DEF SessionsInv, SessionTypeOK, SyntheticSessionsHaveWorkspaces

\* A session is added, of a workspace if it is synthetic.
LEMMA NewSessionKeepsSessions ==
  ASSUME SessionsInv, NEW x \in SessionRecord, sessions' = Append(sessions, x),
         x.source[1] = "SYNTHETIC" => \E w \in DOMAIN workspaces' : x.application = <<"synthetic", w>>,
         workspaces' \in Seq([actor : Actors, closed : BOOLEAN]), LinksStay,
         UNCHANGED <<repository, served>>
  PROVE  SessionsInv'
<1>1. sessions \in Seq(SessionRecord)
  BY DEF SessionsInv, SessionTypeOK, SessionRecord
<1>2. /\ sessions' \in Seq(SessionRecord) /\ DOMAIN sessions = 1..Len(sessions) /\ Len(sessions) \in Nat
      /\ DOMAIN sessions' = 1..(Len(sessions) + 1) /\ sessions'[Len(sessions) + 1] = x
      /\ \A s \in 1..Len(sessions) : sessions'[s] = sessions[s]
  BY <1>1
<1>3. \A s \in DOMAIN sessions' : s = Len(sessions) + 1 \/ s \in DOMAIN sessions
  BY <1>2
<1>4. SyntheticSessionsHaveWorkspaces'
  <2>1. ASSUME NEW s \in DOMAIN sessions', sessions'[s].source[1] = "SYNTHETIC"
        PROVE  \E w \in DOMAIN workspaces' : sessions'[s].application = <<"synthetic", w>>
    <3>1. CASE s = Len(sessions) + 1
      BY <1>2, <2>1, <3>1
    <3>2. CASE s \in DOMAIN sessions
      <4>1. sessions'[s] = sessions[s]
        BY <1>2, <3>2
      <4> QED
        BY <2>1, <3>2, <4>1 DEF SessionsInv, SyntheticSessionsHaveWorkspaces, LinksStay
    <3> QED
      BY <1>3, <3>1, <3>2
  <2> QED
    BY <2>1 DEF SyntheticSessionsHaveWorkspaces
<1>5. PageServedToOwner'
  BY OwnerStays DEF SessionsInv
<1> QED
  BY <1>2, <1>4, <1>5 DEF SessionsInv, SessionTypeOK, SessionRecord

\* The earlier of two times is one of them.
LEMMA Earlier ==
  ASSUME NEW x \in Nat, NEW y \in Nat
  PROVE  Min({x, y}) \in Nat
<1>1. \E z \in {x, y} : \A u \in {x, y} : z <= u
  <2>1. CASE x <= y
    BY <2>1
  <2>2. CASE y <= x
    BY <2>2
  <2> QED
    BY <2>1, <2>2
<1> QED
  BY <1>1 DEF Min

\* A session that slides is still of the same application and source.
LEMMA Sliding ==
  ASSUME SessionTypeOK, now \in Nat, NEW s \in DOMAIN sessions, sessions' = Slid(s)
  PROVE  /\ sessions' \in Seq(SessionRecord) /\ DOMAIN sessions' = DOMAIN sessions
         /\ \A r \in DOMAIN sessions : /\ sessions'[r].application = sessions[r].application
                                       /\ sessions'[r].source = sessions[r].source
<1> DEFINE m == Min({now + IdleLifetime, sessions[s].absolute})
           x == [sessions[s] EXCEPT !.idle = m]
<1>1. sessions \in Seq(SessionRecord) /\ DOMAIN sessions = 1..Len(sessions) /\ s \in 1..Len(sessions)
  BY DEF SessionTypeOK, SessionRecord
<1>2. sessions[s] \in SessionRecord
  BY ONLY <1>1, ElementOf
<1>3. m \in Nat
  <2>1. now + IdleLifetime \in Nat /\ sessions[s].absolute \in Nat
    BY <1>2, SignInAssumption DEF SessionRecord
  <2> QED
    BY <2>1, Earlier
<1>4. sessions' = [sessions EXCEPT ![s] = x]
  BY DEF Slid
<1> HIDE DEF m
<1>5. x \in SessionRecord /\ x.application = sessions[s].application /\ x.source = sessions[s].source
  BY <1>2, <1>3 DEF SessionRecord
<1> HIDE DEF x
<1>6. /\ sessions' \in Seq(SessionRecord) /\ DOMAIN sessions' = DOMAIN sessions /\ sessions'[s] = x
      /\ \A r \in 1..Len(sessions) : r # s => sessions'[r] = sessions[r]
  BY <1>1, <1>4, <1>5, Replacing
<1> QED
  BY <1>1, <1>5, <1>6

LEMMA AuthenticateKeepsSessions ==
  ASSUME SessionsInv, now \in Nat, NEW s \in DOMAIN sessions, sessions' = Slid(s),
         UNCHANGED <<repository, workspaces, identities>>,
         PageServedToOwner'
  PROVE  SessionsInv'
<1>1. /\ sessions' \in Seq(SessionRecord) /\ DOMAIN sessions' = DOMAIN sessions
      /\ \A r \in DOMAIN sessions : /\ sessions'[r].application = sessions[r].application
                                    /\ sessions'[r].source = sessions[r].source
  BY Sliding DEF SessionsInv
<1> QED
  BY ZenonT(60), <1>1 DEF SessionsInv, SessionTypeOK, SyntheticSessionsHaveWorkspaces, SessionRecord

\* A page goes to the principal of its session, whose link or workspace stands.
LEMMA ServeKeepsSessions ==
  ASSUME SessionsInv, now \in Nat, NEW s \in DOMAIN sessions, NEW principal, ServePage(s, principal),
         repository' = repository
  PROVE  SessionsInv'
<1> DEFINE page == [application |-> sessions[s].application, to |-> principal]
<1>1. /\ SourceStands(s) /\ sessions' = Slid(s) /\ UNCHANGED <<workspaces, identities>>
      /\ served' = IF PrincipalFits(s, principal) THEN page ELSE served
  BY DEF ServePage
<1>2. page.application = sessions[s].application /\ page.to = principal
  OBVIOUS
<1> HIDE DEF page
<1>3. PageServedToOwner'
  <2>1. CASE ~PrincipalFits(s, principal)
    BY <1>1, <2>1, OwnerStays DEF SessionsInv, LinksStay
  <2>2. CASE PrincipalFits(s, principal)
    <3>1. served' = page /\ sessions[s].source[2] = principal
      BY <1>1, <2>2 DEF PrincipalFits
    <3>2. CASE sessions[s].source[1] = "SYNTHETIC"
      <4>1. PICK w \in DOMAIN workspaces : sessions[s].application = <<"synthetic", w>>
        BY <3>2 DEF SessionsInv, SyntheticSessionsHaveWorkspaces
      <4>2. workspaces[sessions[s].application[2]].actor = principal
        BY <1>1, <3>1, <3>2 DEF SourceStands
      <4>3. workspaces[w].actor = principal
        BY <4>1, <4>2
      <4> QED
        BY <1>1, <1>2, <3>1, <4>1, <4>3 DEF PageServedToOwner
    <3>3. CASE sessions[s].source[1] # "SYNTHETIC"
      <4>1. \E i \in identities : i.object = principal /\ i.application = sessions[s].application
        BY <1>1, <3>1, <3>3 DEF SourceStands, Linked
      <4> QED
        BY <1>1, <1>2, <3>1, <4>1 DEF PageServedToOwner
    <3> QED
      BY <3>2, <3>3
  <2> QED
    BY <2>1, <2>2
<1> QED
  BY <1>1, <1>3, AuthenticateKeepsSessions

LEMMA CloseKeepsSessions ==
  ASSUME SessionsInv, NEW w \in DOMAIN workspaces, CloseWorkspace(w), repository' = repository
  PROVE  SessionsInv'
<1> DEFINE x == [workspaces[w] EXCEPT !.closed = TRUE]
<1>1. workspaces' = [workspaces EXCEPT ![w] = x] /\ UNCHANGED <<sessions, identities, served>>
  BY DEF CloseWorkspace
<1>2. /\ workspaces \in Seq([actor : Actors, closed : BOOLEAN])
      /\ w \in 1..Len(workspaces) /\ DOMAIN workspaces = 1..Len(workspaces)
  BY DEF SessionsInv, SessionTypeOK
<1>3. workspaces[w] \in [actor : Actors, closed : BOOLEAN]
  BY ONLY <1>2, ElementOf
<1>4. x \in [actor : Actors, closed : BOOLEAN] /\ x.actor = workspaces[w].actor
  BY <1>3
<1> HIDE DEF x
<1>5. /\ workspaces' \in Seq([actor : Actors, closed : BOOLEAN])
      /\ DOMAIN workspaces' = DOMAIN workspaces /\ workspaces'[w] = x
      /\ \A v \in 1..Len(workspaces) : v # w => workspaces'[v] = workspaces[v]
  BY <1>1, <1>2, <1>4, Replacing
<1>6. LinksStay
  BY <1>1, <1>2, <1>4, <1>5 DEF LinksStay
<1>7. PageServedToOwner'
  BY <1>1, <1>6, OwnerStays DEF SessionsInv
<1> QED
  BY <1>1, <1>5, <1>7 DEF SessionsInv, SessionTypeOK, SyntheticSessionsHaveWorkspaces

LEMMA SessionType ==
  ASSUME now \in Nat, NEW app \in Subjects,
         NEW source \in {"INVITATION", "ENTRA", "SYNTHETIC"} \X (Invitations \cup Emails \cup Actors)
  PROVE  /\ NewSession(app, source) \in SessionRecord
         /\ NewSession(app, source).source = source /\ NewSession(app, source).application = app
BY SignInAssumption DEF NewSession, SessionRecord

LEMMA CreateKeepsSessions ==
  ASSUME SessionsInv, now \in Nat, NEW p \in Actors, CreateSynthetic(p), repository' = repository
  PROVE  SessionsInv'
<1> DEFINE n == Len(workspaces) + 1
           new == [actor |-> p, closed |-> FALSE]
           x == NewSession(<<"synthetic", n>>, <<"SYNTHETIC", p>>)
<1>1. /\ workspaces' = Append(workspaces, new) /\ sessions' = Append(sessions, x)
      /\ UNCHANGED <<identities, served>>
  BY DEF CreateSynthetic
<1>2. workspaces \in Seq([actor : Actors, closed : BOOLEAN]) /\ Len(workspaces) \in Nat
  BY DEF SessionsInv, SessionTypeOK
<1>3. new \in [actor : Actors, closed : BOOLEAN]
  OBVIOUS
<1> HIDE DEF new
<1>4. /\ workspaces' \in Seq([actor : Actors, closed : BOOLEAN]) /\ n \in DOMAIN workspaces'
      /\ \A w \in DOMAIN workspaces : w \in DOMAIN workspaces' /\ workspaces'[w] = workspaces[w]
  BY <1>1, <1>2, <1>3
<1>5. /\ x \in SessionRecord /\ x.source = <<"SYNTHETIC", p>> /\ x.application = <<"synthetic", n>>
  <2>1. <<"synthetic", n>> \in Subjects
    BY <1>2 DEF Subjects
  <2>2. <<"SYNTHETIC", p>> \in {"INVITATION", "ENTRA", "SYNTHETIC"} \X (Invitations \cup Emails \cup Actors)
    OBVIOUS
  <2> QED
    BY <2>1, <2>2, SessionType
<1> HIDE DEF x, n
<1>6. LinksStay
  BY <1>1, <1>4 DEF LinksStay
<1> QED
  BY <1>1, <1>4, <1>5, <1>6, NewSessionKeepsSessions

LEMMA EntraSignInKeepsSessions ==
  ASSUME SessionsInv, LinkTypeOK, now \in Nat, NEW e \in Emails, EntraSignIn(e), repository' = repository
  PROVE  SessionsInv'
<1>1. PICK i \in Linked(e) : sessions' = Append(sessions, NewSession(i.application, <<"ENTRA", e>>))
  BY DEF EntraSignIn
<1>2. UNCHANGED <<identities, workspaces, served>>
  BY DEF EntraSignIn, identityVars
<1> DEFINE x == NewSession(i.application, <<"ENTRA", e>>)
<1>3. x \in SessionRecord /\ x.source = <<"ENTRA", e>>
  <2>1. i.application \in Subjects
    BY DEF Linked, LinkTypeOK, Subjects
  <2>2. <<"ENTRA", e>> \in {"INVITATION", "ENTRA", "SYNTHETIC"} \X (Invitations \cup Emails \cup Actors)
    OBVIOUS
  <2> QED
    BY <2>1, <2>2, SessionType
<1>4. sessions' = Append(sessions, x)
  BY <1>1
<1> HIDE DEF x
<1>5. LinksStay /\ x.source[1] # "SYNTHETIC" /\ workspaces' \in Seq([actor : Actors, closed : BOOLEAN])
  BY <1>2, <1>3 DEF LinksStay, SessionsInv, SessionTypeOK
<1> QED
  BY <1>2, <1>3, <1>4, <1>5, NewSessionKeepsSessions

LEMMA VerifyKeepsSessions ==
  ASSUME SessionsInv, SignInTypeOK, now \in Nat, NEW c, NEW code, VerifyCode(c, code),
         UNCHANGED <<repository, identities, workspaces, served>>
  PROVE  SessionsInv'
<1>1. CASE ~RightCode(c, code)
  BY <1>1, SessionsAtRest DEF VerifyCode
<1>2. CASE RightCode(c, code)
  <2> DEFINE i == contexts[c].invitation
             x == NewSession(i, <<"INVITATION", i>>)
  <2>1. sessions' = Append(sessions, x) /\ i \in Invitations
    BY <1>2 DEF VerifyCode, RightCode, ActiveInvitation
  <2>2. i \in Subjects
        /\ <<"INVITATION", i>> \in {"INVITATION", "ENTRA", "SYNTHETIC"} \X (Invitations \cup Emails \cup Actors)
    BY <2>1 DEF Subjects
  <2>3. x \in SessionRecord /\ x.source = <<"INVITATION", i>>
    BY <2>2, SessionType
  <2> HIDE DEF x, i
  <2>4. LinksStay /\ x.source[1] # "SYNTHETIC" /\ workspaces' \in Seq([actor : Actors, closed : BOOLEAN])
    BY <2>3 DEF LinksStay, SessionsInv, SessionTypeOK
  <2> QED
    BY <2>1, <2>3, <2>4, NewSessionKeepsSessions
<1> QED
  BY <1>1, <1>2

-----------------------------------------------------------------------------
(* All of it.                                                              *)

LEMMA IdentityInitially == Init => IdentityInv
<1> USE GateAssumption, SignInAssumption
<1>1. SUFFICES ASSUME Init PROVE LimiterInv /\ VerifierInv /\ SignInInv /\ LinksInv /\ SessionsInv
  BY DEF IdentityInv
<1>2. /\ now = 0 /\ buckets = << >> /\ used = << >> /\ allowed = << >>
      /\ accepted = [t \in Tokens |-> 0]
  BY <1>1 DEF Init, GateInit
<1>3. /\ contexts = << >> /\ challenges = << >> /\ mail = << >> /\ sessions = << >>
      /\ opened = << >> /\ tries = << >>
  BY <1>1 DEF Init, SignInInit
<1>4. /\ repository \in {"InMemory", "Sql"}
      /\ access = << >> /\ identities = {} /\ workspaces = << >>
      /\ candidates = [a \in Applications |-> None]
      /\ script.rows = << >> /\ script.todo = {} /\ record = << >> /\ served = None
  BY <1>1 DEF Init, Idle
<1>5. DOMAIN << >> = {}
  OBVIOUS
<1>6. LimiterInv
  BY <1>2, <1>5 DEF LimiterInv, LimiterTypeOK, PassagesAreCounted
<1>7. VerifierInv
  BY <1>2, <1>5 DEF VerifierInv, VerifierTypeOK, AcceptedIsKnown, ResponseAcceptedOnce
<1>8. SignInInv
  BY <1>3, <1>5 DEF SignInInv, SignInTypeOK, ChallengeIsTheLatest, OpenedIsUsedUp, CodeOpensOneSession
<1>9. LinksInv
  <2>1. LinkTypeOK /\ RowsDoneAreMembers /\ ActivatedApplicantCanSignIn
    BY <1>4, <1>5 DEF LinkTypeOK, RowsDoneAreMembers, OneToOne, ActivatedApplicantCanSignIn
  <2>2. LinksMatch
    BY <1>4, <1>5 DEF LinksMatch
  <2> QED
    BY <2>1, <2>2, LinksMatched DEF LinksInv
<1>10. SessionsInv
  BY <1>3, <1>4, <1>5 DEF SessionsInv, SessionTypeOK, SyntheticSessionsHaveWorkspaces, PageServedToOwner
<1> QED
  BY <1>6, <1>7, <1>8, <1>9, <1>10

\* What the invariant is made of.
LEMMA IdentityParts ==
  ASSUME IdentityInv
  PROVE  /\ LimiterInv /\ VerifierInv /\ SignInInv /\ LinksInv /\ SessionsInv
         /\ now \in Nat /\ SignInTypeOK /\ LinkTypeOK
BY DEF IdentityInv, LimiterInv, LimiterTypeOK, SignInInv, LinksInv

LEMMA AnonymousAtRest ==
  ASSUME IdentityInv, UNCHANGED <<now, gateVars, signInVars>>
  PROVE  LimiterInv' /\ VerifierInv' /\ SignInInv'
<1>1. /\ UNCHANGED <<now, buckets, allowed, used, accepted>>
      /\ UNCHANGED <<contexts, challenges, mail, opened, tries>>
  BY DEF gateVars, signInVars
<1> QED
  BY <1>1, IdentityParts, TickKeepsLimiter, TickKeepsVerifier, SignInAtRest

\* A visitor of the deployment that serves invitations.
LEMMA SignInStep ==
  ASSUME IdentityInv, SignInNext, UNCHANGED <<repository, identityVars>>
  PROVE  IdentityInv'
<1>1. UNCHANGED <<repository, access, identities, workspaces, members, candidates, script, record, served>>
  BY DEF identityVars
<1>2. LinksInv'
  BY <1>1, IdentityParts, LinksAtRest
<1>3. ASSUME sessions' = sessions PROVE SessionsInv'
  BY <1>1, <1>3, IdentityParts, SessionsAtRest
<1>4. ASSUME UNCHANGED <<now, used, accepted>> PROVE VerifierInv'
  BY <1>4, IdentityParts, TickKeepsVerifier
<1>5. ASSUME NEW i \in Invitations, Revoke(i) PROVE IdentityInv'
  <2>1. UNCHANGED <<now, gateVars, contexts, challenges, mail, opened, tries, sessions>>
    BY <1>5 DEF Revoke
  <2> QED
    BY <1>2, <1>3, <2>1, IdentityParts, TickKeepsLimiter, TickKeepsVerifier, SignInAtRest
    DEF IdentityInv, gateVars
<1>6. ASSUME NEW i \in Invitations \cup {None}, Establish(i) PROVE IdentityInv'
  <2>1. UNCHANGED <<now, gateVars, sessions>>
    BY <1>6 DEF Establish
  <2>2. SignInInv'
    BY <1>6, IdentityParts, EstablishKeepsSignIn
  <2> QED
    BY <1>2, <1>3, <2>1, <2>2, IdentityParts, TickKeepsLimiter, TickKeepsVerifier
    DEF IdentityInv, gateVars
<1>7. ASSUME NEW c, NEW t \in Tokens, NEW answered \in BOOLEAN, RequestCode(c, t, answered)
      PROVE  IdentityInv'
  <2>1. UNCHANGED <<now, contexts, sessions, opened>> /\ Count(CodeLimits(c))
    BY <1>7 DEF RequestCode
  <2>2. LimiterInv'
    BY <2>1, IdentityParts, CountKeepsLimiter
  <2>3. CASE ~WithinLimits(CodeLimits(c))
    <3>1. UNCHANGED <<used, accepted, challenges, mail, tries>>
      BY <1>7, <2>3 DEF RequestCode, Unused
    <3> QED
      BY <1>2, <1>3, <1>4, <2>1, <2>2, <3>1, IdentityParts, SignInAtRest DEF IdentityInv
  <2>4. CASE WithinLimits(CodeLimits(c))
    <3>1. Use(t, Verifies(t, answered))
          /\ IF Verifies(t, answered) THEN IssueCode(c) ELSE UNCHANGED <<challenges, mail, tries>>
      BY <1>7, <2>4 DEF RequestCode
    <3>2. VerifierInv'
      BY <2>1, <3>1, IdentityParts, UseKeepsVerifier
    <3>3. SignInInv'
      BY <2>1, <3>1, IdentityParts, IssueKeepsSignIn, SignInAtRest
    <3> QED
      BY <1>2, <1>3, <2>1, <2>2, <3>2, <3>3 DEF IdentityInv
  <2> QED
    BY <2>3, <2>4
<1>8. ASSUME NEW c, NEW t \in Tokens, NEW answered \in BOOLEAN, NEW code, Verify(c, code, t, answered)
      PROVE  IdentityInv'
  <2>1. UNCHANGED <<now, mail>> /\ Count(VerifyLimits(c))
    BY <1>8 DEF Verify
  <2>2. LimiterInv'
    BY <2>1, IdentityParts, CountKeepsLimiter
  <2>3. VerifierInv'
    <3>1. UNCHANGED <<used, accepted>> \/ Use(t, Verifies(t, answered))
      BY <1>8 DEF Verify, Unused
    <3> QED
      BY <1>4, <2>1, <3>1, IdentityParts, UseKeepsVerifier
  <2>4. CASE UNCHANGED <<challenges, tries, contexts, sessions, opened, failed>>
    BY <1>2, <1>3, <2>1, <2>2, <2>3, <2>4, IdentityParts, SignInAtRest DEF IdentityInv
  <2>5. CASE VerifyCode(c, code)
    <3>1. SignInInv'
      BY <2>1, <2>5, IdentityParts, VerifyKeepsSignIn
    <3>2. SessionsInv'
      BY <1>1, <2>5, IdentityParts, VerifyKeepsSessions
    <3> QED
      BY <1>2, <2>2, <2>3, <3>1, <3>2 DEF IdentityInv
  <2> QED
    BY <1>8, <2>4, <2>5 DEF Verify
<1>9. ASSUME NEW s \in DOMAIN sessions, Authenticate(s) PROVE IdentityInv'
  <2>1. UNCHANGED <<now, gateVars, signInVars>> /\ sessions' = Slid(s)
    BY <1>9 DEF Authenticate
  <2>2. PageServedToOwner'
    BY <1>1, IdentityParts, OwnerStays DEF SessionsInv, LinksStay
  <2>3. SessionsInv'
    BY <1>1, <2>1, <2>2, IdentityParts, AuthenticateKeepsSessions
  <2> QED
    BY <1>2, <2>1, <2>3, AnonymousAtRest DEF IdentityInv
<1> QED
  BY <1>5, <1>6, <1>7, <1>8, <1>9 DEF SignInNext

\* A visitor, an administrator or a script of the one that serves Entra identities.
LEMMA IdentityStep ==
  ASSUME IdentityInv, IdentityNext, UNCHANGED repository
  PROVE  IdentityInv'
<1>1. /\ LimiterInv /\ VerifierInv /\ SignInInv /\ LinksInv /\ SessionsInv
      /\ now \in Nat /\ LinkTypeOK
  BY IdentityParts
<1>2. ASSUME UNCHANGED <<workspaces, sessions, served>>,
             \A i \in identities : \E j \in identities' : j.application = i.application /\ j.object = i.object
      PROVE  SessionsInv'
  BY <1>1, <1>2, SessionsAtRest
<1>3. ASSUME UNCHANGED <<now, gateVars, signInVars>>, LinksInv', SessionsInv'
      PROVE  IdentityInv'
  BY <1>3, AnonymousAtRest DEF IdentityInv
<1>4. ASSUME NEW e \in Emails, NEW t \in Tokens, NEW answered \in BOOLEAN, RequestAccess(e, t, answered)
      PROVE  IdentityInv'
  <2>1. /\ Count(AccessLimits)
        /\ UNCHANGED <<now, signInVars, sessions, identities, workspaces, members, candidates, script, record, served>>
    BY <1>4 DEF RequestAccess
  <2>2. LimiterInv'
    BY <1>1, <2>1, CountKeepsLimiter
  <2>3. SignInInv' /\ SessionsInv'
    BY <1>1, <1>2, <2>1, SignInAtRest DEF signInVars
  <2>4. VerifierInv'
    <3>1. UNCHANGED <<used, accepted>> \/ Use(t, Verifies(t, answered))
      BY <1>4 DEF RequestAccess, Unused
    <3> QED
      BY <1>1, <2>1, <3>1, UseKeepsVerifier, TickKeepsVerifier
  <2>5. LinksInv'
    <3>1. access' = access \/ access' = NewRequest(e)
      BY <1>4 DEF RequestAccess
    <3> QED
      BY <1>1, <2>1, <3>1, LinksAtRest, NewRequestKeepsLinks
  <2> QED
    BY <2>2, <2>3, <2>4, <2>5 DEF IdentityInv
<1>5. ASSUME NEW r \in DOMAIN access, NEW decision \in {"APPROVED", "REJECTED"}, ReviewAccess(r, decision)
      PROVE  IdentityInv'
  BY <1>1, <1>2, <1>3, <1>5, ReviewKeepsLinks DEF ReviewAccess
<1>6. ASSUME NEW r \in DOMAIN access, NEW a \in Applications, NEW e \in Emails, ProvisionAccess(r, a, e)
      PROVE  IdentityInv'
  <2>1. /\ UNCHANGED <<now, gateVars, signInVars, sessions, workspaces, served>>
        /\ identities \subseteq identities'
    BY <1>6 DEF ProvisionAccess
  <2> QED
    BY <1>1, <1>2, <1>3, <1>6, <2>1, ProvisionKeepsLinks
<1>7. ASSUME NEW i \in identities, Disable(i) PROVE IdentityInv'
  <2>1. /\ UNCHANGED <<now, gateVars, signInVars, sessions, workspaces, served>>
        /\ identities' = (identities \ {i}) \cup {[i EXCEPT !.enabled = FALSE]}
    BY <1>7 DEF Disable
  <2>2. [i EXCEPT !.enabled = FALSE].application = i.application
        /\ [i EXCEPT !.enabled = FALSE].object = i.object
    BY <1>1 DEF LinkTypeOK
  <2>3. \A k \in identities : \E j \in identities' : j.application = k.application /\ j.object = k.object
    BY <2>1, <2>2
  <2> QED
    BY <1>1, <1>2, <1>3, <1>7, <2>1, <2>3, DisableKeepsLinks
<1>8. ASSUME NEW a \in Applications, ProvisionRow(a) PROVE IdentityInv'
  BY <1>1, <1>2, <1>3, <1>8, ProvisionRowKeepsLinks DEF ProvisionRow
<1>9. ASSUME NEW a \in Applications, ProvisionRowFails(a) PROVE IdentityInv'
  BY <1>1, <1>2, <1>3, <1>9, StoppedKeepsLinks DEF ProvisionRowFails
<1>10. ASSUME Reconcile PROVE IdentityInv'
  BY <1>1, <1>2, <1>3, <1>10, ReconcileKeepsLinks DEF Reconcile
<1>11. ASSUME StartProvisioning PROVE IdentityInv'
  BY <1>1, <1>2, <1>3, <1>11, StartKeepsLinks DEF StartProvisioning
<1>12. ASSUME WriteRecord PROVE IdentityInv'
  BY <1>1, <1>2, <1>3, <1>12, WriteRecordKeepsLinks DEF WriteRecord
<1>13. ASSUME ActivateRead PROVE IdentityInv'
  BY <1>1, <1>2, <1>3, <1>13, LinksAtRest DEF ActivateRead
<1>14. ASSUME ActivateCommit PROVE IdentityInv'
  <2>1. /\ UNCHANGED <<now, gateVars, signInVars, sessions, workspaces, served>>
        /\ identities \subseteq identities'
    BY <1>14 DEF ActivateCommit
  <2> QED
    BY <1>1, <1>2, <1>3, <1>14, <2>1, ActivateKeepsLinks
<1>15. ASSUME NEW e \in Emails, EntraSignIn(e) PROVE IdentityInv'
  <2>1. UNCHANGED <<now, gateVars, signInVars>>
        /\ UNCHANGED <<access, identities, members, candidates, script, record>>
    BY <1>15 DEF EntraSignIn, identityVars
  <2> QED
    BY <1>1, <1>3, <1>15, <2>1, LinksAtRest, EntraSignInKeepsSessions
<1>16. ASSUME NEW p \in Actors, CreateSynthetic(p) PROVE IdentityInv'
  BY <1>1, <1>3, <1>16, LinksAtRest, CreateKeepsSessions DEF CreateSynthetic
<1>17. ASSUME NEW w \in DOMAIN workspaces, CloseWorkspace(w) PROVE IdentityInv'
  BY <1>1, <1>3, <1>17, LinksAtRest, CloseKeepsSessions DEF CloseWorkspace
<1>18. ASSUME NEW s \in DOMAIN sessions, NEW principal, ServePage(s, principal) PROVE IdentityInv'
  BY <1>1, <1>3, <1>18, LinksAtRest, ServeKeepsSessions DEF ServePage
<1> QED
  BY <1>4, <1>5, <1>6, <1>7, <1>8, <1>9, <1>10, <1>11, <1>12, <1>13, <1>14, <1>15, <1>16, <1>17, <1>18
  DEF IdentityNext

LEMMA NextKeepsIdentity == IdentityInv /\ [Next]_vars => IdentityInv'
<1>1. SUFFICES ASSUME IdentityInv, [Next]_vars PROVE IdentityInv'
  OBVIOUS
<1>2. ASSUME now' \in Nat, now <= now', UNCHANGED <<gateVars, signInVars, sessions, repository, identityVars>>
      PROVE  IdentityInv'
  <2>1. /\ UNCHANGED <<buckets, allowed, used, accepted>>
        /\ UNCHANGED <<contexts, challenges, mail, opened, tries>>
        /\ UNCHANGED <<access, identities, members, candidates, script, record>>
        /\ UNCHANGED <<repository, workspaces, sessions, served>>
    BY <1>2 DEF gateVars, signInVars, identityVars
  <2>2. LimiterInv' /\ VerifierInv' /\ SignInInv'
    BY <1>1, <1>2, <2>1, IdentityParts, TickKeepsLimiter, TickKeepsVerifier, SignInAtRest
  <2>3. LinksInv' /\ SessionsInv'
    BY <1>1, <2>1, IdentityParts, LinksAtRest, SessionsAtRest
  <2> QED
    BY <2>2, <2>3 DEF IdentityInv
<1>3. CASE TimePasses
  <2>1. now' = now + 1 /\ UNCHANGED <<gateVars, signInVars, sessions, repository, identityVars>>
    BY <1>3 DEF TimePasses, Tick
  <2> QED
    BY <1>1, <1>2, <2>1, IdentityParts
<1>4. CASE SignInNext /\ UNCHANGED <<repository, identityVars>>
  BY <1>1, <1>4, SignInStep
<1>5. CASE IdentityNext /\ UNCHANGED repository
  BY <1>1, <1>5, IdentityStep
<1>6. CASE UNCHANGED vars
  <2>1. now' = now /\ UNCHANGED <<gateVars, signInVars, sessions, repository, identityVars>>
    BY <1>6 DEF vars
  <2> QED
    BY <1>1, <1>2, <2>1, IdentityParts
<1> QED
  BY <1>1, <1>3, <1>4, <1>5, <1>6 DEF Next

\* Whatever visitors, administrators and scripts do, and whenever, the
\* inductive invariants of the gates, the sign-in, the links and the sessions
\* hold (InMemoryRateLimiter.allow, TurnstileVerifier.verify, verify_code,
\* ProvisionApplicantAccessRequest, activate, enforce_live_applicant_identity).
THEOREM IdentityHolds == Spec => []IdentityInv
BY IdentityInitially, NextKeepsIdentity, PTL DEF Spec

\* Fixed windows let a subject through at most twice the limit within any
\* window's length, for every limit, window and size of the dictionary.
THEOREM BurstIsBounded == Spec => []NoBurstBeyondTwoWindows
<1>1. IdentityInv => NoBurstBeyondTwoWindows
  BY TwoWindows DEF IdentityInv
<1> QED
  BY <1>1, IdentityHolds, PTL

\* A Turnstile response is accepted once, for every size of the memory, as
\* long as a response is remembered for as long as siteverify vouches for it.
THEOREM AcceptedOnce == Spec => []ResponseAcceptedOnce
<1>1. IdentityInv => ResponseAcceptedOnce
  BY DEF IdentityInv, VerifierInv
<1> QED
  BY <1>1, IdentityHolds, PTL

\* The code that opens a session is the last one of its context, fresh, used
\* once and guessed at most max_attempts times, for any number of contexts.
THEOREM CodesOpenOnce == Spec => []CodeOpensOneSession
<1>1. IdentityInv => CodeOpensOneSession
  BY DEF IdentityInv, SignInInv
<1> QED
  BY <1>1, IdentityHolds, PTL

\* Applications and users are linked one to one, although requests are
\* provisioned while activate runs, for any number of applications.
THEOREM LinksStayOneToOne == Spec => []LinksAreOneToOne
<1>1. IdentityInv => LinksAreOneToOne
  BY DEF IdentityInv, LinksInv
<1> QED
  BY <1>1, IdentityHolds, PTL

\* A link that activate made is of a user the provisioning script put into
\* the group, however many of its runs stopped half-way.
THEOREM ActivatedCanSignIn == Spec => []ActivatedApplicantCanSignIn
<1>1. IdentityInv => ActivatedApplicantCanSignIn
  BY DEF IdentityInv, LinksInv
<1> QED
  BY <1>1, IdentityHolds, PTL

\* The last page served went to the user linked to its application or to the
\* administrator who made its workspace.
THEOREM PagesGoToTheirOwner == Spec => []PageServedToOwner
<1>1. IdentityInv => PageServedToOwner
  BY DEF IdentityInv, SessionsInv
<1> QED
  BY <1>1, IdentityHolds, PTL
=============================================================================
