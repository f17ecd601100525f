-------------------------- MODULE RateLimitProofs --------------------------
(***************************************************************************)
(* Theorems about RateLimit, for any finite number of requests, any limit  *)
(* and any window.                                                         *)
(***************************************************************************)
EXTENDS RateLimit, FiniteSetTheorems, TLAPS

Steps == {"idle", "expiring", "refusing", "admitted", "refused", "failed"}

Types ==
    /\ count \in Nat /\ life \in Nat
    /\ ttl \in {NoExpiry, NoCounter} \cup 1 .. Window
    /\ count = 0 <=> ttl = NoCounter
    /\ step \in [Requests -> Steps]
    /\ countedIn \in [Requests -> Nat]
    /\ age \in [Requests -> 0 .. Window]
    /\ \A r \in Requests : countedIn[r] <= life
    /\ \A r \in Requests : retryAfter[r] \in (IF step[r] = "refused" THEN 1 .. Window ELSE {0})
    /\ DOMAIN retryAfter = Requests

(* The requests that incremented the counter of life L, when they are at   *)
(* st and counted in ci; those of them it lets in; those it does not       *)
(* refuse; and the requests of the lives before l.                         *)
Counted(st, ci, L) == {r \in Requests : st[r] # "idle" /\ ci[r] = L}
Entered(st, ci, L) == {r \in Requests : st[r] \in {"expiring", "admitted"} /\ ci[r] = L}
Kept(st, ci, L)    == {r \in Requests : st[r] \in {"expiring", "admitted", "failed"}
                                        /\ ci[r] = L}
Past(st, ci, l)    == {r \in Requests : st[r] # "idle" /\ ci[r] < l}

(* The counter counts, and every earlier one had somebody to count.        *)
Counts ==
    /\ count = Cardinality(Counted(step, countedIn, life))
    /\ life <= Cardinality(Past(step, countedIn, life))

(* No counter lets in more than its limit.                                 *)
Admits == \A L \in Nat : Cardinality(Entered(step, countedIn, L)) <= Limit

(* A counter refuses only when the limit was used up.                      *)
Refuses ==
    /\ \/ Cardinality(Kept(step, countedIn, life)) >= count
       \/ Cardinality(Kept(step, countedIn, life)) >= Limit
    /\ \A r \in Requests : step[r] \in {"refusing", "refused"} =>
          Cardinality(Kept(step, countedIn, countedIn[r])) >= Limit

(* Who is about to call EXPIRE is the first of the counter that is there,  *)
(* and that has no time to live before.                                    *)
First ==
    /\ \A r \in Requests : step[r] = "expiring" => countedIn[r] = life /\ ttl = NoExpiry
    /\ \A r, s \in Requests : step[r] = "expiring" /\ step[s] = "expiring" => r = s

(* What has been counted longer ago than a counter lives is that old: the  *)
(* counter that is running down began after the requests of earlier ones,  *)
(* and one of its own was there before it; the one before it took Window.  *)
Ages ==
    /\ \A r \in Requests :
          step[r] # "idle" /\ countedIn[r] < life /\ ttl > 0 => age[r] + ttl >= Window
    /\ \A r \in Requests :
          step[r] # "idle" /\ countedIn[r] + 1 < life => age[r] = Window
    /\ ttl > 0 => \E r \in Requests :
          step[r] = "admitted" /\ countedIn[r] = life /\ age[r] + ttl >= Window
    /\ life > 0 => \E r \in Requests :
          step[r] = "admitted" /\ countedIn[r] + 1 = life /\ age[r] = Window

RateInv == Types /\ Counts /\ Admits /\ Refuses /\ First /\ Ages

-----------------------------------------------------------------------------
(* Sets of requests                                                        *)

LEMMA RequestSets ==
    ASSUME NEW S \in SUBSET Requests
    PROVE  /\ IsFiniteSet(S) /\ Cardinality(S) \in Nat
           /\ \A T \in SUBSET S : Cardinality(T) \in Nat /\ Cardinality(T) <= Cardinality(S)
           /\ \A r \in Requests \ S : Cardinality(S \cup {r}) = Cardinality(S) + 1
           /\ \A r \in S : Cardinality(S \ {r}) = Cardinality(S) - 1
<1>1. IsFiniteSet(S)
  BY RequestsAssumption, FS_Subset
<1>2. Cardinality(S) \in Nat
  BY <1>1, FS_CardinalityType
<1>3. ASSUME NEW T \in SUBSET S
      PROVE  Cardinality(T) \in Nat /\ Cardinality(T) <= Cardinality(S)
  <2>1. IsFiniteSet(T) /\ Cardinality(T) <= Cardinality(S)
    BY <1>1, FS_Subset
  <2>2. QED
    BY <2>1, FS_CardinalityType
<1>4. \A r \in Requests \ S : Cardinality(S \cup {r}) = Cardinality(S) + 1
  BY <1>1, FS_AddElement
<1>5. \A r \in S : Cardinality(S \ {r}) = Cardinality(S) - 1
  BY <1>1, FS_RemoveElement
<1>6. QED
  BY <1>1, <1>2, <1>3, <1>4, <1>5

LEMMA SetTypes ==
    \A st, ci, L :
        /\ Counted(st, ci, L) \in SUBSET Requests
        /\ Entered(st, ci, L) \in SUBSET Counted(st, ci, L)
        /\ Entered(st, ci, L) \in SUBSET Requests
        /\ Kept(st, ci, L) \in SUBSET Requests
        /\ Past(st, ci, L) \in SUBSET Requests
  BY DEF Counted, Entered, Kept, Past

LEMMA NoRequests == Cardinality({}) = 0
  BY FS_EmptySet

-----------------------------------------------------------------------------
(* Init                                                                    *)

LEMMA InitRate == Init => RateInv
<1> SUFFICES ASSUME Init
             PROVE  RateInv
  OBVIOUS
<1>1. \A L : /\ Counted(step, countedIn, L) = {} /\ Entered(step, countedIn, L) = {}
             /\ Kept(step, countedIn, L) = {} /\ Past(step, countedIn, L) = {}
  BY DEF Init, Counted, Entered, Kept, Past
<1>2. Types
  BY LimitsAssumption DEF Init, Types, Steps, NoCounter
<1>3. Counts /\ Admits /\ Refuses
  BY <1>1, NoRequests, LimitsAssumption DEF Counts, Admits, Refuses, Init
<1>4. First /\ Ages
  BY DEF First, Ages, Init, NoCounter
<1>5. QED
  BY <1>2, <1>3, <1>4 DEF RateInv
-----------------------------------------------------------------------------
(* Incr                                                                    *)

LEMMA IncrKeeps ==
    ASSUME RateInv, NEW r \in Requests, Incr(r)
    PROVE  RateInv'
<1>1. /\ Types /\ Counts /\ Admits /\ Refuses /\ First /\ Ages
      /\ count \in Nat /\ life \in Nat /\ Limit \in Nat /\ Limit >= 1
  BY LimitsAssumption DEF RateInv, Types
<1>2. PICK to \in {IF SetsExpiry(count') THEN "expiring" ELSE Judge(count')}
                     \cup (IF CallsFail THEN {"failed"} ELSE {}) :
         step' = [step EXCEPT ![r] = to]
  BY DEF Incr
<1>3. /\ step[r] = "idle" /\ count' = count + 1 /\ life' = life /\ age' = age
      /\ retryAfter' = retryAfter
      /\ countedIn' = [countedIn EXCEPT ![r] = life]
      /\ ttl' = (IF count = 0 THEN NoExpiry ELSE ttl)
  BY DEF Incr
<1>4. /\ step'[r] = to /\ countedIn'[r] = life
      /\ \A s \in Requests : s # r => step'[s] = step[s] /\ countedIn'[s] = countedIn[s]
  BY <1>1, <1>2, <1>3 DEF Types
<1>5. /\ to \in {"expiring", "refusing", "admitted", "failed"}
      /\ to = "expiring" => count' = 1
      /\ to = "admitted" => count' <= Limit
      /\ to = "refusing" => count' > Limit
  <2>1. CASE to = "failed"
    BY <2>1
  <2>2. CASE to # "failed"
    <3>1. to = (IF SetsExpiry(count') THEN "expiring" ELSE Judge(count'))
      BY <1>2, <2>2
    <3>2. QED
      BY <1>1, <1>3, <3>1 DEF SetsExpiry, Judge, OverLimit
  <2>3. QED
    BY <2>1, <2>2
<1>6. Types'
  <2>1. step' \in [Requests -> Steps] /\ countedIn' \in [Requests -> Nat]
    BY <1>1, <1>2, <1>3, <1>5 DEF Types, Steps
  <2>2. ttl' \in {NoExpiry, NoCounter} \cup 1 .. Window /\ (count' = 0 <=> ttl' = NoCounter)
    BY <1>1, <1>3 DEF Types, NoExpiry, NoCounter
  <2>3. \A s \in Requests : countedIn'[s] <= life
    BY <1>1, <1>4 DEF Types
  <2>4. \A s \in Requests :
           retryAfter[s] \in (IF step'[s] = "refused" THEN 1 .. Window ELSE {0})
    BY <1>1, <1>3, <1>4, <1>5 DEF Types
  <2>5. QED
    BY <1>1, <1>3, <2>1, <2>2, <2>3, <2>4 DEF Types
<1>7. /\ Counted(step', countedIn', life) = Counted(step, countedIn, life) \cup {r}
      /\ r \notin Counted(step, countedIn, life)
  BY <1>3, <1>4, <1>5 DEF Counted
<1>8. Past(step', countedIn', life) = Past(step, countedIn, life)
  BY <1>1, <1>3, <1>4 DEF Past
<1>9. Counts'
  <2>1. Cardinality(Counted(step, countedIn, life) \cup {r})
           = Cardinality(Counted(step, countedIn, life)) + 1
    BY <1>7, SetTypes, RequestSets
  <2>2. QED
    BY <1>1, <1>3, <1>7, <1>8, <2>1 DEF Counts
<1>10. Admits'
  <2> SUFFICES ASSUME NEW L \in Nat
               PROVE  Cardinality(Entered(step', countedIn', L)) <= Limit
    BY DEF Admits
  <2>1. CASE L # life \/ to \notin {"expiring", "admitted"}
    <3>1. Entered(step', countedIn', L) = Entered(step, countedIn, L)
      BY <1>3, <1>4, <2>1 DEF Entered
    <3>2. QED
      BY <1>1, <3>1 DEF Admits
  <2>2. CASE L = life /\ to \in {"expiring", "admitted"}
    <3>1. /\ Cardinality(Entered(step', countedIn', life)) \in Nat
          /\ Cardinality(Entered(step', countedIn', life))
                <= Cardinality(Counted(step', countedIn', life))
      BY SetTypes, RequestSets
    <3>2. Cardinality(Counted(step', countedIn', life)) = count'
      BY <1>3, <1>9 DEF Counts
    <3>3. count' <= Limit /\ count' \in Nat
      BY <1>1, <1>3, <1>5, <2>2
    <3>4. QED
      BY <1>1, <2>2, <3>1, <3>2, <3>3
  <2>3. QED
    BY <2>1, <2>2
<1>11. /\ Cardinality(Kept(step, countedIn, life)) \in Nat
       /\ to = "refusing" => Cardinality(Kept(step', countedIn', life))
                                = Cardinality(Kept(step, countedIn, life))
       /\ to # "refusing" => Cardinality(Kept(step', countedIn', life))
                                = Cardinality(Kept(step, countedIn, life)) + 1
  <2>1. Cardinality(Kept(step, countedIn, life)) \in Nat
    BY SetTypes, RequestSets
  <2>2. ASSUME to = "refusing"
        PROVE  Kept(step', countedIn', life) = Kept(step, countedIn, life)
    BY <1>3, <1>4, <2>2 DEF Kept
  <2>3. ASSUME to # "refusing"
        PROVE  /\ Kept(step', countedIn', life) = Kept(step, countedIn, life) \cup {r}
               /\ r \in Requests \ Kept(step, countedIn, life)
    BY <1>3, <1>4, <1>5, <2>3 DEF Kept
  <2>4. ASSUME to # "refusing"
        PROVE  Cardinality(Kept(step, countedIn, life) \cup {r})
                  = Cardinality(Kept(step, countedIn, life)) + 1
    BY <2>3, <2>4, SetTypes, RequestSets
  <2>5. QED
    BY <2>1, <2>2, <2>3, <2>4
<1>12. /\ \/ Cardinality(Kept(step', countedIn', life)) >= count'
          \/ Cardinality(Kept(step', countedIn', life)) >= Limit
       /\ to = "refusing" => Cardinality(Kept(step', countedIn', life)) >= Limit
  <2>1. \/ Cardinality(Kept(step, countedIn, life)) >= count
        \/ Cardinality(Kept(step, countedIn, life)) >= Limit
    BY <1>1 DEF Refuses
  <2>2. QED
    BY <1>1, <1>3, <1>5, <1>11, <2>1
<1>13. Refuses'
  <2>1. ASSUME NEW s \in Requests, step'[s] \in {"refusing", "refused"}
        PROVE  Cardinality(Kept(step', countedIn', countedIn'[s])) >= Limit
    <3>1. CASE s = r
      BY <1>4, <1>5, <1>12, <2>1, <3>1
    <3>2. CASE s # r
      <4>1. /\ countedIn'[s] = countedIn[s]
            /\ Cardinality(Kept(step, countedIn, countedIn[s])) >= Limit
        BY <1>1, <1>4, <2>1, <3>2 DEF Refuses
      <4>2. CASE countedIn[s] = life
        <5>1. Cardinality(Kept(step, countedIn, life)) >= Limit
          BY <4>1, <4>2
        <5>2. Cardinality(Kept(step', countedIn', life)) >= Limit
          BY <1>1, <1>11, <5>1
        <5>3. QED
          BY <4>1, <4>2, <5>2
      <4>3. CASE countedIn[s] # life
        <5>1. Kept(step', countedIn', countedIn[s]) = Kept(step, countedIn, countedIn[s])
          BY <1>3, <1>4, <4>3 DEF Kept
        <5>2. QED
          BY <4>1, <5>1
      <4>4. QED
        BY <4>2, <4>3
    <3>3. QED
      BY <3>1, <3>2
  <2>2. QED
    BY <1>3, <1>12, <2>1 DEF Refuses
<1>14. First'
  <2>1. \A s \in Requests : step[s] = "expiring" => count # 0
    BY <1>1 DEF First, Types, NoExpiry, NoCounter
  <2>2. \A s \in Requests : s # r /\ step'[s] = "expiring" => count # 0 /\ to # "expiring"
    BY <1>1, <1>3, <1>4, <1>5, <2>1
  <2>3. to = "expiring" => ttl' = NoExpiry
    BY <1>1, <1>3, <1>5
  <2>4. QED
    BY <1>1, <1>3, <1>4, <2>2, <2>3 DEF First
<1>15. Ages'
  <2>1. ttl' > 0 => ttl' = ttl
    BY <1>3 DEF NoExpiry
  <2>2. \A s \in Requests : step[s] = "admitted" => s # r
    BY <1>3
  <2>3. \A s \in Requests : step'[s] # "idle" /\ countedIn'[s] < life => s # r
    BY <1>1, <1>4
  <2>4. \A s \in Requests : step'[s] # "idle" /\ countedIn'[s] + 1 < life => s # r
    BY <1>1, <1>4
  <2>5. QED
    BY <1>1, <1>3, <1>4, <2>1, <2>2, <2>3, <2>4 DEF Ages
<1>16. QED
  BY <1>6, <1>9, <1>10, <1>13, <1>14, <1>15 DEF RateInv


-----------------------------------------------------------------------------
(* Expire, Refuse and Fail                                                 *)

(* What a counted request does next leaves the counters and who was        *)
(* counted alone, lets nobody in and takes no refusal back.                *)
LEMMA ProceedKeeps ==
    ASSUME RateInv, NEW r \in Requests, step[r] \in {"expiring", "refusing"},
           NEW to \in {"admitted", "refused", "failed"},
           to = "admitted" => step[r] = "expiring",
           to = "refused" => step[r] = "refusing",
           step' = [step EXCEPT ![r] = to],
           UNCHANGED <<count, life, countedIn, age>>
    PROVE  /\ step' \in [Requests -> Steps] /\ step'[r] = to
           /\ \A s \in Requests : s # r => step'[s] = step[s]
           /\ Counts' /\ Admits' /\ Refuses'
<1>1. /\ Types /\ Counts /\ Admits /\ Refuses
      /\ count \in Nat /\ life \in Nat /\ Limit \in Nat
  BY LimitsAssumption DEF RateInv, Types
<1>2. step' \in [Requests -> Steps] /\ step'[r] = to
  BY <1>1 DEF Types, Steps
<1>3. \A s \in Requests : s # r => step'[s] = step[s]
  BY <1>1 DEF Types
<1>4. Counts'
  <2>1. Counted(step', countedIn, life) = Counted(step, countedIn, life)
    BY <1>2, <1>3 DEF Counted
  <2>2. Past(step', countedIn, life) = Past(step, countedIn, life)
    BY <1>2, <1>3 DEF Past
  <2>3. QED
    BY <1>1, <2>1, <2>2 DEF Counts
<1>5. Admits'
  <2> SUFFICES ASSUME NEW L \in Nat
               PROVE  Cardinality(Entered(step', countedIn, L)) <= Limit
    BY DEF Admits
  <2>1. Entered(step', countedIn, L) \in SUBSET Entered(step, countedIn, L)
    BY <1>2, <1>3 DEF Entered
  <2>2. /\ Cardinality(Entered(step, countedIn, L)) \in Nat
        /\ Cardinality(Entered(step', countedIn, L)) \in Nat
        /\ Cardinality(Entered(step', countedIn, L)) <= Cardinality(Entered(step, countedIn, L))
    BY <2>1, SetTypes, RequestSets
  <2>3. Cardinality(Entered(step, countedIn, L)) <= Limit
    BY <1>1 DEF Admits
  <2>4. QED
    BY <1>1, <2>2, <2>3
<1>6. \A L :
         /\ Cardinality(Kept(step, countedIn, L)) \in Nat
         /\ Cardinality(Kept(step', countedIn, L)) \in Nat
         /\ Cardinality(Kept(step, countedIn, L)) <= Cardinality(Kept(step', countedIn, L))
  <2> TAKE L
  <2>1. Kept(step, countedIn, L) \in SUBSET Kept(step', countedIn, L)
    BY <1>2, <1>3 DEF Kept
  <2>2. QED
    BY <2>1, SetTypes, RequestSets
<1>7. Refuses'
  <2>1. \/ Cardinality(Kept(step', countedIn, life)) >= count
        \/ Cardinality(Kept(step', countedIn, life)) >= Limit
    <3>1. \/ Cardinality(Kept(step, countedIn, life)) >= count
          \/ Cardinality(Kept(step, countedIn, life)) >= Limit
      BY <1>1 DEF Refuses
    <3>2. /\ Cardinality(Kept(step, countedIn, life)) \in Nat
          /\ Cardinality(Kept(step', countedIn, life)) \in Nat
          /\ Cardinality(Kept(step, countedIn, life))
                <= Cardinality(Kept(step', countedIn, life))
      BY <1>6
    <3>3. QED
      BY <1>1, <3>1, <3>2
  <2>2. ASSUME NEW s \in Requests, step'[s] \in {"refusing", "refused"}
        PROVE  Cardinality(Kept(step', countedIn, countedIn[s])) >= Limit
    <3>1. step[s] \in {"refusing", "refused"}
      BY <1>2, <1>3, <2>2
    <3>2. Cardinality(Kept(step, countedIn, countedIn[s])) >= Limit
      BY <1>1, <3>1 DEF Refuses
    <3>3. /\ Cardinality(Kept(step, countedIn, countedIn[s])) \in Nat
          /\ Cardinality(Kept(step', countedIn, countedIn[s])) \in Nat
          /\ Cardinality(Kept(step, countedIn, countedIn[s]))
                <= Cardinality(Kept(step', countedIn, countedIn[s]))
      BY <1>6
    <3>4. QED
      BY <1>1, <3>2, <3>3
  <2>3. QED
    BY <2>1, <2>2 DEF Refuses
<1>8. QED
  BY <1>2, <1>3, <1>4, <1>5, <1>7

LEMMA ExpireKeeps ==
    ASSUME RateInv, NEW r \in Requests, Expire(r)
    PROVE  RateInv'
<1>1. /\ Types /\ Counts /\ First /\ Ages
      /\ Limit \in Nat /\ Limit >= 1 /\ Window \in Nat /\ Window >= 1
  BY LimitsAssumption DEF RateInv
<1>2. /\ step[r] = "expiring" /\ ttl' = Window
      /\ UNCHANGED <<count, life, countedIn, age, retryAfter>>
      /\ step' = [step EXCEPT ![r] = "admitted"]
  <2>1. Judge(1) = "admitted"
    BY <1>1 DEF Judge, OverLimit
  <2>2. QED
    BY <2>1 DEF Expire
<1>3. /\ step' \in [Requests -> Steps] /\ step'[r] = "admitted"
      /\ \A s \in Requests : s # r => step'[s] = step[s]
      /\ Counts' /\ Admits' /\ Refuses'
  BY <1>2, ProceedKeeps
<1>4. ttl = NoExpiry /\ countedIn[r] = life
      /\ \A s \in Requests : step[s] = "expiring" => s = r
  BY <1>1, <1>2 DEF First
<1>5. Types'
  <2>1. ttl' \in {NoExpiry, NoCounter} \cup 1 .. Window /\ (count' = 0 <=> ttl' = NoCounter)
    BY <1>1, <1>2, <1>4 DEF Types, NoExpiry, NoCounter
  <2>2. \A s \in Requests :
           retryAfter[s] \in (IF step'[s] = "refused" THEN 1 .. Window ELSE {0})
    BY <1>1, <1>2, <1>3 DEF Types
  <2>3. QED
    BY <1>1, <1>2, <1>3, <2>1, <2>2 DEF Types
<1>6. First'
  BY <1>2, <1>3, <1>4 DEF First
<1>7. Ages'
  <2>1. \A s \in Requests : age[s] \in Nat /\ age[s] + Window >= Window
    BY <1>1 DEF Types
  <2>2. \A s \in Requests : step'[s] # "idle" => step[s] # "idle"
    BY <1>2, <1>3
  <2>3. \A s \in Requests : step[s] = "admitted" => step'[s] = "admitted"
    BY <1>2, <1>3
  <2>4. QED
    BY <1>1, <1>2, <1>3, <1>4, <2>1, <2>2, <2>3 DEF Ages
<1>8. QED
  BY <1>3, <1>5, <1>6, <1>7 DEF RateInv

LEMMA GiveUpKeeps ==
    ASSUME RateInv, NEW r \in Requests, Refuse(r) \/ Fail(r)
    PROVE  RateInv'
<1>1. /\ Types /\ First /\ Ages /\ Window \in Nat /\ Window >= 1
  BY LimitsAssumption DEF RateInv
<1>2. PICK to \in {"refused", "failed"} :
         /\ step' = [step EXCEPT ![r] = to]
         /\ step[r] \in {"expiring", "refusing"}
         /\ to = "refused" => step[r] = "refusing" /\ retryAfter' = [retryAfter EXCEPT ![r] = Seconds]
         /\ to = "failed" => retryAfter' = retryAfter
  BY DEF Refuse, Fail
<1>3. UNCHANGED <<count, ttl, life, countedIn, age>>
  BY DEF Refuse, Fail, counter
<1>4. /\ step' \in [Requests -> Steps] /\ step'[r] = to
      /\ \A s \in Requests : s # r => step'[s] = step[s]
      /\ Counts' /\ Admits' /\ Refuses'
  BY <1>2, <1>3, ProceedKeeps
<1>5. Types'
  <2>1. Seconds \in 1 .. Window
    BY <1>1 DEF Types, Seconds, NoExpiry, NoCounter
  <2>2. /\ DOMAIN retryAfter' = Requests
        /\ \A s \in Requests : s # r => retryAfter'[s] = retryAfter[s]
        /\ to = "refused" => retryAfter'[r] = Seconds
        /\ to = "failed" => retryAfter'[r] = retryAfter[r]
    BY <1>1, <1>2 DEF Types
  <2>3. retryAfter[r] \in {0}
    BY <1>1, <1>2 DEF Types
  <2>4. \A s \in Requests :
           retryAfter'[s] \in (IF step'[s] = "refused" THEN 1 .. Window ELSE {0})
    BY <1>1, <1>4, <2>1, <2>2, <2>3 DEF Types
  <2>5. QED
    BY <1>1, <1>3, <1>4, <2>2, <2>4 DEF Types
<1>6. First'
  BY <1>1, <1>2, <1>3, <1>4 DEF First
<1>7. Ages'
  <2>1. \A s \in Requests : step'[s] # "idle" => step[s] # "idle"
    BY <1>2, <1>4
  <2>2. \A s \in Requests : step[s] = "admitted" => step'[s] = "admitted"
    BY <1>2, <1>4
  <2>3. QED
    BY <1>1, <1>3, <2>1, <2>2 DEF Ages
<1>8. QED
  BY <1>4, <1>5, <1>6, <1>7 DEF RateInv

-----------------------------------------------------------------------------
(* Tick                                                                    *)

LEMMA TickKeeps ==
    ASSUME RateInv, Tick
    PROVE  RateInv'
<1>1. /\ Types /\ Counts /\ Admits /\ Refuses /\ First /\ Ages
      /\ count \in Nat /\ life \in Nat /\ Limit \in Nat /\ Window \in Nat /\ Window >= 1
      /\ ttl \in {NoExpiry, NoCounter} \cup 1 .. Window
  BY LimitsAssumption DEF RateInv, Types
<1>2. UNCHANGED <<step, countedIn, retryAfter>>
  BY DEF Tick
<1>3. age' = [r \in Requests |-> IF step[r] # "idle" /\ age[r] < Window
                                 THEN age[r] + 1 ELSE age[r]]
  BY DEF Tick
<1>4. /\ age' \in [Requests -> 0 .. Window]
      /\ \A r \in Requests : age'[r] >= age[r]
      /\ \A r \in Requests : step[r] # "idle" => age'[r] = Window \/ age'[r] = age[r] + 1
  BY <1>1, <1>3 DEF Types
<1>5. Admits'
  BY <1>1, <1>2 DEF Admits
<1>6. CASE ttl = 1
  <2>1. count' = 0 /\ ttl' = NoCounter /\ life' = life + 1
    BY <1>6 DEF Tick
  <2>2. PICK x \in Requests : step[x] = "admitted" /\ countedIn[x] = life /\ age[x] + 1 >= Window
    BY <1>1, <1>6 DEF Ages
  <2>3. Types'
    <3>1. \A r \in Requests : countedIn[r] <= life + 1
      BY <1>1 DEF Types
    <3>2. QED
      BY <1>1, <1>2, <1>4, <2>1, <3>1 DEF Types
  <2>4. Counts'
    <3>1. Counted(step, countedIn, life + 1) = {}
      BY <1>1 DEF Types, Counted
    <3>2. /\ x \in Requests \ Past(step, countedIn, life)
          /\ Past(step, countedIn, life) \cup {x} \in SUBSET Past(step, countedIn, life + 1)
      BY <1>1, <2>2 DEF Types, Past
    <3>3. /\ Cardinality(Past(step, countedIn, life) \cup {x})
                = Cardinality(Past(step, countedIn, life)) + 1
          /\ Cardinality(Past(step, countedIn, life)) \in Nat
      BY <3>2, SetTypes, RequestSets
    <3>4. /\ Cardinality(Past(step, countedIn, life) \cup {x})
                <= Cardinality(Past(step, countedIn, life + 1))
          /\ Cardinality(Past(step, countedIn, life + 1)) \in Nat
      BY <3>2, SetTypes, RequestSets
    <3>5. QED
      BY <1>1, <1>2, <2>1, <3>1, <3>3, <3>4, NoRequests DEF Counts
  <2>5. Refuses'
    <3>1. Cardinality(Kept(step, countedIn, life + 1)) \in Nat
      BY SetTypes, RequestSets
    <3>2. QED
      BY <1>1, <1>2, <2>1, <3>1 DEF Refuses
  <2>6. First'
    <3>1. \A r \in Requests : step[r] # "expiring"
      BY <1>1, <1>6 DEF First, NoExpiry
    <3>2. QED
      BY <1>2, <3>1 DEF First
  <2>7. Ages'
    <3>1. ~ ttl' > 0
      BY <2>1 DEF NoCounter
    <3>2. ASSUME NEW r \in Requests, step[r] # "idle", countedIn[r] + 1 < life + 1
          PROVE  age'[r] = Window
      <4>1. countedIn[r] \in Nat /\ age[r] \in Nat /\ age[r] <= Window /\ age'[r] \in 0 .. Window
        BY <1>1, <1>4 DEF Types
      <4>2. age[r] + 1 >= Window
        BY <1>1, <1>6, <3>2, <4>1 DEF Ages
      <4>3. QED
        BY <1>1, <1>4, <3>2, <4>1, <4>2
    <3>3. age'[x] = Window /\ countedIn[x] + 1 = life + 1
      <4>1. age[x] \in Nat /\ age'[x] \in 0 .. Window /\ step[x] # "idle"
        BY <1>1, <1>4, <2>2 DEF Types
      <4>2. QED
        BY <1>1, <1>4, <2>2, <4>1
    <3>4. QED
      BY <1>2, <2>1, <2>2, <3>1, <3>2, <3>3 DEF Ages
  <2>8. QED
    BY <1>5, <2>3, <2>4, <2>5, <2>6, <2>7 DEF RateInv
<1>7. CASE ttl # 1
  <2>1. /\ ttl' = (IF ttl > 0 THEN ttl - 1 ELSE ttl)
        /\ UNCHANGED <<count, life>>
    BY <1>7 DEF Tick
  <2>2. Types'
    <3>1. /\ ttl' \in {NoExpiry, NoCounter} \cup 1 .. Window
          /\ count' = 0 <=> ttl' = NoCounter
      BY <1>1, <1>7, <2>1 DEF Types, NoExpiry, NoCounter
    <3>2. QED
      BY <1>1, <1>2, <1>4, <2>1, <3>1 DEF Types
  <2>3. Counts' /\ Refuses'
    BY <1>1, <1>2, <2>1 DEF Counts, Refuses
  <2>4. First'
    BY <1>1, <1>2, <2>1 DEF First, NoExpiry
  <2>5. Ages'
    <3>1. ttl \in Int /\ ttl' \in Int /\ (ttl' > 0 => ttl > 0 /\ ttl' = ttl - 1)
      BY <1>1, <1>7, <2>1 DEF NoExpiry, NoCounter
    <3>2. ASSUME NEW r \in Requests, step[r] # "idle"
          PROVE  /\ ttl' > 0 /\ age[r] + ttl >= Window => age'[r] + ttl' >= Window
                 /\ age[r] = Window => age'[r] = Window
      <4>1. age[r] \in 0 .. Window /\ age'[r] \in 0 .. Window
        BY <1>1, <1>4 DEF Types
      <4>2. age'[r] >= age[r] /\ (age'[r] = Window \/ age'[r] = age[r] + 1)
        BY <1>4, <3>2
      <4>3. ASSUME ttl' > 0, age[r] + ttl >= Window
            PROVE  age'[r] + ttl' >= Window
        BY <1>1, <3>1, <4>1, <4>2, <4>3
      <4>4. ASSUME age[r] = Window
            PROVE  age'[r] = Window
        BY <1>1, <4>1, <4>2, <4>4
      <4>5. QED
        BY <4>3, <4>4
    <3>3. QED
      BY <1>1, <1>2, <2>1, <3>1, <3>2 DEF Ages
  <2>6. QED
    BY <1>5, <2>2, <2>3, <2>4, <2>5 DEF RateInv
<1>8. QED
  BY <1>6, <1>7

-----------------------------------------------------------------------------
(* Theorems                                                                *)

LEMMA StepRate == RateInv /\ [Next]_vars => RateInv'
<1> SUFFICES ASSUME RateInv, [Next]_vars
             PROVE  RateInv'
  OBVIOUS
<1>1. CASE Tick
  BY <1>1, TickKeeps
<1>2. ASSUME NEW r \in Requests, Incr(r)
      PROVE  RateInv'
  BY <1>2, IncrKeeps
<1>3. ASSUME NEW r \in Requests, Expire(r)
      PROVE  RateInv'
  BY <1>3, ExpireKeeps
<1>4. ASSUME NEW r \in Requests, Refuse(r) \/ Fail(r)
      PROVE  RateInv'
  BY <1>4, GiveUpKeeps
<1>5. CASE UNCHANGED vars
  BY <1>5 DEF vars, counter, request, RateInv, Types, Counts, Admits, Refuses, First, Ages
<1>6. QED
  BY <1>1, <1>2, <1>3, <1>4, <1>5 DEF Next, Proceed

(* The counter counts the requests of its life, lets in no more of them    *)
(* than the limit, and what is older than its time to live is Window old.  *)
THEOREM RateInvariant == Spec => []RateInv
  BY InitRate, StepRate, PTL DEF Spec

LEMMA RateTypes == RateInv => TypeOK
<1> SUFFICES ASSUME RateInv
             PROVE  TypeOK
  OBVIOUS
<1>1. Types /\ Counts
  BY DEF RateInv
<1>2. /\ Cardinality(Requests) \in Nat
      /\ Cardinality(Counted(step, countedIn, life)) <= Cardinality(Requests)
      /\ Cardinality(Past(step, countedIn, life)) \in Nat
      /\ Cardinality(Past(step, countedIn, life)) <= Cardinality(Requests)
  BY SetTypes, RequestSets
<1>3. count \in 0 .. Cardinality(Requests) /\ life \in 0 .. Cardinality(Requests)
  BY <1>1, <1>2 DEF Types, Counts
<1>4. countedIn \in [Requests -> 0 .. life]
  BY <1>1 DEF Types
<1>5. QED
  BY <1>1, <1>3, <1>4 DEF Types, TypeOK, Steps

(* Every refusal carries a Retry-After of 1 to Window, whatever TTL        *)
(* answered, and the counter never counts more than the client sent.       *)
THEOREM TypesCorrect == Spec => []TypeOK
  BY RateInvariant, RateTypes, PTL

LEMMA RateRefuses == RateInv => RefusedAtLimit
  BY DEF RateInv, Refuses, RefusedAtLimit, Kept

(* A request is refused only when as many as the limit allows were counted *)
(* with it and not refused.                                                *)
THEOREM RefusalsAreEarned == Spec => []RefusedAtLimit
  BY RateInvariant, RateRefuses, PTL

LEMMA RateBurst == RateInv => BurstIsBounded
<1> SUFFICES ASSUME RateInv
             PROVE  BurstIsBounded
  OBVIOUS
<1> DEFINE Recent == {r \in Requests : step[r] = "admitted" /\ age[r] < Window}
           Now    == Entered(step, countedIn, life)
           Before == Entered(step, countedIn, life - 1)
<1>1. /\ Types /\ Admits /\ Ages /\ life \in Nat
      /\ Limit \in Nat /\ Limit >= 1 /\ Window \in Nat
  BY LimitsAssumption DEF RateInv, Types
<1>2. ASSUME NEW r \in Recent
      PROVE  r \in Requests /\ (r \in Now \/ (life > 0 /\ r \in Before))
  <2>1. /\ r \in Requests /\ step[r] = "admitted" /\ age[r] # Window
        /\ countedIn[r] \in Nat /\ countedIn[r] <= life
    BY <1>1, <1>2 DEF Types
  <2>2. ~ countedIn[r] + 1 < life
    BY <1>1, <2>1 DEF Ages
  <2>3. countedIn[r] = life \/ (life > 0 /\ countedIn[r] = life - 1)
    BY <1>1, <2>1, <2>2
  <2>4. QED
    BY <2>1, <2>3 DEF Entered
<1>3. Now \in SUBSET Requests /\ Cardinality(Now) \in Nat /\ Cardinality(Now) <= Limit
  BY <1>1, SetTypes, RequestSets DEF Admits
<1>4. CASE life = 0
  <2>1. Recent \in SUBSET Now
    BY <1>2, <1>4
  <2>2. Cardinality(Recent) \in Nat /\ Cardinality(Recent) <= Cardinality(Now)
    BY <1>3, <2>1, RequestSets
  <2>3. QED
    BY <1>1, <1>3, <2>2 DEF BurstIsBounded
<1>5. CASE life > 0
  <2>1. PICK x \in Requests : step[x] = "admitted" /\ countedIn[x] + 1 = life /\ age[x] = Window
    BY <1>1, <1>5 DEF Ages
  <2>2. x \in Before /\ x \notin Recent
    <3>1. countedIn[x] = life - 1 /\ ~ age[x] < Window
      BY <1>1, <2>1 DEF Types
    <3>2. QED
      BY <2>1, <3>1 DEF Entered
  <2>3. Before \in SUBSET Requests /\ Cardinality(Before) \in Nat /\ Cardinality(Before) <= Limit
    BY <1>1, <1>5, SetTypes, RequestSets DEF Admits
  <2>4. /\ Cardinality(Before \ {x}) = Cardinality(Before) - 1
        /\ Before \ {x} \in SUBSET Requests
    BY <2>2, <2>3, RequestSets
  <2>5. IsFiniteSet(Now) /\ IsFiniteSet(Before \ {x})
    BY <1>3, <2>4, RequestSets
  <2>6. Cardinality(Now \cup (Before \ {x}))
           = Cardinality(Now) + Cardinality(Before \ {x}) - Cardinality(Now \cap (Before \ {x}))
    BY <2>5, FS_Union
  <2>7. /\ Recent \in SUBSET (Now \cup (Before \ {x}))
        /\ Now \cup (Before \ {x}) \in SUBSET Requests
        /\ Now \cap (Before \ {x}) \in SUBSET Requests
    BY <1>2, <1>3, <2>2, <2>4
  <2>8. /\ Cardinality(Recent) \in Nat
        /\ Cardinality(Recent) <= Cardinality(Now \cup (Before \ {x}))
        /\ Cardinality(Now \cup (Before \ {x})) \in Nat
        /\ Cardinality(Now \cap (Before \ {x})) \in Nat
    BY <2>7, RequestSets
  <2>9. Cardinality(Recent) < 2 * Limit
    <3> HIDE DEF Recent, Now, Before
    <3>1. QED
      BY <1>1, <1>3, <2>3, <2>4, <2>6, <2>8
  <2>10. QED
    BY <2>9 DEF BurstIsBounded
<1>6. QED
  BY <1>1, <1>4, <1>5

(* In no stretch of Window ticks are twice as many requests let in as the  *)
(* limit, however they get between INCR and EXPIRE of one another: all of  *)
(* them were counted by the counter that is there and the one before it,   *)
(* whose first is already Window old.                                      *)
THEOREM BurstsAreBounded == Spec => []BurstIsBounded
  BY RateInvariant, RateBurst, PTL
=============================================================================
