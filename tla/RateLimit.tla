----------------------------- MODULE RateLimit -----------------------------
(***************************************************************************)
(* enforce_rate_limit of src/rate_limit.py, for one scope and one client:  *)
(* a counter in Redis that every request increments, and whose first       *)
(* increment is to give it a time to live.  The three Redis calls are      *)
(* separate, so concurrent requests get between them.                      *)
(***************************************************************************)
EXTENDS Integers, FiniteSets

CONSTANTS
    Requests,   (* requests the client sends, at any time                  *)
    Limit,      (* limit                                                   *)
    Window,     (* window_sec, in clock ticks                              *)
    CallsFail   (* may a call to Redis fail, or the process stop?          *)

ASSUME RequestsAssumption == IsFiniteSet(Requests)

ASSUME LimitsAssumption ==
    /\ Limit \in Nat \ {0}
    /\ Window \in Nat \ {0}
    /\ CallsFail \in BOOLEAN

(* What TTL answers about a key that never expires, and about no key.      *)
NoExpiry == -1
NoCounter  == -2

VARIABLES
    count,       (* the counter, 0 when the key does not exist             *)
    ttl,         (* what TTL answers                                       *)
    life,        (* how many counters there have been before this one      *)
    step,        (* where each request is                                  *)
    countedIn,   (* the life of the counter each request incremented       *)
    age,         (* ticks since it did, at most Window                     *)
    retryAfter   (* the Retry-After header of a refusal                    *)

counter == <<count, ttl, life>>
request == <<step, countedIn, age, retryAfter>>
vars    == <<counter, request>>

-----------------------------------------------------------------------------

Init ==
    /\ count = 0 /\ ttl = NoCounter /\ life = 0
    /\ step = [r \in Requests |-> "idle"]
    /\ countedIn = [r \in Requests |-> 0]
    /\ age = [r \in Requests |-> 0]
    /\ retryAfter = [r \in Requests |-> 0]

(* The conditions of the code, each after mutants of it.                   *)
SecondSetsExpiry(n) == n = 2
SetsExpiry(n)       == n = 1

LimitByOneMore(n) == n > Limit + 1
AtLimit(n)        == n >= Limit
OverLimit(n)      == n > Limit

RawTTL  == ttl
Seconds == IF ttl < 1 THEN 1 ELSE ttl

Judge(n) == IF OverLimit(n) THEN "refusing" ELSE "admitted"

(* INCR, and what the request does next with the number it answers.        *)
Incr(r) ==
    /\ step[r] = "idle"
    /\ count' = count + 1
    /\ ttl' = IF count = 0 THEN NoExpiry ELSE ttl
    /\ countedIn' = [countedIn EXCEPT ![r] = life]
    /\ \E next \in {IF SetsExpiry(count') THEN "expiring" ELSE Judge(count')}
                     \cup (IF CallsFail THEN {"failed"} ELSE {}) :
          step' = [step EXCEPT ![r] = next]
    /\ UNCHANGED <<life, age, retryAfter>>

Expire(r) ==
    /\ step[r] = "expiring"
    /\ ttl' = Window
    /\ step' = [step EXCEPT ![r] = Judge(1)]
    /\ UNCHANGED <<count, life, countedIn, age, retryAfter>>

(* The TTL of the counter, which may be a later one, or gone.              *)
Refuse(r) ==
    /\ step[r] = "refusing"
    /\ retryAfter' = [retryAfter EXCEPT ![r] = Seconds]
    /\ step' = [step EXCEPT ![r] = "refused"]
    /\ UNCHANGED <<counter, countedIn, age>>

(* The call fails before Redis executes it, or the process stops.          *)
Fail(r) ==
    /\ CallsFail
    /\ step[r] \in {"expiring", "refusing"}
    /\ step' = [step EXCEPT ![r] = "failed"]
    /\ UNCHANGED <<counter, countedIn, age, retryAfter>>

(* A tick of Redis's clock; the counter goes when its time is up.          *)
Tick ==
    /\ ttl > 0 \/ \E r \in Requests : step[r] # "idle" /\ age[r] < Window
    /\ IF ttl = 1 THEN count' = 0 /\ ttl' = NoCounter /\ life' = life + 1
       ELSE /\ ttl' = IF ttl > 0 THEN ttl - 1 ELSE ttl
            /\ UNCHANGED <<count, life>>
    /\ age' = [r \in Requests |-> IF step[r] # "idle" /\ age[r] < Window
                                  THEN age[r] + 1 ELSE age[r]]
    /\ UNCHANGED <<step, countedIn, retryAfter>>

Proceed(r) == Expire(r) \/ Refuse(r) \/ Fail(r)

Next == Tick \/ \E r \in Requests : Incr(r) \/ Proceed(r)

(* Time passes, and a call to Redis is answered or fails.  Nobody has to   *)
(* send a request.                                                         *)
Spec == Init /\ [][Next]_vars /\ WF_vars(Tick) /\ \A r \in Requests : WF_vars(Proceed(r))

-----------------------------------------------------------------------------
(* Properties                                                              *)

(* Types; a refusal tells the client to wait a positive time, though TTL   *)
(* may answer that there is no counter, or none that expires.              *)
TypeOK ==
    /\ count \in 0 .. Cardinality(Requests)
    /\ ttl \in {NoExpiry, NoCounter} \cup 1 .. Window
    /\ count = 0 <=> ttl = NoCounter
    /\ life \in 0 .. Cardinality(Requests)
    /\ step \in [Requests -> {"idle", "expiring", "refusing", "admitted", "refused", "failed"}]
    /\ countedIn \in [Requests -> 0 .. life]
    /\ age \in [Requests -> 0 .. Window]
    /\ \A r \in Requests : retryAfter[r] \in (IF step[r] = "refused" THEN 1 .. Window ELSE {0})

(* What a fixed window promises: in no stretch of window_sec seconds are   *)
(* twice as many let in as the limit, wherever the counters begin and end  *)
(* and however the requests get between INCR and EXPIRE.  The first of a   *)
(* counter is window_sec old when it goes, so one less is the bound.       *)
BurstIsBounded ==
    Cardinality({r \in Requests : step[r] = "admitted" /\ age[r] < Window}) < 2 * Limit

(* Nobody is refused before the limit was used up: as many requests as it  *)
(* allows were counted with the refused one and not refused.               *)
RefusedAtLimit ==
    \A r \in Requests : step[r] \in {"refusing", "refused"} =>
        Cardinality({s \in Requests :
                        /\ step[s] \in {"expiring", "admitted", "failed"}
                        /\ countedIn[s] = countedIn[r]}) >= Limit

(* A counter goes away, whoever calls in between and whichever later call  *)
(* fails.  It stays only if its first request ended before its EXPIRE: it  *)
(* has no time to live, and nobody is left to give it one.                 *)
CountersExpire ==
    count # 0 ~>
        \/ count = 0
        \/ /\ ttl = NoExpiry
           /\ \A r \in Requests : countedIn[r] = life => step[r] # "expiring"
           /\ \E r \in Requests : countedIn[r] = life /\ step[r] = "failed"
=============================================================================
