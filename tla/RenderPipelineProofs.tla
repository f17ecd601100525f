------------------------ MODULE RenderPipelineProofs ------------------------
(***************************************************************************)
(* Theorems about RenderPipeline, for every set of requests, every choice  *)
(* of keys and balance and, where they do not say otherwise, all faults.   *)
(***************************************************************************)
EXTENDS RenderPipeline, FiniteSetTheorems, TLAPS

(* Types, and that only an upload looks at keys.                           *)
TypeInv ==
    /\ TypeOK
    /\ \A r \in Requests : handler[r] = "replaying" => KeyOf[r] # NoKey

(* Where a handler is before its job row exists.                           *)
EarlySteps == {"idle", "replaying", "storing", "reserving"}

(* The worker has a job exactly when it is not waiting for one, and a      *)
(* handler that did not get to its transaction has charged nothing.        *)
EarlyInv ==
    /\ TypeInv
    /\ worker.at = "waiting" <=> worker.job = NoJob
    /\ \A r \in Requests : handler[r] \in EarlySteps => charge[r] = "none"

-----------------------------------------------------------------------------
(* The list                                                                *)

(* What RPUSH leaves on the list: one more place at the end, with the new  *)
(* job.                                                                    *)
LEMMA QueueAppend ==
    ASSUME NEW Q \in Seq(Requests), NEW r \in Requests
    PROVE  /\ Append(Q, r) \in Seq(Requests)
           /\ DOMAIN Append(Q, r) = DOMAIN Q \cup {Len(Q) + 1}
           /\ Len(Q) + 1 \notin DOMAIN Q
           /\ Append(Q, r)[Len(Q) + 1] = r
           /\ \A i \in DOMAIN Q : Append(Q, r)[i] = Q[i]
  OBVIOUS

(* What BLPOP leaves on the list: every job but the first, in its order.   *)
LEMMA QueueTail ==
    ASSUME NEW Q \in Seq(Requests), Q # <<>>
    PROVE  /\ Tail(Q) \in Seq(Requests)
           /\ Head(Q) \in Requests
           /\ 1 \in DOMAIN Q /\ Head(Q) = Q[1]
           /\ \A i \in DOMAIN Tail(Q) :
                 i + 1 \in DOMAIN Q /\ i + 1 # 1 /\ Tail(Q)[i] = Q[i + 1]
           /\ \A i, k \in DOMAIN Tail(Q) : i + 1 = k + 1 => i = k
  OBVIOUS

-----------------------------------------------------------------------------
(* Types                                                                   *)

(* A fault that happened is one of the known kinds.                        *)
LEMMA FaultType ==
    ASSUME TypeOK, NEW kind, Fault(kind)
    PROVE  faults' \subseteq FaultKinds
  BY BoundsAssumption DEF Fault, TypeOK

(* Every step of a handler keeps the types.                                *)
LEMMA HandleType ==
    ASSUME TypeInv, NEW r \in Requests, Handle(r)
    PROVE  TypeInv'
<1> USE KeysAssumption, FaultType DEF TypeInv, TypeOK, Goto, db
<1>1. CASE Replay(r)
  BY <1>1 DEF Replay
<1>2. CASE Store(r)
  BY <1>2 DEF Store
<1>3. CASE Reserve(r)
  BY <1>3 DEF Reserve, WriteStatus, ReserveCredit
<1>4. CASE ReserveFails(r)
  BY <1>4 DEF ReserveFails
<1>5. CASE Publish(r)
  <2>1. faults' \subseteq FaultKinds
    BY <1>5 DEF Publish
  <2>2. queue' \in Seq(Requests)
    BY <1>5 DEF Publish
  <2>3. \/ handler' = [handler EXCEPT ![r] = "answered"]
        \/ handler' = [handler EXCEPT ![r] = "compensating"]
    BY <1>5 DEF Publish
  <2>4. told' = [told EXCEPT ![r] = r] \/ told' = told
    BY <1>5 DEF Publish
  <2>5. UNCHANGED <<idem, db, worker>>
    BY <1>5 DEF Publish
  <2>6. QED
    BY <2>1, <2>2, <2>3, <2>4, <2>5
<1>6. CASE PublishFails(r)
  BY <1>6 DEF PublishFails
<1>7. CASE Compensate(r)
  <2>1. faults' \subseteq FaultKinds
    BY <1>7 DEF Compensate
  <2>2. /\ credits' \in Nat
        /\ status' \in [Requests -> {"none", "queued", "processing", "completed", "failed"}]
        /\ charge' \in [Requests -> {"none", "reserved", "finalized", "refunded"}]
    BY <1>7 DEF Compensate, FailAndRefund, RefundCredit, WriteStatus
  <2>3. QED
    BY <1>7, <2>1, <2>2 DEF Compensate
<1>8. CASE DropKey(r)
  BY <1>8 DEF DropKey
<1>9. QED
  BY <1>1, <1>2, <1>3, <1>4, <1>5, <1>6, <1>7, <1>8 DEF Handle

(* Every step of the worker keeps the types: it writes about a job it has. *)
LEMMA WorkType ==
    ASSUME EarlyInv, Work
    PROVE  TypeInv'
<1> USE KeysAssumption, FaultType
    DEF EarlyInv, TypeInv, TypeOK, WorkerGoes, WorkerDone, db
<1>1. CASE Pop
  BY <1>1, QueueTail DEF Pop, TakeHead
<1>2. CASE StartProcessing
  BY <1>2 DEF StartProcessing, WriteStatus
<1>3. CASE Render
  BY <1>3 DEF Render
<1>4. CASE Complete
  BY <1>4 DEF Complete, CompleteAndCharge, WriteStatus, FinalizeCredit
<1>5. CASE WriteFails
  BY <1>5 DEF WriteFails
<1>6. CASE GiveUp
  BY <1>6 DEF GiveUp, FailAndRefund, RefundCredit, WriteStatus
<1>7. CASE GiveUpFails
  BY <1>7 DEF GiveUpFails
<1>8. QED
  BY <1>1, <1>2, <1>3, <1>4, <1>5, <1>6, <1>7 DEF Work

(* EarlyInv is inductive.                                                  *)
LEMMA EarlyStep ==
    ASSUME EarlyInv, [Next]_vars
    PROVE  EarlyInv'
<1>1. CASE UNCHANGED vars
  BY <1>1 DEF vars, db, EarlyInv, TypeInv, TypeOK
<1>2. ASSUME NEW r \in Requests, Accept(r)
      PROVE  EarlyInv'
  BY <1>2, KeysAssumption
     DEF Accept, Goto, db, EarlyInv, TypeInv, TypeOK, EarlySteps
<1>3. ASSUME NEW r \in Requests, Handle(r)
      PROVE  EarlyInv'
  <2>1. TypeInv'
    BY <1>3, HandleType DEF EarlyInv
  <2>2. worker' = worker
    BY <1>3 DEF Handle, Replay, Store, Reserve, ReserveFails, Publish, PublishFails,
                Compensate, DropKey
  <2>3. /\ \A s \in Requests \ {r} : handler'[s] = handler[s] /\ charge'[s] = charge[s]
        /\ handler'[r] \in EarlySteps => handler[r] \in EarlySteps /\ charge'[r] = charge[r]
    BY <1>3
       DEF Handle, Replay, Store, Reserve, ReserveFails, Publish, PublishFails, Compensate,
           DropKey, Goto, db, FailAndRefund, RefundCredit, ReserveCredit, EarlySteps,
           EarlyInv, TypeInv, TypeOK
  <2>4. QED
    BY <2>1, <2>2, <2>3 DEF EarlyInv
<1>4. CASE Work
  <2>1. TypeInv'
    BY <1>4, WorkType
  <2>2. worker'.at = "waiting" <=> worker'.job = NoJob
    BY <1>4, QueueTail, KeysAssumption
       DEF Work, Pop, StartProcessing, Render, Complete, WriteFails, GiveUp, GiveUpFails,
           WorkerGoes, WorkerDone, EarlyInv, TypeInv, TypeOK
  <2>3. /\ handler' = handler
        /\ \A s \in Requests : charge[s] = "none" => charge'[s] = "none"
    BY <1>4
       DEF Work, Pop, StartProcessing, Render, Complete, WriteFails, GiveUp, GiveUpFails,
           db, CompleteAndCharge, FinalizeCredit, FailAndRefund, RefundCredit,
           EarlyInv, TypeInv, TypeOK
  <2>4. QED
    BY <2>1, <2>2, <2>3 DEF EarlyInv
<1>5. CASE Restart
  BY <1>5, BoundsAssumption, KeysAssumption
     DEF Restart, Fault, FaultKinds, WorkerDone, db, EarlyInv, TypeInv, TypeOK, EarlySteps
<1>6. ASSUME NEW k \in Keys, KeyExpires(k)
      PROVE  EarlyInv'
  BY <1>6, KeysAssumption, FaultType DEF KeyExpires, db, EarlyInv, TypeInv, TypeOK
<1>7. QED
  BY <1>1, <1>2, <1>3, <1>4, <1>5, <1>6 DEF Next

(* EarlyInv holds before the first request.                                *)
LEMMA EarlyInit == Init => EarlyInv
  BY KeysAssumption, BoundsAssumption DEF Init, EarlyInv, TypeInv, TypeOK, EarlySteps

(* In every reachable state the worker has a job exactly when it is not    *)
(* waiting for one, and a handler that has not run its transaction has     *)
(* charged nothing.                                                        *)
THEOREM EarlyInvariant == Spec => []EarlyInv
  BY EarlyInit, EarlyStep, PTL DEF Spec

(* Every variable has its type; in particular no fault and no order of     *)
(* steps makes the balance negative.                                       *)
THEOREM TypeCorrect == Spec => []TypeOK
  BY EarlyInvariant, PTL DEF EarlyInv, TypeInv

-----------------------------------------------------------------------------
(* The promise                                                             *)

(* A change of one job's credit changes one phase.                         *)
LEMMA OnePhaseChanges ==
    ASSUME TypeOK, NEW j \in Requests,
           NEW c \in {"none", "reserved", "finalized", "refunded"},
           charge' = [charge EXCEPT ![j] = c]
    PROVE  [r \in Requests |-> Phase[charge'[r]]]
             = [[r \in Requests |-> Phase[charge[r]]] EXCEPT ![j] = Phase[c]]
<1>1. \A r \in Requests : charge'[r] = IF r = j THEN c ELSE charge[r]
  BY DEF TypeOK
<1>2. \A r \in Requests : Phase[charge'[r]] = IF r = j THEN Phase[c] ELSE Phase[charge[r]]
  BY <1>1
<1>3. QED
  BY <1>2

(* The three credit operations are steps of the promise, or nothing.       *)
LEMMA CreditSteps ==
    ASSUME TypeOK, NEW j \in Requests
    PROVE  /\ charge[j] = "none" /\ ReserveCredit(j) => Promise!Charge(j)
           /\ RefundCredit(j) => Promise!Return(j) \/ UNCHANGED <<charge, credits>>
           /\ FinalizeCredit(j) => Promise!Deliver(j) \/ UNCHANGED <<charge, credits>>
<1>1. ASSUME charge[j] = "none", ReserveCredit(j)
      PROVE  Promise!Charge(j)
  <2>1. /\ charge' = [charge EXCEPT ![j] = "reserved"]
        /\ credits > 0 /\ credits' = credits - 1
    BY <1>1 DEF ReserveCredit
  <2>2. [r \in Requests |-> Phase[charge'[r]]]
          = [[r \in Requests |-> Phase[charge[r]]] EXCEPT ![j] = "charged"]
    BY <2>1, OnePhaseChanges DEF Phase
  <2>3. QED
    BY <1>1, <2>1, <2>2 DEF Promise!Charge, Phase
<1>2. ASSUME RefundCredit(j), charge[j] = "reserved"
      PROVE  Promise!Return(j)
  <2>1. /\ charge' = [charge EXCEPT ![j] = "refunded"]
        /\ credits' = credits + 1
    BY <1>2 DEF RefundCredit
  <2>2. [r \in Requests |-> Phase[charge'[r]]]
          = [[r \in Requests |-> Phase[charge[r]]] EXCEPT ![j] = "returned"]
    BY <2>1, OnePhaseChanges DEF Phase
  <2>3. QED
    BY <1>2, <2>1, <2>2 DEF Promise!Return, Promise!Settle, Phase
<1>3. ASSUME FinalizeCredit(j), charge[j] = "reserved"
      PROVE  Promise!Deliver(j)
  <2>1. /\ charge' = [charge EXCEPT ![j] = "finalized"]
        /\ credits' = credits + 0
    BY <1>3 DEF FinalizeCredit, TypeOK
  <2>2. [r \in Requests |-> Phase[charge'[r]]]
          = [[r \in Requests |-> Phase[charge[r]]] EXCEPT ![j] = "delivered"]
    BY <2>1, OnePhaseChanges DEF Phase
  <2>3. QED
    BY <1>3, <2>1, <2>2 DEF Promise!Deliver, Promise!Settle, Phase
<1>4. FinalizeCredit(j) /\ charge[j] # "reserved" => UNCHANGED <<charge, credits>>
  BY DEF FinalizeCredit, TypeOK
<1>5. RefundCredit(j) /\ charge[j] # "reserved" => UNCHANGED <<charge, credits>>
  BY DEF RefundCredit
<1>6. QED
  BY <1>1, <1>2, <1>3, <1>4, <1>5

(* Every step of the pipeline charges, delivers or returns one job, or     *)
(* moves no credits.                                                       *)
LEMMA PromiseStep ==
    ASSUME EarlyInv, [Next]_vars
    PROVE  Promise!PromiseNext \/ UNCHANGED <<charge, credits>>
<1> USE DEF EarlyInv, TypeInv
<1>1. ASSUME NEW r \in Requests, Accept(r)
      PROVE  UNCHANGED <<charge, credits>>
  BY <1>1 DEF Accept, db
<1>2. ASSUME NEW r \in Requests, Handle(r)
      PROVE  Promise!PromiseNext \/ UNCHANGED <<charge, credits>>
  <2>1. CASE Reserve(r)
    <3>1. charge[r] = "none" /\ ReserveCredit(r)
      BY <2>1 DEF Reserve, Goto, EarlySteps
    <3>2. Promise!Charge(r)
      BY <3>1, CreditSteps
    <3>3. QED
      BY <3>2 DEF Promise!PromiseNext
  <2>2. CASE Compensate(r)
    <3>1. RefundCredit(r) \/ UNCHANGED <<charge, credits>>
      BY <2>2 DEF Compensate, FailAndRefund, db
    <3>2. Promise!Return(r) \/ UNCHANGED <<charge, credits>>
      BY <3>1, CreditSteps
    <3>3. QED
      BY <3>2 DEF Promise!PromiseNext
  <2>3. QED
    BY <1>2, <2>1, <2>2
       DEF Handle, Replay, Store, ReserveFails, Publish, PublishFails, DropKey, db
<1>3. CASE Work
  <2>1. CASE Complete \/ GiveUp
    <3>1. PICK j \in Requests : j = worker.job
      BY <2>1, KeysAssumption DEF Complete, GiveUp, TypeOK
    <3>2. FinalizeCredit(j) \/ RefundCredit(j)
      BY <2>1, <3>1 DEF Complete, GiveUp, CompleteAndCharge, FailAndRefund
    <3>3. Promise!Deliver(j) \/ Promise!Return(j) \/ UNCHANGED <<charge, credits>>
      BY <3>2, CreditSteps
    <3>4. QED
      BY <3>3 DEF Promise!PromiseNext
  <2>2. QED
    BY <1>3, <2>1 DEF Work, Pop, StartProcessing, Render, WriteFails, GiveUpFails, db
<1>4. QED
  BY <1>1, <1>2, <1>3 DEF Next, Restart, KeyExpires, vars, db

(* Whatever fails, a job is charged at most once, from credits the user    *)
(* has, and then finalized or refunded at most once and never both.        *)
THEOREM PipelineKeepsPromise == Spec => KeepsPromise
<1>1. Init => Promise!PromiseInit
  BY DEF Init, Promise!PromiseInit, Phase
<1>2. EarlyInv /\ [Next]_vars
        => [Promise!PromiseNext]_<<[r \in Requests |-> Phase[charge[r]]], credits>>
  BY PromiseStep
<1>3. QED
  BY <1>1, <1>2, EarlyInvariant, PTL DEF Spec, KeepsPromise, Promise!PromiseSpec

(* The jobs that are charged, by the column and by the promise's phase.    *)
ChargedBy(c) == {r \in Requests : c[r] \in {"reserved", "finalized"}}

InPhase(p) == {r \in Requests : p[r] \in {"charged", "delivered"}}

LEMMA ChargedByPhase ==
    ASSUME NEW c \in [Requests -> {"none", "reserved", "finalized", "refunded"}]
    PROVE  ChargedBy(c) = InPhase([r \in Requests |-> Phase[c[r]]])
<1>1. \A r \in Requests :
         c[r] \in {"reserved", "finalized"} <=> Phase[c[r]] \in {"charged", "delivered"}
  BY DEF Phase
<1>2. QED
  BY <1>1 DEF ChargedBy, InPhase

(* The credits that are not with a job are with the user.                  *)
Conserved(p, n) == IsFiniteSet(InPhase(p)) /\ n + Cardinality(InPhase(p)) = Credits

(* Charging, delivering and returning keep them together.                  *)
LEMMA MovesConserve ==
    ASSUME NEW p, NEW q, NEW n \in Int, NEW m \in Int, NEW j \in Requests,
           \A r \in Requests : r # j => q[r] = p[r],
           Conserved(p, n),
           \/ p[j] = "none" /\ q[j] = "charged" /\ m = n - 1
           \/ p[j] = "charged" /\ q[j] = "delivered" /\ m = n + 0
           \/ p[j] = "charged" /\ q[j] = "returned" /\ m = n + 1
    PROVE  Conserved(q, m)
<1>1. PICK S : S = InPhase(p)
  OBVIOUS
<1>2. PICK T : T = InPhase(q)
  OBVIOUS
<1>3. IsFiniteSet(S) /\ n + Cardinality(S) = Credits /\ Cardinality(S) \in Nat
  BY <1>1, FS_CardinalityType DEF Conserved
<1>4. SUFFICES IsFiniteSet(T) /\ m + Cardinality(T) = Credits
  BY <1>2 DEF Conserved
<1>5. CASE p[j] = "none" /\ q[j] = "charged" /\ m = n - 1
  <2>1. T = S \cup {j} /\ j \notin S
    BY <1>1, <1>2, <1>5 DEF InPhase
  <2>2. IsFiniteSet(T) /\ Cardinality(T) = Cardinality(S) + 1
    BY <1>3, <2>1, FS_AddElement
  <2>3. QED
    BY <1>3, <1>5, <2>2
<1>6. CASE p[j] = "charged" /\ q[j] = "delivered" /\ m = n + 0
  <2>1. T = S
    BY <1>1, <1>2, <1>6 DEF InPhase
  <2>2. QED
    BY <1>3, <1>6, <2>1
<1>7. CASE p[j] = "charged" /\ q[j] = "returned" /\ m = n + 1
  <2>1. T = S \ {j} /\ j \in S
    BY <1>1, <1>2, <1>7 DEF InPhase
  <2>2. IsFiniteSet(T) /\ Cardinality(T) = Cardinality(S) - 1
    BY <1>3, <2>1, FS_RemoveElement
  <2>3. QED
    BY <1>3, <1>7, <2>2
<1>8. QED
  BY <1>5, <1>6, <1>7

(* One step of the promise keeps them together.                            *)
LEMMA PromiseConserves ==
    ASSUME NEW j \in Requests, credits \in Int, credits' \in Int,
           Promise!Charge(j) \/ Promise!Deliver(j) \/ Promise!Return(j),
           Conserved([r \in Requests |-> Phase[charge[r]]], credits)
    PROVE  Conserved([r \in Requests |-> Phase[charge'[r]]], credits')
<1>1. PICK p : p = [r \in Requests |-> Phase[charge[r]]]
  OBVIOUS
<1>2. PICK q : q = [r \in Requests |-> Phase[charge'[r]]]
  OBVIOUS
<1>3. Conserved(p, credits)
  BY <1>1
<1>4. CASE Promise!Charge(j)
  <2>1. p[j] = "none" /\ q = [p EXCEPT ![j] = "charged"] /\ credits' = credits - 1
    BY <1>1, <1>2, <1>4 DEF Promise!Charge
  <2>2. /\ p[j] = "none" /\ q[j] = "charged" /\ credits' = credits - 1
        /\ \A r \in Requests : r # j => q[r] = p[r]
    BY <1>1, <2>1
  <2>3. Conserved(q, credits')
    BY <1>3, <2>2, MovesConserve
  <2>4. QED
    BY <1>2, <2>3
<1>5. CASE Promise!Deliver(j)
  <2>1. p[j] = "charged" /\ q = [p EXCEPT ![j] = "delivered"] /\ credits' = credits + 0
    BY <1>1, <1>2, <1>5 DEF Promise!Deliver, Promise!Settle
  <2>2. /\ p[j] = "charged" /\ q[j] = "delivered" /\ credits' = credits + 0
        /\ \A r \in Requests : r # j => q[r] = p[r]
    BY <1>1, <2>1
  <2>3. Conserved(q, credits')
    BY <1>3, <2>2, MovesConserve
  <2>4. QED
    BY <1>2, <2>3
<1>6. CASE Promise!Return(j)
  <2>1. p[j] = "charged" /\ q = [p EXCEPT ![j] = "returned"] /\ credits' = credits + 1
    BY <1>1, <1>2, <1>6 DEF Promise!Return, Promise!Settle
  <2>2. /\ p[j] = "charged" /\ q[j] = "returned" /\ credits' = credits + 1
        /\ \A r \in Requests : r # j => q[r] = p[r]
    BY <1>1, <2>1
  <2>3. Conserved(q, credits')
    BY <1>3, <2>2, MovesConserve
  <2>4. QED
    BY <1>2, <2>3
<1>7. QED
  BY <1>4, <1>5, <1>6

(* No credit is lost and none is made, whatever fails: what the user had   *)
(* is what is left to spend and one credit for every job that is charged   *)
(* and not paid back.                                                      *)
CreditsAreConserved ==
    /\ IsFiniteSet(ChargedBy(charge))
    /\ credits + Cardinality(ChargedBy(charge)) = Credits

THEOREM NoCreditIsLost == Spec => []CreditsAreConserved
<1>1. Init => CreditsAreConserved
  <2> SUFFICES ASSUME Init
               PROVE  CreditsAreConserved
    OBVIOUS
  <2>1. ChargedBy(charge) = {} /\ credits = Credits
    BY DEF Init, ChargedBy
  <2>2. QED
    BY <2>1, FS_EmptySet, BoundsAssumption DEF CreditsAreConserved
<1>2. CreditsAreConserved /\ EarlyInv /\ EarlyInv' /\ [Next]_vars => CreditsAreConserved'
  <2> SUFFICES ASSUME CreditsAreConserved, EarlyInv, EarlyInv', [Next]_vars
               PROVE  CreditsAreConserved'
    OBVIOUS
  <2>1. /\ charge \in [Requests -> {"none", "reserved", "finalized", "refunded"}]
        /\ charge' \in [Requests -> {"none", "reserved", "finalized", "refunded"}]
        /\ credits \in Int /\ credits' \in Int
    BY DEF EarlyInv, TypeInv, TypeOK
  <2>2. /\ ChargedBy(charge) = InPhase([r \in Requests |-> Phase[charge[r]]])
        /\ ChargedBy(charge') = InPhase([r \in Requests |-> Phase[charge'[r]]])
    BY <2>1, ChargedByPhase
  <2>3. CASE UNCHANGED <<charge, credits>>
    BY <2>3 DEF CreditsAreConserved, ChargedBy
  <2>4. ASSUME NEW j \in Requests,
               Promise!Charge(j) \/ Promise!Deliver(j) \/ Promise!Return(j)
        PROVE  CreditsAreConserved'
    <3>1. Conserved([r \in Requests |-> Phase[charge[r]]], credits)
      BY <2>2 DEF CreditsAreConserved, Conserved
    <3>2. Conserved([r \in Requests |-> Phase[charge'[r]]], credits')
      BY <2>1, <2>4, <3>1, PromiseConserves
    <3>3. QED
      BY <2>2, <3>2 DEF CreditsAreConserved, Conserved
  <2>5. QED
    BY <2>3, <2>4, PromiseStep DEF Promise!PromiseNext
<1>3. QED
  BY <1>1, <1>2, EarlyInvariant, PTL DEF Spec

-----------------------------------------------------------------------------
(* The account                                                             *)

(* What has happened to the account of the user, whose starter grant is    *)
(* what he had at the start.                                               *)
EventsOf(r, c) ==
    CASE c = "reserved"  -> {<<"job_reserve", r>>}
      [] c = "finalized" -> {<<"job_reserve", r>>, <<"job_finalize", r>>}
      [] c = "refunded"  -> {<<"job_reserve", r>>, <<"job_refund", r>>}
      [] OTHER           -> {}

Happened == {<<"starter_grant", "user">>} \cup UNION {EventsOf(r, charge[r]) : r \in Requests}

Ledger == INSTANCE CreditAccount
            WITH Users <- {"user"}, Jobs <- Requests, Invoices <- {},
                 JobOwner <- [r \in Requests |-> "user"], InvoiceOwner <- <<>>,
                 CreditsGranted <- <<>>, StarterGrantCredits <- Credits, JobCreditCost <- 1,
                 balance <- [u \in {"user"} |-> credits],
                 events <- [u \in {"user"} |-> Happened]

(* Once the user has his grant, the pipeline moves his credits only in the *)
(* way CreditAccount allows, which CreditLedger and RowLocks implement.    *)
UsesTheAccount == [][Ledger!AccountNext]_(Ledger!accountVars)

(* What has happened to jobs that are charged as c says, and to the account.*)
JobEvents(c) == UNION {EventsOf(r, c[r]) : r \in Requests}

AllEvents(c) == {<<"starter_grant", "user">>} \cup JobEvents(c)

EventKinds == {"job_reserve", "job_finalize", "job_refund"}

LEMMA EventsAreOfTheJob ==
    ASSUME NEW r, NEW c, NEW x \in EventsOf(r, c)
    PROVE  \E k \in EventKinds : x = <<k, r>>
  BY DEF EventsOf, EventKinds

(* The events of a job are those its column says.                          *)
LEMMA ChargeTells ==
    ASSUME NEW c, NEW j \in Requests, NEW k \in EventKinds
    PROVE  <<k, j>> \in AllEvents(c) <=> <<k, j>> \in EventsOf(j, c[j])
<1>1. <<k, j>> # <<"starter_grant", "user">>
  BY DEF EventKinds
<1>2. ASSUME NEW r \in Requests, <<k, j>> \in EventsOf(r, c[r])
      PROVE  r = j
  BY <1>2, EventsAreOfTheJob
<1>3. <<k, j>> \in JobEvents(c) <=> <<k, j>> \in EventsOf(j, c[j])
  BY <1>2 DEF JobEvents
<1>4. QED
  BY <1>1, <1>3 DEF AllEvents

(* One job's column changed: what is new is what that job has more.        *)
LEMMA ChargeAdds ==
    ASSUME NEW c, NEW d, NEW j \in Requests,
           \A r \in Requests : r # j => d[r] = c[r],
           EventsOf(j, c[j]) \subseteq EventsOf(j, d[j])
    PROVE  AllEvents(d) = AllEvents(c) \cup EventsOf(j, d[j])
<1>1. \A r \in Requests : r # j => d[r] = c[r]
  OBVIOUS
<1>2. ASSUME NEW x \in JobEvents(d)
      PROVE  x \in JobEvents(c) \cup EventsOf(j, d[j])
  <2>1. PICK r \in Requests : x \in EventsOf(r, d[r])
    BY <1>2 DEF JobEvents
  <2>2. QED
    BY <1>1, <2>1 DEF JobEvents
<1>3. ASSUME NEW x \in JobEvents(c)
      PROVE  x \in JobEvents(d)
  <2>1. PICK r \in Requests : x \in EventsOf(r, c[r])
    BY <1>3 DEF JobEvents
  <2>2. CASE r = j
    BY <2>1, <2>2 DEF JobEvents
  <2>3. CASE r # j
    BY <1>1, <2>1, <2>3 DEF JobEvents
  <2>4. QED
    BY <2>2, <2>3
<1>4. EventsOf(j, d[j]) \subseteq JobEvents(d)
  BY DEF JobEvents
<1>5. JobEvents(d) = JobEvents(c) \cup EventsOf(j, d[j])
  BY <1>2, <1>3, <1>4
<1>6. QED
  BY <1>5 DEF AllEvents

(* A job that is charged, delivered or paid back is one request.           *)
LEMMA MoveIsARequest ==
    ASSUME NEW c, NEW d, NEW n \in Int, NEW m \in Int, NEW j \in Requests,
           \A r \in Requests : r # j => d[r] = c[r],
           \/ c[j] = "none" /\ d[j] = "reserved" /\ n > 0 /\ m = n - 1
           \/ c[j] = "reserved" /\ d[j] = "finalized" /\ m = n
           \/ c[j] = "reserved" /\ d[j] = "refunded" /\ m = n + 1
    PROVE  <<m, AllEvents(d)>> \in Ledger!Requests("user", <<n, AllEvents(c)>>)
<1> DEFINE p == <<n, AllEvents(c)>>
<1>1. p[1] = n /\ p[2] = AllEvents(c)
  OBVIOUS
<1>2. \A k \in EventKinds : Ledger!Has(p, k, j) <=> <<k, j>> \in EventsOf(j, c[j])
  BY <1>1, ChargeTells DEF Ledger!Has
<1>3. EventsOf(j, c[j]) \subseteq AllEvents(c)
  BY DEF AllEvents, JobEvents
<1>4. Ledger!JobsOf("user") = Requests
  BY DEF Ledger!JobsOf
<1> HIDE DEF p
<1>5. CASE c[j] = "none" /\ d[j] = "reserved" /\ n > 0 /\ m = n - 1
  <2>1. EventsOf(j, c[j]) = {} /\ EventsOf(j, d[j]) = {<<"job_reserve", j>>}
    BY <1>5 DEF EventsOf
  <2>2. AllEvents(d) = AllEvents(c) \cup {<<"job_reserve", j>>}
    BY <2>1, ChargeAdds
  <2>3. m = n + -1
    BY <1>5
  <2>4. <<m, AllEvents(d)>> = Ledger!Record(p, "job_reserve", j, -1)
    BY <1>1, <2>2, <2>3 DEF Ledger!Record
  <2>5. ~Ledger!Has(p, "job_reserve", j)
    BY <1>2, <2>1 DEF EventKinds
  <2>6. p[1] >= 1
    BY <1>1, <1>5
  <2>7. QED
    BY <1>4, <2>4, <2>5, <2>6 DEF Ledger!Requests, p
<1>6. ASSUME c[j] = "reserved"
      PROVE  Ledger!Unsettled(p, j) /\ EventsOf(j, c[j]) = {<<"job_reserve", j>>}
  <2>1. EventsOf(j, c[j]) = {<<"job_reserve", j>>}
    BY <1>6 DEF EventsOf
  <2>2. QED
    BY <1>2, <2>1 DEF EventKinds, Ledger!Unsettled
<1>7. CASE c[j] = "reserved" /\ d[j] = "finalized" /\ m = n
  <2>1. /\ EventsOf(j, d[j]) = {<<"job_reserve", j>>, <<"job_finalize", j>>}
        /\ EventsOf(j, c[j]) \subseteq EventsOf(j, d[j])
    BY <1>7 DEF EventsOf
  <2>2. AllEvents(d) = AllEvents(c) \cup EventsOf(j, d[j])
    BY <2>1, ChargeAdds
  <2>3. AllEvents(d) = AllEvents(c) \cup {<<"job_finalize", j>>} /\ m = n + 0
    BY <1>3, <1>6, <1>7, <2>1, <2>2
  <2>4. <<m, AllEvents(d)>> = Ledger!Record(p, "job_finalize", j, 0)
    BY <1>1, <2>3 DEF Ledger!Record
  <2>5. QED
    BY <1>4, <1>6, <1>7, <2>4 DEF Ledger!Requests, p
<1>8. CASE c[j] = "reserved" /\ d[j] = "refunded" /\ m = n + 1
  <2>1. /\ EventsOf(j, d[j]) = {<<"job_reserve", j>>, <<"job_refund", j>>}
        /\ EventsOf(j, c[j]) \subseteq EventsOf(j, d[j])
    BY <1>8 DEF EventsOf
  <2>2. AllEvents(d) = AllEvents(c) \cup EventsOf(j, d[j])
    BY <2>1, ChargeAdds
  <2>3. AllEvents(d) = AllEvents(c) \cup {<<"job_refund", j>>} /\ m = n + 1
    BY <1>3, <1>6, <1>8, <2>1, <2>2
  <2>4. <<m, AllEvents(d)>> = Ledger!Record(p, "job_refund", j, 1)
    BY <1>1, <2>3 DEF Ledger!Record
  <2>5. QED
    BY <1>4, <1>6, <1>8, <2>4 DEF Ledger!Requests, p
<1>9. QED
  BY <1>5, <1>7, <1>8

(* The columns behind a step of the promise.                               *)
LEMMA PromiseColumns ==
    ASSUME NEW j \in Requests,
           charge \in [Requests -> {"none", "reserved", "finalized", "refunded"}],
           charge' \in [Requests -> {"none", "reserved", "finalized", "refunded"}],
           credits \in Nat,
           Promise!Charge(j) \/ Promise!Deliver(j) \/ Promise!Return(j)
    PROVE  /\ \A r \in Requests : r # j => charge'[r] = charge[r]
           /\ \/ charge[j] = "none" /\ charge'[j] = "reserved"
                   /\ credits > 0 /\ credits' = credits - 1
              \/ charge[j] = "reserved" /\ charge'[j] = "finalized" /\ credits' = credits
              \/ charge[j] = "reserved" /\ charge'[j] = "refunded" /\ credits' = credits + 1
<1>1. PICK end :
        /\ [r \in Requests |-> Phase[charge'[r]]]
              = [[r \in Requests |-> Phase[charge[r]]] EXCEPT ![j] = end]
        /\ \/ Phase[charge[j]] = "none" /\ end = "charged"
                /\ credits > 0 /\ credits' = credits - 1
           \/ Phase[charge[j]] = "charged" /\ end = "delivered" /\ credits' = credits + 0
           \/ Phase[charge[j]] = "charged" /\ end = "returned" /\ credits' = credits + 1
  BY DEF Promise!Charge, Promise!Deliver, Promise!Return, Promise!Settle
<1>2. /\ \A r \in Requests : r # j => Phase[charge'[r]] = Phase[charge[r]]
      /\ Phase[charge'[j]] = end
  BY <1>1
<1>3. \A x, y \in {"none", "reserved", "finalized", "refunded"} : Phase[x] = Phase[y] => x = y
  BY DEF Phase
<1>4. \A r \in Requests : r # j => charge'[r] = charge[r]
  BY <1>2, <1>3
<1>5. \A x \in {"none", "reserved", "finalized", "refunded"} :
         /\ Phase[x] = "none" => x = "none"
         /\ Phase[x] = "charged" => x = "reserved"
         /\ Phase[x] = "delivered" => x = "finalized"
         /\ Phase[x] = "returned" => x = "refunded"
  BY DEF Phase
<1>6. QED
  BY <1>1, <1>2, <1>4, <1>5

(* The credits of the pipeline are served by the account of CreditAccount. *)
THEOREM PipelineUsesTheAccount == Spec => UsesTheAccount
<1>1. EarlyInv /\ EarlyInv' /\ [Next]_vars => [Ledger!AccountNext]_(Ledger!accountVars)
  <2> SUFFICES ASSUME EarlyInv, EarlyInv', [Next]_vars
               PROVE  Ledger!AccountNext \/ UNCHANGED Ledger!accountVars
    OBVIOUS
  <2>1. /\ charge \in [Requests -> {"none", "reserved", "finalized", "refunded"}]
        /\ charge' \in [Requests -> {"none", "reserved", "finalized", "refunded"}]
        /\ credits \in Nat /\ credits' \in Nat
    BY DEF EarlyInv, TypeInv, TypeOK
  <2>2. CASE UNCHANGED <<charge, credits>>
    BY <2>2 DEF Ledger!accountVars, Happened
  <2>3. ASSUME NEW j \in Requests,
               Promise!Charge(j) \/ Promise!Deliver(j) \/ Promise!Return(j)
        PROVE  Ledger!Serve("user")
    <3>1. <<credits', AllEvents(charge')>>
             \in Ledger!Requests("user", <<credits, AllEvents(charge)>>)
      <4>1. /\ \A r \in Requests : r # j => charge'[r] = charge[r]
            /\ \/ charge[j] = "none" /\ charge'[j] = "reserved"
                    /\ credits > 0 /\ credits' = credits - 1
               \/ charge[j] = "reserved" /\ charge'[j] = "finalized" /\ credits' = credits
               \/ charge[j] = "reserved" /\ charge'[j] = "refunded" /\ credits' = credits + 1
        BY <2>1, <2>3, PromiseColumns
      <4>2. credits \in Int /\ credits' \in Int
        BY <2>1
      <4>3. QED
        BY <4>1, <4>2, MoveIsARequest
    <3>2. AllEvents(charge) = Happened /\ AllEvents(charge') = Happened'
      BY DEF AllEvents, JobEvents, Happened
    <3>3. PICK b \in Ledger!Requests("user", <<credits, Happened>>) :
             b[1] = credits' /\ b[2] = Happened'
      BY <3>1, <3>2
    <3>4. <<credits, Happened>> \in Ledger!Housekeeping("user", <<credits, Happened>>)
      BY DEF Ledger!Housekeeping
    <3>5. /\ [u \in {"user"} |-> credits']
                = [[u \in {"user"} |-> credits] EXCEPT !["user"] = b[1]]
          /\ [u \in {"user"} |-> Happened'] = [[u \in {"user"} |-> Happened] EXCEPT !["user"] = b[2]]
      BY <3>3
    <3>6. QED
      BY <3>3, <3>4, <3>5 DEF Ledger!Serve
  <2>4. QED
    BY <2>2, <2>3, PromiseStep DEF Promise!PromiseNext, Ledger!AccountNext
<1>2. QED
  BY <1>1, EarlyInvariant, PTL DEF Spec, UsesTheAccount

-----------------------------------------------------------------------------
(* Status and credit                                                       *)

(* What happened, happened.                                                *)
LEMMA FaultsStay ==
    ASSUME [Next]_vars
    PROVE  /\ faults \subseteq faults'
           /\ \A kind : kind \notin faults' => ~ Fault(kind)
<1>1. faults \subseteq faults'
  BY DEF Next, Accept, Handle, Replay, Store, Reserve, ReserveFails, Publish, PublishFails,
         Compensate, DropKey, Work, Pop, StartProcessing, Render, Complete, WriteFails,
         GiveUp, GiveUpFails, Restart, KeyExpires, Fault, vars
<1>2. QED
  BY <1>1 DEF Fault

(* Every column after each write, as long as nobody else has the job.      *)
Truthful == Without({"publish_reply"})

HandlerHas == {"publishing", "compensating"}

FitsStatus ==
    \A r \in Requests :
        /\ status[r] = "none"                     => charge[r] = "none"
        /\ status[r] \in {"queued", "processing"} => charge[r] = "reserved"
        /\ status[r] = "completed"                => charge[r] = "finalized"
        /\ status[r] = "failed"                   =>
              \/ charge[r] = "refunded"
              \/ charge[r] = "finalized" /\ "commit_reply" \in faults

(* Each of those who may hold a job, and the status the job then has.      *)
HandlerInv ==
    \A r \in Requests :
        /\ handler[r] \in EarlySteps => status[r] = "none"
        /\ handler[r] \in HandlerHas => status[r] = "queued"

QueueInv ==
    \A i \in DOMAIN queue :
        /\ status[queue[i]] = "queued"
        /\ handler[queue[i]] \notin HandlerHas
        /\ \A k \in DOMAIN queue : queue[k] = queue[i] => k = i

Busy == worker.at \notin {"waiting", "dead"}

WorkerInv ==
    Busy =>
        /\ \/ status[worker.job] \in {"queued", "processing"}
           \/ /\ status[worker.job] = "completed" /\ worker.at = "failing"
              /\ "commit_reply" \in faults
        /\ worker.at = "taken" => status[worker.job] = "queued"
        /\ worker.at \in {"rendering", "saving"} => status[worker.job] = "processing"
        /\ handler[worker.job] \notin HandlerHas
        /\ \A i \in DOMAIN queue : queue[i] # worker.job

Places == FitsStatus /\ HandlerInv /\ QueueInv /\ WorkerInv

(* ChargeFitsStatus is not inductive: a write is right only because the    *)
(* writer is the only one who has the job.                                 *)
PlaceInv == EarlyInv /\ (Truthful => Places)

(* A handler that does not touch the database moves within its place.      *)
LEMMA PlacesKept ==
    ASSUME EarlyInv, Places, UNCHANGED <<db, queue, worker>>, faults \subseteq faults',
           NEW r \in Requests, NEW to,
           handler' = [handler EXCEPT ![r] = to],
           to \in EarlySteps => handler[r] \in EarlySteps,
           to \in HandlerHas => handler[r] \in HandlerHas
    PROVE  Places'
<1>1. \A s \in Requests : handler'[s] = IF s = r THEN to ELSE handler[s]
  BY DEF EarlyInv, TypeInv, TypeOK
<1>2. FitsStatus'
  BY DEF Places, FitsStatus, db
<1>3. HandlerInv'
  BY <1>1 DEF Places, HandlerInv, db
<1>4. QueueInv'
  BY <1>1 DEF Places, QueueInv, db, EarlyInv, TypeInv, TypeOK
<1>5. WorkerInv'
  BY <1>1, KeysAssumption DEF Places, WorkerInv, Busy, db, EarlyInv, TypeInv, TypeOK
<1>6. QED
  BY <1>2, <1>3, <1>4, <1>5 DEF Places

(* A handler changes status and credit together, and hands its job on to   *)
(* the list at most once.                                                  *)
LEMMA HandlePlaces ==
    ASSUME EarlyInv, Places, ~ Fault("publish_reply"), faults \subseteq faults',
           NEW r \in Requests, Accept(r) \/ Handle(r)
    PROVE  Places'
<1> DEFINE Moves(to) == handler' = [handler EXCEPT ![r] = to]
<1> USE DEF EarlyInv, TypeInv
<1>1. CASE Accept(r) \/ Replay(r) \/ Store(r) \/ ReserveFails(r) \/ DropKey(r)
  <2>1. PICK to \in {"reserving", "storing", "replaying", "answered", "dropping"} :
           Moves(to) /\ (to \in EarlySteps => handler[r] \in EarlySteps)
    BY <1>1 DEF Accept, Replay, Store, ReserveFails, DropKey, Goto, EarlySteps
  <2>2. UNCHANGED <<db, queue, worker>>
    BY <1>1 DEF Accept, Replay, Store, ReserveFails, DropKey
  <2>3. to \notin HandlerHas
    BY DEF HandlerHas
  <2>4. QED
    BY <2>1, <2>2, <2>3, PlacesKept
<1>2. CASE PublishFails(r)
  <2>1. Moves("compensating") /\ handler[r] \in HandlerHas /\ UNCHANGED <<db, queue, worker>>
    BY <1>2 DEF PublishFails, Goto, HandlerHas
  <2>2. QED
    BY <2>1, PlacesKept DEF EarlySteps
<1>3. CASE Reserve(r)
  <2>1. /\ status[r] = "none"
        /\ Moves("publishing") \/ Moves("dropping")
        /\ status' = [status EXCEPT ![r] = "queued"]
        /\ charge' = [charge EXCEPT ![r] = "reserved"]
        /\ UNCHANGED <<queue, worker>>
    BY <1>3
       DEF Reserve, Goto, WriteStatus, ReserveCredit, Places, HandlerInv, EarlySteps
  <2>2. \A i \in DOMAIN queue : queue[i] # r
    BY <2>1 DEF Places, QueueInv
  <2>3. Busy => worker.job # r
    BY <2>1 DEF Places, WorkerInv
  <2>4. FitsStatus'
    BY <2>1 DEF Places, FitsStatus, TypeOK
  <2>5. HandlerInv'
    BY <2>1 DEF Places, HandlerInv, TypeOK, EarlySteps
  <2>6. QueueInv'
    BY <2>1, <2>2 DEF Places, QueueInv, TypeOK
  <2>7. WorkerInv'
    BY <2>1, <2>3, KeysAssumption DEF Places, WorkerInv, Busy, TypeOK
  <2>8. QED
    BY <2>4, <2>5, <2>6, <2>7 DEF Places
<1>4. CASE Publish(r)
  <2>1. /\ handler[r] \in HandlerHas /\ status[r] = "queued" /\ Moves("answered")
        /\ queue' = Append(queue, r)
        /\ UNCHANGED <<status, charge, worker>>
    BY <1>4 DEF Publish, Goto, db, Places, HandlerInv, HandlerHas
  <2>2. \A i \in DOMAIN queue : queue[i] # r
    BY <2>1 DEF Places, QueueInv
  <2>3. Busy => worker.job # r
    BY <2>1 DEF Places, WorkerInv
  <2>4. /\ DOMAIN queue' = DOMAIN queue \cup {Len(queue) + 1}
        /\ queue'[Len(queue) + 1] = r
        /\ \A i \in DOMAIN queue : queue'[i] = queue[i]
    BY <2>1, QueueAppend DEF TypeOK
  <2>5. \A s \in Requests : handler'[s] = IF s = r THEN "answered" ELSE handler[s]
    BY <2>1 DEF TypeOK
  <2>6. FitsStatus'
    BY <2>1 DEF Places, FitsStatus
  <2>7. HandlerInv'
    BY <2>1, <2>5 DEF Places, HandlerInv, EarlySteps, HandlerHas
  <2>8. QueueInv'
    BY <2>1, <2>2, <2>4, <2>5 DEF Places, QueueInv, HandlerHas, TypeOK
  <2>9. WorkerInv'
    BY <2>1, <2>3, <2>4, <2>5, KeysAssumption DEF Places, WorkerInv, Busy, HandlerHas, TypeOK
  <2>10. QED
    BY <2>6, <2>7, <2>8, <2>9 DEF Places
<1>5. CASE Compensate(r)
  <2>1. handler[r] \in HandlerHas /\ Moves("dropping") /\ UNCHANGED <<queue, worker>>
    BY <1>5 DEF Compensate, Goto, HandlerHas
  <2>2. CASE UNCHANGED db
    BY <2>1, <2>2, PlacesKept DEF EarlySteps, HandlerHas
  <2>3. CASE FailAndRefund(r)
    <3>1. status[r] = "queued" /\ charge[r] = "reserved"
      BY <2>1 DEF Places, HandlerInv, FitsStatus
    <3>2. /\ status' = [status EXCEPT ![r] = "failed"]
          /\ charge' = [charge EXCEPT ![r] = "refunded"]
      BY <2>3, <3>1 DEF FailAndRefund, RefundCredit, WriteStatus
    <3>3. \A i \in DOMAIN queue : queue[i] # r
      BY <2>1 DEF Places, QueueInv
    <3>4. Busy => worker.job # r
      BY <2>1 DEF Places, WorkerInv
    <3>5. FitsStatus'
      BY <3>2 DEF Places, FitsStatus, TypeOK
    <3>6. HandlerInv'
      BY <2>1, <3>2 DEF Places, HandlerInv, TypeOK, EarlySteps, HandlerHas
    <3>7. QueueInv'
      BY <2>1, <3>2, <3>3 DEF Places, QueueInv, TypeOK
    <3>8. WorkerInv'
      BY <2>1, <3>2, <3>4, KeysAssumption DEF Places, WorkerInv, Busy, TypeOK
    <3>9. QED
      BY <3>5, <3>6, <3>7, <3>8 DEF Places
  <2>4. QED
    BY <1>5, <2>2, <2>3 DEF Compensate
<1>6. QED
  BY <1>1, <1>2, <1>3, <1>4, <1>5 DEF Handle

(* The worker changes status and credit together, of a job nobody else     *)
(* has.                                                                    *)
LEMMA WorkPlaces ==
    ASSUME EarlyInv, Places, faults \subseteq faults', Work
    PROVE  Places'
<1> USE DEF EarlyInv, TypeInv
<1> DEFINE j == worker.job
<1>1. handler' = handler
  BY DEF Work, Pop, StartProcessing, Render, Complete, WriteFails, GiveUp, GiveUpFails
<1>2. CASE Pop
  <2>1. queue # <<>> /\ queue \in Seq(Requests) /\ queue' = Tail(queue) /\ worker.at = "waiting"
    BY <1>2 DEF Pop, TakeHead, TypeOK
  <2>2. worker' = worker \/ worker' = [at |-> "taken", job |-> queue[1]]
    BY <1>2, <2>1, QueueTail DEF Pop
  <2>3. UNCHANGED <<status, charge>>
    BY <1>2 DEF Pop, db
  <2>4. FitsStatus' /\ HandlerInv'
    BY <1>1, <2>3 DEF Places, FitsStatus, HandlerInv
  <2>5. QueueInv'
    BY <1>1, <2>1, <2>3, QueueTail DEF Places, QueueInv
  <2>6. WorkerInv'
    <3>1. CASE worker' = worker
      BY <2>1, <3>1 DEF WorkerInv, Busy
    <3>2. CASE worker' = [at |-> "taken", job |-> queue[1]]
      <4>1. worker'.at = "taken" /\ worker'.job = queue[1] /\ 1 \in DOMAIN queue
        BY <2>1, <3>2, QueueTail
      <4>2. status[queue[1]] = "queued" /\ handler[queue[1]] \notin HandlerHas
        BY <4>1 DEF Places, QueueInv
      <4>3. \A i \in DOMAIN queue' : queue'[i] # queue[1]
        BY <2>1, <4>1, QueueTail DEF Places, QueueInv
      <4>4. QED
        BY <1>1, <2>3, <4>1, <4>2, <4>3 DEF WorkerInv
    <3>3. QED
      BY <2>2, <3>1, <3>2
  <2>7. QED
    BY <2>4, <2>5, <2>6 DEF Places
<1>3. ASSUME Busy, queue' = queue, UNCHANGED <<status, charge>>,
             NEW to, worker' = [worker EXCEPT !.at = to],
             to \in {"saving", "failing", "dead"},
             to = "saving" => worker.at \in {"rendering", "saving"}
      PROVE  Places'
  <2>1. worker'.at = to /\ worker'.job = j
    BY <1>3 DEF TypeOK
  <2>2. FitsStatus' /\ HandlerInv' /\ QueueInv'
    BY <1>1, <1>3 DEF Places, FitsStatus, HandlerInv, QueueInv
  <2>3. WorkerInv'
    BY <1>1, <1>3, <2>1 DEF Places, WorkerInv, Busy
  <2>4. QED
    BY <2>2, <2>3 DEF Places
<1>4. CASE Render \/ WriteFails \/ GiveUpFails
  BY <1>3, <1>4 DEF Render, WriteFails, GiveUpFails, WorkerGoes, Busy, db
<1>5. ASSUME Busy
      PROVE  /\ j \in Requests
             /\ \/ charge[j] = "reserved" /\ status[j] \in {"queued", "processing"}
                \/ /\ charge[j] = "finalized" /\ worker.at = "failing"
                   /\ "commit_reply" \in faults
             /\ handler[j] \notin HandlerHas
             /\ handler[j] \notin EarlySteps
             /\ \A i \in DOMAIN queue : queue[i] # j
  BY <1>5 DEF Busy, TypeOK, Places, WorkerInv, HandlerInv, FitsStatus
<1>6. ASSUME Busy, queue' = queue, NEW s, NEW c,
             status' = [status EXCEPT ![j] = s], charge' = [charge EXCEPT ![j] = c],
             \/ s = "processing" /\ c = "reserved"
             \/ s = "completed" /\ c = "finalized"
             \/ s = "failed" /\ c = "refunded"
             \/ s = "failed" /\ c = "finalized" /\ "commit_reply" \in faults
      PROVE  FitsStatus' /\ HandlerInv' /\ QueueInv'
  <2>1. FitsStatus'
    BY <1>6, <1>5 DEF Places, FitsStatus, TypeOK
  <2>2. HandlerInv'
    BY <1>1, <1>5, <1>6 DEF Places, HandlerInv, TypeOK
  <2>3. QueueInv'
    BY <1>1, <1>5, <1>6 DEF Places, QueueInv, TypeOK
  <2>4. QED
    BY <2>1, <2>2, <2>3
<1>7. CASE StartProcessing
  <2>1. /\ Busy /\ worker.at = "taken"
        /\ \/ worker' = [worker EXCEPT !.at = "rendering"]
           \/ worker' = [worker EXCEPT !.at = "failing"]
        /\ status' = [status EXCEPT ![j] = "processing"]
        /\ UNCHANGED <<charge, queue>>
    BY <1>7 DEF StartProcessing, WorkerGoes, WriteStatus, Busy
  <2>2. charge' = [charge EXCEPT ![j] = "reserved"]
    BY <1>5, <2>1 DEF TypeOK
  <2>3. FitsStatus' /\ HandlerInv' /\ QueueInv'
    BY <1>6, <2>1, <2>2
  <2>4. WorkerInv'
    BY <1>1, <1>5, <2>1 DEF WorkerInv, TypeOK
  <2>5. QED
    BY <2>3, <2>4 DEF Places
<1>8. CASE Complete
  <2>1. Busy /\ worker.at = "saving" /\ queue' = queue
    BY <1>8 DEF Complete, Busy
  <2>2. status' = [status EXCEPT ![j] = "completed"]
    BY <1>8 DEF Complete, CompleteAndCharge, WriteStatus
  <2>3. charge' = [charge EXCEPT ![j] = "finalized"]
    BY <1>5, <1>8, <2>1 DEF Complete, CompleteAndCharge, FinalizeCredit
  <2>4. FitsStatus' /\ HandlerInv' /\ QueueInv'
    BY <1>6, <2>1, <2>2, <2>3
  <2>5. CASE WorkerDone
    BY <2>4, <2>5 DEF WorkerDone, WorkerInv, Busy, Places
  <2>6. CASE worker' = [worker EXCEPT !.at = "failing"] /\ "commit_reply" \in faults'
    <3>1. worker'.at = "failing" /\ worker'.job = j /\ status'[j] = "completed"
      BY <1>5, <2>1, <2>2, <2>6 DEF TypeOK
    <3>2. WorkerInv'
      BY <1>1, <1>5, <2>1, <2>6, <3>1 DEF WorkerInv
    <3>3. QED
      BY <2>4, <3>2 DEF Places
  <2>7. QED
    BY <1>8, <2>5, <2>6 DEF Complete, WorkerGoes, Fault
<1>9. CASE GiveUp
  <2>1. Busy /\ queue' = queue
    BY <1>9 DEF GiveUp, Busy
  <2>2. status' = [status EXCEPT ![j] = "failed"]
    BY <1>9 DEF GiveUp, FailAndRefund, WriteStatus
  <2>3. \/ charge' = [charge EXCEPT ![j] = "refunded"]
        \/ charge' = [charge EXCEPT ![j] = "finalized"] /\ "commit_reply" \in faults
    <3>1. CASE charge[j] = "reserved"
      BY <1>9, <3>1 DEF GiveUp, FailAndRefund, RefundCredit
    <3>2. CASE charge[j] # "reserved"
      <4>1. charge' = charge /\ charge[j] = "finalized" /\ "commit_reply" \in faults
        BY <1>5, <1>9, <2>1, <3>2 DEF GiveUp, FailAndRefund, RefundCredit
      <4>2. QED
        BY <4>1 DEF TypeOK
    <3>3. QED
      BY <3>1, <3>2
  <2>4. FitsStatus' /\ HandlerInv' /\ QueueInv'
    BY <1>6, <2>1, <2>2, <2>3
  <2>5. ~ Busy'
    BY <1>9 DEF GiveUp, WorkerDone, WorkerGoes, Busy, TypeOK
  <2>6. QED
    BY <2>4, <2>5 DEF WorkerInv, Places
<1>10. QED
  BY <1>2, <1>4, <1>7, <1>8, <1>9 DEF Work

(* A restart loses jobs but gives none to two places.                      *)
LEMMA RestartPlaces ==
    ASSUME EarlyInv, Places, faults \subseteq faults', Restart
    PROVE  Places'
<1>1. /\ UNCHANGED <<status, charge, queue>> /\ worker'.at = "waiting"
      /\ \A r \in Requests : handler'[r] = handler[r] \/ handler'[r] = "lost"
  BY DEF Restart, db, WorkerDone
<1>2. FitsStatus' /\ HandlerInv'
  BY <1>1 DEF Places, FitsStatus, HandlerInv, EarlySteps, HandlerHas
<1>3. QueueInv'
  BY <1>1 DEF Places, QueueInv, HandlerHas, EarlyInv, TypeInv, TypeOK
<1>4. WorkerInv'
  BY <1>1 DEF WorkerInv, Busy
<1>5. QED
  BY <1>2, <1>3, <1>4 DEF Places

(* PlaceInv is inductive.                                                  *)
LEMMA PlaceStep ==
    ASSUME PlaceInv, [Next]_vars
    PROVE  PlaceInv'
<1>1. EarlyInv /\ EarlyInv' /\ faults \subseteq faults'
  BY EarlyStep, FaultsStay DEF PlaceInv
<1>2. ASSUME Truthful'
      PROVE  Places'
  <2>1. Places /\ ~ Fault("publish_reply")
    BY <1>2, FaultsStay DEF PlaceInv, Truthful, Without
  <2>2. CASE UNCHANGED vars
    BY <2>1, <2>2
       DEF Places, FitsStatus, HandlerInv, QueueInv, WorkerInv, Busy, vars, db
  <2>3. ASSUME NEW k \in Keys, KeyExpires(k)
        PROVE  Places'
    BY <1>1, <2>1, <2>3
       DEF Places, FitsStatus, HandlerInv, QueueInv, WorkerInv, Busy, KeyExpires, db
  <2>4. QED
    BY <1>1, <2>1, <2>2, <2>3, HandlePlaces, WorkPlaces, RestartPlaces DEF Next
<1>3. QED
  BY <1>1, <1>2 DEF PlaceInv

(* PlaceInv holds before the first request.                                *)
LEMMA PlaceInit == Init => PlaceInv
<1>1. Init => Places
  BY DEF Init, Places, FitsStatus, HandlerInv, QueueInv, WorkerInv, Busy, HandlerHas
<1>2. QED
  BY <1>1, EarlyInit DEF PlaceInv

(* In every reachable state in which no reply of RPUSH was lost, each job  *)
(* has the status and the credit that go with the one who has it.          *)
THEOREM PlaceInvariant == Spec => []PlaceInv
  BY PlaceInit, PlaceStep, PTL DEF Spec

-----------------------------------------------------------------------------
(* Whatever is lost                                                        *)

(* Under all faults, only a job that was charged is handed on, and the     *)
(* writes of an end settle its credit with it.                             *)
Settled(r) ==
    /\ status[r] = "none"   => charge[r] = "none"
    /\ status[r] = "queued" => charge[r] = "reserved"
    /\ Ended(r)             => charge[r] \in {"finalized", "refunded"}

SettledAt(r) ==
    /\ Settled(r)
    /\ handler[r] \in EarlySteps => status[r] = "none"
    /\ handler[r] \in HandlerHas \/ InQueue(r) \/ worker.job = r => charge[r] # "none"

SettledInv == EarlyInv /\ \A r \in Requests : SettledAt(r)

(* A handler charges a job before it hands it on, and settles the one it   *)
(* takes back.                                                             *)
LEMMA HandleSettles ==
    ASSUME SettledInv, NEW r \in Requests, Accept(r) \/ Handle(r), NEW s \in Requests
    PROVE  SettledAt(s)'
<1> USE DEF EarlyInv, TypeInv, TypeOK
<1>0. EarlyInv /\ SettledAt(s) /\ SettledAt(r)
  BY DEF SettledInv
<1>1. CASE Accept(r) \/ Replay(r) \/ Store(r) \/ ReserveFails(r) \/ PublishFails(r) \/ DropKey(r)
  <2>1. /\ UNCHANGED <<status, charge, queue, worker>>
        /\ \A q \in Requests \ {r} : handler'[q] = handler[q]
        /\ handler'[r] \in EarlySteps => handler[r] \in EarlySteps
        /\ handler'[r] \in HandlerHas => handler[r] \in HandlerHas
    BY <1>0, <1>1
       DEF Accept, Replay, Store, ReserveFails, PublishFails, DropKey, Goto, db, EarlySteps,
           HandlerHas
  <2>2. QED
    BY <1>0, <2>1 DEF SettledAt, Settled, Ended, InQueue
<1>2. CASE Reserve(r)
  <2>1. /\ UNCHANGED <<queue, worker>>
        /\ \A q \in Requests \ {r} : handler'[q] = handler[q]
        /\ handler'[r] \notin EarlySteps
        /\ status' = [status EXCEPT ![r] = "queued"]
        /\ charge' = [charge EXCEPT ![r] = "reserved"]
    BY <1>0, <1>2 DEF Reserve, Goto, ReserveCredit, WriteStatus, EarlySteps
  <2>2. QED
    BY <1>0, <2>1 DEF SettledAt, Settled, Ended, InQueue
<1>3. CASE Publish(r)
  <2>1. /\ UNCHANGED <<status, charge, worker>> /\ queue' = Append(queue, r)
        /\ \A q \in Requests \ {r} : handler'[q] = handler[q]
        /\ handler[r] \in HandlerHas /\ handler'[r] \notin EarlySteps
    BY <1>0, <1>3 DEF Publish, Goto, db, EarlySteps, HandlerHas
  <2>2. /\ DOMAIN queue' = DOMAIN queue \cup {Len(queue) + 1}
        /\ queue'[Len(queue) + 1] = r
        /\ \A i \in DOMAIN queue : queue'[i] = queue[i]
    BY <1>0, <2>1, QueueAppend
  <2>3. InQueue(s)' => InQueue(s) \/ s = r
    BY <2>2 DEF InQueue
  <2>4. QED
    BY <1>0, <2>1, <2>3 DEF SettledAt, Settled, Ended
<1>4. CASE Compensate(r)
  <2>1. /\ UNCHANGED <<queue, worker>>
        /\ \A q \in Requests \ {r} : handler'[q] = handler[q]
        /\ handler[r] \in HandlerHas /\ handler'[r] \notin EarlySteps \cup HandlerHas
    BY <1>0, <1>4 DEF Compensate, Goto, EarlySteps, HandlerHas
  <2>2. CASE UNCHANGED db
    BY <1>0, <2>1, <2>2 DEF SettledAt, Settled, Ended, InQueue, db
  <2>3. CASE FailAndRefund(r)
    <3>1. charge[r] # "none"
      BY <1>0, <2>1 DEF SettledAt
    <3>2. /\ status' = [status EXCEPT ![r] = "failed"]
          /\ charge'[r] \in {"finalized", "refunded"}
          /\ \A q \in Requests \ {r} : charge'[q] = charge[q]
      BY <1>0, <2>3, <3>1 DEF FailAndRefund, RefundCredit, WriteStatus
    <3>3. QED
      BY <1>0, <2>1, <3>2 DEF SettledAt, Settled, Ended, InQueue
  <2>4. QED
    BY <1>4, <2>2, <2>3 DEF Compensate
<1>5. QED
  BY <1>1, <1>2, <1>3, <1>4 DEF Handle

(* The worker ends a job and settles its credit in one write.               *)
LEMMA WorkSettles ==
    ASSUME SettledInv, Work, NEW s \in Requests
    PROVE  SettledAt(s)'
<1> USE DEF EarlyInv, TypeInv, TypeOK
<1>0. EarlyInv /\ SettledAt(s)
  BY DEF SettledInv
<1>1. CASE Pop
  <2>1. /\ UNCHANGED <<handler, status, charge>>
        /\ queue # <<>> /\ queue' = Tail(queue)
        /\ worker' = [at |-> "taken", job |-> Head(queue)] \/ worker' = worker
    BY <1>1 DEF Pop, TakeHead, db
  <2>2. /\ InQueue(s)' => InQueue(s)
        /\ worker'.job = s => InQueue(s) \/ worker.job = s
    BY <1>0, <2>1, QueueTail DEF InQueue
  <2>3. QED
    BY <1>0, <2>1, <2>2 DEF SettledAt, Settled, Ended
<1>2. CASE StartProcessing \/ Render \/ WriteFails \/ GiveUpFails
  <2>1. /\ UNCHANGED <<handler, charge, queue>> /\ worker'.job = worker.job
        /\ \/ status'[s] = status[s]
           \/ status'[s] = "processing" /\ worker.job = s
    BY <1>0, <1>2 DEF StartProcessing, Render, WriteFails, GiveUpFails, WorkerGoes, WriteStatus, db
  <2>2. worker.job = s => charge[s] # "none"
    BY <1>0 DEF SettledAt
  <2>3. worker.job = s => handler[s] \notin EarlySteps
    BY <1>0, <2>2
  <2>4. QED
    BY <1>0, <2>1, <2>2, <2>3 DEF SettledAt, Settled, Ended, InQueue
<1>3. CASE Complete \/ GiveUp
  <2>1. /\ UNCHANGED <<handler, queue>> /\ worker'.job \in {worker.job, NoJob}
        /\ \A q \in Requests : q # worker.job => status'[q] = status[q] /\ charge'[q] = charge[q]
        /\ worker.job = s =>
              /\ status'[s] \in {"completed", "failed"}
              /\ charge[s] # "none" => charge'[s] \in {"finalized", "refunded"}
    BY <1>0, <1>3
       DEF Complete, GiveUp, WorkerDone, WorkerGoes, CompleteAndCharge, FailAndRefund,
           FinalizeCredit, RefundCredit, WriteStatus
  <2>2. worker.job = s =>
           charge[s] \in {"reserved", "finalized", "refunded"} /\ handler[s] \notin EarlySteps
    BY <1>0 DEF SettledAt
  <2>3. worker'.job = s => worker.job = s
    BY <2>1, KeysAssumption
  <2>4. CASE worker.job = s
    BY <2>1, <2>2, <2>4 DEF SettledAt, Settled, Ended
  <2>5. CASE worker.job # s
    BY <1>0, <2>1, <2>3, <2>5 DEF SettledAt, Settled, Ended, InQueue
  <2>6. QED
    BY <2>4, <2>5
<1>4. QED
  BY <1>1, <1>2, <1>3 DEF Work

(* SettledInv is inductive under all faults.                               *)
THEOREM SettledInvariant == Spec => []SettledInv
<1>1. Init => SettledInv
  BY EarlyInit, KeysAssumption DEF Init, SettledInv, SettledAt, Settled, Ended, InQueue, HandlerHas
<1>2. SettledInv /\ [Next]_vars => SettledInv'
  <2> SUFFICES ASSUME SettledInv, [Next]_vars, NEW s \in Requests
               PROVE  SettledAt(s)'
    BY EarlyStep DEF SettledInv
  <2>1. EarlyInv /\ SettledAt(s)
    BY DEF SettledInv
  <2>2. CASE Restart
    <3>1. /\ UNCHANGED <<status, charge, queue>> /\ worker'.job = NoJob
          /\ handler'[s] = handler[s] \/ handler'[s] = "lost"
      BY <2>2 DEF Restart, db, WorkerDone
    <3>2. QED
      BY <2>1, <3>1, KeysAssumption DEF SettledAt, Settled, Ended, InQueue, EarlySteps, HandlerHas
  <2>3. ASSUME NEW k \in Keys, KeyExpires(k)
        PROVE  SettledAt(s)'
    BY <2>1, <2>3 DEF KeyExpires, db, SettledAt, Settled, Ended, InQueue
  <2>4. CASE UNCHANGED vars
    BY <2>1, <2>4 DEF vars, db, SettledAt, Settled, Ended, InQueue
  <2>5. QED
    BY <2>2, <2>3, <2>4, HandleSettles, WorkSettles DEF Next
<1>3. QED
  BY <1>1, <1>2, PTL DEF Spec

(* A completed job is paid for and a failed one refunded, through stops,   *)
(* lost jobs and failed transactions; whatever fails, no job that ended    *)
(* keeps a credit reserved.                                                *)
THEOREM ChargesFitStatus == Spec => []ChargeFitsStatus
<1>1. PlaceInv /\ SettledInv => ChargeFitsStatus
  BY DEF PlaceInv, Places, FitsStatus, SettledInv, SettledAt, Settled, ChargeFitsStatus, Truthful, Without
<1>2. QED
  BY <1>1, PlaceInvariant, SettledInvariant, PTL

(* Every write of a status is to a job that is not at its end, but for the *)
(* one of the worker that did not hear of its COMMIT.                      *)
LEMMA EndsStay ==
    ASSUME PlaceInv, [Next]_vars, Truthful', NEW s \in Requests, Ended(s),
           status'[s] # status[s]
    PROVE  status[s] = "completed" /\ status'[s] = "failed" /\ "commit_reply" \in faults
<1>1. EarlyInv /\ Places
  BY FaultsStay DEF PlaceInv, Truthful, Without
<1> USE <1>1 DEF EarlyInv, TypeInv
<1>2. ASSUME NEW j, j # s, NEW v, WriteStatus(j, v)
      PROVE  FALSE
  BY <1>2 DEF WriteStatus, TypeOK
<1>3. ASSUME NEW r \in Requests, Handle(r)
      PROVE  FALSE
  <2>1. CASE Reserve(r)
    <3>1. handler[r] \in EarlySteps /\ WriteStatus(r, "queued")
      BY <2>1 DEF Reserve, Goto, EarlySteps
    <3>2. r # s
      BY <3>1 DEF Places, HandlerInv, Ended
    <3>3. QED
      BY <1>2, <3>1, <3>2
  <2>2. CASE Compensate(r)
    <3>1. handler[r] \in HandlerHas /\ WriteStatus(r, "failed")
      BY <2>2 DEF Compensate, Goto, FailAndRefund, HandlerHas, db
    <3>2. r # s
      BY <3>1 DEF Places, HandlerInv, Ended
    <3>3. QED
      BY <1>2, <3>1, <3>2
  <2>3. QED
    BY <1>3, <2>1, <2>2
       DEF Handle, Replay, Store, ReserveFails, Publish, PublishFails, DropKey, db
<1>4. ASSUME Work
      PROVE  status[s] = "completed" /\ status'[s] = "failed" /\ "commit_reply" \in faults
  <2>1. \/ /\ StartProcessing \/ Complete
           /\ \E v : WriteStatus(worker.job, v)
        \/ GiveUp /\ WriteStatus(worker.job, "failed")
    BY <1>4
       DEF Work, Pop, StartProcessing, Render, Complete, WriteFails, GiveUp, GiveUpFails,
           CompleteAndCharge, FailAndRefund, db
  <2>2. worker.job = s
    BY <1>2, <2>1
  <2>3. Busy
    BY <2>1 DEF StartProcessing, Complete, GiveUp, Busy
  <2>4. status[s] = "completed" /\ worker.at = "failing" /\ "commit_reply" \in faults
    BY <2>2, <2>3 DEF Places, WorkerInv, Ended
  <2>5. WriteStatus(s, "failed")
    BY <2>1, <2>2, <2>4 DEF StartProcessing, Complete
  <2>6. QED
    BY <2>4, <2>5 DEF WriteStatus, TypeOK
<1>5. QED
  BY <1>3, <1>4 DEF Next, Accept, Restart, KeyExpires, vars, db

(* Completed and failed are ends, but for the worker that did not hear of  *)
(* its COMMIT.                                                             *)
THEOREM KnownEndsStay == Spec => KnownEndsAreFinal
<1>1. PlaceInv /\ [Next]_vars
        => [Truthful' => \A r \in Requests :
                Ended(r) /\ status'[r] # status[r] =>
                    /\ status[r] = "completed" /\ status'[r] = "failed"
                    /\ "commit_reply" \in faults]_vars
  BY EndsStay
<1>2. QED
  BY <1>1, PlaceInvariant, PTL DEF Spec, KnownEndsAreFinal, Truthful
-----------------------------------------------------------------------------
(* Holders                                                                 *)

(* Where a handler is before it has handed its job on.  One whose RPUSH    *)
(* took effect and raised has handed it on, and does not know.             *)
NotYet == EarlySteps \cup HandlerHas

HandedOn(r) ==
    handler[r] \in NotYet => handler[r] = "compensating" /\ "publish_reply" \in faults

(* A job on the list is there once, and its handler has handed it on; so   *)
(* has the one of the worker's job, which is not on the list.              *)
HoldInv ==
    /\ \A i \in DOMAIN queue :
          /\ HandedOn(queue[i])
          /\ \A k \in DOMAIN queue : queue[k] = queue[i] => k = i
    /\ worker.at # "waiting" =>
          /\ HandedOn(worker.job)
          /\ \A i \in DOMAIN queue : queue[i] # worker.job

HolderInv == EarlyInv /\ HoldInv

HandedOnThen(r) ==
    handler'[r] \in NotYet => handler'[r] = "compensating" /\ "publish_reply" \in faults'

(* No step of anybody takes a job back to the time before.                 *)
LEMMA StaysHandedOn ==
    ASSUME EarlyInv, [Next]_vars, NEW s \in Requests, HandedOn(s)
    PROVE  HandedOnThen(s)
<1> USE DEF EarlyInv, TypeInv, TypeOK, HandedOn, HandedOnThen, NotYet, EarlySteps, HandlerHas
<1>1. faults \subseteq faults'
  BY FaultsStay
<1>2. ASSUME NEW r \in Requests, Accept(r) \/ Handle(r)
      PROVE  HandedOnThen(s)
  <2>1. CASE r # s
    <3>1. handler'[s] = handler[s]
      BY <1>2, <2>1
         DEF Accept, Handle, Replay, Store, Reserve, ReserveFails, Publish, PublishFails,
             Compensate, DropKey, Goto
    <3>2. QED
      BY <1>1, <3>1
  <2>2. CASE r = s
    <3>1. handler[s] \notin {"idle", "replaying", "storing", "reserving", "publishing"}
      OBVIOUS
    <3>2. Compensate(s) \/ DropKey(s)
      BY <1>2, <2>2, <3>1
         DEF Accept, Handle, Replay, Store, Reserve, ReserveFails, Publish, PublishFails, Goto
    <3>3. handler'[s] \in {"dropping", "answered"}
      BY <3>2 DEF Compensate, DropKey, Goto
    <3>4. QED
      BY <3>3
  <2>3. QED
    BY <2>1, <2>2
<1>3. CASE Work
  <2>1. handler' = handler
    BY <1>3 DEF Work, Pop, StartProcessing, Render, Complete, WriteFails, GiveUp, GiveUpFails
  <2>2. QED
    BY <1>1, <2>1
<1>4. CASE Restart
  <2>1. handler'[s] = handler[s] \/ handler'[s] = "lost"
    BY <1>4 DEF Restart
  <2>2. QED
    BY <1>1, <2>1
<1>5. QED
  BY <1>1, <1>2, <1>3, <1>4 DEF Next, KeyExpires, vars

(* Only RPUSH puts a job on the list, and its handler has handed it on     *)
(* then.                                                                   *)
LEMMA HandlerHolds ==
    ASSUME EarlyInv, HoldInv, \A s \in Requests : HandedOn(s) => HandedOnThen(s),
           NEW r \in Requests, Accept(r) \/ Handle(r)
    PROVE  HoldInv'
<1>1. /\ \A i \in DOMAIN queue : queue[i] \in Requests
      /\ worker.at # "waiting" => worker.job \in Requests
  BY DEF EarlyInv, TypeInv, TypeOK
<1>2. CASE ~ Publish(r)
  <2>1. UNCHANGED <<queue, worker>>
    BY <1>2 DEF Accept, Handle, Replay, Store, Reserve, ReserveFails, PublishFails,
                Compensate, DropKey
  <2>2. QED
    BY <1>1, <2>1 DEF HoldInv, HandedOn, HandedOnThen
<1>3. CASE Publish(r)
  <2>1. /\ queue' = Append(queue, r) /\ worker' = worker
        /\ handler[r] = "publishing"
        /\ \/ handler'[r] = "answered"
           \/ handler'[r] = "compensating" /\ "publish_reply" \in faults'
    BY <1>3 DEF Publish, Goto, Fault, EarlyInv, TypeInv, TypeOK
  <2>2. HandedOnThen(r)
    BY <2>1 DEF HandedOnThen, NotYet, EarlySteps, HandlerHas
  <2>3. ~ HandedOn(r)
    BY <2>1 DEF HandedOn, NotYet, HandlerHas
  <2>4. \A i \in DOMAIN queue : queue[i] # r
    BY <2>3 DEF HoldInv
  <2>5. worker.at # "waiting" => worker.job # r
    BY <2>3 DEF HoldInv
  <2>6. /\ DOMAIN queue' = DOMAIN queue \cup {Len(queue) + 1}
        /\ Len(queue) + 1 \notin DOMAIN queue
        /\ queue'[Len(queue) + 1] = r
        /\ \A i \in DOMAIN queue : queue'[i] = queue[i]
    BY <2>1, QueueAppend DEF EarlyInv, TypeInv, TypeOK
  <2>7. \A i \in DOMAIN queue' : HandedOnThen(queue'[i])
    <3>1. ASSUME NEW i \in DOMAIN queue
          PROVE  HandedOnThen(queue'[i])
      BY <1>1, <2>6 DEF HoldInv
    <3>2. HandedOnThen(queue'[Len(queue) + 1])
      BY <2>2, <2>6
    <3>3. QED
      BY <2>6, <3>1, <3>2
  <2>8. \A i, k \in DOMAIN queue' : queue'[k] = queue'[i] => k = i
    BY <2>4, <2>6 DEF HoldInv
  <2>9. worker'.at # "waiting" =>
           /\ HandedOnThen(worker'.job)
           /\ \A i \in DOMAIN queue' : queue'[i] # worker'.job
    BY <1>1, <2>1, <2>5, <2>6 DEF HoldInv
  <2>10. QED
    BY <2>7, <2>8, <2>9 DEF HoldInv, HandedOn, HandedOnThen
<1>4. QED
  BY <1>2, <1>3

(* The worker's job is the one it took off the list.                       *)
LEMMA WorkerHolds ==
    ASSUME EarlyInv, HoldInv, \A s \in Requests : HandedOn(s) => HandedOnThen(s), Work
    PROVE  HoldInv'
<1>1. /\ \A i \in DOMAIN queue : queue[i] \in Requests
      /\ worker.at # "waiting" => worker.job \in Requests
  BY DEF EarlyInv, TypeInv, TypeOK
<1>2. CASE Pop
  <2>1. /\ worker.at = "waiting" /\ queue # <<>> /\ queue' = Tail(queue)
        /\ worker' = [at |-> "taken", job |-> Head(queue)] \/ worker' = worker
    BY <1>2 DEF Pop, TakeHead
  <2>2. /\ 1 \in DOMAIN queue /\ Head(queue) = queue[1]
        /\ \A i \in DOMAIN queue' :
              i + 1 \in DOMAIN queue /\ i + 1 # 1 /\ queue'[i] = queue[i + 1]
        /\ \A i, k \in DOMAIN queue' : i + 1 = k + 1 => i = k
    BY <2>1, QueueTail DEF EarlyInv, TypeInv, TypeOK
  <2>3. \A i \in DOMAIN queue' : HandedOnThen(queue'[i])
    <3>1. ASSUME NEW i \in DOMAIN queue
          PROVE  HandedOnThen(queue[i])
      BY <1>1 DEF HoldInv
    <3>2. QED
      BY <2>2, <3>1
  <2>4. \A i, k \in DOMAIN queue' : queue'[k] = queue'[i] => k = i
    BY <2>2 DEF HoldInv
  <2>5. worker'.at # "waiting" => worker'.job = queue[1]
    BY <2>1, <2>2
  <2>6. /\ HandedOnThen(queue[1])
        /\ \A k \in DOMAIN queue : k # 1 => queue[k] # queue[1]
    BY <1>1, <2>2 DEF HoldInv
  <2>7. worker'.at # "waiting" =>
           /\ HandedOnThen(worker'.job)
           /\ \A i \in DOMAIN queue' : queue'[i] # worker'.job
    BY <2>2, <2>5, <2>6
  <2>8. QED
    BY <2>3, <2>4, <2>7 DEF HoldInv, HandedOn, HandedOnThen
<1>3. CASE ~ Pop
  <2>1. queue' = queue
    BY <1>3 DEF Work, StartProcessing, Render, Complete, WriteFails, GiveUp, GiveUpFails
  <2>2. worker'.at # "waiting" => worker'.job = worker.job /\ worker.at # "waiting"
    BY <1>3 DEF Work, StartProcessing, Render, Complete, WriteFails, GiveUp, GiveUpFails,
                WorkerGoes, WorkerDone, EarlyInv, TypeInv, TypeOK
  <2>3. QED
    BY <1>1, <2>1, <2>2 DEF HoldInv, HandedOn, HandedOnThen
<1>4. QED
  BY <1>2, <1>3

(* HolderInv is inductive.                                                 *)
LEMMA HolderStep ==
    ASSUME HolderInv, [Next]_vars
    PROVE  HolderInv'
<1>1. EarlyInv' /\ EarlyInv /\ HoldInv
  BY EarlyStep DEF HolderInv
<1>2. \A s \in Requests : HandedOn(s) => HandedOnThen(s)
  BY <1>1, StaysHandedOn
<1> SUFFICES HoldInv'
  BY <1>1 DEF HolderInv
<1>3. ASSUME NEW r \in Requests, Accept(r) \/ Handle(r)
      PROVE  HoldInv'
  BY <1>1, <1>2, <1>3, HandlerHolds
<1>4. CASE Work
  BY <1>1, <1>2, <1>4, WorkerHolds
<1>5. CASE ~ Work /\ queue' = queue /\ worker' \in {worker, [at |-> "waiting", job |-> NoJob]}
  <2>1. worker'.at # "waiting" => worker' = worker
    BY <1>5
  <2>2. /\ \A i \in DOMAIN queue : queue[i] \in Requests
        /\ worker.at # "waiting" => worker.job \in Requests
    BY <1>1 DEF EarlyInv, TypeInv, TypeOK
  <2>3. QED
    BY <1>1, <1>2, <1>5, <2>1, <2>2 DEF HoldInv, HandedOn, HandedOnThen
<1>6. QED
  BY <1>1, <1>3, <1>4, <1>5 DEF Next, Restart, WorkerDone, KeyExpires, vars

(* HolderInv holds before the first request.                               *)
LEMMA HolderInit == Init => HolderInv
  BY EarlyInit DEF HolderInv, HoldInv, Init

(* Whoever took over a job is the only one who has it, whatever fails; at  *)
(* most its handler does not know yet that it was taken.                   *)
THEOREM HolderInvariant == Spec => []HolderInv
<1>1. HolderInv /\ [Next]_vars => HolderInv'
  BY HolderStep
<1>2. QED
  BY HolderInit, <1>1, PTL DEF Spec

(* Under all faults no job is on the list twice or both there and with the *)
(* worker; it is there and with a handler only after a lost reply of       *)
(* RPUSH.                                                                  *)
THEOREM JobsHaveOneHolder == Spec => []OneHolder
<1>1. HolderInv => OneHolder
  <2> SUFFICES ASSUME EarlyInv, HoldInv, NEW r \in Requests
               PROVE  /\ \A i, k \in DOMAIN queue : queue[i] = r /\ queue[k] = r => i = k
                      /\ \A h, g \in Holders(r) :
                            \/ h = g
                            \/ /\ "handler" \in {h, g} /\ handler[r] = "compensating"
                               /\ "publish_reply" \in faults
    BY DEF HolderInv, OneHolder
  <2>1. \A i, k \in DOMAIN queue : queue[i] = r /\ queue[k] = r => i = k
    BY DEF HoldInv
  <2>2. worker.job = r => worker.at # "waiting"
    BY KeysAssumption DEF EarlyInv
  <2>3. InQueue(r) \/ worker.job = r => HandedOn(r)
    BY <2>2 DEF InQueue, HoldInv
  <2>4. worker.job = r => ~ InQueue(r)
    BY <2>2 DEF InQueue, HoldInv
  <2>5. QED
    BY <2>1, <2>3, <2>4 DEF Holders, HandlerHas, HandedOn, NotYet
<1>2. QED
  BY HolderInvariant, <1>1, PTL

-----------------------------------------------------------------------------
(* Nothing is left behind                                                  *)

(* BLPOP moves every other job one place up.                               *)
LEMMA QueueRest ==
    ASSUME NEW Q \in Seq(Requests), Q # <<>>, NEW i \in DOMAIN Q, i # 1
    PROVE  i - 1 \in DOMAIN Tail(Q) /\ Tail(Q)[i - 1] = Q[i]
<1>1. Len(Q) \in Nat /\ i \in 1 .. Len(Q)
  OBVIOUS
<1>2. Len(Tail(Q)) = Len(Q) - 1 /\ DOMAIN Tail(Q) = 1 .. (Len(Q) - 1)
  OBVIOUS
<1>3. i - 1 \in 1 .. (Len(Q) - 1)
  BY <1>1
<1>4. \A j \in 1 .. (Len(Q) - 1) : Tail(Q)[j] = Q[j + 1]
  BY <1>2
<1>5. QED
  BY <1>1, <1>2, <1>3, <1>4

(* A handler answers last.                                                 *)
AnswersLast(r) ==
    handler[r] \in EarlySteps \cup HandlerHas \cup {"dropping"} => told[r] = NoJob

Excused(r) ==
    \/ ~ Without({"stop", "pop_reply"})
    \/ "database" \in faults /\ worker.at = "dead" /\ worker.job = r
    \/ ~ Without({"database", "commit_reply"}) /\ ToldOfError(r)

Stays(r) ==
    charge[r] = "reserved" =>
        \/ handler[r] \in HandlerHas
        \/ InQueue(r)
        \/ worker.job = r /\ worker.at # "dead"
        \/ Excused(r)

StrandInv == EarlyInv /\ \A r \in Requests : AnswersLast(r) /\ Stays(r)

(* Nothing else tells a client anything, or the same handler again.        *)
LEMMA LastAnswer ==
    ASSUME EarlyInv, [Next]_vars, NEW s \in Requests, AnswersLast(s)
    PROVE  AnswersLast(s)' /\ (ToldOfError(s) => ToldOfError(s)' \/ Restart)
<1> USE DEF EarlyInv, TypeInv, TypeOK, AnswersLast, ToldOfError, EarlySteps, HandlerHas
<1>1. ASSUME NEW r \in Requests, Accept(r) \/ Handle(r)
      PROVE  AnswersLast(s)' /\ (ToldOfError(s) => ToldOfError(s)' \/ Restart)
  <2>1. CASE r # s
    <3>1. handler'[s] = handler[s] /\ told'[s] = told[s]
      BY <1>1, <2>1
         DEF Accept, Handle, Replay, Store, Reserve, ReserveFails, Publish, PublishFails,
             Compensate, DropKey, Goto
    <3>2. QED
      BY <3>1
  <2>2. CASE r = s
    <3>1. /\ handler[s] # "answered"
          /\ handler'[s] = "answered" \/ told'[s] = told[s]
          /\ handler[s] = "dropping" => handler'[s] = "answered" /\ told'[s] = told[s]
      BY <1>1, <2>2
         DEF Accept, Handle, Replay, Store, Reserve, ReserveFails, Publish, PublishFails,
             Compensate, DropKey, Goto
    <3>2. handler[s] # "lost"
      BY <1>1, <2>2
         DEF Accept, Handle, Replay, Store, Reserve, ReserveFails, Publish, PublishFails,
             Compensate, DropKey, Goto
    <3>3. QED
      BY <3>1, <3>2
  <2>3. QED
    BY <2>1, <2>2
<1>2. CASE Restart
  <2>1. /\ told' = told
        /\ handler'[s] \in {handler[s], "lost"}
    BY <1>2 DEF Restart
  <2>2. QED
    BY <1>2, <2>1
<1>3. QED
  BY <1>1, <1>2
     DEF Next, KeyExpires, vars, Work, Pop, StartProcessing, Render, Complete, WriteFails,
         GiveUp, GiveUpFails

(* Handlers hand the job on, keep it, return its credit or tell the client *)
(* of an error.                                                            *)
LEMMA HandlerStrands ==
    ASSUME StrandInv, [Next]_vars, NEW r \in Requests, Accept(r) \/ Handle(r), ~ Restart,
           NEW s \in Requests
    PROVE  Stays(s)'
<1> USE DEF EarlyInv, TypeInv, TypeOK
<1>0. /\ EarlyInv /\ Stays(s) /\ AnswersLast(r)
      /\ faults \subseteq faults'
      /\ ToldOfError(s) => ToldOfError(s)'
  BY FaultsStay, LastAnswer DEF StrandInv
<1>1. Excused(s) /\ worker' = worker => Excused(s)'
  BY <1>0 DEF Excused, Without
<1>2. CASE Accept(r) \/ Replay(r) \/ Store(r) \/ ReserveFails(r) \/ DropKey(r)
  <2>1. /\ UNCHANGED <<charge, queue, worker>>
        /\ handler[r] \notin HandlerHas
        /\ \A q \in Requests \ {r} : handler'[q] = handler[q]
    BY <1>0, <1>2 DEF Accept, Replay, Store, ReserveFails, DropKey, Goto, HandlerHas, db
  <2>2. QED
    BY <1>0, <1>1, <2>1 DEF Stays, InQueue
<1>3. CASE Reserve(r)
  <2>1. /\ UNCHANGED <<queue, worker>>
        /\ \A q \in Requests \ {r} : handler'[q] = handler[q] /\ charge'[q] = charge[q]
    BY <1>0, <1>3 DEF Reserve, Goto, ReserveCredit
  <2>2. CASE s # r
    BY <1>0, <1>1, <2>1, <2>2 DEF Stays, InQueue
  <2>3. \/ handler'[r] = "publishing"
        \/ handler'[r] = "dropping" /\ "commit_reply" \in faults' /\ told'[r] = NoJob
    BY <1>0, <1>3 DEF Reserve, Goto, Fault, AnswersLast, EarlySteps
  <2>4. CASE s = r
    BY <2>3, <2>4 DEF Stays, HandlerHas, Excused, Without, ToldOfError
  <2>5. QED
    BY <2>2, <2>4
<1>4. CASE Publish(r)
  <2>1. /\ UNCHANGED <<charge, worker>> /\ queue' = Append(queue, r)
        /\ \A q \in Requests \ {r} : handler'[q] = handler[q]
    BY <1>0, <1>4 DEF Publish, Goto, db
  <2>2. /\ DOMAIN queue' = DOMAIN queue \cup {Len(queue) + 1}
        /\ queue'[Len(queue) + 1] = r
        /\ \A i \in DOMAIN queue : queue'[i] = queue[i]
    BY <1>0, <2>1, QueueAppend
  <2>3. (InQueue(s) => InQueue(s)') /\ (s = r => InQueue(s)')
    BY <2>2 DEF InQueue
  <2>4. QED
    BY <1>0, <1>1, <2>1, <2>3 DEF Stays
<1>5. CASE PublishFails(r)
  <2>1. /\ UNCHANGED <<charge, queue, worker>>
        /\ handler'[r] = "compensating"
        /\ \A q \in Requests \ {r} : handler'[q] = handler[q]
    BY <1>0, <1>5 DEF PublishFails, Goto, db
  <2>2. QED
    BY <1>0, <1>1, <2>1 DEF Stays, InQueue, HandlerHas
<1>6. CASE Compensate(r)
  <2>1. /\ UNCHANGED <<queue, worker>>
        /\ handler'[r] = "dropping" /\ told'[r] = NoJob
        /\ \A q \in Requests \ {r} : handler'[q] = handler[q]
    BY <1>0, <1>6 DEF Compensate, Goto, AnswersLast, HandlerHas
  <2>2. /\ charge'[r] # "reserved" \/ "database" \in faults'
        /\ \A q \in Requests \ {r} : charge'[q] = charge[q]
    BY <1>0, <1>6 DEF Compensate, FailAndRefund, RefundCredit, Fault, db
  <2>3. CASE s = r
    BY <2>1, <2>2, <2>3 DEF Stays, Excused, Without, ToldOfError
  <2>4. CASE s # r
    BY <1>0, <1>1, <2>1, <2>2, <2>4 DEF Stays, InQueue
  <2>5. QED
    BY <2>3, <2>4
<1>7. QED
  BY <1>2, <1>3, <1>4, <1>5, <1>6 DEF Handle

(* The worker takes a job off the list to keep it until it settles it, or  *)
(* an error ends it.                                                       *)
LEMMA WorkerStrands ==
    ASSUME StrandInv, [Next]_vars, Work, ~ Restart, NEW s \in Requests
    PROVE  Stays(s)'
<1>0. /\ EarlyInv /\ Stays(s)
      /\ faults \subseteq faults'
      /\ ToldOfError(s) => ToldOfError(s)'
  BY FaultsStay, LastAnswer DEF StrandInv
<1>1. UNCHANGED handler /\ worker.at # "dead"
  BY DEF Work, Pop, StartProcessing, Render, Complete, WriteFails, GiveUp, GiveUpFails,
         WorkerGoes
<1>2. Excused(s) => Excused(s)'
  BY <1>0, <1>1 DEF Excused, Without
<1>3. CASE Pop
  <2>1. /\ worker.at = "waiting" /\ queue # <<>> /\ queue' = Tail(queue) /\ charge' = charge
        /\ \/ worker' = [at |-> "taken", job |-> Head(queue)]
           \/ "pop_reply" \in faults'
    BY <1>3 DEF Pop, TakeHead, Fault, db
  <2>2. CASE "pop_reply" \in faults'
    BY <2>2 DEF Stays, Excused, Without
  <2>3. CASE worker' = [at |-> "taken", job |-> Head(queue)]
    <3>1. worker.job # s
      BY <1>0, <2>1, KeysAssumption DEF EarlyInv
    <3>2. worker'.job = queue[1] /\ worker'.at # "dead"
      BY <1>0, <2>1, <2>3, QueueTail DEF EarlyInv, TypeInv, TypeOK
    <3>3. ASSUME NEW i \in DOMAIN queue, i # 1
          PROVE  i - 1 \in DOMAIN queue' /\ queue'[i - 1] = queue[i]
      BY <1>0, <2>1, <3>3, QueueRest DEF EarlyInv, TypeInv, TypeOK
    <3>4. InQueue(s) => InQueue(s)' \/ worker'.job = s
      BY <3>2, <3>3 DEF InQueue
    <3>5. QED
      BY <1>0, <1>1, <1>2, <2>1, <3>1, <3>2, <3>4 DEF Stays
  <2>4. QED
    BY <2>1, <2>2, <2>3
<1>4. CASE StartProcessing \/ Render \/ WriteFails \/ GiveUpFails
  <2>1. /\ UNCHANGED <<charge, queue>> /\ worker'.job = worker.job
        /\ worker'.at = "dead" => "database" \in faults'
    BY <1>0, <1>4
       DEF StartProcessing, Render, WriteFails, GiveUpFails, WorkerGoes, Fault, db,
           EarlyInv, TypeInv, TypeOK
  <2>2. worker.job = s => worker'.at # "dead" \/ Excused(s)'
    BY <2>1 DEF Excused
  <2>3. QED
    BY <1>0, <1>1, <1>2, <2>1, <2>2 DEF Stays, InQueue
<1>5. CASE Complete \/ GiveUp
  <2>1. /\ UNCHANGED queue /\ worker.job \in Requests
        /\ FinalizeCredit(worker.job) \/ RefundCredit(worker.job)
    BY <1>0, <1>5, KeysAssumption
       DEF Complete, CompleteAndCharge, GiveUp, FailAndRefund, EarlyInv, TypeInv, TypeOK
  <2>2. /\ charge'[worker.job] # "reserved"
        /\ \A q \in Requests \ {worker.job} : charge'[q] = charge[q]
    BY <1>0, <2>1 DEF FinalizeCredit, RefundCredit, EarlyInv, TypeInv, TypeOK
  <2>3. QED
    BY <1>0, <1>1, <1>2, <2>1, <2>2 DEF Stays, InQueue
<1>6. QED
  BY <1>3, <1>4, <1>5 DEF Work

(* StrandInv is inductive under all faults.                                *)
LEMMA StrandStep ==
    ASSUME StrandInv, [Next]_vars
    PROVE  StrandInv'
<1>1. EarlyInv' /\ EarlyInv
  BY EarlyStep DEF StrandInv
<1>2. ASSUME NEW s \in Requests
      PROVE  AnswersLast(s)'
  BY <1>1, LastAnswer DEF StrandInv
<1>3. ASSUME NEW s \in Requests
      PROVE  Stays(s)'
  <2>1. Stays(s) /\ (ToldOfError(s) => ToldOfError(s)' \/ Restart)
    BY <1>1, LastAnswer DEF StrandInv
  <2>2. CASE Restart
    BY <2>2 DEF Restart, Fault, Stays, Excused, Without
  <2>3. ASSUME NEW r \in Requests, Accept(r) \/ Handle(r), ~ Restart
        PROVE  Stays(s)'
    BY <2>3, HandlerStrands
  <2>4. CASE Work /\ ~ Restart
    BY <2>4, WorkerStrands
  <2>5. CASE UNCHANGED <<handler, charge, queue, worker>> /\ ~ Restart
    <3>1. Excused(s) => Excused(s)'
      BY <2>1, <2>5, FaultsStay DEF Excused, Without
    <3>2. QED
      BY <2>1, <2>5, <3>1 DEF Stays, InQueue
  <2>6. QED
    BY <2>2, <2>3, <2>4, <2>5 DEF Next, KeyExpires, vars, db
<1>4. QED
  BY <1>1, <1>2, <1>3 DEF StrandInv

(* StrandInv holds before the first request.                               *)
LEMMA StrandInit == Init => StrandInv
  BY EarlyInit DEF Init, StrandInv, Stays, AnswersLast

(* Under all faults a reserved credit is somebody's to settle, but for the *)
(* jobs of a stop or a lost reply of BLPOP, the one the worker died with,  *)
(* and those of clients who were told of an error.                         *)
THEOREM NothingIsStranded == Spec => []NothingStranded
<1>1. StrandInv /\ [Next]_vars => StrandInv'
  BY StrandStep
<1>2. StrandInv => NothingStranded
  <2> SUFFICES ASSUME NEW r \in Requests, Stays(r), charge[r] = "reserved", ~ Excused(r)
               PROVE  Holders(r) # {}
    BY DEF StrandInv, Excused, NothingStranded
  <2>1. CASE handler[r] \in HandlerHas
    <3>1. "handler" \in Holders(r)
      BY <2>1 DEF Holders, HandlerHas
    <3>2. QED
      BY <3>1
  <2>2. CASE InQueue(r)
    <3>1. "queue" \in Holders(r)
      BY <2>2 DEF Holders
    <3>2. QED
      BY <3>1
  <2>3. CASE worker.job = r /\ worker.at # "dead"
    <3>1. "worker" \in Holders(r)
      BY <2>3 DEF Holders
    <3>2. QED
      BY <3>1
  <2>4. QED
    BY <2>1, <2>2, <2>3 DEF Stays
<1>3. QED
  BY StrandInit, <1>1, <1>2, PTL DEF Spec

-----------------------------------------------------------------------------
(* One charge per key                                                      *)

(* As long as writes do what they answer, a client who was told of an      *)
(* error is not charged.                                                   *)
Honest == Without({"database", "commit_reply", "publish_reply"})

NoRegret(r) ==
    /\ handler[r] \in HandlerHas => charge[r] = "reserved"
    /\ ToldOfError(r)            => charge[r] \in {"none", "refunded"}

(* From the SET to the DEL, and as long as its credit is spent, the key of *)
(* a request holds its job; only the handler that answers an error takes   *)
(* it away.                                                                *)
KeyHeld(r) ==
    KeyOf[r] # NoKey =>
        /\ handler[r] \in {"storing", "reserving", "publishing", "compensating", "dropping"}
              => idem[KeyOf[r]] = r
        /\ Charged(r)
              => \/ idem[KeyOf[r]] = r
                 \/ handler[r] = "answered" /\ told[r] = NoJob

KeyInv ==
    /\ HolderInv
    /\ StrandInv
    /\ Honest => \A r \in Requests : NoRegret(r)
    /\ Without({"expiry"}) => \A r \in Requests : KeyHeld(r)

(* A handler tells of an error only before the charge or after the refund. *)
LEMMA HandlerRegrets ==
    ASSUME EarlyInv, NEW r \in Requests, Accept(r) \/ Handle(r), AnswersLast(r),
           NEW s \in Requests, NoRegret(s),
           ~ Fault("commit_reply"), ~ Fault("database"), ~ Fault("publish_reply")
    PROVE  NoRegret(s)'
<1> USE DEF EarlyInv, TypeInv, TypeOK
<1>1. CASE s # r
  <2>1. handler'[s] = handler[s] /\ told'[s] = told[s] /\ charge'[s] = charge[s]
    BY <1>1
       DEF Accept, Handle, Replay, Store, Reserve, ReserveFails, Publish, PublishFails,
           Compensate, DropKey, Goto, db, ReserveCredit, FailAndRefund, RefundCredit
  <2>2. QED
    BY <2>1 DEF NoRegret, ToldOfError
<1>2. CASE s = r
  <2>1. CASE Accept(r) \/ Replay(r) \/ Store(r) \/ ReserveFails(r)
    <3>1. /\ charge'[r] = "none"
          /\ handler'[r] \in {"reserving", "storing", "replaying", "answered", "dropping"}
      BY <2>1 DEF Accept, Replay, Store, ReserveFails, Goto, db, EarlySteps
    <3>2. QED
      BY <1>2, <3>1 DEF NoRegret, HandlerHas
  <2>2. CASE Reserve(r)
    <3>1. handler'[r] = "publishing" /\ charge'[r] = "reserved"
      BY <2>2 DEF Reserve, Goto, ReserveCredit
    <3>2. QED
      BY <1>2, <3>1 DEF NoRegret, ToldOfError
  <2>3. CASE Publish(r)
    <3>1. handler'[r] = "answered" /\ told'[r] = r
      BY <2>3 DEF Publish, Goto
    <3>2. QED
      BY <1>2, <3>1, KeysAssumption DEF NoRegret, ToldOfError, HandlerHas
  <2>4. CASE PublishFails(r)
    <3>1. /\ handler[r] = "publishing" /\ handler'[r] = "compensating"
          /\ charge'[r] = charge[r]
      BY <2>4 DEF PublishFails, Goto, db
    <3>2. QED
      BY <1>2, <3>1 DEF NoRegret, ToldOfError, HandlerHas
  <2>5. CASE Compensate(r)
    <3>1. handler[r] = "compensating" /\ handler'[r] = "dropping" /\ RefundCredit(r)
      BY <2>5 DEF Compensate, Goto, FailAndRefund
    <3>2. charge[r] = "reserved"
      BY <1>2, <3>1 DEF NoRegret, HandlerHas
    <3>3. charge'[r] = "refunded"
      BY <3>1, <3>2 DEF RefundCredit
    <3>4. QED
      BY <1>2, <3>1, <3>3 DEF NoRegret, HandlerHas
  <2>6. CASE DropKey(r)
    <3>1. /\ handler[r] = "dropping" /\ handler'[r] = "answered"
          /\ told'[r] = told[r] /\ charge'[r] = charge[r]
      BY <2>6 DEF DropKey, Goto, db
    <3>2. QED
      BY <1>2, <3>1 DEF NoRegret, ToldOfError, HandlerHas, AnswersLast
  <2>7. QED
    BY <2>1, <2>2, <2>3, <2>4, <2>5, <2>6 DEF Handle
<1>3. QED
  BY <1>1, <1>2

(* The worker settles only a reserved credit, once.                        *)
LEMMA WorkerSettlesOnce ==
    ASSUME EarlyInv, Work, NEW s \in Requests, charge'[s] # charge[s]
    PROVE  /\ s = worker.job /\ worker.at # "waiting"
           /\ charge[s] = "reserved" /\ charge'[s] \in {"finalized", "refunded"}
  BY KeysAssumption
     DEF Work, Pop, StartProcessing, Render, Complete, WriteFails, GiveUp, GiveUpFails, db,
         CompleteAndCharge, FinalizeCredit, FailAndRefund, RefundCredit,
         EarlyInv, TypeInv, TypeOK

(* It has the job only after the handler's RPUSH.                          *)
LEMMA WorkerRegrets ==
    ASSUME EarlyInv, HoldInv, Work, "publish_reply" \notin faults,
           NEW s \in Requests, NoRegret(s)
    PROVE  NoRegret(s)'
<1>1. UNCHANGED <<handler, told>>
  BY DEF Work, Pop, StartProcessing, Render, Complete, WriteFails, GiveUp, GiveUpFails
<1>2. CASE charge'[s] = charge[s]
  BY <1>1, <1>2 DEF NoRegret, ToldOfError
<1>3. CASE charge'[s] # charge[s]
  <2>1. /\ s = worker.job /\ worker.at # "waiting"
        /\ charge[s] = "reserved"
    BY <1>3, WorkerSettlesOnce
  <2>2. handler[s] \notin HandlerHas
    BY <2>1 DEF HoldInv, HandedOn, NotYet
  <2>3. ~ ToldOfError(s)
    BY <2>1 DEF NoRegret
  <2>4. QED
    BY <1>1, <2>2, <2>3 DEF NoRegret, ToldOfError
<1>4. QED
  BY <1>2, <1>3

(* A step of the handler of r, seen by the others: their keys hold what    *)
(* they held, if it was theirs.                                            *)
LEMMA OthersKeys ==
    ASSUME NEW s \in Requests, KeyHeld(s),
           handler'[s] = handler[s], told'[s] = told[s], charge'[s] = charge[s],
           KeyOf[s] # NoKey /\ idem[KeyOf[s]] = s => idem'[KeyOf[s]] = s
    PROVE  KeyHeld(s)'
  BY DEF KeyHeld, Charged

(* A key is set when it is free, and dropped by the one who has it.        *)
LEMMA HandlerKeys ==
    ASSUME EarlyInv, NEW r \in Requests, Accept(r) \/ Handle(r), AnswersLast(r), KeyHeld(r),
           NEW s \in Requests, KeyHeld(s)
    PROVE  KeyHeld(s)'
<1> USE DEF EarlyInv, TypeInv, TypeOK
<1> DEFINE HasKey == {"storing", "reserving", "publishing", "compensating", "dropping"}
<1>1. CASE s # r
  <2>1. handler'[s] = handler[s] /\ told'[s] = told[s] /\ charge'[s] = charge[s]
    BY <1>1
       DEF Accept, Handle, Replay, Store, Reserve, ReserveFails, Publish, PublishFails,
           Compensate, DropKey, Goto, db, ReserveCredit, FailAndRefund, RefundCredit
  <2>2. KeyOf[s] # NoKey => KeyOf[s] \in Keys
    BY KeysAssumption
  <2>3. KeyOf[s] # NoKey /\ idem[KeyOf[s]] = s => idem'[KeyOf[s]] = s
    <3>1. CASE Accept(r)
      BY <2>2, <3>1, KeysAssumption DEF Accept, Claimed
    <3>2. CASE DropKey(r)
      <4>1. idem' = idem \/ idem' = [k \in Keys |-> IF k = KeyOf[r] THEN NoJob ELSE idem[k]]
        BY <3>2 DEF DropKey
      <4>2. KeyOf[r] # NoKey => idem[KeyOf[r]] = r
        BY <3>2 DEF DropKey, Goto, KeyHeld
      <4>3. QED
        BY <1>1, <2>2, <4>1, <4>2
    <3>3. CASE ~ Accept(r) /\ ~ DropKey(r)
      BY <3>3
         DEF Handle, Replay, Store, Reserve, ReserveFails, Publish, PublishFails, Compensate
    <3>4. QED
      BY <3>1, <3>2, <3>3
  <2>4. QED
    BY <2>1, <2>3, OthersKeys
<1>2. CASE s = r
  <2>1. CASE Accept(r)
    <3>1. /\ charge'[r] = "none"
          /\ \/ KeyOf[r] = NoKey
             \/ handler'[r] = "storing" /\ idem'[KeyOf[r]] = r
             \/ handler'[r] = "replaying"
      BY <2>1, KeysAssumption DEF Accept, Goto, db, EarlySteps
    <3>2. QED
      BY <1>2, <3>1 DEF KeyHeld, Charged
  <2>2. CASE Replay(r) \/ Store(r) \/ ReserveFails(r)
    <3>1. /\ idem' = idem /\ charge'[r] = "none"
          /\ handler'[r] \in HasKey => handler[r] \in HasKey
      BY <2>2 DEF Replay, Store, ReserveFails, Goto, db, EarlySteps
    <3>2. QED
      BY <1>2, <3>1 DEF KeyHeld, Charged
  <2>3. CASE Reserve(r) \/ Publish(r) \/ PublishFails(r) \/ Compensate(r)
    <3>1. idem' = idem /\ handler[r] \in HasKey
      BY <2>3 DEF Reserve, Publish, PublishFails, Compensate, Goto
    <3>2. QED
      BY <1>2, <3>1 DEF KeyHeld
  <2>4. CASE DropKey(r)
    <3>1. handler'[r] = "answered" /\ told'[r] = NoJob
      BY <2>4 DEF DropKey, Goto, AnswersLast
    <3>2. QED
      BY <1>2, <3>1 DEF KeyHeld
  <2>5. QED
    BY <2>1, <2>2, <2>3, <2>4 DEF Handle
<1>3. QED
  BY <1>1, <1>2

(* KeyInv is inductive under all faults.                                   *)
LEMMA KeyStep ==
    ASSUME KeyInv, [Next]_vars
    PROVE  KeyInv'
<1>1. /\ HolderInv /\ StrandInv /\ HolderInv' /\ StrandInv'
      /\ EarlyInv /\ HoldInv /\ \A r \in Requests : AnswersLast(r)
  BY HolderStep, StrandStep DEF KeyInv, HolderInv, StrandInv
<1>2. ASSUME Honest', NEW s \in Requests
      PROVE  NoRegret(s)'
  <2>1. /\ NoRegret(s) /\ "publish_reply" \notin faults
        /\ ~ Fault("commit_reply") /\ ~ Fault("database") /\ ~ Fault("publish_reply")
    BY <1>2, FaultsStay DEF KeyInv, Honest, Without
  <2>2. ASSUME NEW r \in Requests, Accept(r) \/ Handle(r)
        PROVE  NoRegret(s)'
    BY <1>1, <2>1, <2>2, HandlerRegrets
  <2>3. CASE Work
    BY <1>1, <2>1, <2>3, WorkerRegrets
  <2>4. CASE UNCHANGED <<charge, told>> /\ handler'[s] \in {handler[s], "lost"}
    BY <2>1, <2>4 DEF NoRegret, ToldOfError, HandlerHas
  <2>5. QED
    BY <2>2, <2>3, <2>4 DEF Next, Restart, KeyExpires, vars, db
<1>3. ASSUME Without({"expiry"})', NEW s \in Requests
      PROVE  KeyHeld(s)'
  <2>1. /\ \A r \in Requests : KeyHeld(r)
        /\ ~ Fault("expiry")
    BY <1>3, FaultsStay DEF KeyInv, Without
  <2>2. ASSUME NEW r \in Requests, Accept(r) \/ Handle(r)
        PROVE  KeyHeld(s)'
    BY <1>1, <2>1, <2>2, HandlerKeys
  <2>3. CASE Work
    <3>1. UNCHANGED <<handler, told, idem>>
      BY <2>3 DEF Work, Pop, StartProcessing, Render, Complete, WriteFails, GiveUp, GiveUpFails
    <3>2. Charged(s)' => Charged(s)
      BY <1>1, <2>3, WorkerSettlesOnce DEF Charged
    <3>3. QED
      BY <2>1, <3>1, <3>2 DEF KeyHeld
  <2>4. CASE Restart
    <3>1. /\ UNCHANGED <<told, idem, charge>>
          /\ \/ handler'[s] = "lost" /\ handler[s] # "answered"
             \/ handler'[s] = handler[s]
      BY <2>4 DEF Restart, db
    <3>2. QED
      BY <2>1, <3>1 DEF KeyHeld, Charged
  <2>5. CASE UNCHANGED vars
    BY <2>1, <2>5 DEF vars, db, KeyHeld, Charged
  <2>6. QED
    BY <2>1, <2>2, <2>3, <2>4, <2>5 DEF Next, KeyExpires
<1>4. QED
  BY <1>1, <1>2, <1>3 DEF KeyInv

(* Under all faults but an expiry, two requests with one key are charged   *)
(* only after a write that took effect and raised, or a compensation that  *)
(* failed, and after one of their clients was told of an error.            *)
THEOREM KeysChargeOnce == Spec => []OneChargePerKey
<1>1. Init => KeyInv
  BY HolderInit, StrandInit DEF Init, KeyInv, NoRegret, KeyHeld, HandlerHas, ToldOfError, Charged
<1>2. KeyInv /\ [Next]_vars => KeyInv'
  BY KeyStep
<1>3. KeyInv => OneChargePerKey
  <2> SUFFICES ASSUME KeyInv, Without({"expiry"}),
                      NEW r \in Requests, NEW s \in Requests,
                      r # s, KeyOf[r] = KeyOf[s], KeyOf[r] # NoKey, Charged(r), Charged(s)
               PROVE  ~ Honest /\ \E t \in {r, s} : handler[t] = "answered" /\ told[t] = NoJob
    BY DEF OneChargePerKey, Honest
  <2>1. KeyHeld(r) /\ KeyHeld(s)
    BY DEF KeyInv
  <2>2. PICK t \in {r, s} : handler[t] = "answered" /\ told[t] = NoJob
    BY <2>1 DEF KeyHeld
  <2>3. ToldOfError(t) /\ Charged(t)
    BY <2>2 DEF ToldOfError
  <2>4. ~ NoRegret(t)
    BY <2>3 DEF NoRegret, Charged
  <2>5. ~ Honest
    BY <2>2, <2>4 DEF KeyInv
  <2>6. QED
    BY <2>2, <2>5
<1>4. QED
  BY <1>1, <1>2, <1>3, PTL DEF Spec

=============================================================================
