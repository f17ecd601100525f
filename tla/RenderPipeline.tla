--------------------------- MODULE RenderPipeline ---------------------------
(***************************************************************************)
(* How a render travels: the two handlers of src/jobs_api.py that create a *)
(* job, the Redis list and idempotency keys they use, and the worker loop  *)
(* of src/main.py that takes jobs off the list.                            *)
(*                                                                         *)
(* The service is one process: the handlers and the worker are tasks of    *)
(* one event loop, so a step here runs from one await to the next.  Redis  *)
(* and PostgreSQL outlive the process and answer calls one by one; each    *)
(* transaction on the jobs row is one step (CreditLedger is about what     *)
(* happens inside).  A handler picks a uuid4 for its job, so the job of a  *)
(* request is the request itself.  All requests here are one user's.       *)
(*                                                                         *)
(* Calls that fail without an effect are ordinary.  The rarer failures are *)
(* listed in Faults: a run says which may happen, any number of times,     *)
(* except that at most MaxFaults kinds meet in one behaviour.              *)
(***************************************************************************)
EXTENDS Integers, Sequences, FiniteSets

CONSTANTS
    Requests,   (* POST /jobs and POST /jobs/upload                        *)
    Keys,       (* idempotency keys of uploads                             *)
    NoKey,      (* POST /jobs, the bot's, has none                         *)
    NoJob,      (* no job id                                               *)
    KeyOf,      (* the key a request carries                               *)
    Credits,    (* the user's balance at the start                         *)
    Faults,     (* the kinds of fault that may happen                      *)
    MaxFaults   (* bound on how many kinds happen in one behaviour         *)

FaultKinds ==
    {"database",       (* a transaction is rolled back                     *)
     "commit_reply",   (* it is committed, but the client sees an error    *)
     "redis",          (* a DEL is not executed                            *)
     "publish_reply",  (* RPUSH is executed, but the client sees an error  *)
     "pop_reply",      (* BLPOP is executed, but its reply is lost         *)
     "expiry",         (* an hour passes and a key expires                 *)
     "stop"}           (* the process stops, and is started again          *)

ASSUME KeysAssumption ==
    /\ KeyOf \in [Requests -> Keys \cup {NoKey}]
    /\ NoKey \notin Keys
    /\ NoJob \notin Requests

ASSUME BoundsAssumption ==
    /\ Credits \in Nat
    /\ Faults \subseteq FaultKinds
    /\ MaxFaults \in Nat

VARIABLES
    handler,  (* where each request's handler is                           *)
    told,     (* the job id its client was answered with                   *)
    idem,     (* the job id stored under each key                          *)
    status,   (* jobs.status, "none" before the row exists                 *)
    charge,   (* jobs.credit_status, "none" before the row exists          *)
    credits,  (* the user's balance                                        *)
    queue,    (* the Redis list                                            *)
    worker,   (* where the worker is, and with which job                   *)
    faults    (* the kinds of fault there were so far                      *)

db   == <<status, charge, credits>>
vars == <<handler, told, idem, db, queue, worker, faults>>

-----------------------------------------------------------------------------

Init ==
    /\ handler = [r \in Requests |-> "idle"]
    /\ told = [r \in Requests |-> NoJob]
    /\ idem = [k \in Keys |-> NoJob]
    /\ status = [r \in Requests |-> "none"]
    /\ charge = [r \in Requests |-> "none"]
    /\ credits = Credits
    /\ queue = <<>>
    /\ worker = [at |-> "waiting", job |-> NoJob]
    /\ faults = {}

Goto(r, from, to) ==
    /\ handler[r] = from
    /\ handler' = [handler EXCEPT ![r] = to]

Fault(kind) ==
    /\ kind \in Faults
    /\ faults' = faults \cup {kind}
    /\ Cardinality(faults') <= MaxFaults

(* What is read and written elsewhere, with mutants before the definitions *)
(* they spoil.                                                             *)
NeverClaimed(k) == FALSE
Claimed(k)      == idem[k] # NoJob

PeekHead == UNCHANGED queue
TakeHead == queue' = Tail(queue)

DoItAgain  == worker' = IF worker.job = NoJob THEN worker ELSE [worker EXCEPT !.at = "taken"]
WorkerDone == worker' = [at |-> "waiting", job |-> NoJob]

(* The transactions of jobs_api and the worker, as they change the job row *)
(* and the balance.  None of them looks at the status it overwrites.       *)
WriteStatus(j, s) == status' = [status EXCEPT ![j] = s]

ReserveUnpaid(j) ==
    /\ charge' = [charge EXCEPT ![j] = "reserved"]
    /\ credits' = credits - 1

ReserveCredit(j) ==
    /\ credits > 0
    /\ charge' = [charge EXCEPT ![j] = "reserved"]
    /\ credits' = credits - 1

RefundAlways(j) ==
    /\ charge' = [charge EXCEPT ![j] = "refunded"]
    /\ credits' = credits + 1

RefundCredit(j) ==
    IF charge[j] = "reserved"
    THEN /\ charge' = [charge EXCEPT ![j] = "refunded"]
         /\ credits' = credits + 1
    ELSE UNCHANGED <<charge, credits>>

FinalizeCredit(j) ==
    /\ charge' = [charge EXCEPT ![j] = IF @ = "reserved" THEN "finalized" ELSE @]
    /\ UNCHANGED credits

FailWithoutRefund(j) == WriteStatus(j, "failed") /\ UNCHANGED <<charge, credits>>
FailAndRefund(j)     == RefundCredit(j) /\ WriteStatus(j, "failed")

CompleteForFree(j)   == WriteStatus(j, "completed") /\ UNCHANGED <<charge, credits>>
CompleteAndCharge(j) == WriteStatus(j, "completed") /\ FinalizeCredit(j)

-----------------------------------------------------------------------------
(* POST /jobs/upload and POST /jobs                                        *)

(* SET key job NX, or for the bot nothing before the transaction.          *)
Accept(r) ==
    /\ LET k == KeyOf[r] IN
          \/ /\ k = NoKey
             /\ Goto(r, "idle", "reserving")
             /\ UNCHANGED idem
          \/ /\ k # NoKey /\ ~ Claimed(k)
             /\ Goto(r, "idle", "storing")
             /\ idem' = [idem EXCEPT ![k] = r]
          \/ /\ k # NoKey /\ Claimed(k)
             /\ Goto(r, "idle", "replaying")
             /\ UNCHANGED idem
    /\ UNCHANGED <<told, db, queue, worker, faults>>

(* GET key; 409 if the key is gone by now.                                 *)
Replay(r) ==
    /\ Goto(r, "replaying", "answered")
    /\ told' = [told EXCEPT ![r] = idem[KeyOf[r]]]
    /\ UNCHANGED <<idem, db, queue, worker, faults>>

(* Both files to Storage.  A StorageError drops the key; any other error,  *)
(* a timeout for one, is a 500 that leaves the key behind.                 *)
Store(r) ==
    /\ \E to \in {"reserving", "dropping", "answered"} : Goto(r, "storing", to)
    /\ UNCHANGED <<told, idem, db, queue, worker, faults>>

(* ensure_user, INSERT INTO jobs, reserve_job_credit: one transaction.     *)
Reserve(r) ==
    /\ WriteStatus(r, "queued")
    /\ ReserveCredit(r)
    /\ \/ Goto(r, "reserving", "publishing") /\ UNCHANGED faults
       \/ Goto(r, "reserving", "dropping") /\ Fault("commit_reply")
    /\ UNCHANGED <<told, idem, queue, worker>>

(* InsufficientCreditsError, or the transaction fails.                     *)
ReserveFails(r) ==
    /\ Goto(r, "reserving", "dropping")
    /\ \/ credits = 0 /\ UNCHANGED faults
       \/ Fault("database")
    /\ UNCHANGED <<told, idem, db, queue, worker>>

(* RPUSH.                                                                  *)
Publish(r) ==
    /\ queue' = Append(queue, r)
    /\ \/ /\ Goto(r, "publishing", "answered")
          /\ told' = [told EXCEPT ![r] = r]
          /\ UNCHANGED faults
       \/ /\ Goto(r, "publishing", "compensating")
          /\ Fault("publish_reply")
          /\ UNCHANGED told
    /\ UNCHANGED <<idem, db, worker>>

PublishFails(r) ==
    /\ Goto(r, "publishing", "compensating")
    /\ UNCHANGED <<told, idem, db, queue, worker, faults>>

(* _compensate_queue_publish_failure, whose own failure is only logged.    *)
Compensate(r) ==
    /\ Goto(r, "compensating", "dropping")
    /\ \/ FailAndRefund(r) /\ UNCHANGED faults
       \/ Fault("database") /\ UNCHANGED db
    /\ UNCHANGED <<told, idem, queue, worker>>

(* DEL key before an error is answered: whatever is stored there goes.     *)
DropKey(r) ==
    /\ Goto(r, "dropping", "answered")
    /\ \/ /\ idem' = [k \in Keys |-> IF k = KeyOf[r] THEN NoJob ELSE idem[k]]
          /\ UNCHANGED faults
       \/ /\ KeyOf[r] # NoKey
          /\ Fault("redis")
          /\ UNCHANGED idem
    /\ UNCHANGED <<told, db, queue, worker>>

Handle(r) ==
    \/ Replay(r) \/ Store(r)
    \/ Reserve(r) \/ ReserveFails(r)
    \/ Publish(r) \/ PublishFails(r)
    \/ Compensate(r) \/ DropKey(r)

-----------------------------------------------------------------------------
(* process_jobs_loop                                                       *)

WorkerGoes(from, to) ==
    /\ worker.at = from
    /\ worker' = [worker EXCEPT !.at = to]

(* BLPOP takes the job off the list before anything is written about it.   *)
Pop ==
    /\ worker.at = "waiting" /\ queue # <<>>
    /\ TakeHead
    /\ \/ /\ worker' = [at |-> "taken", job |-> Head(queue)]
          /\ UNCHANGED faults
       \/ /\ Fault("pop_reply")
          /\ UNCHANGED worker
    /\ UNCHANGED <<handler, told, idem, db>>

StartProcessing ==
    /\ worker.at = "taken"
    /\ WriteStatus(worker.job, "processing")
    /\ \/ WorkerGoes("taken", "rendering") /\ UNCHANGED faults
       \/ WorkerGoes("taken", "failing") /\ Fault("commit_reply")
    /\ UNCHANGED <<handler, told, idem, charge, credits, queue>>

(* Load the inputs, remix, save the result: each may fail or time out.     *)
Render ==
    /\ \E to \in {"saving", "failing"} : WorkerGoes("rendering", to)
    /\ UNCHANGED <<handler, told, idem, db, queue, faults>>

Complete ==
    /\ worker.at = "saving"
    /\ CompleteAndCharge(worker.job)
    /\ \/ WorkerDone /\ UNCHANGED faults
       \/ WorkerGoes("saving", "failing") /\ Fault("commit_reply")
    /\ UNCHANGED <<handler, told, idem, queue>>

(* Either write of the try block may fail.                                 *)
WriteFails ==
    /\ WorkerGoes("taken", "failing") \/ WorkerGoes("saving", "failing")
    /\ Fault("database")
    /\ UNCHANGED <<handler, told, idem, db, queue>>

(* The except block.  An error in it leaves the loop: the task ends and    *)
(* nobody looks, while the API goes on.                                    *)
GiveUp ==
    /\ worker.at = "failing"
    /\ FailAndRefund(worker.job)
    /\ \/ WorkerDone /\ UNCHANGED faults
       \/ WorkerGoes("failing", "dead") /\ Fault("commit_reply")
    /\ UNCHANGED <<handler, told, idem, queue>>

GiveUpFails ==
    /\ WorkerGoes("failing", "dead")
    /\ Fault("database")
    /\ UNCHANGED <<handler, told, idem, db, queue>>

Work ==
    \/ Pop \/ StartProcessing \/ Render \/ Complete \/ WriteFails
    \/ GiveUp \/ GiveUpFails

(* The container stops and starts: handlers and worker are gone, a new     *)
(* worker waits on the list.                                               *)
Restart ==
    /\ Fault("stop")
    /\ handler' = [r \in Requests |->
                     IF handler[r] \in {"idle", "answered"} THEN handler[r] ELSE "lost"]
    /\ WorkerDone
    /\ UNCHANGED <<told, idem, db, queue>>

(* IDEMPOTENCY_TTL_SEC is over, whatever became of the request.            *)
KeyExpires(k) ==
    /\ Claimed(k)
    /\ idem' = [idem EXCEPT ![k] = NoJob]
    /\ Fault("expiry")
    /\ UNCHANGED <<handler, told, db, queue, worker>>

Next ==
    \/ \E r \in Requests : Accept(r) \/ Handle(r)
    \/ Work
    \/ Restart
    \/ \E k \in Keys : KeyExpires(k)

Spec == Init /\ [][Next]_vars

(* Handlers and worker get on: every call they await returns or times out. *)
(* Nobody has to send a request.                                           *)
Fairness == WF_vars(Work) /\ \A r \in Requests : WF_vars(Handle(r))

FairSpec == Spec /\ Fairness

-----------------------------------------------------------------------------
(* Properties                                                              *)

(* No fault of these kinds happened yet.                                   *)
Without(kinds) == faults \cap kinds = {}

InQueue(r) == \E i \in DOMAIN queue : queue[i] = r

TypeOK ==
    /\ handler \in [Requests -> {"idle", "replaying", "storing", "reserving", "publishing",
                                 "compensating", "dropping", "answered", "lost"}]
    /\ told \in [Requests -> Requests \cup {NoJob}]
    /\ idem \in [Keys -> Requests \cup {NoJob}]
    /\ status \in [Requests -> {"none", "queued", "processing", "completed", "failed"}]
    /\ charge \in [Requests -> {"none", "reserved", "finalized", "refunded"}]
    /\ credits \in Nat
    /\ queue \in Seq(Requests)
    /\ worker \in [at: {"waiting", "taken", "rendering", "saving", "failing", "dead"},
                   job: Requests \cup {NoJob}]
    /\ faults \subseteq FaultKinds

Ended(r) == status[r] \in {"completed", "failed"}

(* A completed job is paid for, a failed one is refunded, and any other    *)
(* keeps its credit reserved: "status=completed, credit finalized" and     *)
(* "status=failed, credit refunded".  Handler and worker write both        *)
(* columns without looking at the status they overwrite.  Whatever fails,  *)
(* no credit is left reserved by a job that ended; but a worker that never *)
(* heard of its COMMIT fails a job that is paid for, and one whose         *)
(* publication seemed to fail is rendered after its refund.                *)
ChargeFitsStatus ==
    \A r \in Requests :
        /\ status[r] = "none"   => charge[r] = "none"
        /\ status[r] = "queued" => charge[r] = "reserved"
        /\ Ended(r)             => charge[r] \in {"finalized", "refunded"}
        /\ Without({"publish_reply"}) =>
              /\ status[r] = "processing" => charge[r] = "reserved"
              /\ status[r] = "completed"  => charge[r] = "finalized"
        /\ Without({"publish_reply", "commit_reply"}) =>
              (status[r] = "failed" => charge[r] = "refunded")

(* Who will settle a job: the handler about to publish or compensate it,   *)
(* the list, or the worker, while there is one.                            *)
Holders(r) ==
    {h \in {"handler", "queue", "worker"} :
        \/ h = "handler" /\ handler[r] \in {"publishing", "compensating"}
        \/ h = "queue"   /\ InQueue(r)
        \/ h = "worker"  /\ worker.job = r /\ worker.at # "dead"}

(* At most one of them has the job, and has it once.  Only a handler whose *)
(* RPUSH took effect and raised is about to compensate a job that the list *)
(* or the worker has.                                                      *)
OneHolder ==
    \A r \in Requests :
        /\ \A i, k \in DOMAIN queue : queue[i] = r /\ queue[k] = r => i = k
        /\ \A h, g \in Holders(r) :
              \/ h = g
              \/ /\ "handler" \in {h, g} /\ handler[r] = "compensating"
                 /\ "publish_reply" \in faults

(* The client of a request got an error.                                   *)
ToldOfError(r) == handler[r] \in {"dropping", "answered"} /\ told[r] = NoJob

(* Some of them has every job whose credit is reserved, unless a stop or a *)
(* lost reply of BLPOP took it from them, or a database error ended the    *)
(* worker with it.  A failed compensation, or a COMMIT that raised, leaves *)
(* behind only jobs of clients who were told of an error.                  *)
NothingStranded ==
    \A r \in Requests :
        charge[r] = "reserved" /\ Holders(r) = {} =>
            \/ ~ Without({"stop", "pop_reply"})
            \/ "database" \in faults /\ worker.at = "dead" /\ worker.job = r
            \/ ~ Without({"database", "commit_reply"}) /\ ToldOfError(r)

Charged(r) == charge[r] \in {"reserved", "finalized"}

(* docs/agent-skills/dreamwheels-telegram-webapp/references/               *)
(* auth-upload-boundary.md: "Retrying upload with the same user/key must   *)
(* return the existing job rather than consume another credit."  As long   *)
(* as the key is remembered, stops, lost jobs and keys left behind do not  *)
(* make a retry cost twice.  A write that took effect and raised may, or a *)
(* compensation that failed, but only once the client of one of the two    *)
(* jobs was told of an error.                                              *)
OneChargePerKey ==
    Without({"expiry"}) =>
        \A r, s \in Requests :
            /\ r # s /\ KeyOf[r] = KeyOf[s] /\ KeyOf[r] # NoKey
            /\ Charged(r) /\ Charged(s)
            => /\ ~ Without({"database", "commit_reply", "publish_reply"})
               /\ \E t \in {r, s} : handler[t] = "answered" /\ told[t] = NoJob

(* The other half of that sentence: once its handler has answered, the job *)
(* a retry was told about exists.                                          *)
ToldJobExists ==
    \A r \in Requests :
        told[r] # NoJob /\ handler[told[r]] = "answered" => status[told[r]] # "none"

(* The diagram of docs/architecture.md: completed and failed are ends.     *)
(* They are, unless an RPUSH took effect and raised; a worker that never   *)
(* heard of its COMMIT writes failed over completed, and nothing else.     *)
KnownEndsAreFinal ==
    [][Without({"publish_reply"})' =>
          \A r \in Requests :
              Ended(r) /\ status'[r] # status[r] =>
                  /\ status[r] = "completed" /\ status'[r] = "failed"
                  /\ "commit_reply" \in faults]_vars

(* docs/business/b2c-june-strategy-ru-local.md: if a technical error of    *)
(* the service gave no result, the credit is returned.  No reservation is  *)
(* kept for ever.                                                          *)
ReservationsSettle ==
    \A r \in Requests :
        charge[r] = "reserved" ~> charge[r] \in {"finalized", "refunded"}

(* The worker returns the credit of a job it failed to render.             *)
FailuresAreRefunded ==
    \A r \in Requests :
        worker.at = "failing" /\ worker.job = r ~> charge[r] # "reserved"

Phase == [none |-> "none", reserved |-> "charged",
          finalized |-> "delivered", refunded |-> "returned"]

Promise == INSTANCE JobPromise
             WITH Jobs <- Requests,
                  phase <- [r \in Requests |-> Phase[charge[r]]],
                  wallet <- credits

(* Whatever fails, credits move as the promise says: a job is charged once,*)
(* and finalized or refunded once, never both.                             *)
KeepsPromise == Promise!PromiseSpec
=============================================================================
