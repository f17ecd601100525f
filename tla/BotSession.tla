----------------------------- MODULE BotSession -----------------------------
(***************************************************************************)
(* The photo dialogue of src/bot.py: handle_photo, which pairs a photo     *)
(* with the one before it, and poll_job_status, which waits for the render *)
(* and sends it.                                                           *)
(*                                                                         *)
(* The bot is a process of its own.  Its Application is built without      *)
(* concurrent_updates, so python-telegram-bot awaits the handler of one    *)
(* update before it takes the next: a poll of three minutes holds up every *)
(* user.  A step here is one call the handler awaits.  The first photo of  *)
(* a pair is kept in Redis for SESSION_TTL_SEC, under a key of the user.   *)
(*                                                                         *)
(* The API and its worker are RenderPipeline's; all this module needs of   *)
(* them is that a job, once created, may be completed or fail, at any time *)
(* or never.  The job of a POST is named by the wheel photo it carries.    *)
(***************************************************************************)
EXTENDS Integers, Sequences, FiniteSets

CONSTANTS
    Users,       (* telegram users                                         *)
    MaxPhotos,   (* bound on the photos they send                          *)
    SessionTTL,  (* SESSION_TTL_SEC, in polling intervals                  *)
    MaxPolls,    (* POLL_MAX_RETRIES                                       *)
    Faults,      (* the kinds of fault that may happen                     *)
    MaxFaults    (* bound on how many kinds happen in one behaviour        *)

FaultKinds ==
    {"telegram",   (* a message is not sent, edited or deleted             *)
     "redis",      (* a call to Redis is not executed                      *)
     "api",        (* a call to the API is not executed, or refused        *)
     "api_reply",  (* POST /jobs is executed, but its reply is lost        *)
     "stop"}       (* the bot stops, and is started again                  *)

ASSUME BotAssumption ==
    /\ MaxPhotos \in Nat
    /\ SessionTTL \in Nat \ {0}
    /\ MaxPolls \in Nat \ {0}
    /\ Faults \subseteq FaultKinds
    /\ MaxFaults \in Nat

VARIABLES
    sender,    (* who sent the first photo, the second, ...                *)
    taken,     (* how many of these updates the bot has taken              *)
    session,   (* session:{user_id}:car_url                                *)
    left,      (* how many polling intervals that key has left             *)
    bot,       (* where the handler is, and its local variables            *)
    job,       (* jobs.status, by the wheel photo                          *)
    carOf,     (* the car photo of a job                                   *)
    told,      (* the last text the sender of a photo was sent about it    *)
    copies,    (* how often the render of a job was sent                   *)
    kept,      (* for how long each photo has been in the session          *)
    faults     (* the kinds of fault there were so far                     *)

redis == <<session, left>>
api   == <<job, carOf>>
chat  == <<told, copies>>
vars  == <<sender, taken, redis, bot, api, chat, kept, faults>>

(* A photo is the number of its update.                                    *)
Photos   == 1 .. MaxPhotos
NoPhoto  == 0
IsSent(p) == p \in DOMAIN sender

Idle == [at |-> "idle", photo |-> NoPhoto, car |-> NoPhoto, polls |-> 0]

-----------------------------------------------------------------------------

Init ==
    /\ sender = <<>> /\ taken = 0
    /\ session = [u \in Users |-> NoPhoto]
    /\ left = [u \in Users |-> 0]
    /\ bot = Idle
    /\ job = [p \in Photos |-> "none"]
    /\ carOf = [p \in Photos |-> NoPhoto]
    /\ told = [p \in Photos |-> "nothing"]
    /\ copies = [p \in Photos |-> 0]
    /\ kept = [p \in Photos |-> 0]
    /\ faults = {}

Fault(kind) ==
    /\ kind \in Faults
    /\ faults' = faults \cup {kind}
    /\ Cardinality(faults') <= MaxFaults

Goto(from, to) ==
    /\ bot.at = from
    /\ bot' = [bot EXCEPT !.at = to]

Tell(text) == told' = [told EXCEPT ![bot.photo] = text]

(* Any user sends a photo, at any time.                                    *)
Send(u) ==
    /\ Len(sender) < MaxPhotos
    /\ sender' = Append(sender, u)
    /\ UNCHANGED <<taken, redis, bot, api, chat, kept, faults>>

-----------------------------------------------------------------------------
(* The parts of the handler, each after mutants of it.                     *)

SharedSession(p) == CHOOSE u \in Users : TRUE
SessionOf(p)     == sender[p]

StoreBriefly(u, p) ==
    /\ session' = [session EXCEPT ![u] = p]
    /\ left' = [left EXCEPT ![u] = SessionTTL - 1]
SetEx(u, p) ==
    /\ session' = [session EXCEPT ![u] = p]
    /\ left' = [left EXCEPT ![u] = SessionTTL]

KeepIt(u) == UNCHANGED redis
Delete(u) ==
    /\ session' = [session EXCEPT ![u] = NoPhoto]
    /\ left' = [left EXCEPT ![u] = 0]

NotCounted(n) == n
OneMore(n)    == n + 1

Return == bot' = Idle

LoopOn  == bot' = [bot EXCEPT !.at = "sleeping"]
EndLoop == Return

-----------------------------------------------------------------------------
(* handle_photo                                                            *)

(* GET of the session.  get_file, which comes next, changes nothing.       *)
Receive ==
    /\ bot.at = "idle" /\ taken < Len(sender)
    /\ LET p   == taken + 1
           car == session[SessionOf(p)]
       IN  bot' = [at |-> IF car = NoPhoto THEN "remembering" ELSE "claiming",
                   photo |-> p, car |-> car, polls |-> 0]
    /\ taken' = taken + 1
    /\ UNCHANGED <<sender, redis, api, chat, kept, faults>>

(* The first photo of a pair: SETEX, and ask for the second.               *)
Remember ==
    /\ Goto("remembering", "asking")
    /\ SetEx(SessionOf(bot.photo), bot.photo)
    /\ UNCHANGED <<sender, taken, api, chat, kept, faults>>

AskForWheel ==
    /\ bot.at = "asking" /\ Return
    /\ Tell("car_received")
    /\ UNCHANGED <<sender, taken, redis, api, copies, kept, faults>>

(* The second: DEL, whatever the key holds by now.                         *)
Claim ==
    /\ Goto("claiming", "posting")
    /\ Delete(SessionOf(bot.photo))
    /\ UNCHANGED <<sender, taken, api, chat, kept, faults>>

(* A status message, POST /jobs, and an edit of that message.  Without the *)
(* reply of the POST the user is told that the backend is gone; an edit    *)
(* that fails leaves the handler.                                          *)
Post ==
    /\ bot.at = "posting"
    /\ job' = [job EXCEPT ![bot.photo] = "queued"]
    /\ carOf' = [carOf EXCEPT ![bot.photo] = bot.car]
    /\ \/ Goto("posting", "sleeping") /\ UNCHANGED faults
       \/ Goto("posting", "refusing") /\ Fault("api_reply")
       \/ Return /\ Fault("telegram")
    /\ UNCHANGED <<sender, taken, redis, chat, kept>>

PostFails ==
    /\ Goto("posting", "refusing")
    /\ Fault("api")
    /\ UNCHANGED <<sender, taken, redis, api, chat, kept>>

(* "api_error", or "backend_unavailable" when that cannot be shown either. *)
Refuse ==
    /\ bot.at = "refusing" /\ Return
    /\ Tell("refused")
    /\ UNCHANGED <<sender, taken, redis, api, copies, kept, faults>>

-----------------------------------------------------------------------------
(* poll_job_status                                                         *)

(* The next turn of the loop, if there is one.                             *)
NextPoll ==
    bot' = [bot EXCEPT !.polls = OneMore(@),
                       !.at = IF OneMore(bot.polls) < MaxPolls THEN "sleeping" ELSE "late"]

(* The job is not finished, or the GET fails, which is caught.             *)
PollAgain ==
    /\ bot.at = "awake"
    /\ \/ job[bot.photo] = "queued" /\ UNCHANGED faults
       \/ Fault("api")
    /\ NextPoll
    /\ UNCHANGED <<sender, taken, redis, api, chat, kept>>

(* reply_photo, then deletion of the status message.  A failure of either  *)
(* is caught by the loop, which goes on and sends the render again.        *)
Deliver ==
    /\ bot.at = "awake" /\ job[bot.photo] = "completed"
    /\ \/ /\ copies' = [copies EXCEPT ![bot.photo] = @ + 1]
          /\ \/ /\ EndLoop /\ Tell("done") /\ UNCHANGED faults
             \/ /\ NextPoll /\ Fault("telegram") /\ UNCHANGED told
       \/ /\ NextPoll /\ Fault("telegram") /\ UNCHANGED chat
    /\ UNCHANGED <<sender, taken, redis, api, kept>>

ReportFailure ==
    /\ bot.at = "awake" /\ job[bot.photo] = "failed"
    /\ \/ EndLoop /\ Tell("processing_failed") /\ UNCHANGED faults
       \/ NextPoll /\ Fault("telegram") /\ UNCHANGED told
    /\ UNCHANGED <<sender, taken, redis, api, copies, kept>>

TimeOut ==
    /\ bot.at = "late" /\ Return
    /\ Tell("timeout")
    /\ UNCHANGED <<sender, taken, redis, api, copies, kept, faults>>

(* An error outside the loop's try leaves the handler; it is only logged.  *)
Abandon ==
    /\ \/ bot.at \in {"remembering", "claiming"}
          /\ (Fault("redis") \/ Fault("telegram"))
       \/ bot.at \in {"asking", "posting", "refusing", "late"}
          /\ Fault("telegram")
    /\ Return
    /\ UNCHANGED <<sender, taken, redis, api, chat, kept>>

Handler ==
    \/ Receive \/ Remember \/ AskForWheel \/ Claim
    \/ Post \/ PostFails \/ Refuse
    \/ PollAgain \/ Deliver \/ ReportFailure \/ TimeOut \/ Abandon

-----------------------------------------------------------------------------
(* Around the handler                                                      *)

(* The worker ends the job.                                                *)
Finish(p) ==
    /\ job[p] = "queued"
    /\ \E s \in {"completed", "failed"} : job' = [job EXCEPT ![p] = s]
    /\ UNCHANGED <<sender, taken, redis, bot, carOf, chat, kept, faults>>

(* A polling interval passes: keys expire, and the sleeping handler wakes. *)
Tick ==
    /\ bot.at = "sleeping" \/ \E u \in Users : left[u] > 0
    /\ left' = [u \in Users |-> IF left[u] > 0 THEN left[u] - 1 ELSE 0]
    /\ session' = [u \in Users |-> IF left'[u] = 0 THEN NoPhoto ELSE session[u]]
    /\ bot' = IF bot.at = "sleeping" THEN [bot EXCEPT !.at = "awake"] ELSE bot
    /\ kept' = [p \in Photos |-> IF \E u \in Users : session[u] = p
                                 THEN kept[p] + 1 ELSE kept[p]]
    /\ UNCHANGED <<sender, taken, api, chat, faults>>

(* Updates it had fetched but not handled may be gone, too.                *)
Restart ==
    /\ Fault("stop")
    /\ Return
    /\ taken' \in taken .. Len(sender)
    /\ UNCHANGED <<sender, redis, api, chat, kept>>

Next ==
    \/ \E u \in Users : Send(u)
    \/ \E p \in Photos : Finish(p)
    \/ Handler
    \/ Tick
    \/ Restart

(* Calls return or raise, and time passes.  Nobody has to send a photo,    *)
(* and no job has to be finished.                                          *)
Spec == Init /\ [][Next]_vars /\ WF_vars(Handler) /\ WF_vars(Tick)

-----------------------------------------------------------------------------
(* Properties                                                              *)

HasJob(w) == job[w] # "none"

BotStates ==
    [at: {"idle", "remembering", "asking", "claiming", "posting", "refusing", "sleeping",
          "awake", "late"},
     photo: Photos \cup {NoPhoto}, car: Photos \cup {NoPhoto}, polls: 0 .. MaxPolls]

TypeOK ==
    /\ sender \in Seq(Users) /\ Len(sender) <= MaxPhotos
    /\ taken \in 0 .. Len(sender)
    /\ session \in [Users -> Photos \cup {NoPhoto}]
    /\ left \in [Users -> 0 .. SessionTTL]
    /\ bot \in BotStates
    /\ job \in [Photos -> {"none", "queued", "completed", "failed"}]
    /\ carOf \in [Photos -> Photos \cup {NoPhoto}]
    /\ told \in [Photos -> {"nothing", "car_received", "refused", "done",
                            "processing_failed", "timeout"}]
    /\ copies \in [Photos -> 0 .. MaxPolls]
    /\ kept \in [Photos -> 0 .. SessionTTL]
    /\ faults \subseteq FaultKinds

(* A job is made of two photos of one user, the car sent first, and what   *)
(* the user sent between them got no answer: whatever expires, fails or is *)
(* handled between the two, nobody's car gets a wheel it was not sent with.*)
JobsPairPhotos ==
    \A w \in Photos : HasJob(w) =>
        /\ carOf[w] \in 1 .. w - 1
        /\ sender[carOf[w]] = sender[w]
        /\ \A p \in carOf[w] + 1 .. w - 1 : sender[p] = sender[w] => told[p] = "nothing"

(* No photo is in two jobs, as a car or as a wheel: the user pays once for *)
(* each pair.                                                              *)
PhotoUsedOnce ==
    \A v, w \in Photos : HasJob(v) /\ HasJob(w) /\ v # w =>
        {v, carOf[v]} \cap {w, carOf[w]} = {}

(* A render is sent once, if Telegram does what it is asked.               *)
SentOnce == "telegram" \notin faults => \A p \in Photos : copies[p] <= 1

(* The wheel w, with which the car sent before it was lost: it made no     *)
(* job, and its sender was refused by the API, or told nothing because a   *)
(* message was not sent or the bot was stopped.                            *)
LostWith(p) ==
    \E w \in p + 1 .. taken :
        /\ sender[w] = sender[p] /\ w # bot.photo /\ ~ HasJob(w)
        /\ \/ told[w] = "refused" /\ "api" \in faults
           \/ told[w] = "nothing" /\ faults \cap {"telegram", "stop"} # {}

(* docs/architecture.md: the session lives for ten minutes between the two *)
(* photos.  A car photo the user was asked a wheel for is there for that   *)
(* time, or went into a job, or was lost with the wheel that came for it,  *)
(* after DEL and before a job: nothing else loses it, and a call to Redis  *)
(* that is not executed never does.                                        *)
CarPhotosAreKept ==
    \A p \in Photos : told[p] = "car_received" =>
        \/ session[sender[p]] = p
        \/ bot.car = p
        \/ \E w \in Photos : carOf[w] = p
        \/ kept[p] = SessionTTL
        \/ LostWith(p)

(* Everybody who sends a photo is answered, however many are before them   *)
(* and although their jobs may never end, unless Telegram or Redis fails   *)
(* or the bot is stopped.                                                  *)
EveryPhotoIsAnswered ==
    \A p \in Photos :
        IsSent(p) ~> \/ told[p] # "nothing"
                     \/ faults \cap {"telegram", "redis", "stop"} # {}
=============================================================================
