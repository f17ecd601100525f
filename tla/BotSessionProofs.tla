-------------------------- MODULE BotSessionProofs --------------------------
(***************************************************************************)
(* Theorems about BotSession, for any users, any number of photos, any     *)
(* lifetime of a session, any number of polls and all faults.              *)
(***************************************************************************)
EXTENDS BotSession, TLAPS

(* The handler works on the update taken last, and waits a bounded number  *)
(* of polls for its job.                                                   *)
HandlerInv ==
    /\ bot.at = "idle" <=> bot.photo = NoPhoto
    /\ bot.at = "idle" => bot.car = NoPhoto
    /\ bot.at # "idle" => bot.photo = taken
    /\ bot.at \in {"sleeping", "awake"} => bot.polls < MaxPolls
    /\ bot.at \in {"remembering", "asking", "claiming", "posting"} => bot.polls = 0

(* What the handler did not come to: photos that are not taken, or not yet *)
(* stored or sent in a job.                                                *)
Untouched(p) ==
    \/ p > taken
    \/ p = bot.photo /\ bot.at \in {"remembering", "claiming", "posting"}

(* Renders are counted by the polls, and a session by its time to live.    *)
CountInv ==
    /\ \A p \in Photos : Untouched(p) => copies[p] = 0 /\ kept[p] = 0 /\ told[p] = "nothing"
    /\ bot.at \in {"sleeping", "awake"} => copies[bot.photo] <= bot.polls
    /\ "telegram" \notin faults =>
          /\ \A p \in Photos : copies[p] <= 1
          /\ bot.at \in {"sleeping", "awake"} => copies[bot.photo] = 0
    /\ \A u \in Users :
          /\ session[u] = NoPhoto <=> left[u] = 0
          /\ session[u] # NoPhoto => kept[session[u]] + left[u] = SessionTTL

TypeInv == TypeOK /\ HandlerInv /\ CountInv

-----------------------------------------------------------------------------
(* Photos and jobs                                                         *)

Used(p) == \E w \in Photos : HasJob(w) /\ (w = p \/ carOf[w] = p)

(* Since photo c, no photo of its sender up to n was answered.             *)
Silent(c, n) == \A p \in c + 1 .. n : sender[p] = sender[c] => told[p] = "nothing"

JobInv ==
    /\ \A w \in Photos : HasJob(w) =>
          /\ w <= taken
          /\ carOf[w] \in 1 .. w - 1
          /\ sender[carOf[w]] = sender[w]
          /\ Silent(carOf[w], w - 1)
    /\ \A w \in Photos : ~ HasJob(w) => carOf[w] = NoPhoto
    /\ PhotoUsedOnce

(* A session is its user's, holds a photo that is in no job, and of what   *)
(* the user sent since nothing was answered.                               *)
SessionInv ==
    \A u \in Users : session[u] # NoPhoto =>
        /\ session[u] <= taken
        /\ sender[session[u]] = u
        /\ ~ Used(session[u])
        /\ Silent(session[u], taken)

(* So are the two photos the handler has in hand, until they are posted.   *)
PairInv ==
    /\ bot.at \in {"remembering", "claiming", "posting"} =>
          /\ ~ Used(bot.photo)
          /\ \A u \in Users : session[u] # bot.photo
    /\ bot.at \in {"claiming", "posting"} =>
          /\ bot.car \in 1 .. bot.photo - 1
          /\ sender[bot.car] = sender[bot.photo]
          /\ ~ Used(bot.car)
          /\ Silent(bot.car, bot.photo)
    /\ bot.at \in {"remembering", "posting"} => session[sender[bot.photo]] = NoPhoto
    /\ bot.at = "claiming" => session[sender[bot.photo]] \in {NoPhoto, bot.car}
    /\ bot.at \in {"asking", "refusing", "sleeping", "awake", "late"} =>
          session[sender[bot.photo]] \in {NoPhoto, bot.photo}

(* Where a car photo is, and what the handler has to say of it: the photo  *)
(* in hand is not answered, and one that is refused made the job of its    *)
(* car, or the API failed before there was one.                            *)
CarInv ==
    /\ CarPhotosAreKept
    /\ bot.at \in {"remembering", "asking"} => bot.car = NoPhoto
    /\ bot.at = "asking" =>
          session[sender[bot.photo]] = bot.photo \/ kept[bot.photo] = SessionTTL
    /\ bot.at = "claiming" =>
          session[sender[bot.photo]] = bot.car \/ kept[bot.car] = SessionTTL
    /\ bot.at \in {"sleeping", "awake", "late"} => carOf[bot.photo] = bot.car
    /\ bot.at = "refusing" =>
          \/ carOf[bot.photo] = bot.car
          \/ /\ ~ HasJob(bot.photo) /\ "api" \in faults
             /\ bot.car \in 1 .. bot.photo - 1 /\ sender[bot.car] = sender[bot.photo]
    /\ bot.at # "idle" => told[bot.photo] = "nothing"

BotInv == TypeInv /\ JobInv /\ SessionInv /\ PairInv /\ CarInv

-----------------------------------------------------------------------------
(* Types                                                                   *)

(* A fault that happened is one of the known kinds, and stays happened.    *)
LEMMA FaultType ==
    ASSUME TypeOK, NEW kind, Fault(kind)
    PROVE  faults' \subseteq FaultKinds /\ kind \in faults' /\ faults \subseteq faults'
  BY BotAssumption DEF Fault, TypeOK

(* A handler that moves keeps its photos and its count.                    *)
LEMMA Moves ==
    ASSUME TypeOK, NEW to \in {"asking", "posting", "refusing", "sleeping", "awake", "late"},
           bot' = [bot EXCEPT !.at = to]
    PROVE  /\ bot' \in BotStates
           /\ bot'.at = to
           /\ bot'.photo = bot.photo /\ bot'.car = bot.car /\ bot'.polls = bot.polls
  BY DEF TypeOK, BotStates

(* A handler that is done forgets them.                                    *)
LEMMA Returns ==
    ASSUME bot' = Idle
    PROVE  /\ bot' \in BotStates
           /\ bot'.at = "idle" /\ bot'.photo = NoPhoto /\ bot'.car = NoPhoto /\ bot'.polls = 0
  BY BotAssumption DEF Idle, BotStates

(* What the handler has in hand.                                           *)
LEMMA InHand ==
    ASSUME TypeInv
    PROVE  /\ bot.photo \in Photos \cup {NoPhoto} /\ bot.car \in Photos \cup {NoPhoto}
           /\ bot.polls \in 0 .. MaxPolls
           /\ bot.at # "idle" => /\ bot.photo \in Photos /\ bot.photo = taken
                                 /\ sender[bot.photo] \in Users
  BY BotAssumption DEF TypeInv, TypeOK, HandlerInv, BotStates, Photos, NoPhoto

-----------------------------------------------------------------------------
(* What a step leaves alone                                                *)

(* Numbers of photos.                                                      *)
LEMMA Numbers ==
    ASSUME TypeInv
    PROVE  /\ taken \in Int /\ 0 <= taken /\ taken <= Len(sender) /\ Len(sender) \in Int
           /\ Len(sender) <= MaxPhotos /\ MaxPhotos \in Int
           /\ DOMAIN sender = 1 .. Len(sender)
           /\ \A p \in 1 .. Len(sender) : p \in Photos /\ sender[p] \in Users
  BY BotAssumption DEF TypeInv, TypeOK, Photos

(* Jobs stay well paired while only the last photo taken is answered.      *)
LEMMA JobsKept ==
    ASSUME BotInv, taken' \in Int, taken' >= taken, carOf' = carOf,
           \A p \in Photos : HasJob(p)' <=> HasJob(p),
           \A p \in Photos : p <= taken => sender'[p] = sender[p],
           \A p \in Photos : p < taken => told'[p] = told[p]
    PROVE  JobInv' /\ \A p \in Photos : Used(p)' <=> Used(p)
<1>1. \A p \in Photos : Used(p)' <=> Used(p)
  BY DEF Used
<1>2. ASSUME NEW w \in Photos, HasJob(w)'
      PROVE  /\ w <= taken' /\ carOf'[w] \in 1 .. w - 1
             /\ sender'[carOf'[w]] = sender'[w]
             /\ Silent(carOf[w], w - 1)'
  <2>1. /\ w <= taken /\ carOf[w] \in 1 .. w - 1
        /\ sender[carOf[w]] = sender[w] /\ Silent(carOf[w], w - 1)
    BY <1>2 DEF BotInv, JobInv
  <2>2. w \in Int /\ carOf[w] \in Photos /\ carOf[w] < taken
    BY <2>1, Numbers DEF BotInv, Photos
  <2>3. \A p \in carOf[w] + 1 .. w - 1 : p \in Photos /\ p < taken
    BY <2>1, <2>2, Numbers DEF BotInv, Photos
  <2>4. QED
    BY <2>1, <2>2, <2>3, Numbers DEF BotInv, Silent
<1>3. PhotoUsedOnce'
  BY DEF BotInv, JobInv, PhotoUsedOnce
<1>4. QED
  BY <1>1, <1>2, <1>3 DEF BotInv, JobInv

Later == {"asking", "refusing", "sleeping", "awake", "late"}

(* A step that answers nobody and stores nothing keeps photos in place.    *)
LEMMA Quiet ==
    ASSUME BotInv, UNCHANGED <<sender, taken, session, told, carOf>>,
           \A p \in Photos : HasJob(p)' <=> HasJob(p),
           \/ bot' = bot
           \/ bot'.at = "idle"
           \/ /\ bot.at \in {"posting"} \cup Later /\ bot'.at \in Later
              /\ bot'.photo = bot.photo
    PROVE  JobInv' /\ SessionInv' /\ PairInv'
<1>1. JobInv' /\ \A p \in Photos : Used(p)' <=> Used(p)
  BY JobsKept, Numbers DEF BotInv
<1>2. SessionInv'
  BY <1>1 DEF BotInv, SessionInv, Silent, TypeInv, TypeOK
<1>3. PairInv'
  <2>1. CASE bot'.at = "idle"
    BY <2>1 DEF PairInv
  <2>2. CASE /\ bot.at \in {"posting"} \cup Later /\ bot'.at \in Later
             /\ bot'.photo = bot.photo
    BY <2>2, InHand DEF BotInv, PairInv, Later
  <2>3. CASE bot' = bot
    <3>1. bot.at \in {"remembering", "claiming", "posting"} => bot.photo \in Photos
      BY InHand DEF BotInv
    <3>2. bot.at \in {"claiming", "posting"} => bot.car \in Photos
      BY InHand DEF BotInv, PairInv, NoPhoto, Photos
    <3>3. QED
      BY <1>1, <2>3, <3>1, <3>2 DEF BotInv, PairInv, Silent
  <2>4. QED
    BY <2>1, <2>2, <2>3
<1>4. QED
  BY <1>1, <1>2, <1>3

(* A car that was lost stays lost, whatever becomes of the photo in hand.  *)
LEMMA LostStays ==
    ASSUME TypeInv, NEW p \in Photos, LostWith(p),
           faults \subseteq faults', taken' \in Int, taken <= taken',
           \A q \in Photos : q <= taken => sender'[q] = sender[q],
           \A q \in Photos : q # bot.photo => (HasJob(q)' <=> HasJob(q)) /\ told'[q] = told[q],
           bot'.photo \in {bot.photo, NoPhoto} \/ bot'.photo > taken
    PROVE  LostWith(p)'
<1>1. PICK w \in p + 1 .. taken :
         /\ sender[w] = sender[p] /\ w # bot.photo /\ ~ HasJob(w)
         /\ \/ told[w] = "refused" /\ "api" \in faults
            \/ told[w] = "nothing" /\ faults \cap {"telegram", "stop"} # {}
  BY DEF LostWith
<1>2. /\ p \in Int /\ w \in Int /\ 0 < p /\ p < w /\ w <= taken /\ p <= taken
      /\ w \in Photos /\ w \in p + 1 .. taken' /\ taken \in Int
  BY Numbers DEF Photos
<1>3. sender'[w] = sender'[p]
  BY <1>1, <1>2
<1>4. w # bot'.photo
  <2>1. CASE bot'.photo = bot.photo
    BY <1>1, <2>1
  <2>2. CASE bot'.photo = NoPhoto
    BY <1>2, <2>2 DEF NoPhoto
  <2>3. CASE bot'.photo > taken
    BY <1>2, <2>3
  <2>4. QED
    BY <2>1, <2>2, <2>3
<1>5. ~ HasJob(w)' /\ told'[w] = told[w]
  BY <1>1, <1>2
<1>6. \/ told'[w] = "refused" /\ "api" \in faults'
      \/ told'[w] = "nothing" /\ faults' \cap {"telegram", "stop"} # {}
  BY <1>1, <1>5
<1>7. QED
  BY <1>2, <1>3, <1>4, <1>5, <1>6 DEF LostWith

(* A car is lost with the photo in hand when its handler gives it up.      *)
LEMMA LostNow ==
    ASSUME BotInv, NEW p, p = bot.photo, NEW c, c = bot.car,
           bot.at # "idle", c \in 1 .. p - 1, sender[c] = sender[p], ~ HasJob(p)',
           bot'.photo = NoPhoto, sender' = sender, taken' \in Int, taken <= taken',
           \/ told'[p] = "refused" /\ "api" \in faults'
           \/ told'[p] = "nothing" /\ faults' \cap {"telegram", "stop"} # {}
    PROVE  LostWith(c)'
<1>1. p \in Photos /\ p = taken /\ p \in Int /\ p # NoPhoto
  BY InHand DEF BotInv, Photos, NoPhoto
<1>2. p \in c + 1 .. taken'
  BY <1>1
<1>3. QED
  BY <1>1, <1>2 DEF LostWith

(* Car photos stay where they are, too, while the handler keeps its own.   *)
LEMMA CarsStay ==
    ASSUME BotInv, UNCHANGED <<sender, taken, session, carOf, told, kept>>,
           faults \subseteq faults', \A q \in Photos : HasJob(q)' <=> HasJob(q),
           bot'.car = bot.car, bot'.photo = bot.photo,
           \/ bot'.at = bot.at
           \/ bot.at = "awake" /\ bot'.at \in {"sleeping", "late"}
    PROVE  CarInv'
<1>1. \A p \in Photos : LostWith(p) => LostWith(p)'
  BY LostStays, Numbers DEF BotInv
<1>2. CarPhotosAreKept'
  BY <1>1 DEF BotInv, CarInv, CarPhotosAreKept
<1>3. bot.at # "idle" => bot.photo \in Photos
  BY InHand DEF BotInv
<1>4. QED
  BY <1>2, <1>3 DEF BotInv, CarInv

(* An answer ends the handler; nothing waits that was sent before it.      *)
LEMMA Answer ==
    ASSUME BotInv, UNCHANGED <<sender, taken, session, job, carOf>>,
           bot.at \in Later, bot'.at = "idle",
           \A p \in Photos : p # bot.photo => told'[p] = told[p]
    PROVE  JobInv' /\ SessionInv' /\ PairInv'
<1>1. bot.photo = taken /\ bot.photo \in Photos /\ sender[taken] \in Users
  BY InHand DEF BotInv, Later
<1>2. JobInv' /\ \A p \in Photos : Used(p)' <=> Used(p)
  BY <1>1, JobsKept, Numbers DEF BotInv, HasJob
<1>3. ASSUME NEW u \in Users, session[u] # NoPhoto
      PROVE  /\ session[u] <= taken /\ sender[session[u]] = u /\ ~ Used(session[u])'
             /\ Silent(session[u], taken)'
  <2>1. /\ session[u] <= taken /\ sender[session[u]] = u /\ ~ Used(session[u])
        /\ Silent(session[u], taken) /\ session[u] \in Photos
    BY <1>3 DEF BotInv, SessionInv, TypeInv, TypeOK
  <2>2. sender[taken] = u => session[u] = taken
    BY <1>1, <1>3 DEF BotInv, PairInv, Later
  <2>3. \A p \in session[u] + 1 .. taken : p \in Photos
    BY <2>1, Numbers DEF BotInv, Photos
  <2>4. Silent(session[u], taken)'
    BY <1>1, <2>1, <2>2, <2>3, Numbers DEF BotInv, Silent, Photos
  <2>5. QED
    BY <1>2, <2>1, <2>4
<1>4. SessionInv'
  BY <1>3 DEF SessionInv
<1>5. PairInv'
  BY DEF PairInv
<1>6. QED
  BY <1>2, <1>4, <1>5

-----------------------------------------------------------------------------
(* The steps                                                               *)

(* A new photo is answered by nobody yet.                                  *)
LEMMA SendStep ==
    ASSUME BotInv, NEW u \in Users, Send(u)
    PROVE  BotInv'
<1>1. /\ sender' \in Seq(Users) /\ Len(sender') = Len(sender) + 1
      /\ \A p \in 1 .. Len(sender) : sender'[p] = sender[p]
      /\ UNCHANGED <<taken, session, left, bot, job, carOf, told, copies, kept, faults>>
  BY DEF Send, BotInv, TypeInv, TypeOK, redis, api, chat
<1>2. TypeInv
  BY DEF BotInv
<1>3. TypeOK'
  BY <1>1, <1>2, BotAssumption DEF Send, TypeInv, TypeOK
<1>4. HandlerInv' /\ CountInv'
  BY <1>1, <1>2 DEF TypeInv, HandlerInv, CountInv, Untouched
<1>5. JobInv' /\ \A p \in Photos : Used(p)' <=> Used(p)
  BY <1>1, <1>2, JobsKept, Numbers DEF Photos, HasJob
<1>6. SessionInv'
  <2> SUFFICES ASSUME NEW v \in Users, session[v] # NoPhoto
               PROVE  /\ session[v] <= taken /\ sender'[session[v]] = v
                      /\ ~ Used(session[v])' /\ Silent(session[v], taken)'
    BY <1>1 DEF SessionInv
  <2>1. /\ session[v] <= taken /\ sender[session[v]] = v
        /\ ~ Used(session[v]) /\ Silent(session[v], taken) /\ session[v] \in Photos
    BY DEF BotInv, SessionInv, TypeInv, TypeOK
  <2>2. QED
    BY <1>1, <1>2, <1>5, <2>1, Numbers DEF Silent, Photos
<1>7. PairInv'
  <2>1. CASE bot.at = "idle"
    BY <1>1, <2>1 DEF PairInv
  <2>2. CASE bot.at # "idle"
    <3>1. bot.photo \in Photos /\ bot.photo \in 1 .. Len(sender)
      BY <1>2, <2>2, InHand, Numbers DEF Photos
    <3>2. bot.at \in {"claiming", "posting"} =>
             bot.car \in Photos /\ bot.car \in 1 .. bot.photo - 1
      BY <1>2, <3>1, Numbers DEF BotInv, PairInv, Photos
    <3>3. bot.at \in {"claiming", "posting"} => Silent(bot.car, bot.photo)'
      BY <1>1, <1>2, <3>1, <3>2, Numbers DEF BotInv, PairInv, Silent, Photos
    <3>4. QED
      BY <1>1, <1>2, <1>5, <3>1, <3>2, <3>3, Numbers DEF BotInv, PairInv, Photos
  <2>3. QED
    BY <2>1, <2>2
<1>8. CarInv'
  <2>1. \A p \in Photos : told[p] # "nothing" => p \in 1 .. Len(sender)
    BY <1>2, Numbers DEF TypeInv, CountInv, Untouched, Photos
  <2>2. bot.at = "asking" => bot.photo \in 1 .. Len(sender)
    BY <1>2, InHand, Numbers DEF Photos
  <2>3. \A p \in Photos : LostWith(p) => LostWith(p)'
    BY <1>1, <1>2, LostStays, Numbers DEF Photos, HasJob
  <2>4. CarPhotosAreKept'
    BY <1>1, <2>1, <2>3 DEF BotInv, CarInv, CarPhotosAreKept
  <2>5. bot.at # "idle" => bot.photo \in 1 .. Len(sender)
    BY <1>2, InHand, Numbers DEF Photos
  <2>6. bot.at = "refusing" /\ bot.car \in 1 .. bot.photo - 1 => bot.car \in 1 .. Len(sender)
    BY <1>2, <2>5, InHand, Numbers
  <2>7. QED
    BY <1>1, <2>4, <2>5, <2>6 DEF BotInv, CarInv, HasJob
<1>9. QED
  BY <1>3, <1>4, <1>5, <1>6, <1>7, <1>8 DEF BotInv, TypeInv

(* The photo of the next update finds the car its sender sent before.      *)
LEMMA ReceiveStep ==
    ASSUME BotInv, Receive
    PROVE  BotInv'
<1> DEFINE p == taken + 1
           v == sender[p]
<1>1. TypeInv /\ p \in Photos /\ p \in 1 .. Len(sender) /\ v \in Users /\ taken \in Int
  BY Numbers DEF Receive, BotInv
<1>2. /\ taken' = p
      /\ UNCHANGED <<sender, session, left, job, carOf, told, copies, kept, faults>>
      /\ bot.at = "idle"
  BY DEF Receive, redis, api, chat
<1>3. session[v] \in Photos \cup {NoPhoto}
  BY <1>1 DEF TypeInv, TypeOK
<1>4. /\ bot' \in BotStates /\ bot'.photo = p /\ bot'.polls = 0 /\ bot'.car = session[v]
      /\ bot'.at = IF session[v] = NoPhoto THEN "remembering" ELSE "claiming"
  BY <1>1, <1>3, BotAssumption DEF Receive, SessionOf, BotStates
<1>5. TypeOK'
  BY <1>1, <1>2, <1>4 DEF TypeInv, TypeOK
<1>6. HandlerInv' /\ CountInv'
  BY <1>1, <1>2, <1>4 DEF TypeInv, HandlerInv, CountInv, Untouched, NoPhoto, Photos
<1>7. JobInv' /\ \A q \in Photos : Used(q)' <=> Used(q)
  BY <1>1, <1>2, JobsKept DEF HasJob
<1>8. ~ Used(p) /\ told[p] = "nothing" /\ \A u \in Users : session[u] # p
  <2>1. told[p] = "nothing"
    BY <1>1 DEF TypeInv, CountInv, Untouched
  <2>2. ~ Used(p)
    BY <1>1 DEF BotInv, JobInv, Used, Photos
  <2>3. \A u \in Users : session[u] # p
    BY <1>1 DEF BotInv, SessionInv, NoPhoto
  <2>4. QED
    BY <2>1, <2>2, <2>3
<1>9. ASSUME NEW u \in Users, session[u] # NoPhoto
      PROVE  /\ session[u] \in Photos /\ session[u] \in 1 .. taken /\ sender[session[u]] = u
             /\ ~ Used(session[u])' /\ Silent(session[u], taken)'
  <2>1. /\ session[u] \in Photos /\ session[u] <= taken /\ sender[session[u]] = u
        /\ ~ Used(session[u]) /\ Silent(session[u], taken)
    BY <1>9 DEF BotInv, SessionInv, TypeInv, TypeOK
  <2>2. QED
    BY <1>1, <1>2, <1>7, <1>8, <2>1 DEF Silent, Photos
<1>10. SessionInv'
  BY <1>1, <1>2, <1>9 DEF SessionInv
<1>11. PairInv'
  <2>1. ~ Used(bot.photo)' /\ \A u \in Users : session'[u] # bot'.photo
    BY <1>1, <1>2, <1>4, <1>7, <1>8
  <2>2. CASE session[v] = NoPhoto
    BY <1>2, <1>4, <2>1, <2>2 DEF PairInv
  <2>3. CASE session[v] # NoPhoto
    BY <1>1, <1>2, <1>4, <1>9, <2>1, <2>3 DEF PairInv
  <2>4. QED
    BY <2>2, <2>3
<1>12. CarInv'
  <2>1. \A q \in Photos : bot.car # q
    BY <1>1, <1>2 DEF TypeInv, HandlerInv, NoPhoto, Photos
  <2>2. \A q \in Photos : LostWith(q) => LostWith(q)'
    BY <1>1, <1>2, <1>4, LostStays DEF HasJob
  <2>3. CarPhotosAreKept'
    BY <1>1, <1>2, <2>1, <2>2 DEF BotInv, CarInv, CarPhotosAreKept
  <2>4. QED
    BY <1>1, <1>2, <1>4, <1>8, <2>3 DEF CarInv
<1>13. QED
  BY <1>5, <1>6, <1>7, <1>10, <1>11, <1>12 DEF BotInv, TypeInv

(* SETEX replaces no car: the session is empty or has expired.             *)
LEMMA RememberStep ==
    ASSUME BotInv, Remember
    PROVE  BotInv'
<1> DEFINE p == bot.photo
           v == sender[p]
<1>1. /\ TypeInv /\ p = taken /\ p \in Photos /\ v \in Users /\ bot.at = "remembering"
      /\ taken \in Int
  BY InHand, Numbers DEF Remember, Goto, BotInv
<1>2. /\ bot' \in BotStates /\ bot'.at = "asking"
      /\ bot'.photo = p /\ bot'.car = bot.car /\ bot'.polls = bot.polls
  BY <1>1, Moves DEF Remember, Goto, TypeInv
<1>3. /\ session' = [session EXCEPT ![v] = p] /\ left' = [left EXCEPT ![v] = SessionTTL]
      /\ UNCHANGED <<sender, taken, job, carOf, told, copies, kept, faults>>
  BY DEF Remember, SetEx, SessionOf, api, chat
<1>4. \A u \in Users : /\ session'[u] = IF u = v THEN p ELSE session[u]
                       /\ left'[u] = IF u = v THEN SessionTTL ELSE left[u]
  BY <1>1, <1>3 DEF TypeInv, TypeOK
<1>5. TypeOK'
  BY <1>1, <1>2, <1>3, BotAssumption DEF TypeInv, TypeOK
<1>6. kept[p] = 0 /\ told[p] = "nothing" /\ ~ Used(p) /\ session[v] = NoPhoto
  BY <1>1 DEF TypeInv, CountInv, Untouched, BotInv, PairInv
<1>7. HandlerInv' /\ CountInv'
  BY <1>1, <1>2, <1>3, <1>4, <1>6, BotAssumption
     DEF TypeInv, HandlerInv, CountInv, Untouched, NoPhoto, Photos
<1>8. JobInv' /\ \A q \in Photos : Used(q)' <=> Used(q)
  BY <1>1, <1>3, JobsKept DEF HasJob
<1>9. SessionInv'
  <2> SUFFICES ASSUME NEW u \in Users, session'[u] # NoPhoto
               PROVE  /\ session'[u] <= taken /\ sender[session'[u]] = u
                      /\ ~ Used(session[u])' /\ Silent(session[u], taken)'
    BY <1>3 DEF SessionInv
  <2>1. CASE u = v
    BY <1>1, <1>3, <1>4, <1>6, <1>8, <2>1 DEF Silent
  <2>2. CASE u # v
    <3>1. /\ session[u] <= taken /\ sender[session[u]] = u
          /\ ~ Used(session[u]) /\ Silent(session[u], taken) /\ session[u] \in Photos
      BY <1>4, <2>2 DEF BotInv, SessionInv, TypeInv, TypeOK
    <3>2. QED
      BY <1>3, <1>4, <1>8, <2>2, <3>1 DEF Silent
  <2>3. QED
    BY <2>1, <2>2
<1>10. PairInv'
  BY <1>1, <1>2, <1>3, <1>4 DEF PairInv
<1>11. CarInv'
  <2>1. ASSUME NEW q \in Photos, session[sender[q]] = q, sender[q] \in Users
        PROVE  session'[sender[q]] = q
    BY <1>4, <1>6, <2>1 DEF NoPhoto, Photos
  <2>2. \A q \in Photos : told[q] # "nothing" => sender[q] \in Users
    BY <1>1, Numbers DEF TypeInv, CountInv, Untouched, Photos
  <2>3. \A q \in Photos : LostWith(q) => LostWith(q)'
    BY <1>1, <1>2, <1>3, LostStays DEF HasJob
  <2>4. CarPhotosAreKept'
    BY <1>2, <1>3, <2>1, <2>2, <2>3 DEF BotInv, CarInv, CarPhotosAreKept
  <2>5. QED
    BY <1>1, <1>2, <1>3, <1>4, <1>6, <2>4 DEF BotInv, CarInv
<1>12. QED
  BY <1>5, <1>7, <1>8, <1>9, <1>10, <1>11 DEF BotInv, TypeInv

(* The text that asks for a wheel is about the photo just stored.          *)
LEMMA AskForWheelStep ==
    ASSUME BotInv, AskForWheel
    PROVE  BotInv'
<1> DEFINE p == bot.photo
<1>1. /\ TypeInv /\ p = taken /\ p \in Photos /\ sender[p] \in Users /\ bot.at = "asking"
  BY InHand DEF AskForWheel, BotInv
<1>2. /\ bot' \in BotStates /\ bot'.at = "idle" /\ bot'.photo = NoPhoto
      /\ bot'.car = NoPhoto /\ bot'.polls = 0
      /\ told' = [told EXCEPT ![p] = "car_received"]
      /\ UNCHANGED <<sender, taken, session, left, job, carOf, copies, kept, faults>>
  BY Returns DEF AskForWheel, Return, Tell, redis, api
<1>3. TypeOK'
  BY <1>1, <1>2 DEF TypeInv, TypeOK
<1>4. \A q \in Photos : told'[q] = IF q = p THEN "car_received" ELSE told[q]
  BY <1>1, <1>2 DEF TypeInv, TypeOK
<1>5. HandlerInv' /\ CountInv'
  BY <1>1, <1>2, <1>4, Numbers DEF TypeInv, HandlerInv, CountInv, Untouched, Photos
<1>6. JobInv' /\ SessionInv' /\ PairInv'
  BY <1>1, <1>2, <1>4, Answer DEF Later
<1>7. CarInv'
  <2>1. \A q \in Photos : LostWith(q) => LostWith(q)'
    BY <1>1, <1>2, <1>4, LostStays, Numbers DEF HasJob
  <2>2. CarPhotosAreKept'
    BY <1>1, <1>2, <1>4, <2>1 DEF BotInv, CarInv, CarPhotosAreKept, NoPhoto, Photos
  <2>3. QED
    BY <1>2, <2>2 DEF CarInv
<1>8. QED
  BY <1>3, <1>5, <1>6, <1>7 DEF BotInv, TypeInv

(* DEL, after which nobody else can find the car.                          *)
LEMMA ClaimStep ==
    ASSUME BotInv, Claim
    PROVE  BotInv'
<1> DEFINE p == bot.photo
           v == sender[p]
<1>1. /\ TypeInv /\ p = taken /\ p \in Photos /\ v \in Users /\ bot.at = "claiming"
  BY InHand DEF Claim, Goto, BotInv
<1>2. /\ bot' \in BotStates /\ bot'.at = "posting"
      /\ bot'.photo = p /\ bot'.car = bot.car /\ bot'.polls = bot.polls
  BY <1>1, Moves DEF Claim, Goto, TypeInv
<1>3. /\ session' = [session EXCEPT ![v] = NoPhoto] /\ left' = [left EXCEPT ![v] = 0]
      /\ UNCHANGED <<sender, taken, job, carOf, told, copies, kept, faults>>
  BY DEF Claim, Delete, SessionOf, api, chat
<1>4. \A u \in Users : /\ session'[u] = IF u = v THEN NoPhoto ELSE session[u]
                       /\ left'[u] = IF u = v THEN 0 ELSE left[u]
  BY <1>1, <1>3 DEF TypeInv, TypeOK
<1>5. TypeOK'
  BY <1>1, <1>2, <1>3, BotAssumption DEF TypeInv, TypeOK, NoPhoto
<1>6. HandlerInv' /\ CountInv'
  BY <1>1, <1>2, <1>3, <1>4 DEF TypeInv, HandlerInv, CountInv, Untouched, NoPhoto, Photos
<1>7. JobInv' /\ \A q \in Photos : Used(q)' <=> Used(q)
  BY <1>1, <1>3, JobsKept, Numbers DEF HasJob
<1>8. SessionInv'
  BY <1>3, <1>4, <1>7 DEF BotInv, SessionInv, Silent, TypeInv, TypeOK
<1>9. bot.car \in Photos /\ ~ Used(p) /\ ~ Used(bot.car) /\ Silent(bot.car, p)
      /\ bot.car \in 1 .. p - 1 /\ sender[bot.car] = v
  BY <1>1, InHand DEF BotInv, PairInv, Photos, NoPhoto
<1>10. PairInv'
  <2>1. \A u \in Users : session'[u] # p
    BY <1>1, <1>4 DEF BotInv, PairInv, NoPhoto, Photos
  <2>2. ~ Used(bot.photo)' /\ ~ Used(bot.car)' /\ Silent(bot.car, bot.photo)'
    BY <1>1, <1>2, <1>3, <1>7, <1>9 DEF Silent
  <2>3. QED
    BY <1>1, <1>2, <1>3, <1>4, <1>9, <2>1, <2>2 DEF PairInv
<1>11. CarInv'
  <2>1. session[v] \in {NoPhoto, bot.car}
    BY <1>1 DEF BotInv, PairInv
  <2>2. ASSUME NEW q \in Photos, session[sender[q]] = q, sender[q] \in Users
        PROVE  session'[sender[q]] = q \/ bot'.car = q
    BY <1>2, <1>4, <2>1, <2>2 DEF NoPhoto, Photos
  <2>3. \A q \in Photos : told[q] # "nothing" => sender[q] \in Users
    BY <1>1, Numbers DEF TypeInv, CountInv, Untouched, Photos
  <2>4. \A q \in Photos : LostWith(q) => LostWith(q)'
    BY <1>1, <1>2, <1>3, LostStays, Numbers DEF HasJob
  <2>5. CarPhotosAreKept'
    BY <1>1, <1>2, <1>3, <2>2, <2>3, <2>4 DEF BotInv, CarInv, CarPhotosAreKept
  <2>6. QED
    BY <1>1, <1>2, <1>3, <2>5 DEF BotInv, CarInv
<1>12. QED
  BY <1>5, <1>6, <1>7, <1>8, <1>10, <1>11 DEF BotInv, TypeInv

(* The two photos in hand make one job, which nobody else can make.        *)
LEMMA PostStep ==
    ASSUME BotInv, Post
    PROVE  BotInv'
<1> DEFINE p == bot.photo
           c == bot.car
<1>1. /\ TypeInv /\ p = taken /\ p \in Photos /\ sender[p] \in Users /\ bot.at = "posting"
      /\ taken \in Int
  BY InHand, Numbers DEF Post, BotInv
<1>2. /\ c \in Photos /\ c \in 1 .. p - 1 /\ sender[c] = sender[p]
      /\ ~ Used(p) /\ ~ Used(c) /\ Silent(c, p) /\ ~ HasJob(p) /\ ~ HasJob(c)
      /\ session[sender[p]] = NoPhoto /\ \A u \in Users : session[u] # p
  <2>1. /\ c \in 1 .. p - 1 /\ sender[c] = sender[p]
        /\ ~ Used(p) /\ ~ Used(c) /\ Silent(c, p)
        /\ session[sender[p]] = NoPhoto /\ \A u \in Users : session[u] # p
    BY <1>1 DEF BotInv, PairInv
  <2>2. c \in Photos
    BY <1>1, <2>1, Numbers DEF Photos
  <2>3. QED
    BY <1>1, <2>1, <2>2 DEF Used
<1>3. /\ bot' \in BotStates /\ faults \subseteq faults' /\ faults' \subseteq FaultKinds
      /\ \/ /\ bot'.at \in {"sleeping", "refusing"}
            /\ bot'.photo = p /\ bot'.car = c /\ bot'.polls = bot.polls
         \/ /\ bot'.at = "idle" /\ bot'.photo = NoPhoto /\ bot'.car = NoPhoto
            /\ bot'.polls = 0 /\ "telegram" \in faults'
  BY <1>1, Moves, Returns, FaultType DEF Post, Goto, Return, TypeInv, TypeOK
<1>4. /\ job' = [job EXCEPT ![p] = "queued"] /\ carOf' = [carOf EXCEPT ![p] = c]
      /\ UNCHANGED <<sender, taken, session, left, told, copies, kept>>
  BY DEF Post, redis, chat
<1>5. \A w \in Photos : /\ HasJob(w)' <=> HasJob(w) \/ w = p
                        /\ carOf'[w] = IF w = p THEN c ELSE carOf[w]
  BY <1>1, <1>4 DEF TypeInv, TypeOK, HasJob
<1>6. TypeOK'
  BY <1>1, <1>2, <1>3, <1>4 DEF TypeInv, TypeOK
<1>7. HandlerInv' /\ CountInv'
  BY <1>1, <1>3, <1>4, BotAssumption
     DEF TypeInv, HandlerInv, CountInv, Untouched, NoPhoto, Photos
<1>8. \A q \in Photos : Used(q)' <=> Used(q) \/ q = p \/ q = c
  BY <1>1, <1>2, <1>5 DEF Used
<1>9. JobInv'
  <2>1. ASSUME NEW w \in Photos, HasJob(w)'
        PROVE  /\ w <= taken /\ carOf'[w] \in 1 .. w - 1
               /\ sender[carOf'[w]] = sender[w] /\ Silent(carOf[w], w - 1)'
    <3>1. CASE w = p
      BY <1>1, <1>2, <1>4, <1>5, <3>1 DEF Silent, Photos
    <3>2. CASE w # p
      BY <1>4, <1>5, <2>1, <3>2 DEF BotInv, JobInv, Silent
    <3>3. QED
      BY <3>1, <3>2
  <2>2. ASSUME NEW w \in Photos, HasJob(w)
        PROVE  w # p /\ w # c /\ carOf[w] # p /\ carOf[w] # c
    BY <1>2, <2>2 DEF Used
  <2>3. PhotoUsedOnce'
    BY <1>1, <1>2, <1>5, <2>2 DEF BotInv, JobInv, PhotoUsedOnce
  <2>4. \A w \in Photos : ~ HasJob(w)' => carOf'[w] = NoPhoto
    BY <1>5 DEF BotInv, JobInv
  <2>5. QED
    BY <1>4, <2>1, <2>3, <2>4 DEF JobInv
<1>10. SessionInv'
  <2> SUFFICES ASSUME NEW u \in Users, session[u] # NoPhoto
               PROVE  /\ session[u] <= taken /\ sender[session[u]] = u
                      /\ ~ Used(session[u])' /\ Silent(session[u], taken)'
    BY <1>4 DEF SessionInv
  <2>1. /\ session[u] <= taken /\ sender[session[u]] = u
        /\ ~ Used(session[u]) /\ Silent(session[u], taken) /\ session[u] \in Photos
    BY <1>1 DEF BotInv, SessionInv, TypeInv, TypeOK
  <2>2. session[u] # p /\ session[u] # c
    BY <1>2, <2>1
  <2>3. QED
    BY <1>4, <1>8, <2>1, <2>2 DEF Silent
<1>11. PairInv'
  BY <1>2, <1>3, <1>4 DEF PairInv
<1>12. CarInv'
  <2>1. ASSUME NEW q \in Photos, NEW w \in Photos, carOf[w] = q
        PROVE  carOf'[w] = q
    BY <1>2, <1>5, <2>1 DEF BotInv, JobInv, NoPhoto, Photos
  <2>2. carOf'[p] = c
    BY <1>1, <1>5
  <2>3. \A q \in Photos : LostWith(q) => LostWith(q)'
    BY <1>1, <1>3, <1>4, <1>5, LostStays
  <2>4. CarPhotosAreKept'
    BY <1>1, <1>4, <2>1, <2>2, <2>3 DEF BotInv, CarInv, CarPhotosAreKept
  <2>5. told[p] = "nothing"
    BY <1>1 DEF BotInv, CarInv
  <2>6. QED
    BY <1>3, <1>4, <2>2, <2>4, <2>5 DEF CarInv
<1>13. QED
  BY <1>6, <1>7, <1>9, <1>10, <1>11, <1>12 DEF BotInv, TypeInv

(* A refused POST made no job that the handler knows of.                   *)
LEMMA PostFailsStep ==
    ASSUME BotInv, PostFails
    PROVE  BotInv'
<1>1. TypeInv /\ bot.at = "posting" /\ bot.photo = taken /\ bot.photo \in Photos
  BY InHand DEF PostFails, Goto, BotInv
<1>2. /\ bot' \in BotStates /\ bot'.at = "refusing"
      /\ bot'.photo = bot.photo /\ bot'.car = bot.car /\ bot'.polls = bot.polls
      /\ faults' \subseteq FaultKinds /\ faults \subseteq faults' /\ "api" \in faults'
      /\ UNCHANGED <<sender, taken, session, left, job, carOf, told, copies, kept>>
  BY <1>1, Moves, FaultType DEF PostFails, Goto, TypeInv, redis, api, chat
<1>3. TypeOK'
  BY <1>1, <1>2 DEF TypeInv, TypeOK
<1>4. HandlerInv' /\ CountInv'
  BY <1>1, <1>2 DEF TypeInv, HandlerInv, CountInv, Untouched
<1>5. JobInv' /\ SessionInv' /\ PairInv'
  BY <1>1, <1>2, Quiet DEF Later, HasJob
<1>6. CarInv'
  <2>1. \A q \in Photos : LostWith(q) => LostWith(q)'
    BY <1>1, <1>2, LostStays, Numbers DEF HasJob
  <2>2. CarPhotosAreKept'
    BY <1>2, <2>1 DEF BotInv, CarInv, CarPhotosAreKept
  <2>3. /\ ~ Used(bot.photo) /\ told[bot.photo] = "nothing"
        /\ bot.car \in 1 .. bot.photo - 1 /\ sender[bot.car] = sender[bot.photo]
    BY <1>1 DEF BotInv, PairInv, CarInv
  <2>4. ~ HasJob(bot.photo)
    BY <1>1, <2>3 DEF Used
  <2>5. QED
    BY <1>2, <2>2, <2>3, <2>4 DEF CarInv, HasJob
<1>7. QED
  BY <1>3, <1>4, <1>5, <1>6 DEF BotInv, TypeInv

(* A text about the job ends the handler, after at most one copy of it.    *)
LEMMA Ends ==
    ASSUME BotInv, bot.at \in {"refusing", "awake", "late"}, Return,
           NEW text \in {"refused", "done", "processing_failed", "timeout"}, Tell(text),
           bot.at = "refusing" => text = "refused",
           \/ copies' = copies
           \/ bot.at = "awake" /\ copies' = [copies EXCEPT ![bot.photo] = @ + 1],
           UNCHANGED <<sender, taken, session, left, job, carOf, kept, faults>>
    PROVE  BotInv'
<1> DEFINE p == bot.photo
<1>1. /\ TypeInv /\ p = taken /\ p \in Photos
      /\ told' = [told EXCEPT ![p] = text]
  BY InHand DEF Tell, BotInv
<1>2. /\ bot' \in BotStates /\ bot'.at = "idle" /\ bot'.photo = NoPhoto
      /\ bot'.car = NoPhoto /\ bot'.polls = 0
  BY Returns DEF Return
<1>3. /\ copies' \in [Photos -> 0 .. MaxPolls]
      /\ \A q \in Photos : q # p => copies'[q] = copies[q]
      /\ "telegram" \notin faults => \A q \in Photos : copies'[q] <= 1
  <2>1. CASE copies' = copies
    BY <1>1, <2>1 DEF TypeInv, TypeOK, CountInv
  <2>2. CASE bot.at = "awake" /\ copies' = [copies EXCEPT ![p] = @ + 1]
    <3>1. /\ copies \in [Photos -> 0 .. MaxPolls] /\ copies[p] <= bot.polls
          /\ bot.polls < MaxPolls /\ bot.polls \in 0 .. MaxPolls
      BY <1>1, <2>2, InHand DEF TypeInv, TypeOK, HandlerInv, CountInv
    <3>2. copies[p] + 1 \in 0 .. MaxPolls
      BY <1>1, <3>1, BotAssumption
    <3>3. "telegram" \notin faults => copies[p] = 0
      BY <1>1, <2>2 DEF TypeInv, CountInv
    <3>4. "telegram" \notin faults => \A q \in Photos : copies[q] <= 1
      BY <1>1 DEF TypeInv, CountInv
    <3>5. QED
      BY <1>1, <2>2, <3>1, <3>2, <3>3, <3>4
  <2>3. QED
    BY <2>1, <2>2
<1>4. TypeOK'
  BY <1>1, <1>2, <1>3 DEF TypeInv, TypeOK
<1>5. \A q \in Photos : told'[q] = IF q = p THEN text ELSE told[q]
  BY <1>1 DEF TypeInv, TypeOK
<1>6. HandlerInv' /\ CountInv'
  BY <1>1, <1>2, <1>3, <1>5, Numbers DEF TypeInv, HandlerInv, CountInv, Untouched, Photos
<1>7. JobInv' /\ SessionInv' /\ PairInv'
  BY <1>1, <1>2, <1>5, Answer DEF Later
<1>8. CarInv'
  <2>1. \A q \in Photos : LostWith(q) => LostWith(q)'
    BY <1>1, <1>2, <1>5, LostStays, Numbers DEF HasJob
  <2>2. CASE carOf[p] = bot.car
    <3>1. CarPhotosAreKept'
      BY <1>1, <1>2, <1>5, <2>1, <2>2 DEF BotInv, CarInv, CarPhotosAreKept
    <3>2. QED
      BY <1>2, <3>1 DEF CarInv
  <2>3. ASSUME NEW n, n = p, NEW c, c = bot.car, carOf[n] # c
        PROVE  CarInv'
    <3>1. /\ bot.at = "refusing" /\ ~ HasJob(n) /\ "api" \in faults
          /\ c \in 1 .. n - 1 /\ sender[c] = sender[n]
      BY <2>3 DEF BotInv, CarInv
    <3>2. told'[n] = "refused"
      BY <1>1, <1>5, <2>3, <3>1
    <3>3. LostWith(c)'
      <4>1. ~ HasJob(n)' /\ taken' \in Int /\ taken <= taken'
        BY <1>1, <3>1, Numbers DEF HasJob
      <4>2. QED
        BY <1>2, <2>3, <3>1, <3>2, <4>1, LostNow
    <3>4. CarPhotosAreKept'
      BY <1>1, <1>2, <1>5, <2>1, <2>3, <3>3 DEF BotInv, CarInv, CarPhotosAreKept
    <3>5. QED
      BY <1>2, <3>4 DEF CarInv
  <2>4. QED
    BY <2>2, <2>3
<1>9. QED
  BY <1>4, <1>6, <1>7, <1>8 DEF BotInv, TypeInv

(* A poll finds the job unfinished, or finds nothing out.                  *)
LEMMA NextPolls ==
    ASSUME TypeInv, bot.at = "awake", NextPoll
    PROVE  /\ bot' \in BotStates /\ bot'.at \in {"sleeping", "late"}
           /\ bot'.photo = bot.photo /\ bot'.car = bot.car
           /\ bot'.polls = bot.polls + 1
           /\ bot'.at = "sleeping" => bot'.polls < MaxPolls
<1>1. bot.polls \in Int /\ 0 <= bot.polls /\ bot.polls < MaxPolls /\ MaxPolls \in Int
  BY BotAssumption DEF TypeInv, TypeOK, HandlerInv, BotStates
<1>2. bot \in BotStates
  BY DEF TypeInv, TypeOK
<1>3. CASE bot.polls + 1 < MaxPolls
  <2>1. bot' = [bot EXCEPT !.polls = bot.polls + 1, !.at = "sleeping"]
    BY <1>3 DEF NextPoll, OneMore
  <2>2. bot' = [at |-> "sleeping", photo |-> bot.photo, car |-> bot.car,
                polls |-> bot.polls + 1]
    BY <1>2, <2>1 DEF BotStates
  <2>3. bot.photo \in Photos \cup {NoPhoto} /\ bot.car \in Photos \cup {NoPhoto}
    BY <1>2 DEF BotStates
  <2>4. QED
    BY <1>1, <1>3, <2>2, <2>3 DEF BotStates
<1>4. CASE ~ (bot.polls + 1 < MaxPolls)
  <2>1. bot' = [bot EXCEPT !.polls = bot.polls + 1, !.at = "late"]
    BY <1>4 DEF NextPoll, OneMore
  <2>2. bot' = [at |-> "late", photo |-> bot.photo, car |-> bot.car,
                polls |-> bot.polls + 1]
    BY <1>2, <2>1 DEF BotStates
  <2>3. bot.photo \in Photos \cup {NoPhoto} /\ bot.car \in Photos \cup {NoPhoto}
    BY <1>2 DEF BotStates
  <2>4. QED
    BY <1>1, <1>4, <2>2, <2>3 DEF BotStates
<1>5. QED
  BY <1>3, <1>4

(* The loop goes on, with a copy sent only if Telegram failed afterwards.  *)
LEMMA GoesOn ==
    ASSUME BotInv, bot.at = "awake", NextPoll,
           faults \subseteq faults', faults' \subseteq FaultKinds,
           \/ copies' = copies
           \/ copies' = [copies EXCEPT ![bot.photo] = @ + 1] /\ "telegram" \in faults',
           UNCHANGED <<sender, taken, session, left, job, carOf, told, kept>>
    PROVE  BotInv'
<1> DEFINE p == bot.photo
<1>1. TypeInv /\ p = taken /\ p \in Photos
  BY InHand DEF BotInv
<1>2. /\ bot' \in BotStates /\ bot'.at \in {"sleeping", "late"}
      /\ bot'.photo = p /\ bot'.car = bot.car /\ bot'.polls = bot.polls + 1
      /\ bot'.at = "sleeping" => bot'.polls < MaxPolls
  BY <1>1, NextPolls
<1>3. /\ copies \in [Photos -> 0 .. MaxPolls] /\ copies[p] <= bot.polls
      /\ bot.polls < MaxPolls /\ bot.polls \in 0 .. MaxPolls
  BY <1>1, InHand DEF TypeInv, TypeOK, HandlerInv, CountInv
<1>4. copies[p] + 1 \in 0 .. MaxPolls
  BY <1>1, <1>3, BotAssumption
<1>5. /\ copies' \in [Photos -> 0 .. MaxPolls]
      /\ \A q \in Photos : q # p => copies'[q] = copies[q]
      /\ copies'[p] <= copies[p] + 1
      /\ "telegram" \notin faults' => copies' = copies
  BY <1>1, <1>3, <1>4
<1>6. TypeOK'
  BY <1>1, <1>2, <1>5 DEF TypeInv, TypeOK
<1>7. HandlerInv'
  BY <1>1, <1>2 DEF TypeInv, HandlerInv, NoPhoto, Photos
<1>8. CountInv'
  <2>1. copies'[p] <= bot.polls + 1
    BY <1>1, <1>3, <1>5
  <2>2. \A q \in Photos : Untouched(q)' => Untouched(q) /\ q # p
    BY <1>1, <1>2, Numbers DEF Untouched
  <2>3. \A q \in Photos : Untouched(q)' =>
           copies'[q] = 0 /\ kept[q] = 0 /\ told[q] = "nothing"
    BY <1>1, <1>5, <2>2 DEF TypeInv, CountInv
  <2>4. "telegram" \notin faults' => (\A q \in Photos : copies'[q] <= 1) /\ copies'[p] = 0
    BY <1>1, <1>5 DEF TypeInv, CountInv
  <2>5. QED
    BY <1>1, <1>2, <2>1, <2>3, <2>4 DEF TypeInv, CountInv
<1>9. JobInv' /\ SessionInv' /\ PairInv'
  BY <1>1, <1>2, Quiet DEF Later, HasJob
<1>10. CarInv'
  BY <1>2, CarsStay DEF HasJob
<1>11. QED
  BY <1>6, <1>7, <1>8, <1>9, <1>10 DEF BotInv, TypeInv

(* The answers of handle_photo when it has no job, or has it no longer.    *)
LEMMA TellStep ==
    ASSUME BotInv, Refuse \/ TimeOut
    PROVE  BotInv'
  BY Ends DEF Refuse, TimeOut, redis, api

(* The loop goes on without a copy sent.                                   *)
LEMMA PollAgainStep ==
    ASSUME BotInv, PollAgain
    PROVE  BotInv'
<1>1. faults \subseteq faults' /\ faults' \subseteq FaultKinds
  BY FaultType DEF PollAgain, BotInv, TypeInv, TypeOK
<1>2. QED
  BY <1>1, GoesOn DEF PollAgain, redis, api, chat

(* A copy ends the loop, or Telegram has failed.                           *)
LEMMA DeliverStep ==
    ASSUME BotInv, Deliver
    PROVE  BotInv'
<1>1. bot.at = "awake" /\ UNCHANGED <<sender, taken, session, left, job, carOf, kept>>
  BY DEF Deliver, redis, api
<1>2. CASE /\ copies' = [copies EXCEPT ![bot.photo] = @ + 1]
           /\ EndLoop /\ Tell("done") /\ UNCHANGED faults
  BY <1>1, <1>2, Ends DEF EndLoop
<1>3. CASE /\ \/ copies' = copies
              \/ copies' = [copies EXCEPT ![bot.photo] = @ + 1]
           /\ NextPoll /\ Fault("telegram") /\ UNCHANGED told
  <2>1. faults \subseteq faults' /\ faults' \subseteq FaultKinds /\ "telegram" \in faults'
    BY <1>3, FaultType DEF BotInv, TypeInv
  <2>2. QED
    BY <1>1, <1>3, <2>1, GoesOn
<1>4. QED
  BY <1>2, <1>3 DEF Deliver, chat

(* So does the text that the job has failed.                               *)
LEMMA ReportFailureStep ==
    ASSUME BotInv, ReportFailure
    PROVE  BotInv'
<1>1. /\ bot.at = "awake"
      /\ UNCHANGED <<sender, taken, session, left, job, carOf, copies, kept>>
  BY DEF ReportFailure, redis, api
<1>2. CASE EndLoop /\ Tell("processing_failed") /\ UNCHANGED faults
  BY <1>1, <1>2, Ends DEF EndLoop
<1>3. CASE NextPoll /\ Fault("telegram") /\ UNCHANGED told
  <2>1. faults \subseteq faults' /\ faults' \subseteq FaultKinds
    BY <1>3, FaultType DEF BotInv, TypeInv
  <2>2. QED
    BY <1>1, <1>3, <2>1, GoesOn
<1>4. QED
  BY <1>2, <1>3 DEF ReportFailure

(* A handler that is given up loses at most the car it had taken out.      *)
LEMMA GivesUp ==
    ASSUME BotInv, UNCHANGED <<sender, session, job, carOf, told, kept>>,
           faults \subseteq faults', taken' \in Int, taken <= taken',
           bot'.at = "idle", bot'.photo = NoPhoto,
           bot.at \in {"posting", "refusing"} => faults' \cap {"telegram", "stop"} # {}
    PROVE  CarInv'
<1>1. \A q \in Photos : LostWith(q) => LostWith(q)'
  BY LostStays, Numbers DEF BotInv, HasJob
<1>2. ASSUME NEW q \in Photos, bot.car = q, NEW p, bot.photo = p
      PROVE  \/ session[sender[q]] = q
             \/ \E w \in Photos : carOf[w] = q
             \/ kept[q] = SessionTTL
             \/ LostWith(q)'
  <2>1. /\ bot.at # "idle" /\ p \in Photos /\ q # NoPhoto
        /\ told[p] = "nothing"
    BY <1>2, InHand DEF BotInv, TypeInv, HandlerInv, CarInv, NoPhoto, Photos
  <2>2. CASE bot.at \in {"remembering", "asking"}
    BY <1>2, <2>1, <2>2 DEF BotInv, CarInv
  <2>3. CASE bot.at = "claiming"
    BY <1>2, <2>3 DEF BotInv, CarInv, PairInv
  <2>4. CASE bot.at \in {"sleeping", "awake", "late"}
    BY <1>2, <2>1, <2>4 DEF BotInv, CarInv
  <2>5. CASE bot.at = "posting"
    <3>1. /\ ~ Used(p) /\ q \in 1 .. p - 1
          /\ sender[q] = sender[p]
      BY <1>2, <2>5 DEF BotInv, PairInv
    <3>2. ~ HasJob(p)'
      BY <2>1, <3>1 DEF Used, HasJob
    <3>3. QED
      BY <1>2, <2>1, <2>5, <3>1, <3>2, LostNow
  <2>6. CASE bot.at = "refusing"
    <3>1. CASE carOf[p] = q
      BY <1>2, <2>1, <3>1
    <3>2. CASE carOf[p] # q
      <4>1. /\ ~ HasJob(p)' /\ q \in 1 .. p - 1
            /\ sender[q] = sender[p]
        BY <1>2, <2>6, <3>2 DEF BotInv, CarInv, HasJob
      <4>2. QED
        BY <1>2, <2>1, <2>6, <4>1, LostNow
    <3>3. QED
      BY <3>1, <3>2
  <2>7. QED
    BY <2>1, <2>2, <2>3, <2>4, <2>5, <2>6 DEF BotInv, TypeInv, TypeOK, BotStates
<1>3. CarPhotosAreKept'
  BY <1>1, <1>2 DEF BotInv, CarInv, CarPhotosAreKept
<1>4. QED
  BY <1>3 DEF CarInv

(* A handler that raises, or stops, leaves what it stored behind.          *)
LEMMA AbandonStep ==
    ASSUME BotInv, Abandon
    PROVE  BotInv'
<1>1. TypeInv
  BY DEF BotInv
<1>2. /\ bot' \in BotStates /\ bot'.at = "idle" /\ bot'.photo = NoPhoto
      /\ bot'.car = NoPhoto /\ bot'.polls = 0
      /\ UNCHANGED <<sender, taken, session, left, job, carOf, told, copies, kept>>
  BY Returns DEF Abandon, Return, redis, api, chat
<1>3. /\ faults' \subseteq FaultKinds /\ faults \subseteq faults'
      /\ faults' \cap {"telegram", "redis"} # {}
  BY <1>1, FaultType DEF Abandon, TypeInv
<1>4. TypeOK'
  BY <1>1, <1>2, <1>3 DEF TypeInv, TypeOK
<1>5. HandlerInv' /\ CountInv'
  BY <1>1, <1>2, <1>3 DEF TypeInv, HandlerInv, CountInv, Untouched, NoPhoto, Photos
<1>6. JobInv' /\ SessionInv' /\ PairInv'
  BY <1>1, <1>2, Quiet DEF HasJob
<1>7. CarInv'
  <2>1. bot.at \in {"posting", "refusing"} => "telegram" \in faults'
    BY <1>1, FaultType DEF Abandon, TypeInv
  <2>2. bot.at \in {"remembering", "asking", "claiming", "posting", "refusing", "late"}
    BY DEF Abandon
  <2>3. QED
    BY <1>2, <1>3, <2>1, <2>2, GivesUp, Numbers DEF BotInv, HasJob
<1>8. QED
  BY <1>4, <1>5, <1>6, <1>7 DEF BotInv, TypeInv

(* The end of a job is seen by nobody but the next poll.                   *)
LEMMA FinishStep ==
    ASSUME BotInv, NEW p \in Photos, Finish(p)
    PROVE  BotInv'
<1>1. /\ TypeInv
      /\ UNCHANGED <<sender, taken, session, left, bot, carOf, told, copies, kept, faults>>
  BY DEF Finish, redis, chat, BotInv
<1>2. PICK s \in {"completed", "failed"} : job' = [job EXCEPT ![p] = s]
  BY DEF Finish
<1>3. TypeOK' /\ \A q \in Photos : HasJob(q)' <=> HasJob(q)
  BY <1>1, <1>2 DEF Finish, TypeInv, TypeOK, HasJob
<1>4. HandlerInv' /\ CountInv'
  BY <1>1 DEF TypeInv, HandlerInv, CountInv, Untouched
<1>5. JobInv' /\ SessionInv' /\ PairInv'
  BY <1>1, <1>3, Quiet
<1>6. CarInv'
  BY <1>1, <1>3, CarsStay
<1>7. QED
  BY <1>3, <1>4, <1>5, <1>6 DEF BotInv, TypeInv

(* The bot forgets its handler, and perhaps photos it was sent.            *)
LEMMA RestartStep ==
    ASSUME BotInv, Restart
    PROVE  BotInv'
<1>1. TypeInv
  BY DEF BotInv
<1>2. /\ bot' \in BotStates /\ bot'.at = "idle" /\ bot'.photo = NoPhoto
      /\ bot'.car = NoPhoto /\ bot'.polls = 0
      /\ UNCHANGED <<sender, session, left, job, carOf, told, copies, kept>>
  BY Returns DEF Restart, Return, redis, api, chat
<1>3. /\ faults' \subseteq FaultKinds /\ faults \subseteq faults' /\ "stop" \in faults'
  BY <1>1, FaultType DEF Restart, TypeInv
<1>4. taken' \in Int /\ taken <= taken' /\ taken' <= Len(sender) /\ taken \in Int
  BY <1>1, Numbers DEF Restart
<1>5. TypeOK'
  BY <1>1, <1>2, <1>3, <1>4, Numbers DEF TypeInv, TypeOK
<1>6. HandlerInv' /\ CountInv'
  <2>1. \A p \in Photos : Untouched(p)' => Untouched(p)
    BY <1>2, <1>4 DEF Untouched, Photos
  <2>2. QED
    BY <1>1, <1>2, <1>3, <2>1 DEF TypeInv, HandlerInv, CountInv
<1>7. JobInv' /\ \A p \in Photos : Used(p)' <=> Used(p)
  BY <1>2, <1>4, JobsKept DEF HasJob
<1>8. \A p \in taken + 1 .. taken' : p \in Photos /\ told[p] = "nothing"
  BY <1>1, <1>4, Numbers DEF TypeInv, CountInv, Untouched, Photos
<1>9. SessionInv'
  <2> SUFFICES ASSUME NEW u \in Users, session[u] # NoPhoto
               PROVE  /\ session[u] <= taken' /\ sender[session[u]] = u
                      /\ ~ Used(session[u])' /\ Silent(session[u], taken)'
    BY <1>2 DEF SessionInv
  <2>1. /\ session[u] <= taken /\ sender[session[u]] = u
        /\ ~ Used(session[u]) /\ Silent(session[u], taken) /\ session[u] \in Photos
    BY <1>1 DEF BotInv, SessionInv, TypeInv, TypeOK
  <2>2. QED
    BY <1>2, <1>4, <1>7, <1>8, <2>1 DEF Silent, Photos
<1>10. PairInv'
  BY <1>2 DEF PairInv
<1>11. CarInv'
  BY <1>2, <1>3, <1>4, GivesUp
<1>12. QED
  BY <1>5, <1>6, <1>7, <1>9, <1>10, <1>11 DEF BotInv, TypeInv

(* Sessions age, and what they keep ages with them.                        *)
LEMMA TickStep ==
    ASSUME BotInv, Tick
    PROVE  BotInv'
<1> DEFINE Open(p) == \E u \in Users : session[u] = p
<1>1. TypeInv
  BY DEF BotInv
<1>2. /\ \A u \in Users : left[u] \in 0 .. SessionTTL /\ session[u] \in Photos \cup {NoPhoto}
      /\ \A p \in Photos : kept[p] \in 0 .. SessionTTL
      /\ SessionTTL \in Int /\ 0 < SessionTTL
  BY <1>1, BotAssumption DEF TypeInv, TypeOK
<1>3. /\ \A u \in Users : /\ left'[u] = IF left[u] > 0 THEN left[u] - 1 ELSE 0
                          /\ session'[u] = IF left'[u] = 0 THEN NoPhoto ELSE session[u]
      /\ \A p \in Photos : kept'[p] = IF Open(p) THEN kept[p] + 1 ELSE kept[p]
      /\ left' \in [Users -> 0 .. SessionTTL]
      /\ session' \in [Users -> Photos \cup {NoPhoto}]
      /\ UNCHANGED <<sender, taken, job, carOf, told, copies, faults>>
  <2>1. left' = [u \in Users |-> IF left[u] > 0 THEN left[u] - 1 ELSE 0]
    BY DEF Tick
  <2>2. session' = [u \in Users |-> IF left'[u] = 0 THEN NoPhoto ELSE session[u]]
    BY DEF Tick
  <2>3. kept' = [p \in Photos |-> IF Open(p) THEN kept[p] + 1 ELSE kept[p]]
    BY DEF Tick
  <2>4. UNCHANGED <<sender, taken, job, carOf, told, copies, faults>>
    BY DEF Tick, api, chat
  <2>5. QED
    BY <1>2, <2>1, <2>2, <2>3, <2>4
<1>4. \A u \in Users : /\ session[u] = NoPhoto <=> left[u] = 0
                       /\ session[u] # NoPhoto => kept[session[u]] + left[u] = SessionTTL
  BY <1>1 DEF TypeInv, CountInv
<1>5. \A p \in Photos : Open(p) => kept[p] < SessionTTL
  BY <1>2, <1>4 DEF NoPhoto, Photos
<1>6. kept' \in [Photos -> 0 .. SessionTTL]
  <2>1. kept' = [p \in Photos |-> IF Open(p) THEN kept[p] + 1 ELSE kept[p]]
    BY DEF Tick
  <2>2. QED
    BY <1>2, <1>5, <2>1
<1>7. /\ bot' \in BotStates
      /\ bot'.photo = bot.photo /\ bot'.car = bot.car /\ bot'.polls = bot.polls
      /\ bot'.at = IF bot.at = "sleeping" THEN "awake" ELSE bot.at
  BY <1>1, Moves DEF Tick, TypeInv, TypeOK
<1>8. TypeOK'
  BY <1>1, <1>3, <1>6, <1>7 DEF TypeInv, TypeOK
<1>9. HandlerInv'
  BY <1>1, <1>3, <1>7 DEF TypeInv, HandlerInv
<1>10. CountInv'
  <2>1. ASSUME NEW p \in Photos, Untouched(p)'
        PROVE  copies[p] = 0 /\ kept'[p] = 0 /\ told[p] = "nothing"
    <3>1. Untouched(p)
      BY <1>3, <1>7, <2>1 DEF Untouched
    <3>2. ~ Open(p)
      BY <1>1, <1>2, <3>1, Numbers DEF Untouched, BotInv, SessionInv, PairInv, Photos, NoPhoto
    <3>3. QED
      BY <1>1, <1>3, <3>1, <3>2 DEF TypeInv, CountInv
  <2>2. ASSUME NEW u \in Users
        PROVE  /\ session'[u] = NoPhoto <=> left'[u] = 0
               /\ session'[u] # NoPhoto => kept'[session'[u]] + left'[u] = SessionTTL
    BY <1>2, <1>3, <1>4 DEF NoPhoto, Photos
  <2>3. QED
    BY <1>1, <1>3, <1>7, <2>1, <2>2 DEF TypeInv, CountInv
<1>11. JobInv' /\ \A p \in Photos : Used(p)' <=> Used(p)
  BY <1>1, <1>3, JobsKept, Numbers DEF HasJob
<1>12. SessionInv'
  BY <1>1, <1>3, <1>11 DEF BotInv, SessionInv, Silent, TypeInv, TypeOK
<1>13. \A u \in Users : session'[u] \in {NoPhoto, session[u]}
  BY <1>3
<1>14. PairInv'
  <2>1. CASE bot.at = "idle"
    BY <1>7, <2>1 DEF PairInv
  <2>2. CASE bot.at # "idle"
    <3>1. bot.photo \in Photos /\ sender[bot.photo] \in Users
      BY <1>1, <2>2, InHand
    <3>2. bot.at \in {"claiming", "posting"} => bot.car \in Photos
      BY <1>1, InHand DEF BotInv, PairInv, NoPhoto, Photos
    <3>3. bot.at \in {"remembering", "claiming", "posting"} =>
             ~ Used(bot.photo)' /\ \A u \in Users : session'[u] # bot'.photo
      BY <1>7, <1>11, <1>13, <3>1 DEF BotInv, PairInv, NoPhoto, Photos
    <3>4. bot.at \in {"claiming", "posting"} =>
             /\ bot.car \in 1 .. bot.photo - 1 /\ sender[bot.car] = sender[bot.photo]
             /\ ~ Used(bot.car)' /\ Silent(bot.car, bot.photo)'
      BY <1>3, <1>7, <1>11, <3>2 DEF BotInv, PairInv, Silent
    <3>5. QED
      BY <1>3, <1>7, <1>13, <3>1, <3>3, <3>4 DEF BotInv, PairInv
  <2>3. QED
    BY <2>1, <2>2
<1>15. CarInv'
  <2>1. ASSUME NEW p \in Photos, sender[p] \in Users,
               session[sender[p]] = p \/ kept[p] = SessionTTL
        PROVE  session'[sender[p]] = p \/ kept'[p] = SessionTTL
    <3>1. CASE session[sender[p]] = p /\ left[sender[p]] = 1
      BY <1>2, <1>3, <1>4, <2>1, <3>1 DEF NoPhoto, Photos
    <3>2. CASE session[sender[p]] = p /\ left[sender[p]] # 1
      BY <1>2, <1>3, <1>4, <2>1, <3>2 DEF NoPhoto, Photos
    <3>3. CASE kept[p] = SessionTTL
      <4>1. ~ Open(p)
        BY <1>2, <1>5, <3>3
      <4>2. kept'[p] = kept[p]
        BY <1>3, <4>1
      <4>3. QED
        BY <3>3, <4>2
    <3>4. QED
      BY <2>1, <3>1, <3>2, <3>3
  <2>2. \A p \in Photos : told[p] # "nothing" => sender[p] \in Users
    BY <1>1, Numbers DEF TypeInv, CountInv, Untouched, Photos
  <2>3. \A q \in Photos : LostWith(q) => LostWith(q)'
    BY <1>1, <1>3, <1>7, LostStays, Numbers DEF HasJob
  <2>4. CarPhotosAreKept'
    BY <1>3, <1>7, <2>1, <2>2, <2>3 DEF BotInv, CarInv, CarPhotosAreKept
  <2>5. bot.at = "asking" =>
           session'[sender[bot.photo]] = bot.photo \/ kept'[bot.photo] = SessionTTL
    BY <1>1, <2>1, InHand DEF BotInv, CarInv
  <2>6. bot.at = "claiming" =>
           session'[sender[bot.photo]] = bot.car \/ kept'[bot.car] = SessionTTL
    <3> SUFFICES ASSUME bot.at = "claiming"
                 PROVE  session'[sender[bot.photo]] = bot.car \/ kept'[bot.car] = SessionTTL
      OBVIOUS
    <3>1. /\ sender[bot.car] = sender[bot.photo] /\ bot.car \in Photos
          /\ sender[bot.photo] \in Users
      BY <1>1, InHand DEF BotInv, PairInv, NoPhoto, Photos
    <3>2. session[sender[bot.car]] = bot.car \/ kept[bot.car] = SessionTTL
      BY <3>1 DEF BotInv, CarInv
    <3>3. QED
      BY <2>1, <3>1, <3>2
  <2>7. bot.at # "idle" => bot.photo \in Photos
    BY <1>1, InHand
  <2>8. QED
    BY <1>3, <1>7, <2>4, <2>5, <2>6, <2>7 DEF BotInv, CarInv, HasJob
<1>16. QED
  BY <1>8, <1>9, <1>10, <1>11, <1>12, <1>14, <1>15 DEF BotInv, TypeInv

(* A step of another component changes nothing.                            *)
LEMMA Stutter ==
    ASSUME BotInv, UNCHANGED vars
    PROVE  BotInv'
<1>1. UNCHANGED <<sender, taken, session, left, bot, job, carOf, told, copies, kept, faults>>
  BY DEF vars, redis, api, chat
<1>2. TypeInv'
  BY <1>1 DEF BotInv, TypeInv, TypeOK, HandlerInv, CountInv, Untouched
<1>3. JobInv' /\ SessionInv' /\ PairInv'
  BY <1>1, Quiet DEF HasJob
<1>4. CarInv'
  BY <1>1, CarsStay DEF HasJob
<1>5. QED
  BY <1>2, <1>3, <1>4 DEF BotInv

-----------------------------------------------------------------------------
(* The theorems                                                            *)

(* Nobody has sent anything at first.                                      *)
LEMMA BotInit == Init => BotInv
<1> SUFFICES ASSUME Init PROVE BotInv
  OBVIOUS
<1>1. /\ sender = <<>> /\ Len(sender) = 0 /\ taken = 0 /\ bot \in BotStates
      /\ bot.at = "idle" /\ bot.photo = NoPhoto /\ bot.car = NoPhoto /\ bot.polls = 0
      /\ \A u \in Users : session[u] = NoPhoto /\ left[u] = 0
      /\ \A p \in Photos : /\ ~ HasJob(p) /\ carOf[p] = NoPhoto /\ told[p] = "nothing"
                           /\ copies[p] = 0 /\ kept[p] = 0
  BY BotAssumption DEF Init, Idle, BotStates, HasJob
<1>2. TypeOK
  BY <1>1, BotAssumption DEF Init, TypeOK, NoPhoto
<1>3. HandlerInv /\ CountInv
  BY <1>1 DEF HandlerInv, CountInv
<1>4. JobInv /\ SessionInv /\ PairInv
  BY <1>1 DEF JobInv, PhotoUsedOnce, SessionInv, PairInv
<1>5. CarInv
  BY <1>1 DEF CarInv, CarPhotosAreKept
<1>6. QED
  BY <1>2, <1>3, <1>4, <1>5 DEF BotInv, TypeInv

(* BotInv is an invariant of the dialogue.                                 *)
THEOREM BotInvariant == Spec => []BotInv
<1>1. ASSUME BotInv, Handler
      PROVE  BotInv'
  BY <1>1, ReceiveStep, RememberStep, AskForWheelStep, ClaimStep, PostStep, PostFailsStep,
     TellStep, PollAgainStep, DeliverStep, ReportFailureStep, AbandonStep DEF Handler
<1>2. BotInv /\ [Next]_vars => BotInv'
  BY <1>1, SendStep, FinishStep, TickStep, RestartStep, Stutter DEF Next
<1>3. QED
  BY BotInit, <1>2, PTL DEF Spec

(* Every variable keeps its type: no counter leaves its bound.             *)
THEOREM BotTypes == Spec => []TypeOK
<1>1. BotInv => TypeOK
  BY DEF BotInv, TypeInv
<1>2. QED
  BY BotInvariant, <1>1, PTL

(* Every job is of a car and the wheel its sender sent next, whatever      *)
(* expires, fails or stops in between.                                     *)
THEOREM JobsAreWellPaired == Spec => []JobsPairPhotos
<1>1. BotInv => JobsPairPhotos
  BY DEF BotInv, JobInv, Silent, JobsPairPhotos
<1>2. QED
  BY BotInvariant, <1>1, PTL

(* No photo is paid for in two jobs.                                       *)
THEOREM PhotosAreUsedOnce == Spec => []PhotoUsedOnce
<1>1. BotInv => PhotoUsedOnce
  BY DEF BotInv, JobInv
<1>2. QED
  BY BotInvariant, <1>1, PTL

(* Without a fault of Telegram no render is sent twice.                    *)
THEOREM RendersAreSentOnce == Spec => []SentOnce
<1>1. BotInv => SentOnce
  BY DEF BotInv, TypeInv, CountInv, SentOnce
<1>2. QED
  BY BotInvariant, <1>1, PTL

(* Whatever fails or stops, a car photo waits for its wheel as long as     *)
(* promised, or is lost with the wheel that came for it.                   *)
THEOREM CarsWaitForWheels == Spec => []CarPhotosAreKept
<1>1. BotInv => CarPhotosAreKept
  BY DEF BotInv, CarInv, CarPhotosAreKept
<1>2. QED
  BY BotInvariant, <1>1, PTL
=============================================================================
