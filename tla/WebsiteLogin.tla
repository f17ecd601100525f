---------------------------- MODULE WebsiteLogin ----------------------------
(***************************************************************************)
(* How a browser tab on the website becomes a user: loginWithTelegram of   *)
(* webapp/app.js, the two handlers of src/auth_api.py, the checks and the  *)
(* cached key set of src/auth.py, and ensure_user of src/users_service.py. *)
(* Telegram, which signs the id_token and changes its keys, and the popup  *)
(* in which the user confirms are external.  Times are ages or remaining   *)
(* times in clock ticks, kept only as far as a check can tell; those of    *)
(* the id_token and the nonce_token are not kept, they may be over at any  *)
(* moment.                                                                 *)
(***************************************************************************)
EXTENDS Integers, FiniteSets

CONSTANTS
    Tabs,       (* browser tabs on the website                             *)
    Users,      (* Telegram users                                          *)
    Visitors,   (* those of them who log in on the website                 *)
    NoUser,
    MaxKey,     (* Telegram signs with the keys 1 .. MaxKey in turn        *)
    JwksTtl,    (* _JWKS_CACHE_TTL_SEC                                     *)
    TokenTtl,   (* TELEGRAM_AUTH_TOKEN_TTL_SEC                             *)
    InitDataAge,(* INIT_DATA_MAX_AGE_SEC                                   *)
    DevAuth     (* WEBAPP_DEV_AUTH_ENABLED                                 *)

ASSUME LoginAssumption ==
    /\ NoUser \notin Users
    /\ Visitors \subseteq Users
    /\ MaxKey \in Nat \ {0}
    /\ {JwksTtl, TokenTtl, InitDataAge} \subseteq Nat
    /\ JwksTtl > 0
    /\ DevAuth \in BOOLEAN

VARIABLES
    signing,    (* the key Telegram signs with                             *)
    published,  (* the keys its JWKS document lists                        *)
    since,      (* ticks since that list last changed, at most Long        *)
    cache,      (* _JWKS_CACHE, and the time until _JWKS_CACHE_EXPIRES_AT  *)
    rows,       (* the users with a row in users                           *)
    tab         (* where each tab's login is, in the tab or in the server  *)

telegram == <<signing, published, since>>
vars     == <<telegram, cache, rows, tab>>

Keys  == 1 .. MaxKey
Known == Users \cup {NoUser}

(* Ages are counted up to the first one no check tells from a higher one.  *)
Long == JwksTtl + 1
Older(age, limit) == IF age < limit THEN age + 1 ELSE limit

EmptyCache == [keys |-> {}, left |-> 0]

(* A login: who confirmed, the key of the id_token, whether its nonce is   *)
(* this login's, the age of the JWKS request and what it was answered, the *)
(* age of the access token and the time the tab gives it.                  *)
(* unsigned: the last login was refused for its signature.                 *)
SignedOut ==
    [at |-> "out", who |-> NoUser, key |-> 0, mine |-> FALSE, asked |-> 0,
     got |-> {}, token |-> 0, left |-> 0, unsigned |-> FALSE]

Ends(t) == tab' = [tab EXCEPT ![t] = SignedOut]

Init ==
    /\ signing = 1 /\ published = {1} /\ since = Long
    /\ cache = EmptyCache
    /\ rows = {}
    /\ tab = [t \in Tabs |-> SignedOut]

-----------------------------------------------------------------------------
(* The tab.                                                                *)

(* GET /auth/telegram/nonce and the popup.  The tab's button is disabled   *)
(* until the login has ended.                                              *)
StartLogin(t) ==
    /\ tab[t].at = "out"
    /\ tab' = [tab EXCEPT ![t] = [SignedOut EXCEPT !.at = "popup"]]
    /\ UNCHANGED <<telegram, cache, rows>>

(* The library reports an error, or its script does not load.              *)
GiveUp(t) ==
    /\ tab[t].at = "popup"
    /\ Ends(t)
    /\ UNCHANGED <<telegram, cache, rows>>

(* A user confirms in this login's popup, or in one that an earlier login  *)
(* left open, and the tab holds the id_token.                              *)
Confirm(t, u, mine) ==
    /\ tab[t].at = "popup"
    /\ tab' = [tab EXCEPT ![t] = [@ EXCEPT !.at = "confirmed", !.who = u,
                   !.key = signing, !.mine = mine]]
    /\ UNCHANGED <<telegram, cache, rows>>

(* The answer arrives and the tab counts expires_in from now on.           *)
Receive(t) ==
    /\ tab[t].at = "issued"
    /\ tab' = [tab EXCEPT ![t] = [@ EXCEPT !.at = "in", !.left = TokenTtl]]
    /\ UNCHANGED <<telegram, cache, rows>>

(* getWebsiteAuthToken finds it over, or the user logs out.                *)
LogOut(t) ==
    /\ tab[t].at = "in"
    /\ Ends(t)
    /\ UNCHANGED <<telegram, cache, rows>>

-----------------------------------------------------------------------------
(* POST /auth/telegram/verify-id-token: verify_telegram_login_id_token.    *)

(* The nonce in the nonce_token is not the one Telegram signed; the first  *)
(* is a mutant.                                                            *)
NonceUnread(l) == FALSE
NonceFails(l)  == ~l.mine

(* The checks once there is a key set, in their order; over says whether   *)
(* exp, iat or the age of the nonce_token stands against the login.        *)
Verdict(l, keys, over) ==
    IF l.key \notin keys THEN "signature"
    ELSE IF over THEN "over"
    ELSE IF NonceFails(l) THEN "nonce" ELSE "genuine"

Decide(t, keys) ==
    \E over \in BOOLEAN :
        LET v == Verdict(tab[t], keys, over)
        IN  tab' = [tab EXCEPT ![t] =
                       IF v = "genuine"
                       THEN [SignedOut EXCEPT !.at = "saving",
                                              !.who = tab[t].who,
                                              !.mine = tab[t].mine]
                       ELSE [SignedOut EXCEPT !.unsigned = (v = "signature")]]

CacheValid == cache.keys # {} /\ cache.left > 0

VerifyCached(t) ==
    /\ tab[t].at = "confirmed"
    /\ CacheValid
    /\ Decide(t, cache.keys)
    /\ UNCHANGED <<telegram, cache, rows>>

(* now is read, then the request is sent: asked counts from here.          *)
VerifyFetch(t) ==
    /\ tab[t].at = "confirmed"
    /\ ~CacheValid
    /\ tab' = [tab EXCEPT ![t].at = "fetching"]
    /\ UNCHANGED <<telegram, cache, rows>>

Served(t) ==
    /\ tab[t].at = "fetching"
    /\ tab' = [tab EXCEPT ![t] = [@ EXCEPT !.at = "served", !.got = published]]
    /\ UNCHANGED <<telegram, cache, rows>>

(* What is left of the time to live when the answer comes; the first two   *)
(* are mutants.                                                            *)
LeftFromArrival(l) == JwksTtl
LeftUnclamped(l)   == JwksTtl - l.asked
LeftOf(l)          == IF l.asked < JwksTtl THEN JwksTtl - l.asked ELSE 0

(* The answer replaces the cache, whatever another login put there         *)
(* meanwhile, and decides this login.                                      *)
Fetched(t) ==
    /\ tab[t].at = "served"
    /\ cache' = [keys |-> tab[t].got, left |-> LeftOf(tab[t])]
    /\ Decide(t, tab[t].got)
    /\ UNCHANGED <<telegram, rows>>

(* A timeout, an error status or a body that is no key set: an exception   *)
(* no handler catches, and the cache stays as it was.                      *)
FetchFails(t) ==
    /\ tab[t].at \in {"fetching", "served"}
    /\ Ends(t)
    /\ UNCHANGED <<telegram, cache, rows>>

-----------------------------------------------------------------------------
(* ensure_user in a transaction, and the token after it.                   *)

Issue(l) == [l EXCEPT !.at = "issued"]

FoundUser(t) ==
    /\ tab[t].at = "saving"
    /\ tab[t].who \in rows
    /\ tab' = [tab EXCEPT ![t] = Issue(@)]
    /\ UNCHANGED <<telegram, cache, rows>>

(* What a login does that found no row; the first two are mutants.         *)
IssuesAtOnce(l) == Issue(l)
LooksAgain(l)   == l
MissedUser(l)   == [l EXCEPT !.at = "inserting"]

NoSuchUser(t) ==
    /\ tab[t].at = "saving"
    /\ tab[t].who \notin rows
    /\ tab' = [tab EXCEPT ![t] = MissedUser(@)]
    /\ UNCHANGED <<telegram, cache, rows>>

(* The insert waits for another of the same user, and fails on the unique  *)
(* telegram_user_id when that one committed: a 500 for this login.         *)
InsertUser(t) ==
    /\ tab[t].at = "inserting"
    /\ IF tab[t].who \in rows
       THEN /\ Ends(t)
            /\ rows' = rows
       ELSE /\ tab' = [tab EXCEPT ![t] = Issue(@)]
            /\ rows' = rows \cup {tab[t].who}
    /\ UNCHANGED <<telegram, cache>>

(* The pool or the database fails in the transaction, maybe after the      *)
(* commit took effect.                                                     *)
DatabaseFails(t) ==
    /\ tab[t].at \in {"saving", "inserting"}
    /\ rows' \in {rows, rows \cup {tab[t].who}}
    /\ tab[t].at = "saving" => rows' = rows
    /\ Ends(t)
    /\ UNCHANGED <<telegram, cache>>

(* The bot and POST /jobs/upload create the row of a visitor too.          *)
OtherContact(u) ==
    /\ u \notin rows
    /\ rows' = rows \cup {u}
    /\ UNCHANGED <<telegram, cache, tab>>

-----------------------------------------------------------------------------
(* Telegram, the process and the clock.                                    *)

ChangeKeys(k, list) ==
    /\ k >= signing /\ k \in list
    /\ <<k, list>> # <<signing, published>>
    /\ signing' = k
    /\ published' = list
    /\ since' = IF list = published THEN since ELSE 0
    /\ UNCHANGED <<cache, rows, tab>>

(* The cache is a module variable; tokens outlive the process, for the     *)
(* secret that signs them is configured.                                   *)
Restart ==
    /\ cache' = EmptyCache
    /\ tab' = [t \in Tabs |->
                  IF tab[t].at \in {"fetching", "served", "saving",
                                    "inserting", "issued"}
                  THEN SignedOut ELSE tab[t]]
    /\ UNCHANGED <<telegram, rows>>

OlderCache ==
    [cache EXCEPT !.left = IF @ > 0 THEN @ - 1 ELSE 0]

OlderLogin(l) ==
    CASE l.at \in {"fetching", "served"} ->
            [l EXCEPT !.asked = Older(@, Long)]
      [] l.at \in {"issued", "in"} ->
            [l EXCEPT !.token = Older(@, TokenTtl + 1),
                      !.left = IF @ > 0 THEN @ - 1 ELSE 0]
      [] OTHER -> l

Tick ==
    /\ since' = Older(since, Long)
    /\ cache' = OlderCache
    /\ tab' = [t \in Tabs |-> OlderLogin(tab[t])]
    /\ UNCHANGED <<signing, published, rows>>

-----------------------------------------------------------------------------
(* resolve_telegram_auth: for whom a request to the API acts.              *)

NoProof == [who |-> NoUser, age |-> 0]

(* The bearer token of a tab, and the initData a Mini App was opened with: *)
(* who stands in it, how old it is, and whether its hash is right.         *)
Bearer(t) == IF tab[t].at = "in" /\ tab[t].left > 0
             THEN [who |-> tab[t].who, age |-> tab[t].token] ELSE NoProof

InitData == [who : Known, age : 0 .. InitDataAge + 1, genuine : BOOLEAN,
             dated : BOOLEAN]
NoInitData == [who |-> NoUser, age |-> 0, genuine |-> FALSE, dated |-> FALSE]

Accepted(u, channel) == [status |-> 200, who |-> u, by |-> channel]
Refused(status)      == [status |-> status, who |-> NoUser, by |-> "nobody"]

(* parse_init_data.  An initData without auth_date has no age that could   *)
(* be checked.                                                             *)
Parses(d) ==
    /\ d.genuine
    /\ d.dated => d.age <= InitDataAge

(* auth_context_from_init_data.                                            *)
InitDataValid(d) == Parses(d) /\ d.who # NoUser

(* verify_website_auth_token.                                              *)
TokenValid(bearer) == bearer.age <= TokenTtl

DevFallback(named) ==
    IF named = NoUser THEN Refused(400)
    ELSE IF DevAuth THEN Accepted(named, "dev_fallback")
    ELSE Refused(401)

NamedFirst(bearer, d, named) ==
    IF DevAuth /\ named # NoUser THEN Accepted(named, "dev_fallback")
    ELSE IF bearer # NoProof THEN Accepted(bearer.who, "website")
    ELSE Refused(401)

ResolveTelegramAuth(bearer, d, named) ==
    IF bearer # NoProof
    THEN IF TokenValid(bearer) THEN Accepted(bearer.who, "website")
         ELSE Refused(401)
    ELSE IF d # NoInitData
    THEN IF InitDataValid(d) THEN Accepted(d.who, "mini_app")
         ELSE IF DevAuth /\ named # NoUser
         THEN Accepted(named, "dev_fallback") ELSE Refused(401)
    ELSE DevFallback(named)

-----------------------------------------------------------------------------

Next ==
    \/ \E t \in Tabs :
          \/ StartLogin(t) \/ GiveUp(t) \/ Receive(t) \/ LogOut(t)
          \/ \E u \in Visitors, mine \in BOOLEAN : Confirm(t, u, mine)
          \/ VerifyCached(t) \/ VerifyFetch(t)
          \/ Served(t) \/ Fetched(t) \/ FetchFails(t)
          \/ FoundUser(t) \/ NoSuchUser(t) \/ InsertUser(t)
          \/ DatabaseFails(t)
    \/ \E u \in Visitors : OtherContact(u)
    \/ \E k \in Keys, list \in SUBSET Keys : ChangeKeys(k, list)
    \/ Restart
    \/ Tick

(* Handlers run on, Telegram answers or httpx gives up after 10 s, the     *)
(* database answers, replies arrive and time passes.  Nobody has to log    *)
(* in, confirm or log out.                                                 *)
Fairness ==
    /\ \A t \in Tabs :
          /\ WF_vars(VerifyCached(t) \/ VerifyFetch(t) \/ Fetched(t))
          /\ WF_vars(Served(t) \/ FetchFails(t))
          /\ WF_vars(FoundUser(t) \/ NoSuchUser(t) \/ InsertUser(t))
          /\ WF_vars(Receive(t))
    /\ WF_vars(Tick)

Spec == Init /\ [][Next]_vars /\ Fairness

-----------------------------------------------------------------------------
(* Properties.                                                             *)

Stages == {"out", "popup", "confirmed", "fetching", "served", "saving",
           "inserting", "issued", "in"}
Logins ==
    [at : Stages, who : Known, key : 0 .. MaxKey, mine : BOOLEAN,
     asked : 0 .. Long, got : SUBSET Keys,
     token : 0 .. (TokenTtl + 1), left : 0 .. TokenTtl, unsigned : BOOLEAN]

(* Every variable has its type, and Telegram lists the key it signs with.  *)
TypeOK ==
    /\ signing \in Keys /\ published \in SUBSET Keys /\ since \in 0 .. Long
    /\ signing \in published
    /\ cache \in [keys : SUBSET Keys, left : 0 .. JwksTtl]
    /\ rows \subseteq Users
    /\ tab \in [Tabs -> Logins]

(* _JWKS_CACHE_EXPIRES_AT counts from before the request, so a cache that  *)
(* is used has kept an outdated list no longer than a cache may be used,   *)
(* whichever of several concurrent answers was the last to be stored.      *)
CacheIsHonest ==
    CacheValid /\ cache.keys # published => since + cache.left <= JwksTtl

(* A login gets past the checks only with the id_token of its own popup:   *)
(* the result of one left open earlier, maybe by another user, is refused  *)
(* by the nonce, in the tab as in the token.                               *)
LoginIsThisOne ==
    \A t \in Tabs : tab[t].at \in {"saving", "inserting", "issued", "in"}
                        => tab[t].mine /\ tab[t].who # NoUser

(* Whoever holds an access token has a row in users, which the handlers    *)
(* for jobs and payments rely on, whatever raced the first login.          *)
WhoIsInHasARow ==
    \A t \in Tabs : tab[t].at \in {"issued", "in"} => tab[t].who \in rows

(* A request acts for the user its proof is about, or, where the fallback  *)
(* is enabled and no proof is good, for the one it names.                  *)
ActsForItsOwner ==
    \A b \in {Bearer(t) : t \in Tabs}, named \in Known :
        \A d \in InitData \cup {NoInitData} :
            LET r == ResolveTelegramAuth(b, d, named)
            IN  /\ b # NoProof => r.who \in {b.who, NoUser}
                /\ r.by = "mini_app" => d.genuine /\ r.who = d.who
                /\ r.by = "dev_fallback" => DevAuth /\ b = NoProof

(* The step in which the signature of t's login is checked: the others     *)
(* that end it leave unsigned alone.                                       *)
Decides(t) ==
    /\ tab[t].at \in {"confirmed", "served"}
    /\ tab'[t].at = "saving" \/ tab'[t].unsigned

(* Five minutes after Telegram last changed its keys, no login is decided  *)
(* on the keys of before: a token is refused for its signature exactly     *)
(* when its key is not published, unless the login itself took that long.  *)
DecisionsAreCurrent ==
    [][\A t \in Tabs :
          Decides(t) /\ since > JwksTtl /\ tab[t].asked <= JwksTtl
              => (tab'[t].unsigned <=> tab[t].key \notin published)]_vars

(* Every login the tab has sent ends, with a token or a reason, so that    *)
(* the button is enabled again.                                            *)
EveryLoginEnds ==
    \A t \in Tabs : tab[t].at = "confirmed" ~> tab[t].at \in {"out", "in"}
=============================================================================
