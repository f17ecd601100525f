------------------------- MODULE WebsiteLoginProofs -------------------------
(***************************************************************************)
(* Theorems about WebsiteLogin, for any tabs and users, any times to live  *)
(* and any number of keys.                                                 *)
(***************************************************************************)
EXTENDS WebsiteLogin, TLAPS

(* What holds of one login, given the rows of users, the published list    *)
(* and the time since it changed: an answer that is no longer the list was *)
(* overtaken by a change during the request.                               *)
Fine(l, known, list, quiet) ==
    /\ l \in Logins
    /\ l.at \notin {"out", "popup"} => l.who \in Users
    /\ l.at \in {"saving", "inserting", "issued", "in"} => l.mine
    /\ l.at \in {"issued", "in"} => l.who \in known
    /\ l.unsigned => l.at = "out"
    /\ l.at = "served" /\ l.got # list => quiet <= l.asked

TelegramOK ==
    /\ signing \in Keys /\ published \in SUBSET Keys /\ since \in 0 .. Long
    /\ signing \in published

CacheOK ==
    /\ cache \in [keys : SUBSET Keys, left : 0 .. JwksTtl]
    /\ CacheIsHonest

LoginInv ==
    /\ TelegramOK
    /\ CacheOK
    /\ rows \subseteq Users
    /\ DOMAIN tab = Tabs /\ tab = [t \in Tabs |-> tab[t]]
    /\ \A t \in Tabs : Fine(tab[t], rows, published, since)

(* Numbers the checks compare.                                             *)
LEMMA Times == Long = JwksTtl + 1 /\ JwksTtl \in Nat /\ JwksTtl > 0 /\ TokenTtl \in Nat
  BY LoginAssumption DEF Long

-----------------------------------------------------------------------------
(* The values a login takes                                                *)

(* A tab that is signed out is fine.                                       *)
LEMMA SignedOutFine ==
    ASSUME NEW known, NEW list, NEW quiet
    PROVE  Fine(SignedOut, known, list, quiet)
  <1>1. 0 \in 0 .. MaxKey /\ 0 \in 0 .. Long /\ 0 \in 0 .. TokenTtl + 1 /\ 0 \in 0 .. TokenTtl
    BY Times, LoginAssumption
  <1>2. SignedOut \in Logins
    BY <1>1 DEF SignedOut, Logins, Stages, Known
  <1>3. QED
    BY <1>2 DEF Fine, SignedOut

(* So is one whose popup is open, and one refused for its signature.       *)
LEMMA FreshFine ==
    ASSUME NEW known, NEW list, NEW quiet, NEW m, NEW b \in BOOLEAN,
           m = [SignedOut EXCEPT !.at = "popup"] \/ m = [SignedOut EXCEPT !.unsigned = b]
    PROVE  Fine(m, known, list, quiet)
  <1>1. Fine(SignedOut, known, list, quiet)
    BY SignedOutFine
  <1>2. CASE m = [SignedOut EXCEPT !.at = "popup"]
    <2>1. m = [SignedOut EXCEPT !.at = "popup"] /\ SignedOut \in Logins
      BY <1>1, <1>2 DEF Fine
    <2>2. m \in Logins /\ m.at = "popup" /\ m.unsigned = SignedOut.unsigned
      BY <2>1 DEF Logins, Stages
    <2>3. QED
      BY <2>2 DEF Fine, SignedOut
  <1>3. CASE m = [SignedOut EXCEPT !.unsigned = b]
    <2>1. m = [SignedOut EXCEPT !.unsigned = b] /\ SignedOut \in Logins
      BY <1>1, <1>3 DEF Fine
    <2>2. m \in Logins /\ m.at = SignedOut.at
      BY <2>1 DEF Logins
    <2>3. QED
      BY <2>2 DEF Fine, SignedOut
  <1>4. QED
    BY <1>2, <1>3

(* A confirmed login has a user and a key.                                 *)
LEMMA ConfirmedFine ==
    ASSUME NEW l, NEW known, NEW list, NEW quiet, Fine(l, known, list, quiet),
           l.at = "popup", NEW u \in Users, NEW k \in Keys, NEW mine \in BOOLEAN, NEW m,
           m = [l EXCEPT !.at = "confirmed", !.who = u, !.key = k, !.mine = mine]
    PROVE  Fine(m, known, list, quiet)
  <1>1. m = [at |-> "confirmed", who |-> u, key |-> k, mine |-> mine, asked |-> l.asked,
             got |-> l.got, token |-> l.token, left |-> l.left, unsigned |-> l.unsigned]
    BY Zenon DEF Fine, Logins
  <1>2. l.unsigned = FALSE
    BY DEF Fine, Logins
  <1>3. QED
    BY <1>1, <1>2, LoginAssumption DEF Fine, Logins, Stages, Known, Keys

(* One whose tab got the token holds it.                                   *)
LEMMA ReceivedFine ==
    ASSUME NEW l, NEW known, NEW list, NEW quiet, Fine(l, known, list, quiet),
           l.at = "issued", NEW m, m = [l EXCEPT !.at = "in", !.left = TokenTtl]
    PROVE  Fine(m, known, list, quiet)
  <1>1. m = [at |-> "in", who |-> l.who, key |-> l.key, mine |-> l.mine, asked |-> l.asked,
             got |-> l.got, token |-> l.token, left |-> TokenTtl, unsigned |-> l.unsigned]
    BY Zenon DEF Fine, Logins
  <1>2. QED
    BY <1>1, Times DEF Fine, Logins, Stages

(* One that moves keeps what it has; to issue a token it needs a row.      *)
LEMMA MovedFine ==
    ASSUME NEW l, NEW known, NEW list, NEW quiet, Fine(l, known, list, quiet),
           NEW to \in {"fetching", "inserting", "issued"},
           l.at \notin {"out", "popup"}, ~ l.unsigned,
           to # "fetching" => l.mine, to = "issued" => l.who \in known,
           NEW m, m = [l EXCEPT !.at = to]
    PROVE  Fine(m, known, list, quiet)
  <1>1. m = [at |-> to, who |-> l.who, key |-> l.key, mine |-> l.mine, asked |-> l.asked,
             got |-> l.got, token |-> l.token, left |-> l.left, unsigned |-> l.unsigned]
    BY Zenon DEF Fine, Logins
  <1>2. QED
    BY <1>1 DEF Fine, Logins, Stages

(* An answer of Telegram is the list of now.                               *)
LEMMA ServedFine ==
    ASSUME NEW l, NEW known, NEW list \in SUBSET Keys, NEW quiet,
           Fine(l, known, list, quiet), l.at = "fetching",
           NEW m, m = [l EXCEPT !.at = "served", !.got = list]
    PROVE  Fine(m, known, list, quiet)
  <1>1. m = [at |-> "served", who |-> l.who, key |-> l.key, mine |-> l.mine, asked |-> l.asked,
             got |-> list, token |-> l.token, left |-> l.left, unsigned |-> l.unsigned]
    BY Zenon DEF Fine, Logins
  <1>2. QED
    BY <1>1 DEF Fine, Logins, Stages

(* One that passed the checks has its user and its own nonce.              *)
LEMMA GenuineFine ==
    ASSUME NEW known, NEW list, NEW quiet, NEW u \in Users, NEW m,
           m = [SignedOut EXCEPT !.at = "saving", !.who = u, !.mine = TRUE]
    PROVE  Fine(m, known, list, quiet)
  <1>1. SignedOut \in Logins
    BY SignedOutFine DEF Fine
  <1>2. m = [at |-> "saving", who |-> u, key |-> SignedOut.key, mine |-> TRUE,
             asked |-> SignedOut.asked, got |-> SignedOut.got, token |-> SignedOut.token,
             left |-> SignedOut.left, unsigned |-> SignedOut.unsigned]
    BY <1>1, Zenon DEF Logins
  <1>3. SignedOut.unsigned = FALSE
    BY DEF SignedOut
  <1>4. QED
    BY <1>1, <1>2, <1>3 DEF Fine, Logins, Stages, Known
-----------------------------------------------------------------------------
(* Steps                                                                   *)

(* More rows harm no login.                                                *)
LEMMA RowsGrow ==
    ASSUME NEW l, NEW known, NEW more, NEW list, NEW quiet,
           Fine(l, known, list, quiet), known \subseteq more
    PROVE  Fine(l, more, list, quiet)
  BY DEF Fine

(* One tab's step, with its new value fine and the rest left as it was.    *)
LEMMA OneTab ==
    ASSUME LoginInv, NEW t \in Tabs, NEW l, tab' = [tab EXCEPT ![t] = l],
           UNCHANGED telegram, CacheOK', rows \subseteq rows', rows' \subseteq Users,
           Fine(l, rows', published, since)
    PROVE  LoginInv'
  <1>1. TelegramOK'
    BY DEF LoginInv, TelegramOK, telegram
  <1>2. DOMAIN tab' = Tabs /\ tab' = [x \in Tabs |-> tab'[x]]
    BY Zenon DEF LoginInv
  <1>3. ASSUME NEW x \in Tabs
        PROVE  Fine(tab'[x], rows', published', since')
    <2>1. published' = published /\ since' = since
      BY DEF telegram
    <2>2. tab'[x] = IF x = t THEN l ELSE tab[x]
      BY DEF LoginInv
    <2>3. Fine(tab[x], rows', published, since)
      BY RowsGrow DEF LoginInv
    <2>4. QED
      BY <2>1, <2>2, <2>3
  <1>4. QED
    BY <1>1, <1>2, <1>3 DEF LoginInv

(* The cache stays as it was.                                              *)
LEMMA SameCache ==
    ASSUME LoginInv, UNCHANGED <<telegram, cache>>
    PROVE  CacheOK'
  BY DEF LoginInv, CacheOK, CacheIsHonest, CacheValid, telegram

(* A login ends.                                                           *)
LEMMA EndsInv ==
    ASSUME LoginInv, NEW t \in Tabs, Ends(t), UNCHANGED <<telegram, cache>>,
           rows \subseteq rows', rows' \subseteq Users
    PROVE  LoginInv'
  <1>1. Fine(SignedOut, rows', published, since)
    BY SignedOutFine
  <1>2. UNCHANGED telegram /\ CacheOK'
    BY SameCache
  <1>3. QED
    BY <1>1, <1>2, OneTab DEF Ends

(* The checks let a login on or refuse it.                                 *)
LEMMA DecideInv ==
    ASSUME LoginInv, NEW t \in Tabs, NEW keys, Decide(t, keys), CacheOK',
           tab[t].at \in {"confirmed", "served"}, UNCHANGED <<telegram, rows>>
    PROVE  LoginInv'
  <1>1. PICK over \in BOOLEAN :
           tab' = [tab EXCEPT ![t] =
                     IF Verdict(tab[t], keys, over) = "genuine"
                     THEN [SignedOut EXCEPT !.at = "saving", !.who = tab[t].who,
                                            !.mine = tab[t].mine]
                     ELSE [SignedOut EXCEPT
                              !.unsigned = (Verdict(tab[t], keys, over) = "signature")]]
    BY Zenon DEF Decide
  <1>2. Fine(tab[t], rows, published, since) /\ rows' \subseteq Users /\ rows \subseteq rows'
        /\ UNCHANGED telegram /\ rows' = rows
    BY DEF LoginInv
  <1>3. CASE Verdict(tab[t], keys, over) = "genuine"
    <2>1. tab[t].who \in Users /\ tab[t].mine = TRUE
      BY <1>2, <1>3 DEF Verdict, NonceFails, Fine, Logins
    <2> DEFINE l == [SignedOut EXCEPT !.at = "saving", !.who = tab[t].who, !.mine = TRUE]
    <2>2. Fine(l, rows', published, since)
      BY <2>1, GenuineFine
    <2>3. tab' = [tab EXCEPT ![t] = l]
      BY <1>1, <1>3, <2>1, Zenon
    <2> HIDE DEF l
    <2>4. QED
      BY <1>2, <2>2, <2>3, OneTab
  <1>4. CASE Verdict(tab[t], keys, over) # "genuine"
    <2> DEFINE b == Verdict(tab[t], keys, over) = "signature"
    <2> DEFINE l == [SignedOut EXCEPT !.unsigned = b]
    <2>1. b \in BOOLEAN
      BY Zenon
    <2>2. Fine(l, rows', published, since)
      BY <2>1, FreshFine, Zenon
    <2>3. tab' = [tab EXCEPT ![t] = l]
      BY <1>1, <1>4, Zenon
    <2> HIDE DEF l, b
    <2>4. QED
      BY <1>2, <2>2, <2>3, OneTab
  <1>5. QED
    BY <1>3, <1>4

(* An answer replaces the cache and decides its login.                     *)
LEMMA FetchedInv ==
    ASSUME LoginInv, NEW t \in Tabs, Fetched(t)
    PROVE  LoginInv'
  <1>1. Fine(tab[t], rows, published, since) /\ tab[t].at = "served"
    BY DEF LoginInv, Fetched
  <1>2. /\ tab[t].got \in SUBSET Keys /\ tab[t].asked \in 0 .. Long
        /\ tab[t].got # published => since <= tab[t].asked
    BY <1>1 DEF Fine, Logins
  <1>3. LeftOf(tab[t]) \in 0 .. JwksTtl /\ since \in 0 .. Long
        /\ (LeftOf(tab[t]) > 0 => LeftOf(tab[t]) = JwksTtl - tab[t].asked)
    BY <1>2, Times DEF LeftOf, LoginInv, TelegramOK
  <1>4. cache' = [keys |-> tab[t].got, left |-> LeftOf(tab[t])] /\ UNCHANGED <<telegram, rows>>
        /\ Decide(t, tab[t].got)
    BY DEF Fetched
  <1>5. published' = published /\ since' = since
    BY <1>4 DEF telegram
  <1>6. cache'.keys = tab[t].got /\ cache'.left = LeftOf(tab[t])
        /\ cache' \in [keys : SUBSET Keys, left : 0 .. JwksTtl]
    BY <1>2, <1>3, <1>4
  <1>7. CacheIsHonest'
    BY <1>2, <1>3, <1>5, <1>6, Times DEF CacheIsHonest, CacheValid
  <1>8. CacheOK'
    BY <1>6, <1>7 DEF CacheOK
  <1>9. QED
    BY <1>1, <1>4, <1>8, DecideInv

(* Telegram's list changes: whoever has the one of before has it since now.*)
LEMMA ChangeInv ==
    ASSUME LoginInv, NEW k \in Keys, NEW list \in SUBSET Keys, ChangeKeys(k, list)
    PROVE  LoginInv'
  <1>1. UNCHANGED <<cache, rows, tab>> /\ signing' = k /\ published' = list /\ k \in list
        /\ since' = IF list = published THEN since ELSE 0
    BY DEF ChangeKeys
  <1>2. since' \in 0 .. Long /\ since' <= since /\ since \in 0 .. Long
        /\ (published' # published => since' = 0)
    BY <1>1, Times DEF LoginInv, TelegramOK
  <1>3. TelegramOK'
    BY <1>1, <1>2 DEF TelegramOK
  <1>4. CacheOK'
    <2>1. cache \in [keys : SUBSET Keys, left : 0 .. JwksTtl] /\ CacheIsHonest
          /\ cache.left \in 0 .. JwksTtl
      BY DEF LoginInv, CacheOK
    <2>2. CacheIsHonest'
      BY <1>1, <1>2, <2>1, Times DEF CacheIsHonest, CacheValid
    <2>3. QED
      BY <1>1, <2>1, <2>2 DEF CacheOK
  <1>5. ASSUME NEW t \in Tabs
        PROVE  Fine(tab[t], rows, list, since')
    <2>1. Fine(tab[t], rows, published, since)
      BY DEF LoginInv
    <2>2. tab[t].asked \in 0 .. Long
      BY <2>1 DEF Fine, Logins
    <2>3. QED
      BY <1>1, <1>2, <2>1, <2>2 DEF Fine
  <1>6. QED
    BY <1>1, <1>3, <1>4, <1>5 DEF LoginInv

(* The process starts again with an empty cache.                           *)
LEMMA RestartInv ==
    ASSUME LoginInv, Restart
    PROVE  LoginInv'
  <1>1. UNCHANGED <<telegram, rows>> /\ cache' = EmptyCache
    BY DEF Restart
  <1>2. TelegramOK' /\ rows' \subseteq Users /\ published' = published /\ since' = since
    BY <1>1 DEF LoginInv, TelegramOK, telegram
  <1>3. CacheOK'
    BY <1>1, Times DEF CacheOK, CacheIsHonest, CacheValid, EmptyCache
  <1>4. tab' = [t \in Tabs |->
                  IF tab[t].at \in {"fetching", "served", "saving", "inserting", "issued"}
                  THEN SignedOut ELSE tab[t]]
    BY DEF Restart
  <1>5. DOMAIN tab' = Tabs /\ tab' = [t \in Tabs |-> tab'[t]]
    BY <1>4
  <1>6. ASSUME NEW t \in Tabs
        PROVE  Fine(tab'[t], rows, published, since)
    <2>1. Fine(tab[t], rows, published, since) /\ Fine(SignedOut, rows, published, since)
      BY SignedOutFine DEF LoginInv
    <2>2. tab'[t] \in {SignedOut, tab[t]}
      BY <1>4
    <2>3. QED
      BY <2>1, <2>2
  <1>7. QED
    BY <1>1, <1>2, <1>3, <1>5, <1>6 DEF LoginInv

(* Counting on is bounded and loses no tick a check could see.             *)
LEMMA OlderNumber ==
    ASSUME NEW n \in Nat, NEW a \in 0 .. n
    PROVE  Older(a, n) \in 0 .. n /\ a <= Older(a, n) /\ Older(a, n) <= a + 1
           /\ \A b \in 0 .. n : a <= b => Older(a, n) <= Older(b, n)
  BY DEF Older

(* A login gets older, and keeps being overtaken if it was.                *)
LEMMA OlderFine ==
    ASSUME NEW l, NEW known, NEW list, NEW quiet \in 0 .. Long,
           Fine(l, known, list, quiet)
    PROVE  Fine(OlderLogin(l), known, list, Older(quiet, Long))
  <1>1. /\ l \in Logins /\ l.asked \in 0 .. Long /\ l.token \in 0 .. TokenTtl + 1
        /\ l.left \in 0 .. TokenTtl /\ Long \in Nat /\ TokenTtl + 1 \in Nat
    BY Times DEF Fine, Logins
  <1>2. /\ Older(l.asked, Long) \in 0 .. Long
        /\ Older(l.token, TokenTtl + 1) \in 0 .. TokenTtl + 1
        /\ (quiet <= l.asked => Older(quiet, Long) <= Older(l.asked, Long))
    BY <1>1, OlderNumber
  <1>3. CASE l.at \in {"fetching", "served"}
    <2> DEFINE a == Older(l.asked, Long)
    <2>1. OlderLogin(l) = [l EXCEPT !.asked = a]
      BY <1>3, Zenon DEF OlderLogin
    <2> HIDE DEF a
    <2>2. OlderLogin(l) = [at |-> l.at, who |-> l.who, key |-> l.key, mine |-> l.mine,
                asked |-> a, got |-> l.got, token |-> l.token, left |-> l.left,
                unsigned |-> l.unsigned]
      BY <1>1, <2>1, Zenon DEF Logins
    <2>3. a \in 0 .. Long /\ (quiet <= l.asked => Older(quiet, Long) <= a)
      BY <1>2 DEF a
    <2>4. QED
      BY <2>2, <2>3 DEF Fine, Logins, Stages
  <1>4. CASE l.at \in {"issued", "in"}
    <2> DEFINE a == Older(l.token, TokenTtl + 1)
               b == IF l.left > 0 THEN l.left - 1 ELSE 0
    <2>1. OlderLogin(l) = [l EXCEPT !.token = a, !.left = b]
      BY <1>4, Zenon DEF OlderLogin
    <2>2. b \in 0 .. TokenTtl /\ a \in 0 .. TokenTtl + 1
      BY <1>1, <1>2, Times
    <2> HIDE DEF a, b
    <2>3. OlderLogin(l) = [at |-> l.at, who |-> l.who, key |-> l.key, mine |-> l.mine,
                asked |-> l.asked, got |-> l.got, token |-> a, left |-> b,
                unsigned |-> l.unsigned]
      BY <1>1, <2>1, Zenon DEF Logins
    <2>4. QED
      BY <1>4, <2>2, <2>3 DEF Fine, Logins, Stages
  <1>5. CASE l.at \notin {"fetching", "served", "issued", "in"}
    <2>1. OlderLogin(l) = l
      BY <1>5, Zenon DEF OlderLogin
    <2>2. QED
      BY <1>5, <2>1 DEF Fine
  <1>6. QED
    BY <1>3, <1>4, <1>5

(* Time passes.                                                            *)
LEMMA TickInv ==
    ASSUME LoginInv, Tick
    PROVE  LoginInv'
  <1>1. /\ since' = Older(since, Long) /\ cache' = OlderCache
        /\ tab' = [t \in Tabs |-> OlderLogin(tab[t])]
        /\ UNCHANGED <<signing, published, rows>>
    BY DEF Tick
  <1>2. since \in 0 .. Long /\ since' \in 0 .. Long /\ since' <= since + 1
    BY <1>1, Times, OlderNumber DEF LoginInv, TelegramOK
  <1>3. TelegramOK'
    BY <1>1, <1>2 DEF LoginInv, TelegramOK
  <1>4. CacheOK'
    <2>1. cache \in [keys : SUBSET Keys, left : 0 .. JwksTtl] /\ CacheIsHonest
          /\ cache.left \in 0 .. JwksTtl
      BY DEF LoginInv, CacheOK
    <2>2. cache' = [cache EXCEPT !.left = IF cache.left > 0 THEN cache.left - 1 ELSE 0]
      BY <1>1 DEF OlderCache
    <2>3. cache'.keys = cache.keys /\ cache'.left = (IF cache.left > 0 THEN cache.left - 1 ELSE 0)
          /\ cache' \in [keys : SUBSET Keys, left : 0 .. JwksTtl]
      BY <2>1, <2>2, Times
    <2>4. CacheIsHonest'
      BY <1>1, <1>2, <2>1, <2>3, Times DEF CacheIsHonest, CacheValid
    <2>5. QED
      BY <2>3, <2>4 DEF CacheOK
  <1>5. DOMAIN tab' = Tabs /\ tab' = [t \in Tabs |-> tab'[t]]
    BY <1>1
  <1>6. ASSUME NEW t \in Tabs
        PROVE  Fine(tab'[t], rows, published, since')
    <2>1. Fine(tab[t], rows, published, since)
      BY DEF LoginInv
    <2>2. tab'[t] = OlderLogin(tab[t])
      BY <1>1
    <2>3. QED
      BY <1>1, <1>2, <2>1, <2>2, OlderFine
  <1>7. QED
    BY <1>1, <1>3, <1>4, <1>5, <1>6 DEF LoginInv

(* A login moves on without a word of Telegram.                            *)
LEMMA MovesInv ==
    ASSUME LoginInv, NEW t \in Tabs, NEW to \in {"fetching", "inserting", "issued"},
           tab' = [tab EXCEPT ![t] = [tab[t] EXCEPT !.at = to]],
           UNCHANGED <<telegram, cache>>, rows \subseteq rows', rows' \subseteq Users,
           tab[t].at \notin {"out", "popup"},
           to # "fetching" => tab[t].mine, to = "issued" => tab[t].who \in rows'
    PROVE  LoginInv'
  <1>1. Fine(tab[t], rows', published, since)
    BY RowsGrow DEF LoginInv
  <1>2. ~ tab[t].unsigned
    BY <1>1 DEF Fine
  <1> DEFINE l == [tab[t] EXCEPT !.at = to]
  <1>3. Fine(l, rows', published, since)
    BY <1>1, <1>2, MovedFine
  <1>4. UNCHANGED telegram /\ CacheOK' /\ tab' = [tab EXCEPT ![t] = l]
    BY SameCache
  <1> HIDE DEF l
  <1>5. QED
    BY <1>3, <1>4, OneTab

(* Every step of the system keeps the invariant.                           *)
LEMMA LoginStep ==
    ASSUME LoginInv, Next
    PROVE  LoginInv'
  <1>1. \A t \in Tabs : Fine(tab[t], rows, published, since)
    BY DEF LoginInv
  <1>2. rows \subseteq Users
    BY DEF LoginInv
  <1>3. ASSUME NEW t \in Tabs, StartLogin(t)
        PROVE  LoginInv'
    <2> DEFINE l == [SignedOut EXCEPT !.at = "popup"]
    <2>1. Fine(l, rows, published, since)
      BY FreshFine
    <2>2. tab' = [tab EXCEPT ![t] = l] /\ UNCHANGED <<telegram, cache, rows>> /\ CacheOK'
      BY <1>3, SameCache DEF StartLogin
    <2> HIDE DEF l
    <2>3. QED
      BY <1>2, <2>1, <2>2, OneTab
  <1>4. ASSUME NEW t \in Tabs, GiveUp(t) \/ LogOut(t) \/ FetchFails(t)
        PROVE  LoginInv'
    BY <1>2, <1>4, EndsInv DEF GiveUp, LogOut, FetchFails
  <1>5. ASSUME NEW t \in Tabs, NEW u \in Visitors, NEW mine \in BOOLEAN, Confirm(t, u, mine)
        PROVE  LoginInv'
    <2> DEFINE l == [tab[t] EXCEPT !.at = "confirmed", !.who = u, !.key = signing, !.mine = mine]
    <2>1. signing \in Keys /\ u \in Users /\ tab[t].at = "popup"
      BY <1>5, LoginAssumption DEF Confirm, LoginInv, TelegramOK
    <2>2. Fine(l, rows, published, since)
      BY <1>1, <2>1, ConfirmedFine
    <2>3. tab' = [tab EXCEPT ![t] = l] /\ UNCHANGED <<telegram, cache, rows>> /\ CacheOK'
      BY <1>5, SameCache DEF Confirm
    <2> HIDE DEF l
    <2>4. QED
      BY <1>2, <2>2, <2>3, OneTab
  <1>6. ASSUME NEW t \in Tabs, Receive(t)
        PROVE  LoginInv'
    <2> DEFINE l == [tab[t] EXCEPT !.at = "in", !.left = TokenTtl]
    <2>1. Fine(l, rows, published, since)
      BY <1>1, <1>6, ReceivedFine DEF Receive
    <2>2. tab' = [tab EXCEPT ![t] = l] /\ UNCHANGED <<telegram, cache, rows>> /\ CacheOK'
      BY <1>6, SameCache DEF Receive
    <2> HIDE DEF l
    <2>3. QED
      BY <1>2, <2>1, <2>2, OneTab
  <1>7. ASSUME NEW t \in Tabs, VerifyCached(t)
        PROVE  LoginInv'
    BY <1>7, SameCache, DecideInv DEF VerifyCached
  <1>8. ASSUME NEW t \in Tabs, VerifyFetch(t)
        PROVE  LoginInv'
    <2>1. tab' = [tab EXCEPT ![t] = [tab[t] EXCEPT !.at = "fetching"]] /\ rows' = rows
          /\ tab[t].at = "confirmed" /\ UNCHANGED <<telegram, cache>>
      BY <1>8 DEF VerifyFetch
    <2>2. QED
      BY <1>2, <2>1, MovesInv
  <1>9. ASSUME NEW t \in Tabs, Served(t)
        PROVE  LoginInv'
    <2> DEFINE l == [tab[t] EXCEPT !.at = "served", !.got = published]
    <2>1. published \in SUBSET Keys /\ tab[t].at = "fetching"
      BY <1>9 DEF LoginInv, TelegramOK, Served
    <2>2. Fine(l, rows, published, since)
      BY <1>1, <2>1, ServedFine
    <2>3. tab' = [tab EXCEPT ![t] = l] /\ UNCHANGED <<telegram, cache, rows>> /\ CacheOK'
      BY <1>9, SameCache DEF Served
    <2> HIDE DEF l
    <2>4. QED
      BY <1>2, <2>2, <2>3, OneTab
  <1>10. ASSUME NEW t \in Tabs, FoundUser(t) \/ NoSuchUser(t)
         PROVE  LoginInv'
    <2>1. tab[t].at = "saving" /\ UNCHANGED <<telegram, cache, rows>>
      BY <1>10 DEF FoundUser, NoSuchUser
    <2>2. tab[t].mine
      BY <1>1, <2>1 DEF Fine
    <2>3. \/ tab' = [tab EXCEPT ![t] = [tab[t] EXCEPT !.at = "issued"]] /\ tab[t].who \in rows
          \/ tab' = [tab EXCEPT ![t] = [tab[t] EXCEPT !.at = "inserting"]]
      BY <1>10 DEF FoundUser, NoSuchUser, Issue, MissedUser
    <2>4. QED
      BY <1>2, <2>1, <2>2, <2>3, MovesInv
  <1>11. ASSUME NEW t \in Tabs, InsertUser(t)
         PROVE  LoginInv'
    <2>1. tab[t].at = "inserting" /\ UNCHANGED <<telegram, cache>>
      BY <1>11 DEF InsertUser
    <2>2. tab[t].mine /\ tab[t].who \in Users
      BY <1>1, <2>1 DEF Fine
    <2>3. CASE tab[t].who \in rows
      BY <1>2, <1>11, <2>1, <2>3, EndsInv DEF InsertUser
    <2>4. CASE tab[t].who \notin rows
      <3>1. tab' = [tab EXCEPT ![t] = [tab[t] EXCEPT !.at = "issued"]]
            /\ rows' = rows \cup {tab[t].who}
        BY <1>11, <2>4 DEF InsertUser, Issue
      <3>2. rows \subseteq rows' /\ rows' \subseteq Users /\ tab[t].who \in rows'
        BY <1>2, <2>2, <3>1
      <3>3. QED
        BY <2>1, <2>2, <3>1, <3>2, MovesInv
    <2>5. QED
      BY <2>3, <2>4
  <1>12. ASSUME NEW t \in Tabs, DatabaseFails(t)
         PROVE  LoginInv'
    <2>1. tab[t].at \in {"saving", "inserting"} /\ Ends(t) /\ UNCHANGED <<telegram, cache>>
          /\ rows' \in {rows, rows \cup {tab[t].who}}
      BY <1>12 DEF DatabaseFails
    <2>2. tab[t].who \in Users
      BY <1>1, <2>1 DEF Fine
    <2>3. rows \subseteq rows' /\ rows' \subseteq Users
      BY <1>2, <2>1, <2>2
    <2>4. QED
      BY <2>1, <2>3, EndsInv
  <1>13. ASSUME NEW u \in Visitors, OtherContact(u)
         PROVE  LoginInv'
    <2>1. UNCHANGED <<telegram, cache, tab>> /\ rows' = rows \cup {u} /\ u \in Users
      BY <1>13, LoginAssumption DEF OtherContact
    <2>2. CacheOK' /\ TelegramOK' /\ rows' \subseteq Users
      BY <1>2, <2>1, SameCache DEF LoginInv, TelegramOK, telegram
    <2>3. \A t \in Tabs : Fine(tab[t], rows', published, since)
      BY <1>1, <2>1, RowsGrow
    <2>4. published' = published /\ since' = since
      BY <2>1 DEF telegram
    <2>5. QED
      BY <2>1, <2>2, <2>3, <2>4 DEF LoginInv
  <1>14. QED
    BY <1>3, <1>4, <1>5, <1>6, <1>7, <1>8, <1>9, <1>10, <1>11, <1>12, <1>13,
       FetchedInv, ChangeInv, RestartInv, TickInv DEF Next

(* The invariant holds in every state.                                     *)
THEOREM LoginInvariant == Spec => []LoginInv
  <1>1. Init => LoginInv
    <2> SUFFICES ASSUME Init PROVE LoginInv
      OBVIOUS
    <2>1. \A t \in Tabs : Fine(SignedOut, rows, published, since)
      BY SignedOutFine
    <2>2. tab = [t \in Tabs |-> SignedOut] /\ cache = EmptyCache /\ rows = {}
      BY DEF Init
    <2>3. TelegramOK
      BY Times, LoginAssumption DEF Init, TelegramOK, Keys
    <2>4. CacheOK
      BY <2>2, Times DEF CacheOK, CacheIsHonest, CacheValid, EmptyCache
    <2>5. DOMAIN tab = Tabs /\ tab = [t \in Tabs |-> tab[t]]
          /\ \A t \in Tabs : tab[t] = SignedOut
      BY <2>2
    <2>6. QED
      BY <2>1, <2>2, <2>3, <2>4, <2>5 DEF LoginInv
  <1>2. LoginInv /\ UNCHANGED vars => LoginInv'
    <2> SUFFICES ASSUME LoginInv, UNCHANGED vars PROVE LoginInv'
      OBVIOUS
    <2>1. UNCHANGED <<signing, published, since, cache, rows, tab>>
      BY DEF vars, telegram
    <2>2. TelegramOK' /\ CacheOK'
      BY <2>1 DEF LoginInv, TelegramOK, CacheOK, CacheIsHonest, CacheValid
    <2>3. QED
      BY <2>1, <2>2 DEF LoginInv
  <1>3. LoginInv /\ [Next]_vars => LoginInv'
    BY <1>2, LoginStep
  <1>4. QED
    BY <1>1, <1>3, PTL DEF Spec

-----------------------------------------------------------------------------
(* What follows                                                            *)

(* Types.                                                                  *)
THEOREM LoginTypes == Spec => []TypeOK
  <1>1. LoginInv => TypeOK
    BY DEF LoginInv, TelegramOK, CacheOK, Fine, TypeOK
  <1>2. QED
    BY <1>1, LoginInvariant, PTL

(* The cache never keeps an outdated key set longer than its time to live. *)
THEOREM CacheStaysHonest == Spec => []CacheIsHonest
  <1>1. LoginInv => CacheIsHonest
    BY DEF LoginInv, CacheOK
  <1>2. QED
    BY <1>1, LoginInvariant, PTL

(* Nobody gets past the checks with the result of another popup.           *)
THEOREM LoginsAreTheirOwn == Spec => []LoginIsThisOne
  <1>1. LoginInv => LoginIsThisOne
    BY LoginAssumption DEF LoginInv, Fine, LoginIsThisOne
  <1>2. QED
    BY <1>1, LoginInvariant, PTL

(* Whoever holds a token has a row.                                        *)
THEOREM TokensHaveRows == Spec => []WhoIsInHasARow
  <1>1. LoginInv => WhoIsInHasARow
    BY DEF LoginInv, Fine, WhoIsInHasARow
  <1>2. QED
    BY <1>1, LoginInvariant, PTL

(* A request acts for the user it proves, or in development mode for the   *)
(* one it names.                                                           *)
THEOREM RequestsActForTheirOwners == Spec => []ActsForItsOwner
  <1>1. ActsForItsOwner
    BY DEF ActsForItsOwner, ResolveTelegramAuth, DevFallback, Accepted, Refused, InitDataValid, Parses, TokenValid
  <1>2. QED
    BY <1>1, PTL

(* The checks refuse a signature when the key is not in the key set.       *)
LEMMA Judgement ==
    ASSUME NEW t \in Tabs, NEW keys, Decide(t, keys), DOMAIN tab = Tabs, Decides(t)
    PROVE  tab'[t].unsigned <=> tab[t].key \notin keys
  <1>1. PICK over \in BOOLEAN :
           tab' = [tab EXCEPT ![t] =
                     IF Verdict(tab[t], keys, over) = "genuine"
                     THEN [SignedOut EXCEPT !.at = "saving", !.who = tab[t].who,
                                            !.mine = tab[t].mine]
                     ELSE [SignedOut EXCEPT
                              !.unsigned = (Verdict(tab[t], keys, over) = "signature")]]
    BY Zenon DEF Decide
  <1>2. CASE Verdict(tab[t], keys, over) = "genuine"
    <2>1. tab[t].key \in keys
      BY <1>2 DEF Verdict, NonceFails
    <2>2. tab'[t] = [SignedOut EXCEPT !.at = "saving", !.who = tab[t].who, !.mine = tab[t].mine]
      BY <1>1, <1>2, Zenon
    <2>3. SignedOut \in Logins /\ SignedOut.unsigned = FALSE
      BY SignedOutFine DEF Fine, SignedOut
    <2>4. tab'[t].unsigned = SignedOut.unsigned
      BY <2>2, <2>3, Zenon DEF Logins
    <2>5. QED
      BY <2>1, <2>3, <2>4
  <1>3. CASE Verdict(tab[t], keys, over) # "genuine"
    <2> DEFINE b == Verdict(tab[t], keys, over) = "signature"
    <2>1. tab'[t] = [SignedOut EXCEPT !.unsigned = b]
      BY <1>1, <1>3, Zenon
    <2>2. b <=> tab[t].key \notin keys
      BY DEF Verdict, NonceFails
    <2> HIDE DEF b
    <2>3. tab'[t].unsigned = b /\ tab'[t].at = "out"
      BY <2>1 DEF SignedOut
    <2>4. QED
      BY <2>2, <2>3
  <1>4. QED
    BY <1>2, <1>3

(* A step that neither lets t's login on nor refuses its signature.        *)
LEMMA Undecided ==
    ASSUME LoginInv, NEW t \in Tabs, NEW l, ~ l.unsigned, l.at # "saving",
           NEW x \in Tabs, tab' = [tab EXCEPT ![x] = l]
    PROVE  ~ Decides(t)
  <1>1. tab[t].at \in {"confirmed", "served"} => ~ tab[t].unsigned
    BY DEF LoginInv, Fine
  <1>2. tab'[t] = IF t = x THEN l ELSE tab[t]
    BY DEF LoginInv
  <1>3. QED
    BY <1>1, <1>2 DEF Decides

(* Another tab's checks decide nothing of t's.                             *)
LEMMA OthersUndecided ==
    ASSUME LoginInv, NEW t \in Tabs, tab'[t] = tab[t]
    PROVE  ~ Decides(t)
  BY DEF LoginInv, Fine, Decides

(* Signatures are judged by the current list, five minutes after a change. *)
THEOREM DecisionsStayCurrent == Spec => DecisionsAreCurrent
  <1> DEFINE Judged == \A t \in Tabs :
          Decides(t) /\ since > JwksTtl /\ tab[t].asked <= JwksTtl
              => (tab'[t].unsigned <=> tab[t].key \notin published)
  <1>1. LoginInv /\ Next => Judged
    <2> SUFFICES ASSUME LoginInv, Next, NEW t \in Tabs,
                        Decides(t), since > JwksTtl, tab[t].asked <= JwksTtl
                 PROVE  tab'[t].unsigned <=> tab[t].key \notin published
      BY DEF Judged
    <2>1. DOMAIN tab = Tabs /\ \A x \in Tabs : Fine(tab[x], rows, published, since)
      BY DEF LoginInv
    <2>2. tab'[t] # tab[t] /\ tab[t].at \in {"confirmed", "served"} /\ ~ tab[t].unsigned
      BY <2>1, OthersUndecided DEF Decides, Fine
    <2>3. ASSUME NEW x \in Tabs, VerifyCached(x)
          PROVE  tab'[t].unsigned <=> tab[t].key \notin published
      <3>1. Decide(x, cache.keys) /\ CacheValid
        BY <2>3 DEF VerifyCached
      <3>2. x = t
        BY <2>1, <2>2, <3>1, Zenon DEF Decide
      <3>3. cache.keys = published
        <4>1. since \in 0 .. Long /\ cache.left \in 0 .. JwksTtl /\ CacheIsHonest
          BY DEF LoginInv, TelegramOK, CacheOK
        <4>2. QED
          BY <3>1, <4>1, Times DEF CacheIsHonest, CacheValid
      <3>4. QED
        BY <2>1, <3>1, <3>2, <3>3, Judgement
    <2>4. ASSUME NEW x \in Tabs, Fetched(x)
          PROVE  tab'[t].unsigned <=> tab[t].key \notin published
      <3>1. Decide(x, tab[x].got) /\ tab[x].at = "served"
        BY <2>4 DEF Fetched
      <3>2. x = t
        BY <2>1, <2>2, <3>1, Zenon DEF Decide
      <3>3. tab[t].got = published
        <4>1. since \in 0 .. Long /\ Fine(tab[t], rows, published, since)
              /\ tab[t].asked \in 0 .. Long
          BY <2>1 DEF LoginInv, TelegramOK, Fine, Logins
        <4>2. QED
          BY <3>1, <3>2, <4>1, Times DEF Fine
      <3>4. QED
        BY <2>1, <3>1, <3>2, <3>3, Judgement
    <2>5. ASSUME NEW x \in Tabs, Ends(x)
          PROVE  FALSE
      <3>1. ~ SignedOut.unsigned /\ SignedOut.at # "saving"
        BY DEF SignedOut
      <3>2. QED
        BY <2>5, <3>1, Undecided DEF Ends
    <2>6. ASSUME NEW x \in Tabs, NEW to \in {"fetching", "inserting", "issued"},
                 tab' = [tab EXCEPT ![x] = [tab[x] EXCEPT !.at = to]]
          PROVE  FALSE
      <3>1. x = t
        BY <2>1, <2>2, <2>6
      <3> DEFINE l == [tab[t] EXCEPT !.at = to]
      <3>2. l.at = to /\ l.unsigned = tab[t].unsigned
        BY <2>1 DEF Fine, Logins
      <3>3. tab' = [tab EXCEPT ![t] = l]
        BY <2>6, <3>1
      <3> HIDE DEF l
      <3>4. QED
        BY <2>2, <3>2, <3>3, Undecided
    <2>7. ASSUME NEW x \in Tabs, Served(x)
          PROVE  FALSE
      <3>1. x = t
        BY <2>1, <2>2, <2>7, Zenon DEF Served
      <3>2. tab[t].at = "fetching"
        BY <2>7, <3>1 DEF Served
      <3>3. QED
        BY <2>2, <3>2
    <2>8. ASSUME NEW x \in Tabs, tab[x].at \in {"out", "popup", "issued"},
                 NEW l, tab' = [tab EXCEPT ![x] = l]
          PROVE  FALSE
      <3>1. x = t
        BY <2>1, <2>2, <2>8, Zenon
      <3>2. QED
        BY <2>2, <2>8, <3>1
    <2>9. CASE Restart
      <3>1. tab'[t] = SignedOut \/ tab'[t] = tab[t]
        BY <2>9 DEF Restart
      <3>2. QED
        BY <2>2, <3>1 DEF Decides, SignedOut
    <2>10. CASE Tick
      <3>1. tab'[t] = OlderLogin(tab[t])
        BY <2>10 DEF Tick
      <3>2. Fine(tab'[t], rows, published, Older(since, Long))
        BY <2>1, <3>1, OlderFine DEF LoginInv, TelegramOK
      <3>3. tab'[t].at = tab[t].at
        <4> DEFINE a == Older(tab[t].asked, Long)
        <4>1. tab[t].at = "confirmed" => OlderLogin(tab[t]) = tab[t]
          BY Zenon DEF OlderLogin
        <4>2. tab[t].at = "served" => OlderLogin(tab[t]) = [tab[t] EXCEPT !.asked = a]
          BY Zenon DEF OlderLogin
        <4> HIDE DEF a
        <4>3. tab[t] \in Logins
          BY <2>1 DEF Fine
        <4>4. tab[t].at = "served" => OlderLogin(tab[t]).at = tab[t].at
          BY <4>2, <4>3 DEF Logins
        <4>5. QED
          BY <2>2, <3>1, <4>1, <4>4
      <3>4. QED
        BY <2>2, <3>2, <3>3 DEF Decides, Fine
    <2>11. CASE tab' = tab
      BY <2>2, <2>11
    <2>12. QED
      BY <2>3, <2>4, <2>5, <2>6, <2>7, <2>8, <2>9, <2>10, <2>11
         DEF Next, StartLogin, GiveUp, Confirm, Receive, LogOut, VerifyFetch, FetchFails,
             FoundUser, NoSuchUser, InsertUser, DatabaseFails, OtherContact, ChangeKeys,
             Issue, MissedUser
  <1>2. LoginInv /\ [Next]_vars => [Judged]_vars
    BY <1>1
  <1>3. QED
    BY <1>2, LoginInvariant, PTL DEF Spec, DecisionsAreCurrent
=============================================================================
