------------------------- MODULE LoginStatesProofs -------------------------
(***************************************************************************)
(* LoginStates for any browsers, logins, requests, URLs and lifetime.      *)
(*                                                                         *)
(* The inductive invariant ties the three records of a login together: its *)
(* entry in the map, its age, and the callbacks accepted for it.           *)
(***************************************************************************)
EXTENDS LoginStates, TLAPS

(* A state in the map is that of a login on its way that no callback has   *)
(* been accepted for, and expires when the login is Lifetime old.          *)
EntriesAgree ==
  \A s \in Logins : StateKey(s) \in DOMAIN states =>
    /\ login[s].at \in {"starting", "away"}
    /\ accepted[s] = 0
    /\ states[StateKey(s)] = Lifetime - age[s]

(* Callbacks come after their login's redirect. *)
RequestsFollow ==
  /\ \A r \in Requests :
       request[r] # Idle => login[request[r].login].at \in {"away", "forgotten"}
  /\ \A s \in Logins : login[s].at \in {"unused", "starting", "dead"} =>
       accepted[s] = 0 /\ landed[s] = Nowhere

(* A login of browser b that got as far as its redirect asked for url. *)
Asked(b, url) ==
  \E q \in Logins : /\ login[q].at \in {"away", "forgotten"}
                    /\ login[q].browser = b /\ login[q].url = url

(* A URL, wherever it is on its way, was asked for in the same browser,    *)
(* that of the jar or of the request, whosever login the request is for.   *)
JarAsked == \A b \in Browsers : jar[b].url # NoUrl => Asked(b, jar[b].url)

RequestsAsked ==
  \A r \in Requests : request[r] # Idle /\ request[r].url # NoUrl =>
    Asked(request[r].browser, request[r].url)

UrlsAsked == JarAsked /\ RequestsAsked /\ ReturnUrlOfThisBrowser

IInv == TypeOK /\ EntriesAgree /\ RequestsFollow /\ NotLost /\ UrlsAsked

(* A handler that just started satisfies the invariant. *)
LEMMA InitInv == Init => IInv
<1> SUFFICES ASSUME Init PROVE IInv
  OBVIOUS
<1> USE LoginAssumption DEF Init
<1>1. TypeOK
  BY DEF TypeOK, LoginRecord, RequestRecord, NoCookie, Nowhere
<1>2. EntriesAgree /\ RequestsFollow /\ NotLost
  BY DEF EntriesAgree, RequestsFollow, NotLost, Idle
<1>3. UrlsAsked
  BY DEF UrlsAsked, JarAsked, RequestsAsked, ReturnUrlOfThisBrowser, NoCookie, Nowhere, Idle
<1>4. QED BY <1>1, <1>2, <1>3 DEF IInv

(* The records of a login keep their fields. *)
LEMMA LoginFields ==
  ASSUME TypeOK, NEW s \in Logins
  PROVE  /\ login[s].at \in {"unused", "dead", "starting", "away", "forgotten"}
         /\ login[s].at \in {"starting", "away", "forgotten"} =>
              login[s].browser \in Browsers /\ login[s].url \in Urls \union {NoUrl}
BY DEF TypeOK, LoginRecord

(* A request under way has a step, a login, a browser and perhaps a URL. *)
LEMMA RequestFields ==
  ASSUME TypeOK, NEW r \in Requests, request[r] # Idle
  PROVE  /\ request[r].pc \in {"arrived", "validated"}
         /\ request[r].login \in Logins /\ request[r].browser \in Browsers
         /\ request[r].url \in Urls \union {NoUrl}
BY DEF TypeOK, RequestRecord

(* Every step of a login, a callback or a sweep keeps the types. *)
LEMMA TypeStep == TypeOK /\ [Next]_vars => TypeOK'
<1> SUFFICES ASSUME TypeOK, [Next]_vars PROVE TypeOK'
  OBVIOUS
<1> USE LoginAssumption
<1>1. ASSUME NEW s \in Logins, NEW b \in Browsers, NEW url \in Urls \union {NoUrl},
             StartLogin(s, b, url)
      PROVE  TypeOK'
  <2>1. login' \in [Logins -> LoginRecord]
    BY <1>1 DEF StartLogin, TypeOK, LoginRecord
  <2>2. QED BY <1>1, <2>1 DEF StartLogin, TypeOK, requestVars, Put, StateKey, Keys
<1>2. ASSUME NEW s \in Logins, FinishLogin(s) PROVE TypeOK'
  <2>1. login[s].browser \in Browsers /\ login[s].url \in Urls \union {NoUrl}
    BY <1>2, LoginFields DEF FinishLogin
  <2>2. login' \in [Logins -> LoginRecord]
    BY <1>2, <2>1 DEF FinishLogin, TypeOK, LoginRecord, Moved
  <2>3. jar' \in [Browsers -> [url : Urls \union {NoUrl}, left : 0 .. Lifetime]]
    BY <1>2, <2>1 DEF FinishLogin, TypeOK, Carry
  <2>4. DOMAIN states' \subseteq Keys /\ states' \in [DOMAIN states' -> -1 .. Lifetime]
    BY <1>2 DEF FinishLogin, TypeOK, Put, ReturnKey, Keys
  <2>5. QED BY <1>2, <2>2, <2>3, <2>4 DEF FinishLogin, TypeOK, requestVars
<1>3. ASSUME NEW r \in Requests, NEW s \in Logins, NEW b \in Browsers, SendCallback(r, s, b)
      PROVE  TypeOK'
  <2>1. Sent(b) \in Urls \union {NoUrl}
    BY DEF Sent, TypeOK
  <2>2. request' \in [Requests -> RequestRecord]
    BY <1>3, <2>1 DEF SendCallback, TypeOK, RequestRecord
  <2>3. QED BY <1>3, <2>2 DEF SendCallback, TypeOK
<1>4. ASSUME NEW r \in Requests, Validate(r) PROVE TypeOK'
  <2>1. request[r] # Idle
    BY <1>4 DEF Validate, Idle
  <2>2. request' \in [Requests -> RequestRecord]
    BY <1>4, <2>1, RequestFields DEF Validate, TypeOK, RequestRecord
  <2>3. DOMAIN states' \subseteq Keys /\ states' \in [DOMAIN states' -> -1 .. Lifetime]
    BY <1>4 DEF Validate, TypeOK, Spent, Restrict
  <2>4. accepted' \in [Logins -> Nat]
    BY <1>4, <2>1, RequestFields DEF Validate, TypeOK
  <2>5. QED BY <1>4, <2>2, <2>3, <2>4 DEF Validate, TypeOK
<1>5. ASSUME NEW r \in Requests, FailCallback(r) PROVE TypeOK'
  BY <1>5 DEF FailCallback, TypeOK, RequestRecord
<1>6. ASSUME NEW r \in Requests, FinishCallback(r) PROVE TypeOK'
  <2>1. landed' \in [Logins -> {Nowhere} \union [url : Urls \union {Home}, browser : Browsers]]
    <3>1. request[r].browser \in Browsers
      BY <1>6, RequestFields DEF FinishCallback, Idle
    <3>2. Destination(request[r].url) \in Urls \union {Home}
      BY DEF Destination
    <3>3. QED BY <1>6, <3>1, <3>2 DEF FinishCallback, TypeOK
  <2>2. jar' \in [Browsers -> [url : Urls \union {NoUrl}, left : 0 .. Lifetime]]
    <3>1. NoCookie \in [url : Urls \union {NoUrl}, left : 0 .. Lifetime]
      BY DEF NoCookie
    <3>2. jar' = jar \/ \E b : jar' = [jar EXCEPT ![b] = NoCookie]
      BY <1>6 DEF FinishCallback
    <3>3. QED BY <3>1, <3>2 DEF TypeOK
  <2>3. QED BY <1>6, <2>1, <2>2 DEF FinishCallback, TypeOK, RequestRecord
<1>7. CASE Sweep
  BY <1>7 DEF Sweep, TypeOK, Restrict, requestVars
<1>8. CASE Restart
  <2>1. login' \in [Logins -> LoginRecord]
    BY <1>8 DEF Restart, TypeOK, LoginRecord, AfterRestart, Moved
  <2>2. QED BY <1>8, <2>1 DEF Restart, TypeOK, RequestRecord
<1>9. CASE Tick
  <2>1. states' \in [DOMAIN states' -> -1 .. Lifetime] /\ DOMAIN states' \subseteq Keys
    BY <1>9 DEF Tick, TypeOK, Expired
  <2>2. jar' \in [Browsers -> [url : Urls \union {NoUrl}, left : 0 .. Lifetime]]
    BY <1>9 DEF Tick, TypeOK, NoCookie
  <2>3. QED BY <1>9, <2>1, <2>2 DEF Tick, TypeOK, requestVars
<1>10. CASE UNCHANGED vars
  BY <1>10 DEF vars, requestVars, TypeOK
<1>11. QED BY <1>1, <1>2, <1>3, <1>4, <1>5, <1>6, <1>7, <1>8, <1>9, <1>10 DEF Next

(* No two logins share a key of the map, nor do a state and a return entry. *)
LEMMA KeysDiffer ==
  ASSUME NEW s, NEW q
  PROVE  StateKey(s) # ReturnKey(q) /\ (StateKey(s) = StateKey(q) => s = q)
BY DEF StateKey, ReturnKey

(* The entry of a login, its age and what was accepted for it go together. *)
Entries == EntriesAgree /\ RequestsFollow /\ NotLost

(* Every step keeps map, ages and acceptances in agreement. *)
LEMMA EntriesStep == TypeOK /\ Entries /\ [Next]_vars => Entries'
<1> SUFFICES ASSUME TypeOK, EntriesAgree, RequestsFollow, NotLost, [Next]_vars PROVE Entries'
  BY DEF Entries
<1> USE LoginAssumption
<1>1. ASSUME NEW s \in Logins, NEW b \in Browsers, NEW url \in Urls \union {NoUrl},
             StartLogin(s, b, url)
      PROVE  Entries'
  <2>1. /\ DOMAIN states' = DOMAIN states \union {StateKey(s)}
        /\ states'[StateKey(s)] = Lifetime
        /\ \A q \in Logins : q # s /\ StateKey(q) \in DOMAIN states =>
             states'[StateKey(q)] = states[StateKey(q)]
    BY <1>1, KeysDiffer DEF StartLogin, Put
  <2>2. \A q \in Logins : q # s => login'[q] = login[q] /\ age'[q] = age[q]
    BY <1>1 DEF StartLogin, TypeOK
  <2>3. login'[s].at = "starting" /\ age'[s] = 0 /\ accepted[s] = 0 /\ landed[s] = Nowhere
    BY <1>1 DEF StartLogin, TypeOK, RequestsFollow
  <2>4. UNCHANGED requestVars
    BY <1>1 DEF StartLogin
  <2>5. EntriesAgree'
    <3>1. \A q \in Logins : q # s /\ StateKey(q) \in DOMAIN states' =>
            StateKey(q) \in DOMAIN states
      BY <2>1, KeysDiffer
    <3>2. accepted' = accepted
      BY <2>4 DEF requestVars
    <3>3. QED BY <2>1, <2>2, <2>3, <3>1, <3>2 DEF EntriesAgree
  <2>6. NotLost'
    BY <2>1, <2>2, <2>3, <2>4 DEF NotLost, requestVars
  <2>7. ASSUME NEW r \in Requests, request[r] # Idle PROVE request[r].login # s
    BY <1>1, <2>7 DEF StartLogin, RequestsFollow
  <2>8. RequestsFollow'
    BY <2>2, <2>3, <2>4, <2>7, RequestFields DEF RequestsFollow, requestVars
  <2>9. QED BY <2>5, <2>6, <2>8 DEF Entries
<1>2. ASSUME NEW s \in Logins, FinishLogin(s) PROVE Entries'
  <2>1. /\ \A q \in Logins : StateKey(q) \in DOMAIN states' <=> StateKey(q) \in DOMAIN states
        /\ \A q \in Logins : StateKey(q) \in DOMAIN states =>
             states'[StateKey(q)] = states[StateKey(q)]
    BY <1>2, KeysDiffer DEF FinishLogin, Put
  <2>2. \A q \in Logins : q # s => login'[q] = login[q]
    BY <1>2 DEF FinishLogin, TypeOK
  <2>3. login[s].at = "starting" /\ login'[s].at = "away"
    BY <1>2 DEF FinishLogin, TypeOK, Moved
  <2>4. UNCHANGED <<age, request, accepted, landed>>
    BY <1>2 DEF FinishLogin, requestVars
  <2>5. EntriesAgree' /\ NotLost'
    BY <2>1, <2>2, <2>3, <2>4 DEF EntriesAgree, NotLost
  <2>6. RequestsFollow'
    BY <2>2, <2>3, <2>4, RequestFields DEF RequestsFollow
  <2>7. QED BY <2>5, <2>6 DEF Entries
<1>3. ASSUME NEW r \in Requests, NEW s \in Logins, NEW b \in Browsers, SendCallback(r, s, b)
      PROVE  Entries'
  <2>1. EntriesAgree' /\ NotLost'
    BY <1>3 DEF SendCallback, EntriesAgree, NotLost
  <2>2. \A q \in Requests : q # r => request'[q] = request[q]
    BY <1>3 DEF SendCallback, TypeOK
  <2>3. request'[r].login = s /\ login[s].at \in {"away", "forgotten"}
    BY <1>3 DEF SendCallback, TypeOK
  <2>4. UNCHANGED <<login, accepted, landed>>
    BY <1>3 DEF SendCallback
  <2>5. RequestsFollow'
    BY <2>2, <2>3, <2>4 DEF RequestsFollow
  <2>6. QED BY <2>1, <2>5 DEF Entries
<1>4. ASSUME NEW r \in Requests, Validate(r) PROVE Entries'
  <2> SUFFICES ASSUME NEW s, s = request[r].login PROVE Entries'
    OBVIOUS
  <2>1. request[r] # Idle
    BY <1>4 DEF Validate, Idle
  <2>2. s \in Logins /\ login[s].at \in {"away", "forgotten"}
    BY <2>1, RequestFields DEF RequestsFollow
  <2>3. \A q \in Logins : q # s => accepted'[q] = accepted[q]
    BY <1>4, <2>2 DEF Validate, TypeOK
  <2>4. \A q \in Logins : StateKey(q) \in DOMAIN states' <=>
          q # s /\ StateKey(q) \in DOMAIN states
    BY <1>4, KeysDiffer DEF Validate, Spent, Restrict
  <2>5. \A q \in Logins : StateKey(q) \in DOMAIN states' =>
          states'[StateKey(q)] = states[StateKey(q)]
    BY <1>4 DEF Validate, Spent, Restrict
  <2>6. UNCHANGED <<login, age, landed>>
    BY <1>4 DEF Validate
  <2>7. EntriesAgree'
    BY <2>3, <2>4, <2>5, <2>6 DEF EntriesAgree
  <2>8. ASSUME login[s].at = "away", accepted'[s] = 0, age[s] =< Lifetime PROVE FALSE
    <3>1. accepted[s] = 0 /\ ~Passes(s)
      BY <1>4, <2>2, <2>8 DEF Validate, TypeOK
    <3>2. StateKey(s) \in DOMAIN states
      BY <2>2, <2>8, <3>1 DEF NotLost
    <3>3. states[StateKey(s)] = Lifetime - age[s]
      BY <2>2, <3>2 DEF EntriesAgree
    <3>4. QED BY <2>2, <2>8, <3>1, <3>2, <3>3 DEF Passes, Expired, TypeOK
  <2>9. NotLost'
    BY <2>2, <2>3, <2>4, <2>6, <2>8 DEF NotLost
  <2>10. RequestsFollow'
    <3>1. \A q \in Requests : request'[q] # Idle =>
            request[q] # Idle /\ request'[q].login = request[q].login
      BY <1>4, <2>1 DEF Validate, TypeOK
    <3>2. QED BY <2>2, <2>3, <2>6, <3>1 DEF RequestsFollow
  <2>11. QED BY <2>7, <2>9, <2>10 DEF Entries
<1>5. ASSUME NEW r \in Requests, FailCallback(r) PROVE Entries'
  <2>1. \A q \in Requests : request'[q] # Idle => request'[q] = request[q]
    BY <1>5 DEF FailCallback, TypeOK
  <2>2. QED BY <1>5, <2>1 DEF FailCallback, Entries, EntriesAgree, RequestsFollow, NotLost
<1>6. ASSUME NEW r \in Requests, FinishCallback(r) PROVE Entries'
  <2>1. \A q \in Requests : request'[q] # Idle => request'[q] = request[q]
    BY <1>6 DEF FinishCallback, TypeOK
  <2>2. request[r] # Idle
    BY <1>6 DEF FinishCallback, Idle
  <2>3. login[request[r].login].at \in {"away", "forgotten"}
    BY <2>2 DEF RequestsFollow
  <2>4. \A q \in Logins : q # request[r].login => landed'[q] = landed[q]
    BY <1>6 DEF FinishCallback, TypeOK
  <2>5. UNCHANGED <<states, login, age, accepted>>
    BY <1>6 DEF FinishCallback
  <2>6. QED BY <2>1, <2>3, <2>4, <2>5 DEF Entries, EntriesAgree, RequestsFollow, NotLost
<1>7. CASE Sweep
  <2>1. \A s \in Logins : StateKey(s) \in DOMAIN states' <=>
          StateKey(s) \in DOMAIN states /\ ~Expired(StateKey(s))
    BY <1>7 DEF Sweep, Restrict
  <2>2. \A s \in Logins : StateKey(s) \in DOMAIN states' =>
          states'[StateKey(s)] = states[StateKey(s)]
    BY <1>7 DEF Sweep, Restrict
  <2>3. UNCHANGED <<login, request, accepted, landed, age>>
    BY <1>7 DEF Sweep, requestVars
  <2>4. EntriesAgree' /\ RequestsFollow'
    BY <2>1, <2>2, <2>3 DEF EntriesAgree, RequestsFollow
  <2>5. ASSUME NEW s \in Logins, StateKey(s) \in DOMAIN states, age[s] =< Lifetime
        PROVE  ~Expired(StateKey(s))
    BY <2>5 DEF EntriesAgree, Expired, TypeOK
  <2>6. NotLost'
    BY <2>1, <2>3, <2>5 DEF NotLost
  <2>7. QED BY <2>4, <2>6 DEF Entries
<1>8. CASE Restart
  <2>1. states' = <<>> /\ UNCHANGED <<age, accepted, landed>>
    BY <1>8 DEF Restart
  <2>2. \A r \in Requests : request'[r] = Idle
    BY <1>8 DEF Restart
  <2>3. ASSUME NEW s \in Logins
        PROVE  /\ login'[s].at \in {"unused", "dead", "forgotten"}
               /\ login'[s].at \in {"unused", "dead"} =>
                    login[s].at \in {"unused", "dead", "starting"}
    BY <1>8, LoginFields DEF Restart, AfterRestart, Moved
  <2>4. QED BY <2>1, <2>2, <2>3 DEF Entries, EntriesAgree, RequestsFollow, NotLost
<1>9. CASE Tick
  <2>1. DOMAIN states' = DOMAIN states /\ UNCHANGED <<login, request, accepted, landed>>
    BY <1>9 DEF Tick, requestVars
  <2>2. \A s \in Logins : StateKey(s) \in DOMAIN states =>
          states'[StateKey(s)] = IF states[StateKey(s)] < 0 THEN states[StateKey(s)]
                                 ELSE states[StateKey(s)] - 1
    BY <1>9 DEF Tick, Expired
  <2>3. \A s \in Logins :
          age'[s] = IF login[s].at = "unused" \/ age[s] > Lifetime THEN age[s] ELSE age[s] + 1
    BY <1>9 DEF Tick
  <2>4. \A s \in Logins : age[s] \in 0 .. Lifetime + 1
    BY DEF TypeOK
  <2>5. EntriesAgree'
    BY <2>1, <2>2, <2>3, <2>4 DEF EntriesAgree
  <2>6. NotLost' /\ RequestsFollow'
    BY <2>1, <2>3, <2>4 DEF NotLost, RequestsFollow
  <2>7. QED BY <2>5, <2>6 DEF Entries
<1>10. CASE UNCHANGED vars
  BY <1>10 DEF vars, requestVars, Entries, EntriesAgree, RequestsFollow, NotLost
<1>11. QED BY <1>1, <1>2, <1>3, <1>4, <1>5, <1>6, <1>7, <1>8, <1>9, <1>10 DEF Next

(* Once a login has been sent on its way, its record keeps what it asked for. *)
LEMMA LoginKept ==
  ASSUME TypeOK, [Next]_vars, NEW q \in Logins, login[q].at \in {"away", "forgotten"}
  PROVE  /\ login'[q].at \in {"away", "forgotten"}
         /\ login'[q].browser = login[q].browser /\ login'[q].url = login[q].url
<1>1. ASSUME NEW s \in Logins, NEW b \in Browsers, NEW url \in Urls \union {NoUrl},
             StartLogin(s, b, url)
      PROVE  login'[q] = login[q]
  BY <1>1 DEF StartLogin, TypeOK
<1>2. ASSUME NEW s \in Logins, FinishLogin(s) PROVE login'[q] = login[q]
  BY <1>2 DEF FinishLogin, TypeOK
<1>3. ASSUME NEW r \in Requests, NEW s \in Logins, NEW b \in Browsers, SendCallback(r, s, b)
      PROVE  login' = login
  BY <1>3 DEF SendCallback
<1>4. ASSUME NEW r \in Requests, Validate(r) \/ FailCallback(r) \/ FinishCallback(r)
      PROVE  login' = login
  BY <1>4 DEF Validate, FailCallback, FinishCallback
<1>5. CASE Restart
  BY <1>5 DEF Restart, AfterRestart, Moved
<1>6. CASE Sweep \/ Tick \/ UNCHANGED vars
  BY <1>6 DEF Sweep, Tick, vars
<1>7. QED BY <1>1, <1>2, <1>3, <1>4, <1>5, <1>6 DEF Next

(* A step that gives no browser a new URL keeps the jars traceable. *)
LEMMA JarKept ==
  ASSUME TypeOK, [Next]_vars, JarAsked, \A b \in Browsers : jar'[b].url \in {NoUrl, jar[b].url}
  PROVE  JarAsked'
<1> SUFFICES ASSUME NEW b \in Browsers, jar'[b].url # NoUrl
             PROVE  \E q \in Logins : /\ login'[q].at \in {"away", "forgotten"}
                                     /\ login'[q].browser = b /\ login'[q].url = jar'[b].url
  BY DEF JarAsked, Asked
<1>1. PICK q \in Logins : /\ login[q].at \in {"away", "forgotten"}
                         /\ login[q].browser = b /\ login[q].url = jar'[b].url
  BY DEF JarAsked, Asked
<1>2. QED BY <1>1, LoginKept

(* What was asked for in a browser stays asked for. *)
LEMMA AskedKept ==
  ASSUME TypeOK, [Next]_vars, NEW b, NEW url, Asked(b, url)
  PROVE  \E q \in Logins : /\ login'[q].at \in {"away", "forgotten"}
                          /\ login'[q].browser = b /\ login'[q].url = url
<1>1. PICK q \in Logins : /\ login[q].at \in {"away", "forgotten"}
                         /\ login[q].browser = b /\ login[q].url = url
  BY DEF Asked
<1>2. QED BY <1>1, LoginKept

(* Every step keeps every URL traceable to a login of its browser. *)
LEMMA UrlsStep == TypeOK /\ RequestsFollow /\ UrlsAsked /\ [Next]_vars => UrlsAsked'
<1> SUFFICES ASSUME TypeOK, RequestsFollow, JarAsked, RequestsAsked, ReturnUrlOfThisBrowser,
                    [Next]_vars
             PROVE  UrlsAsked'
  BY DEF UrlsAsked
<1> USE LoginAssumption
<1>1. ASSUME NEW s \in Logins, landed'[s] = landed[s], landed[s].url \notin {NoUrl, Home}
      PROVE  /\ landed'[s].url \in ValidUrls
             /\ \E q \in Logins : /\ login'[q].at \in {"away", "forgotten"}
                                  /\ login'[q].browser = landed'[s].browser
                                  /\ login'[q].url = landed'[s].url
  <2>1. landed[s].url \in ValidUrls /\ Asked(landed[s].browser, landed[s].url)
    BY <1>1 DEF ReturnUrlOfThisBrowser, Asked
  <2>2. QED BY <1>1, <2>1, AskedKept
<1>0. ASSUME landed' = landed PROVE ReturnUrlOfThisBrowser'
  BY <1>0, <1>1 DEF ReturnUrlOfThisBrowser
<1>2. ASSUME \A r \in Requests : request'[r] # Idle =>
               /\ request[r] # Idle /\ request'[r].browser = request[r].browser
               /\ request'[r].url = request[r].url
      PROVE  RequestsAsked'
  <2> SUFFICES ASSUME NEW r \in Requests, request'[r] # Idle, request'[r].url # NoUrl
               PROVE  \E q \in Logins : /\ login'[q].at \in {"away", "forgotten"}
                                       /\ login'[q].browser = request'[r].browser
                                       /\ login'[q].url = request'[r].url
    BY DEF RequestsAsked, Asked
  <2>1. /\ request'[r].browser = request[r].browser /\ request'[r].url = request[r].url
        /\ request[r] # Idle /\ request[r].url # NoUrl
    BY <1>2
  <2>2. Asked(request[r].browser, request[r].url)
    BY <2>1 DEF RequestsAsked
  <2>3. \E q \in Logins : /\ login'[q].at \in {"away", "forgotten"}
                          /\ login'[q].browser = request[r].browser
                          /\ login'[q].url = request[r].url
    BY <2>2, AskedKept
  <2>4. QED BY <2>1, <2>3
<1>3. ASSUME jar' = jar PROVE JarAsked'
  BY <1>3, JarKept
<1>4. ASSUME NEW s \in Logins, NEW b \in Browsers, NEW url \in Urls \union {NoUrl},
             StartLogin(s, b, url)
      PROVE  UrlsAsked'
  BY <1>0, <1>2, <1>3, <1>4 DEF StartLogin, requestVars, UrlsAsked
<1>5. ASSUME NEW s \in Logins, FinishLogin(s) PROVE UrlsAsked'
  <2> SUFFICES ASSUME NEW b, b = login[s].browser, NEW url, url = login[s].url PROVE UrlsAsked'
    OBVIOUS
  <2>1. /\ login'[s].at = "away" /\ login'[s].browser = b /\ login'[s].url = url
        /\ b \in Browsers
    BY <1>5, LoginFields DEF FinishLogin, TypeOK, Moved
  <2>2. CASE jar' = jar
    BY <1>0, <1>2, <1>3, <1>5, <2>2 DEF FinishLogin, requestVars, UrlsAsked
  <2>3. CASE jar' = [jar EXCEPT ![b] = [url |-> url, left |-> Lifetime]]
    <3>1. JarAsked'
      <4> SUFFICES ASSUME NEW c \in Browsers, jar'[c].url # NoUrl
                   PROVE  \E q \in Logins : /\ login'[q].at \in {"away", "forgotten"}
                                           /\ login'[q].browser = c
                                           /\ login'[q].url = jar'[c].url
        BY DEF JarAsked, Asked
      <4>1. CASE c = b
        BY <2>1, <2>3, <4>1 DEF TypeOK
      <4>2. CASE c # b
        <5>1. jar'[c].url = jar[c].url
          BY <2>3, <4>2 DEF TypeOK
        <5>2. PICK q \in Logins : /\ login[q].at \in {"away", "forgotten"}
                                 /\ login[q].browser = c /\ login[q].url = jar[c].url
          BY <5>1 DEF JarAsked, Asked
        <5>3. QED BY <5>1, <5>2, LoginKept
      <4>3. QED BY <4>1, <4>2
    <3>2. QED BY <1>0, <1>2, <1>5, <3>1 DEF FinishLogin, requestVars, UrlsAsked
  <2>4. QED BY <1>5, <2>2, <2>3 DEF FinishLogin, Carry
<1>6. ASSUME NEW r \in Requests, NEW s \in Logins, NEW b \in Browsers, SendCallback(r, s, b)
      PROVE  UrlsAsked'
  <2>1. login' = login /\ jar' = jar /\ landed' = landed
    BY <1>6 DEF SendCallback
  <2>2. /\ request'[r].browser = b /\ request'[r].url \in {NoUrl, jar[b].url}
        /\ \A q \in Requests : q # r => request'[q] = request[q]
    BY <1>6 DEF SendCallback, Sent, TypeOK
  <2>3. RequestsAsked'
    <3> SUFFICES ASSUME NEW q \in Requests, request'[q] # Idle, request'[q].url # NoUrl
                 PROVE  Asked(request'[q].browser, request'[q].url)
      BY <2>1 DEF RequestsAsked, Asked
    <3>1. CASE q = r
      BY <2>2, <3>1 DEF JarAsked
    <3>2. CASE q # r
      BY <2>2, <3>2 DEF RequestsAsked
    <3>3. QED BY <3>1, <3>2
  <2>4. QED BY <1>0, <1>3, <2>1, <2>3 DEF UrlsAsked
<1>7. ASSUME NEW r \in Requests, Validate(r) PROVE UrlsAsked'
  <2>1. request[r] # Idle
    BY <1>7 DEF Validate, Idle
  <2>2. \A q \in Requests : request'[q] # Idle =>
          /\ request[q] # Idle /\ request'[q].browser = request[q].browser
          /\ request'[q].url = request[q].url
    BY <1>7, <2>1 DEF Validate, TypeOK
  <2>3. QED BY <1>0, <1>2, <1>3, <1>7, <2>2 DEF Validate, UrlsAsked
<1>8. ASSUME NEW r \in Requests, FailCallback(r) PROVE UrlsAsked'
  <2>1. \A q \in Requests : request'[q] # Idle => request'[q] = request[q]
    BY <1>8 DEF FailCallback, TypeOK
  <2>2. QED BY <1>0, <1>2, <1>3, <1>8, <2>1 DEF FailCallback, UrlsAsked
<1>9. ASSUME NEW r \in Requests, FinishCallback(r) PROVE UrlsAsked'
  <2>1. request[r] # Idle /\ request[r].login \in Logins
    BY <1>9, RequestFields DEF FinishCallback, Idle
  <2>2. \A q \in Requests : request'[q] # Idle => request'[q] = request[q]
    BY <1>9 DEF FinishCallback, TypeOK
  <2>3. RequestsAsked'
    BY <1>2, <2>2
  <2>4. JarAsked'
    <3>1. jar' = jar \/ \E b : jar' = [jar EXCEPT ![b] = NoCookie]
      BY <1>9 DEF FinishCallback
    <3>2. \A b \in Browsers : jar'[b].url \in {NoUrl, jar[b].url}
      BY <3>1 DEF NoCookie, TypeOK
    <3>3. QED BY <3>2, JarKept
  <2>5. ASSUME NEW s \in Logins, landed'[s].url \notin {NoUrl, Home}
        PROVE  /\ landed'[s].url \in ValidUrls
               /\ \E q \in Logins : /\ login'[q].at \in {"away", "forgotten"}
                                    /\ login'[q].browser = landed'[s].browser
                                    /\ login'[q].url = landed'[s].url
    <3>1. CASE s # request[r].login
      <4>1. landed'[s] = landed[s]
        BY <1>9, <3>1 DEF FinishCallback, TypeOK
      <4>2. QED BY <1>1, <2>5, <4>1
    <3>2. CASE s = request[r].login
      <4>1. /\ landed'[s].browser = request[r].browser
            /\ landed'[s].url = Destination(request[r].url)
        BY <1>9, <2>1, <3>2 DEF FinishCallback, TypeOK
      <4>2. /\ landed'[s].url = request[r].url /\ request[r].url \in ValidUrls
            /\ request[r].url # NoUrl
        BY <2>5, <4>1 DEF Destination
      <4>3. Asked(request[r].browser, request[r].url)
        BY <2>1, <4>2 DEF RequestsAsked
      <4>4. QED BY <4>1, <4>2, <4>3, AskedKept
    <3>3. QED BY <3>1, <3>2
  <2>6. QED BY <2>3, <2>4, <2>5 DEF UrlsAsked, ReturnUrlOfThisBrowser
<1>10. CASE Sweep
  BY <1>0, <1>2, <1>3, <1>10 DEF Sweep, requestVars, UrlsAsked
<1>11. CASE Restart
  BY <1>0, <1>2, <1>3, <1>11 DEF Restart, UrlsAsked
<1>12. CASE Tick
  <2>1. \A b \in Browsers : jar'[b].url \in {NoUrl, jar[b].url}
    BY <1>12 DEF Tick, NoCookie, TypeOK
  <2>2. JarAsked'
    BY <2>1, JarKept
  <2>3. QED BY <1>0, <1>2, <1>12, <2>2 DEF Tick, requestVars, UrlsAsked
<1>13. CASE UNCHANGED vars
  BY <1>0, <1>2, <1>3, <1>13 DEF vars, requestVars, UrlsAsked
<1>14. QED BY <1>4, <1>5, <1>6, <1>7, <1>8, <1>9, <1>10, <1>11, <1>12, <1>13 DEF Next

(* Every reachable state of the handler satisfies the invariant. *)
THEOREM Invariance == Spec => []IInv
<1>1. Init => IInv BY InitInv
<1>2. IInv /\ [Next]_vars => IInv'
  BY TypeStep, EntriesStep, UrlsStep DEF IInv, Entries
<1>3. QED BY <1>1, <1>2, PTL DEF Spec

(* Type correctness of the map, the requests and the browsers' cookies. *)
THEOREM TypeCorrect == Spec => []TypeOK
<1>1. IInv => TypeOK BY DEF IInv
<1>2. QED BY <1>1, Invariance, PTL

(* No sweep or callback takes away the state of a login under way. *)
THEOREM StatesKept == Spec => []NotLost
<1>1. IInv => NotLost BY DEF IInv
<1>2. QED BY <1>1, Invariance, PTL

(* Callback sends a browser home or where a login of this browser asked    *)
(* for, even if the state it came with is that of another browser's login. *)
THEOREM UrlsStayInBrowser == Spec => []ReturnUrlOfThisBrowser
<1>1. IInv => ReturnUrlOfThisBrowser BY DEF IInv, UrlsAsked
<1>2. QED BY <1>1, Invariance, PTL

(* validateState lets through the first callback in time, and no other. *)
THEOREM FirstInTimeAccepted == Spec => AcceptsFirstInTime
<1> DEFINE Act ==
      \A r \in Requests : Validate(r) =>
        LET s == request[r].login
        IN accepted'[s] > accepted[s] <=>
             login[s].at = "away" /\ accepted[s] = 0 /\ age[s] =< Lifetime
<1>1. IInv /\ [Next]_vars => [Act]_vars
  <2> SUFFICES ASSUME IInv, NEW r \in Requests, Validate(r), NEW s, s = request[r].login
               PROVE  accepted'[s] > accepted[s] <=>
                        login[s].at = "away" /\ accepted[s] = 0 /\ age[s] =< Lifetime
    OBVIOUS
  <2> USE LoginAssumption
  <2>1. request[r] # Idle /\ TypeOK
    BY DEF Validate, Idle, IInv
  <2>2. s \in Logins /\ login[s].at \in {"away", "forgotten"}
    BY <2>1, RequestFields DEF IInv, RequestsFollow
  <2>3. accepted[s] \in Nat /\ age[s] \in 0 .. Lifetime + 1
    BY <2>1, <2>2 DEF TypeOK
  <2>4. accepted'[s] > accepted[s] <=> Passes(s)
    BY <2>1, <2>2, <2>3 DEF Validate, TypeOK
  <2>5. StateKey(s) \in DOMAIN states =>
          login[s].at = "away" /\ accepted[s] = 0 /\ states[StateKey(s)] = Lifetime - age[s]
    BY <2>2 DEF IInv, EntriesAgree
  <2>6. login[s].at = "away" /\ accepted[s] = 0 /\ age[s] =< Lifetime =>
          StateKey(s) \in DOMAIN states
    BY <2>2 DEF IInv, NotLost
  <2>7. QED BY <2>3, <2>4, <2>5, <2>6 DEF Passes, Expired
<1>2. QED BY <1>1, Invariance, PTL DEF Spec, AcceptsFirstInTime
===========================================================================
