---------------------------- MODULE LoginStates ----------------------------
(***************************************************************************)
(* handlers/auth.go: the map of login states that Login fills, Callback    *)
(* empties and cleanupStates sweeps, and the return cookie that carries a  *)
(* deep link from Login to the end of Callback.                            *)
(*                                                                         *)
(* Login takes statesMutex twice, once in generateState and once for the   *)
(* return entry.  Each generateState starts one cleanupStates goroutine.   *)
(* Callback takes the mutex in validateState only; the cookies it reads at *)
(* its end are those the browser sent when it made the request.  The       *)
(* callback of one login may come several times, late, never, and from any *)
(* browser: a state is bound to none.                                      *)
(*                                                                         *)
(* Time is kept as differences: an entry holds its expiry minus now, down  *)
(* to -1, which stands for every expiry in the past.                       *)
(***************************************************************************)
EXTENDS Integers, Functions

CONSTANTS
  Browsers,          \* each has one cookie jar, shared by its tabs
  Logins,            \* calls of /login, each with its random state string
  Requests,          \* goroutines serving /callback
  Urls,              \* deep links
  ValidUrls,         \* those isValidReturnURL accepts
  NoUrl,             \* no return URL
  Home,              \* the EBS home page
  Lifetime,          \* ten minutes, of a state and of the return cookie
  EnableReturnURL    \* ebs.enable_return_url

ASSUME LoginAssumption ==
  /\ ValidUrls \subseteq Urls /\ NoUrl \notin Urls /\ Home \notin Urls /\ NoUrl # Home
  /\ Lifetime \in Nat \ {0} /\ EnableReturnURL \in BOOLEAN

VARIABLES
  states,     \* h.states: by key, the time until the entry expires
  sweeps,     \* cleanupStates goroutines that have not run yet
  login,      \* by login: how far it is, its browser and its return URL
  request,    \* by request: how far it is, its login, and the browser that
              \* sent it with which return URL in its cookie
  jar,        \* by browser: the EBS_SSO_RETURN cookie and the time it has left
  \* History, read by no guard:
  age,        \* by login: time since generateState, at most Lifetime + 1
  accepted,   \* by login: callbacks that passed validateState
  landed      \* by login: where its callback sent which browser

requestVars == <<request, accepted, landed>>
vars == <<states, sweeps, login, requestVars, jar, age>>

(* The two keys a login may have in the map: state and state + ":return".  *)
StateKey(s) == <<s, "state">>
ReturnKey(s) == <<s, "return">>
Keys == Logins \X {"state", "return"}

Idle == [pc |-> "idle"]
NoCookie == [url |-> NoUrl, left |-> 0]
Nowhere == [url |-> NoUrl]

Init ==
  /\ states = <<>> /\ sweeps = 0
  /\ login = [s \in Logins |-> [at |-> "unused"]]
  /\ request = [r \in Requests |-> Idle]
  /\ jar = [b \in Browsers |-> NoCookie]
  /\ age = [s \in Logins |-> 0]
  /\ accepted = [s \in Logins |-> 0]
  /\ landed = [s \in Logins |-> Nowhere]

Moved(l, at) == [at |-> at, browser |-> l.browser, url |-> l.url]

Put(f, k, v) == [x \in DOMAIN f \union {k} |-> IF x = k THEN v ELSE f[x]]

---------------------------------------------------------------------------
(* Deliberately faulty variants of operators below, for mutation runs. *)

(* validateState deletes the entry only when it has expired *)
SpentKept(k) == IF k \in DOMAIN states /\ states[k] < 0
                THEN Restrict(states, DOMAIN states \ {k}) ELSE states

(* an entry counts as expired one unit too early *)
ExpiredEarly(k) == states[k] =< 0

(* validateState takes any state that is in the map *)
PassesUnchecked(s) == StateKey(s) \in DOMAIN states

(* the return URL is kept in a field of the handler, for all browsers *)
CarryForAll(b, c) == [x \in Browsers |-> c]

(* the cookie outlives the state it was set for *)
CarryTooLong(b, c) == [jar EXCEPT ![b] = [url |-> c.url, left |-> c.left + 1]]

(* isValidReturnURL is not asked *)
DestinationUnchecked(url) == IF EnableReturnURL /\ url # NoUrl THEN url ELSE Home

---------------------------------------------------------------------------
(* now.After(expiry) *)
Expired(k) == states[k] < 0

(* generateState: a new state enters the map, and a sweep is started. *)
StartLogin(s, b, url) ==
  /\ login[s].at = "unused"
  /\ states' = Put(states, StateKey(s), Lifetime)
  /\ sweeps' = sweeps + 1
  /\ login' = [login EXCEPT ![s] = [at |-> "starting", browser |-> b, url |-> url]]
  /\ age' = [age EXCEPT ![s] = 0]
  /\ UNCHANGED <<requestVars, jar>>

(* The rest of Login: a return URL is entered in the map and given to the  *)
(* browser as a cookie; the browser goes on to the identity provider.      *)
Carry(b, c) == [jar EXCEPT ![b] = c]

FinishLogin(s) ==
  /\ login[s].at = "starting"
  /\ \/ /\ EnableReturnURL /\ login[s].url # NoUrl
        /\ states' = Put(states, ReturnKey(s), Lifetime)
        /\ jar' = Carry(login[s].browser, [url |-> login[s].url, left |-> Lifetime])
     \/ /\ ~EnableReturnURL \/ login[s].url = NoUrl
        /\ UNCHANGED <<states, jar>>
  /\ login' = [login EXCEPT ![s] = Moved(@, "away")]
  /\ UNCHANGED <<sweeps, requestVars, age>>

(* cleanupStates *)
Sweep ==
  /\ sweeps > 0
  /\ sweeps' = sweeps - 1
  /\ states' = Restrict(states, {k \in DOMAIN states : ~Expired(k)})
  /\ UNCHANGED <<login, requestVars, jar, age>>

(* The identity provider sends a browser back: a callback request with the *)
(* login's state and whatever cookie the browser has by then.  It need not *)
(* be the browser that the login began in.                                 *)
Sent(b) == IF jar[b].left > 0 THEN jar[b].url ELSE NoUrl

SendCallback(r, s, b) ==
  /\ request[r] = Idle
  /\ login[s].at \in {"away", "forgotten"}
  /\ request' = [request EXCEPT ![r] =
       [pc |-> "arrived", login |-> s, browser |-> b, url |-> Sent(b)]]
  /\ UNCHANGED <<states, sweeps, login, jar, age, accepted, landed>>

(* validateState: the entry is spent, whether or not it was still good. *)
Passes(s) == StateKey(s) \in DOMAIN states /\ ~Expired(StateKey(s))
Spent(k) == Restrict(states, DOMAIN states \ {k})

Validate(r) ==
  /\ request[r].pc = "arrived"
  /\ LET s == request[r].login
     IN /\ states' = Spent(StateKey(s))
        /\ IF Passes(s)
           THEN /\ request' = [request EXCEPT ![r] =
                     [pc |-> "validated", login |-> s,
                      browser |-> request[r].browser, url |-> request[r].url]]
                /\ accepted' = [accepted EXCEPT ![s] = @ + 1]
           ELSE request' = [request EXCEPT ![r] = Idle] /\ UNCHANGED accepted
  /\ UNCHANGED <<sweeps, login, jar, age, landed>>

(* Callback fails after validateState: an error page, the cookie stays.    *)
FailCallback(r) ==
  /\ request[r].pc = "validated"
  /\ request' = [request EXCEPT ![r] = Idle]
  /\ UNCHANGED <<states, sweeps, login, jar, age, accepted, landed>>

(* Callback succeeds: to the URL of the request's cookie if that is valid, *)
(* home otherwise; a cookie that was sent is cleared.                      *)
Destination(url) == IF EnableReturnURL /\ url \in ValidUrls THEN url ELSE Home

FinishCallback(r) ==
  /\ request[r].pc = "validated"
  /\ landed' = [landed EXCEPT ![request[r].login] =
       [url |-> Destination(request[r].url), browser |-> request[r].browser]]
  /\ jar' = IF EnableReturnURL /\ request[r].url # NoUrl
            THEN [jar EXCEPT ![request[r].browser] = NoCookie]
            ELSE jar
  /\ request' = [request EXCEPT ![r] = Idle]
  /\ UNCHANGED <<states, sweeps, login, age, accepted>>

(* The process restarts: the map and every request under way are gone. *)
AfterRestart(l) ==
  IF l.at = "away" THEN Moved(l, "forgotten")
  ELSE IF l.at = "starting" THEN [at |-> "dead"] ELSE l

Restart ==
  /\ states' = <<>> /\ sweeps' = 0
  /\ request' = [r \in Requests |-> Idle]
  /\ login' = [s \in Logins |-> AfterRestart(login[s])]
  /\ UNCHANGED <<jar, age, accepted, landed>>

Tick ==
  /\ states' = [k \in DOMAIN states |-> IF Expired(k) THEN states[k] ELSE states[k] - 1]
  /\ jar' = [b \in Browsers |-> IF jar[b].left > 1
                                THEN [url |-> jar[b].url, left |-> jar[b].left - 1]
                                ELSE NoCookie]
  /\ age' = [s \in Logins |-> IF login[s].at = "unused" \/ age[s] > Lifetime
                              THEN age[s] ELSE age[s] + 1]
  /\ UNCHANGED <<sweeps, login, requestVars>>

Next ==
  \/ \E s \in Logins :
       \/ \E b \in Browsers, url \in Urls \union {NoUrl} : StartLogin(s, b, url)
       \/ FinishLogin(s)
  \/ \E r \in Requests :
       \/ \E s \in Logins, b \in Browsers : SendCallback(r, s, b)
       \/ Validate(r) \/ FailCallback(r) \/ FinishCallback(r)
  \/ Sweep \/ Restart \/ Tick

Spec == Init /\ [][Next]_vars

---------------------------------------------------------------------------
(* The types of the map, the logins, the requests and the browsers. *)
LoginRecord ==
  [at : {"unused", "dead"}]
    \union [at : {"starting", "away", "forgotten"}, browser : Browsers, url : Urls \union {NoUrl}]

RequestRecord ==
  {Idle} \union [pc : {"arrived", "validated"},
                 login : Logins, browser : Browsers, url : Urls \union {NoUrl}]

TypeOK ==
  /\ DOMAIN states \subseteq Keys /\ states \in [DOMAIN states -> -1 .. Lifetime]
  /\ sweeps \in Nat
  /\ login \in [Logins -> LoginRecord] /\ request \in [Requests -> RequestRecord]
  /\ jar \in [Browsers -> [url : Urls \union {NoUrl}, left : 0 .. Lifetime]]
  /\ age \in [Logins -> 0 .. Lifetime + 1]
  /\ accepted \in [Logins -> Nat]
  /\ landed \in [Logins -> {Nowhere} \union [url : Urls \union {Home}, browser : Browsers]]

(* A login whose browser is still on its way has its state in the map: no  *)
(* sweep that another login started, and no callback of another login,     *)
(* takes it away before its ten minutes are over.                          *)
NotLost ==
  \A s \in Logins :
    login[s].at \in {"starting", "away"} /\ accepted[s] = 0 /\ age[s] =< Lifetime =>
      StateKey(s) \in DOMAIN states

(* A callback is let through exactly when it is the first of its login, no *)
(* later than ten minutes after /login, and the process has not restarted  *)
(* in between: a reloaded or repeated callback fails, the first one in     *)
(* time never does, whatever sweeps and other callbacks run beside it.     *)
AcceptsFirstInTime ==
  [][\A r \in Requests : Validate(r) =>
       LET s == request[r].login
       IN accepted'[s] > accepted[s] <=>
            login[s].at = "away" /\ accepted[s] = 0 /\ age[s] =< Lifetime]_vars

(* Callback sends a browser nowhere but home or to a valid URL that a      *)
(* login of this same browser asked for, whosever state it came with: a    *)
(* callback with the state of another browser's login takes no URL along.  *)
ReturnUrlOfThisBrowser ==
  \A s \in Logins : landed[s].url \notin {NoUrl, Home} =>
    /\ landed[s].url \in ValidUrls
    /\ \E q \in Logins : /\ login[q].at \in {"away", "forgotten"}
                         /\ login[q].browser = landed[s].browser
                         /\ login[q].url = landed[s].url

(* FEATURES_V2.md on deep links: "After login, returns to original WebADI  *)
(* URL", and the comment in Login: "Store return URL associated with       *)
(* state".  So a login that asked for a valid URL and ends in the browser  *)
(* it began in does not end at the URL of another one.                     *)
ReturnsToOwnUrl ==
  \A s \in Logins :
    landed[s].url \notin {NoUrl, Home} /\ landed[s].browser = login[s].browser =>
      landed[s].url = login[s].url
===========================================================================
