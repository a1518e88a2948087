------------------------------- MODULE Proxy -------------------------------
(***************************************************************************)
(* handlers/proxy.go: requests for EBS pages that the gateway passes on    *)
(* with the cookies of the browser, or sends to sign in with a link back.  *)
(* ProxyRequest asks the database whether the session of its own cookie is *)
(* valid, and EBS serves the page some time later for the session of the   *)
(* cookie ICX_SESSION: in between the user may sign out or sign in again   *)
(* in another tab, the session may time out, the database may fail and the *)
(* process may restart; and EBS's answer may set ICX_SESSION.              *)
(*                                                                         *)
(* Who signs in at a browser is open, and a sign-in is what SignOn         *)
(* promises: a new session, or none.  The link is followed from the        *)
(* redirect of its own request; that tabs share its cookie is in           *)
(* LoginStates.                                                            *)
(***************************************************************************)
EXTENDS IcxSessions, PathRules

CONSTANTS
  Browsers,
  Requests,   \* the goroutines that serve proxied requests
  Tokens,     \* what paths and queries are made of
  Files,      \* values of ebs.allowed_paths
  Pages       \* what users ask for: a path and a query

ASSUME ProxyAssumption ==
  /\ {"/", "*", "?"} \subseteq Tokens
  /\ Files \subseteq SUBSET Seq(Tokens)
  /\ Pages \subseteq [path : Seq(Tokens), query : Seq(Tokens)]
  /\ \A page \in Pages : page.path \notin OwnRoutes

VARIABLES
  allowed,           \* ebs.allowed_paths of this process
  enableReturnURL,   \* ebs.enable_return_url
  jar,               \* by browser: its cookies
  req                \* by request: how far it is, whose it is, for which page,
                     \* with which cookies; and whether its session had ended
                     \* when it came in (history, read by no guard)

settings == <<allowed, enableReturnURL>>
vars == <<icx, settings, jar, req>>

(* sso is the cookie of session.cookie_name, icx is ICX_SESSION, which     *)
(* ebs_session follows.  mixed is history: icx has been set by EBS for     *)
(* another sign-in than sso's.                                             *)
AnyId == Ids \union {NoId}
Cookies == [sso : AnyId, icx : AnyId, mixed : BOOLEAN]

Request ==
  [stage : {"arrived", "forwarded", "login", "done"},
   browser : Browsers, page : Pages, cookies : Cookies, ended : BOOLEAN,
   shown : {"nothing", "forbidden", "error", "ebs", "ebsLogin", "home", "link"}]

At(r, s) == r \in DOMAIN req /\ req[r].stage = s
Now(q, s, what) ==
  [stage |-> s, browser |-> q.browser, page |-> q.page, cookies |-> q.cookies,
   ended |-> q.ended, shown |-> what]
To(r, s) == req' = [req EXCEPT ![r] = Now(@, s, "nothing")]
Show(r, what) == req' = [req EXCEPT ![r] = Now(@, "done", what)]

---------------------------------------------------------------------------
(* Deliberately faulty variants of operators below, for mutation runs. *)

(* a session cookie is enough *)
AnyCookie(id) == TRUE

(* a sign-in sets the gateway's own cookie only *)
SetOwnCookie(old, id) == [sso |-> id, icx |-> old.icx, mixed |-> FALSE]

(* a sign-out empties the jar instead of the cookies *)
LogoutDropsJar(b) ==
  /\ EndSession(jar[b].sso)
  /\ jar' = Delete(jar, b)
  /\ UNCHANGED <<settings, req>>

---------------------------------------------------------------------------
(* setEBSCookies, clearEBSCookies, and the Set-Cookie of an answer to q *)
SetCookies(old, id) == [sso |-> id, icx |-> id, mixed |-> FALSE]
ClearCookies(old) == [sso |-> NoId, icx |-> NoId, mixed |-> FALSE]
CookieOfAnswer(old, q, id) ==
  [sso |-> old.sso, icx |-> id,
   mixed |-> \/ old.mixed \/ q.cookies.mixed \/ old.sso # q.cookies.sso
             \/ id \notin {q.cookies.icx, NoId}]

(* main panics at a list that Gin does not take. *)
Init ==
  /\ allowed \in {f \in Files : Registers(f)}
  /\ enableReturnURL \in BOOLEAN
  /\ IcxInit
  /\ jar = [b \in Browsers |-> [sso |-> NoId, icx |-> NoId, mixed |-> FALSE]]
  /\ req = <<>>

---------------------------------------------------------------------------
(* A browser asks for a page with the cookies it has; a path without a     *)
(* route is not ProxyRequest's.                                            *)
Arrive(r, b, page) ==
  /\ r \notin DOMAIN req /\ Routed(page.path, allowed)
  /\ req' = Put(req, r, [stage |-> "arrived", browser |-> b, page |-> page, cookies |-> jar[b],
                         ended |-> ~ValidateSession(jar[b].sso), shown |-> "nothing"])
  /\ UNCHANGED <<icx, settings, jar>>

(* The browser sends a cookie and ValidateSession finds the session valid. *)
Accepted(id) == ValidateSession(id)

(* The request goes to EBS, or is refused because of its path, or its URL, *)
(* made of the decoded path, can not be parsed.                            *)
Forward(r) ==
  /\ At(r, "arrived") /\ Accepted(req[r].cookies.sso)
  /\ IF isPathAllowed(req[r].page.path, allowed) THEN To(r, "forwarded") \/ Show(r, "error")
                                                 ELSE Show(r, "forbidden")
  /\ UNCHANGED <<icx, settings, jar>>

(* No cookie, no valid session, or an error of the database: to /login     *)
(* with a link to the page.                                                *)
RedirectToLogin(r) ==
  /\ At(r, "arrived")
  /\ To(r, "login")
  /\ UNCHANGED <<icx, settings, jar>>

(* The answer reaches the browser, with a cookie for session id. *)
Keep(r, id) ==
  jar' = [jar EXCEPT ![req[r].browser] = CookieOfAnswer(@, req[r], id)]

(* EBS looks at ICX_SESSION: it serves the page, and the session has been  *)
(* active, or it asks the user to sign in.  It may set the cookie again,   *)
(* or remove the one that is no good.                                      *)
EbsAnswers(r) ==
  /\ At(r, "forwarded")
  /\ \/ IcxActivity(req[r].cookies.icx) /\ Show(r, "ebs")
        /\ (UNCHANGED jar \/ Keep(r, req[r].cookies.icx))
     \/ ~ValidateSession(req[r].cookies.icx) /\ Show(r, "ebsLogin") /\ UNCHANGED icx
        /\ (UNCHANGED jar \/ Keep(r, NoId))
  /\ UNCHANGED settings

(* Somebody signs in at EBS's own page. *)
EbsSignsIn(r, u, id) ==
  /\ At(r, "forwarded") /\ id \notin DOMAIN icx
  /\ icx' = Put(icx, id, [user |-> u, left |-> EbsLimit])
  /\ Keep(r, id) /\ Show(r, "ebs")
  /\ UNCHANGED settings

(* client.Do fails: "Failed to reach EBS" *)
EbsFails(r) ==
  /\ At(r, "forwarded")
  /\ Show(r, "error")
  /\ UNCHANGED <<icx, settings, jar>>

(* Callback, at the end: home, or back to the link if the configuration    *)
(* has return URLs and isValidReturnURL takes this one.                    *)
Destination(page) ==
  IF enableReturnURL /\ isValidReturnURL(LinkOf(page), allowed) THEN "link" ELSE "home"

SignIn(r, u, id) ==
  /\ At(r, "login")
  /\ CreateEBSSession(id, u)
  /\ jar' = [jar EXCEPT ![req[r].browser] = SetCookies(@, id)]
  /\ Show(r, Destination(req[r].page))
  /\ UNCHANGED settings

SignInFails(r) ==
  /\ At(r, "login")
  /\ Show(r, "error")
  /\ UNCHANGED <<icx, settings, jar>>

(* The user moves on. *)
Leave(r) ==
  /\ At(r, "done")
  /\ req' = Delete(req, r)
  /\ UNCHANGED <<icx, settings, jar>>

(* Logout in another tab; without a cookie there is no session to end. *)
Logout(b) ==
  /\ EndSession(jar[b].sso)
  /\ jar' = [jar EXCEPT ![b] = ClearCookies(@)]
  /\ UNCHANGED <<settings, req>>

(* performCleanup ends a session that expired for the gateway; see         *)
(* SessionManager.                                                         *)
Cleanup(id) == EndSession(id) /\ UNCHANGED <<settings, jar, req>>

Tick == IcxTick /\ UNCHANGED <<settings, jar, req>>

(* The process stops: the requests under way get no answer. *)
Restart == req' = <<>> /\ UNCHANGED <<icx, settings, jar>>

Next ==
  \/ \E r \in Requests :
       \/ \E b \in Browsers, page \in Pages : Arrive(r, b, page)
       \/ Forward(r) \/ RedirectToLogin(r) \/ EbsAnswers(r) \/ EbsFails(r)
       \/ \E u \in Users, id \in AnyId : SignIn(r, u, id)
       \/ \E u \in Users, id \in Ids : EbsSignsIn(r, u, id)
       \/ SignInFails(r) \/ Leave(r)
  \/ \E b \in Browsers : Logout(b)
  \/ \E id \in Ids : Cleanup(id)
  \/ Tick \/ Restart

Spec == Init /\ [][Next]_vars

---------------------------------------------------------------------------
(* The types of the requests and of what the browsers hold. *)
TypeOK ==
  /\ DOMAIN icx \subseteq Ids /\ icx \in [DOMAIN icx -> Row]
  /\ allowed \in Files /\ enableReturnURL \in BOOLEAN
  /\ jar \in [Browsers -> Cookies]
  /\ DOMAIN req \subseteq Requests /\ req \in [DOMAIN req -> Request]

(* The three readings of allowed_paths agree as far as they must: a page   *)
(* is answered with "Path not allowed" only when no plain entry of the     *)
(* list led it to the proxy, but a wildcard of Gin's or an entry that Gin  *)
(* had to complete.                                                        *)
RoutedBy(page) == {p \in allowed : Routes(Route(p), page.path)}

ForbiddenForCause ==
  \A r \in DOMAIN req :
    req[r].shown = "forbidden" => \A p \in RoutedBy(req[r].page) : ~Plain(p)

(* A request that comes in after its session has ended, by a sign-out, a   *)
(* cleanup or the session's own time-out, does not reach EBS.  One that    *)
(* came in before may.                                                     *)
Reached(r) == req[r].stage = "forwarded" \/ req[r].shown \in {"ebs", "ebsLogin"}
EndedStaysOut == \A r \in DOMAIN req : Reached(r) => ~req[r].ended

(* EBS is asked for the session that ProxyRequest validated: the two       *)
(* cookies it goes by differ, while sso's session is alive, only in a      *)
(* browser that EBS has answered with a session of its own, or to which an *)
(* answer has come back after it had signed in or out again.               *)
ServedAsValidated ==
  \A r \in DOMAIN req :
    Reached(r) /\ ~req[r].cookies.mixed => req[r].cookies.icx = req[r].cookies.sso

(* With return URLs a sign-in leads back to the page that was asked for,   *)
(* if a plain entry of allowed_paths led it to the proxy; unless that is   *)
(* an exact entry and the page has a query: the link is compared with its  *)
(* query.                                                                  *)
LinksLeadBack ==
  \A r \in DOMAIN req :
    req[r].shown = "home" /\ enableReturnURL =>
      \A p \in RoutedBy(req[r].page) : Plain(p) => ~IsSubtree(p) /\ req[r].page.query # <<>>
============================================================================
