# EBS SSO Gateway: TLA+ models, checks and proofs

The gateway signs users in to Oracle E-Business Suite (EBS) through an OIDC
provider: `/login` sends a browser to the provider, `/callback` takes it back,
checks who the user is, creates an EBS session in the database and answers with
the session's cookies, and `/logout` ends the session. Requests for EBS pages go
through the gateway's proxy, which sends a browser without a valid session to
sign in. Everything the program
remembers between two requests (login states, tracked sessions, circuit
breakers) lives in the memory of one process and is shared by the goroutines of
all requests.

This directory holds TLA+ modules of that shared state and of the steps that
change it, TLC configurations that check them on small instances, and TLAPS
proofs for instances of any size. Paths below are relative to the repository.

    tlc -workers 2 -config CircuitBreaker.cfg CircuitBreaker    # check a run
    tlapm CircuitBreakerProofs.tla                              # check the proofs

`PROJECT.json` lists the runs, which definition models which lines, the mutants
(one deliberate fault per property, which must make the property fail), the
hazards and the findings.

## 1. Inventory

| Part | State | Operations | Hard because | Modules |
|---|---|---|---|---|
| Login states, return URL (`handlers/auth.go`) | `states` map, one return cookie per browser | `Login`, `generateState`, `validateState`, `cleanupStates`, `Callback` | repeated and late callbacks, a sweep goroutine per login, several tabs with one cookie jar, restarts | `LoginStates` |
| Authorization (`handlers/authorization.go`) | settings | `ExtractGroups`, `AuthorizeUser`, `matchPattern` | many settings and claim forms, order of early returns | `Authorization` |
| Retry (`handlers/resilience.go`, `config/config.go`) | local to one call | `ExecuteWithRetry`, `isRetryableError`, defaults of `Validate` | client gone while waiting, classification by text, boundary values | `Retry` |
| Circuit breaker (`handlers/resilience.go`) | `state`, `failures`, `successes`, `lastFailureTime` | `canExecute`, `recordFailure`, `recordSuccess` | `fn` runs outside the mutex, so results arrive in any later state | `BreakerLifecycle`, `CircuitBreaker` |
| Session manager (`handlers/session_manager.go`) | `sessions`, `userSessions` | `TrackSession`, `UpdateActivity`, `RemoveSession`, `RefreshSession`, cleanup loop | two maps to keep in step, concurrent logins at the limit, database calls under and before the mutex, restarts | `SessionTable`, `SessionManager` |
| EBS sessions (`db/oracle.go`, `db/fnd_api.go`) | table `ICX_SESSIONS` | `CreateEBSSession`, `ValidateSession`, `EndSession` | lost replies, failing updates, EBS's own time-out | `IcxSessions` |
| Callback pipeline (`handlers/auth.go`) | the stage of each request | `Callback`, `ExecuteWithCircuitBreaker` | every stage may fail or outlive its client; breaker, tracking and database change under it | `SignOn`, `Gateway` |
| Logout (`handlers/auth.go`) | cookies | `Logout` | partial failure, tracking not told | `SessionManager`, `Gateway`, `Proxy` |
| Proxy (`handlers/proxy.go`, `main.go`) | none of its own | `ProxyRequest`, `isPathAllowed`, routes | three readings of one list of paths; one cookie is validated and EBS goes by another; sessions end between check and use; no time-out | `PathRules`, `Proxy` |
| Timeout wrapper (`handlers/resilience.go`) | a goroutine and a channel | `ExecuteWithTimeout` | goroutine outlives its caller; no caller yet | not modelled |
| Map of breakers | `circuitBreakers` | look-up of "ebs" | creation on demand is unreachable | `Gateway` |
| Configuration (`config/config.go`) | read once | `Load`, `Validate` | zero is replaced, negative is not | `Retry`, else as assumptions |
| DBC file (`db/dbc.go`) | none | parse, decrypt | | not modelled |
| OIDC client | in libraries | exchange, verify | | its failures only |
| Process (`main.go`) | | start, shutdown | memory is lost | `Restart` actions |

How a request goes through the parts: `Callback` spends the login state
(`validateState`), exchanges the code and verifies the token, extracts the
groups and authorizes, looks the user up in the database with retries
(`ExecuteWithRetry`), creates the EBS session behind the breaker named "ebs"
(`ExecuteWithCircuitBreaker`), tracks it (`TrackSession`), sets three cookies
and redirects, home or to the URL in the return cookie. `ProxyRequest` asks the
database whether the browser's session is valid and sends the request on to EBS,
or the browser to `/login` with a link to the page it asked for. The only goroutines that
are not requests are the sweep that each login starts and the session cleanup.
Parts share memory only under their own mutex; the database is the only state
that several parts change.

What makes each part correct:

- **Login states**: a callback passes exactly when it is the first one of its
  login and not later than ten minutes; nothing that goes on beside it matters.
  A return URL is valid and was asked for in the browser that is sent there,
  though any browser may bring the callback of any login.
- **Authorization**: a denied group wins over everything; more groups never
  take away access; strict mode admits members only; wildcards mean what
  wildcards mean.
- **Retry**: pauses as configured, an answer that reflects the last call, an
  end, no pointless calls for a client that is gone, and a bound on what one
  sign-in costs in queries and waiting.
- **Breaker**: it follows the documented lifecycle whatever arrives late, no
  call's result is lost to it, it is never left early, and always recovers.
- **Session manager**: the two maps agree and are together one queue per user in
  the order of login, no user exceeds the limit, sessions are lost only for
  cause, cleanup acts on what is still expired.
- **Callback**: one sign-in makes at most one session, of an account that the
  user's address or name stands for and only if the user may come in, and hands no
  other to the browser; a live session gets out of the gateway's sight only for
  causes that can be named; every callback ends.
- **Proxy**: what a plain entry routes is allowed and can be led back to; an
  ended session does not reach EBS; EBS is asked for the session that was
  validated, unless EBS itself has set another in that browser.

## 2. Modules

`IcxSessions` holds one variable, `icx`, and operators that are actions on it.
`SessionManager` EXTENDS it and conjoins them with its own steps, as the Go code
calls `db.OracleDB` from its handlers. `CircuitBreaker` INSTANCEs
`BreakerLifecycle`, and `SessionManager` INSTANCEs `SessionTable`: the abstract
specifications they implement.

`Gateway` composes: it INSTANCEs `SessionManager` (and with it `IcxSessions`),
of which it takes the steps that have a caller, and `BreakerLifecycle` in place
of the breaker that was shown to implement it, and it implements `SignOn`.
`Proxy` EXTENDS `IcxSessions` and `PathRules`; a sign-in is for it one step that
does what `SignOn` promises. `LoginStates`, `Retry` and `Authorization` stand
alone: of each, `Gateway` needs the answer only. `MC...` modules give a module its constants and symmetry for TLC;
`...Proofs` modules hold the theorems and nothing else.

**Time.** No module has a clock. The code only compares differences (`time.Since`,
`now.After(expiry)`), so a variable holds "time left" or "time since" and `Tick`
moves all of them by one. Each stops one unit past the last value that any
comparison tells apart; no clock bound is needed. `now.After(expiry)` is "time
left below 0": at 0 an entry still holds, as in the code.

**Mutexes.** A stretch of code under one mutex that makes no call outside is one
action. Two stretches are two actions with anything in between:
`generateState` / the rest of `Login`; `canExecute` / `record...`;
`ValidateSession` / the locked part of `RefreshSession`. `performCleanup` keeps
the mutex during database calls, so `queue` (what it still has to remove) is in
the state, and every action that takes the mutex waits until `queue` is empty.

### CircuitBreaker
`Admit`, `Reject` (`canExecute`), `RecordFailure`, `RecordSuccess`, with a set
`running` of callers between admission and result. History variables, which no
guard reads, remember what the callers reported: `streak`, `hits`, `openFor`,
`probing`. `BreakerLifecycle` is the diagram of `RESILIENCE_SUMMARY.md:129-142`
with a count that exists only in the state that uses it; the refinement maps it
to the history, so the theorem says that the breaker's own counters, which run on
in other states, lead to the same transitions. A refinement lets every step stutter, so it would
also hold of a breaker that ignores a result; `CallsMoveLifecycle` says of each
admission, failure and success which steps of the lifecycle it may be, and these
are the steps that `Gateway` takes.

### IcxSessions, SessionTable, SessionManager
A row of `icx` is a user and the time the session stays valid; a disabled and a
timed-out row are alike to `ValidateSession`, the only reader. `EndSession` may
report an error with or without effect. `LoginLost` inserts a row whose id
nobody learns. `CreateEBSSession` is given the name of the user's account and
looks it up as an e-mail address first (`db/oracle.go:150`), so the row may be
another user's: `Homonyms` lists the pairs whose name and address coincide, and
`AccountsOf` says whose session a sign-in may make. `pending` holds sessions created by a callback that has not
reached `TrackSession`. `ttl` is `ExpiresAt` minus now; `LastActivity` and the
names are dropped, nothing reads them. An absent key of `userSessions` is the
empty list. `UpdateActivity`, `RemoveSession` and `RefreshSession` have no caller
in the repository; they may be called at any time here, so what is shown holds
however they come to be used. `Restart` empties the memory and keeps `icx` and
the cookies. `SessionTable` has one variable, `table`: by user, the sessions with
their time left, oldest first. The map of `SessionManager` to it lists
`userSessions[u]` with the `ttl` that `sessions` has. It says what "oldest" means
where `TrackSession` evicts: the first to log in of those still tracked, whatever
was refreshed, removed or expired in between, since `removeSessionLocked` closes
the gap in place and `RefreshSession` does not touch the list. A cookie's own
expiry is left out: a browser may stop using a cookie at any time, and no property
says that it must not.

### LoginStates
`StartLogin` (`generateState`), `FinishLogin` (the rest of `Login`), `Sweep`
(`cleanupStates`, as many as logins have started), `SendCallback`, `Validate`,
`FailCallback`, `FinishCallback`. A request keeps the cookie the browser sent
with it: `Callback` reads it at its end, from the request. Any browser may send
the callback of any login, any number of times: the code ties a state to no
browser (`auth.go:105-122`), so a request carries the browser that sent it and
that browser's jar, and `landed` records where which browser was sent. All exits of `Callback` between
`validateState` and the redirect are `FailCallback`: none of them touches the
states or the return cookie. Random states are distinct names (32 random bytes);
a callback with a state that was never issued is refused by the lookup and
changes nothing. The set `ValidUrls` stands for `isValidReturnURL`.

### Retry
The loop, statement by statement, with `Cancel` (the client goes away) possible
between any two. An error is the set of retryable words its message contains,
which is all that `isRetryableError` reads; `AddressWords` are the words in the
user's address, which the "not found" message quotes. The settings are those of a
file after `Validate`, which replaces a zero and leaves a negative number: a
negative `max_retries` means no call at all, a negative `retry_delay` no wait.
`since` and `before` are history: the time slept since the last call, and between
it and the one before. `PausesIncrease` compares the two, and says what all the
descriptions of the retries agree on; section 5 has what they do not.
`EffortBounded` bounds the queries and the waits (those made and the one under
way) of a look-up in every state, not only at its end.

### Authorization
Names and patterns are sequences of characters, since what a pattern matches is
the question; settings and claim are chosen in `Init`. `denied_groups` has at
most one entry: the code stops at the first that matches, and the order of two
changes only the logged reason. The slice that `getMatchedGroups` returns is the
set of its entries' places, since only its length is used.

### SignOn, Gateway
`SignOn` knows no breaker, no tracking and no clock: a sign-in begins for a user
that authorization let in, makes one session or none, of an account among
`Accounts` of that user, and hands it over or not.
`Gateway` has a request per goroutine in `Callback` and the stage it is in:
look-up, admission by the breaker, creation, recording of the result, tracking
with cookies and redirect. The stages meet other requests, sign-outs, the
cleanup and restarts at any point between them. `gone` are the requests whose
context is cancelled; the look-up and the creation fail for them, recording,
tracking and cookies do not look. `CreateFails` covers a failing database, an
account ended since the look-up, a cancelled context and a lost reply, which the
code does not tell apart. `WriteTimeout` cuts the answer and not the handler:
`Track` may fail to hand over its cookies to any client. Session tracking, the
breaker and authorization are switched on, as in `config.yaml.template`.

`SessionManager` is instantiated with `use_dbc` on and `validated` empty, since
nothing calls `RefreshSession`. The breaker's clock is that of
`BreakerLifecycle`: a late failure may push the opening on, so an open breaker
may let a test through at any time after its time-out.

### PathRules, Proxy
Paths, queries and patterns are sequences of tokens with `"/"`, `"*"`, `"?"` and
`":"` among them. `matchesPattern`, `convertToGinPath`, `isPathAllowed` and
`isValidReturnURL` are translated. What Gin makes of a route is the library's, of
the version in `go.mod` (1.9.1): a path is completed and its double slashes are
joined (`Joined`), `*name` at the end takes the rest of a path and `:name` a part
of it (`Routes`), and a panic in `main` ends the process if a wildcard has no
name or is not alone in its place (`WellFormed`) or if two routes clash, with each
other or with the gateway's own (`Clash`, `OwnRoutes`); `Registers` is the
conjunction. `Plain` entries are those that Gin and the gateway read alike: an
exact path or a subtree, with a leading slash and no other wildcard. A URL is
whether it begins with `ebs.base_url`, and the rest.

`Proxy` follows requests from the route on: `Arrive` (with the cookies the browser
has then), `Forward` or `RedirectToLogin` after `ValidateSession`, and what EBS
does, `EbsAnswers`, `EbsSignsIn` or `EbsFails`; for a redirect the sign-in that
follows, which leads to the link or, without `enable_return_url` or for a link
that is not valid, home. A browser has two cookies that matter: `sso`, which
`ProxyRequest` validates (`proxy.go:42`), and `icx`, which is forwarded with all
others (`proxy.go:97-112`) and by which EBS goes. EBS's answer may set or remove
`icx` (`proxy.go:124-128`), also after the browser has signed in or out in
another tab, and a user may sign in at EBS's own page. History variables, which
no guard reads: `ended`, whether the session had ended when the request came in;
`mixed`, whether `icx` was set by EBS for another sign-in than that of `sso`.
`Forward` has three exits: to EBS, "Path not allowed", and the error of
`http.NewRequest` (`proxy.go:89-94`). `Logout`, `Cleanup`, `Tick` and `Restart`
come in between. A redirect may follow a valid session too: the database may fail
to answer. The list of paths is chosen in `Init` from `Files`; a list that does
not register stops the process. There is no fairness and no liveness property:
the proxy's `http.Client` has no time-out (`proxy.go:30`), so that a request ends
is EBS's to decide (section 5).

## 3. Runs

| Run | Instance | Shows |
|---|---|---|
| `breaker` | 4 callers, thresholds 3 and 2, timeout 3; about 3,000 states | what the counters mean, the lifecycle, no call lost to it and no early probe, recovery |
| `breaker_stale` | 2 callers, thresholds and timeout 1 | finding: an old call's success closes the breaker |
| `sessions` | 2 users, 4 ids, 2 logins at once, limit 2, times 1; about 428,000 states up to symmetry | maps agree, limit, causes of loss, cleanup acts on current data; the two maps are one queue per user in the order of login |
| `gateway` | 2 users of whom 1 is let in, 2 ids, 2 requests, limit 1, thresholds 2, times 1, no homonyms; about 66,000 states | each sign-in keeps `SignOn`'s promise; sessions go astray for cause; callbacks end; expired sessions are dropped |
| `active_users` | 1 user, 1 id, 1 request, EBS time-out 2 against a session time-out of 1 | finding: cleanup ends a working user's session |
| `proxy` | 2 browsers, 2 ids, 2 requests, 3 pages, 9 lists of paths of which 5 register, return URLs on and off; about 921,000 states up to symmetry | forbidden for cause; ended stays out; served as validated; links lead back |
| `session_eviction` | 1 user, limit 1 | finding: eviction does not end the EBS session |
| `login_states` | 2 browsers, 2 logins, 2 callbacks from either browser, 2 URLs, lifetime 2; about 1,930,000 states up to symmetry | first callback in time passes and no other; states are kept; URLs stay in their browser |
| `return_url` | 1 browser, 2 logins | finding: a tab lands at the other tab's URL |
| `retry` | `max_retries` -2, 0 (read as 3), 1, 2, `retry_delay` -1, 0 (read as 2), 1, each switch; about 2,100 states | pauses, answer, one call at most after the client left, cost, termination |
| `authorization` | 3 names, 6 patterns, up to 2 allowed, up to 1 denied, each switch; about 188,000 states | precedence, monotonicity, strictness, wildcards |
| `wildcards` | up to 1 allowed | finding: `EBS_*` matches no group it should |

Why the bounds are enough: four callers are one more than the failure threshold
and two more than the success threshold, so late results of every earlier state
meet each other and a third; with two users at a limit of two and two logins in
flight, both may find the limit reached, and an eviction may hit a session that
a refresh or a cleanup has in hand, with a fourth id left for the next login. Two
entries have an order that a refresh could disturb; that a removal from the middle
of three leaves the order of the others is in the proof of `TableImplemented`,
which has no bound. A
lifetime of 2 has a moment before, at and after the boundary. Two logins are the
least in which sweeps, repeated callbacks and cookies of different logins meet,
and two browsers the least in which one brings the other's callback; the proofs
remove the bounds. Three calls have two pauses, the least that can be compared;
`max_retries` 0, which is read as 3, has three. Names and patterns are the shortest that each
wildcard form matches, misses and almost matches (`E/A`, `AE` against `E/*`,
`*/A`, `*E*`, `*`, `A*`). In `gateway` two requests with a limit of one make an
eviction and a race for the mutex; failure threshold two lets a success forget a
failure; two ids are one session and the next; the second user, whom
authorization keeps out, shows that `Begin` asks. With one user let in a
homonym changes only whose name a row bears; the run leaves it out for its time,
and `SignOnImplemented` is proved for any `Homonyms`. In `proxy` the lists that
register are an exact entry with the subtree below it, two exact entries, a path
that Gin completes (`a//b`), a catch-all with a name (`/a/*b`) and a parameter
beside an exact entry; those that do not are a subtree with an entry inside it,
the subtree of everything, a nameless star and two names for one parameter. The
pages lie at and under the entries, with and without a query. Two ids are what
it takes for the two cookies to differ, one user is enough for that, and two
browsers keep each other's answers apart. The safety properties of both runs
are proved without bounds.

`CHECK_DEADLOCK FALSE` is used where the modelled call ends: `Retry` (one call
of `ExecuteWithRetry`) and `Authorization` (one decision).

**Symmetry** is used in runs without liveness properties, over sets whose
elements the module only compares for equality.

**Fairness**, in `breaker`, `gateway` and `retry` only:

- `breaker`: time passes; calls in flight return (each has a context or the
  driver's time-out); some caller keeps trying the breaker. `Recovers` assumes in
  its own formula that calls stop failing.
- `gateway`: handlers run on, given that the database and the provider answer in
  the end or the client goes away: the program sets them no limit. The cleanup
  ticker fires, and each `EndSession` returns within the five seconds of its
  context (`session_manager.go:280`). Strong fairness for `Track`: the cleanup
  takes the mutex again and again, and `sync.RWMutex` lets a waiting writer in
  eventually. Nothing is assumed of clients, of EBS or of the clock.
- `retry`: the goroutine runs on and the query returns.

## 4. Proofs

All theorems are checked by TLAPS with no step left open, for any sets of
callers, users, ids, requests, browsers, logins and URLs, and any thresholds,
limits and times that satisfy the assumptions named in the modules.

**CircuitBreakerProofs** (`Spec`, so without fairness). The invariant is the
conjunction of the two that TLC checks. It is inductive as it stands: the bound
on `failures` needs its type; that `hits` equals `successes` needs both below
the threshold; and `FailureClockFollowsOpening` (the failure clock is never
older than the opening) gives `ProbesWait`: a clock that has run out means that
the breaker has been open that long, which the code never measures. One
lemma each for an admission, a failure and a success (`AdmitMoves`,
`FailureMoves`, `SuccessMoves`) splits the action by the state it happens in and
names the step of the lifecycle; `CallsMove` and the refinement
`LifecycleImplemented` both follow from the three.

**SessionManagerProofs**, all under `UseDBC`: on the legacy path a session id
may be the value that stands for none, and the maps part. The conjuncts lean on
each other. That an insertion keeps the maps in agreement needs the pending id to
be untracked; that it is untracked when two logins are in flight needs distinct
pending ids, all in `icx`; that tracked ids are in `icx` makes a new id new. The
`PendingIsNew` is where EBS's part comes in, that it hands out each id once; it
is a conjunct of the invariant and no result about the gateway. The
limit needs the maps to agree, since removing the head of a list shortens it only
if the entry says it is that user's. Lemmas about `RemoveAt` and `Append` on
sequences without repetition come first (`RemoveAtProperties`,
`ListWithoutProperties`, `AppendNew`), then agreement under removal, insertion and
ageing, then one lemma per action.
`TableImplemented` is a refinement on top of that invariant. What has to be shown
is that each edit of two maps is one edit of the table: that an entry of
`sessions` which goes or comes is in no other user's list and once in its own
(`ListedRemoved`, `ListedAppended`, `ListedAlike`, from `IndexAgrees` and
`PendingIsNew`), that removing an id by value is removing it at its place
(`ListWithoutAt`, `RemovedFirst`), and for `TrackSession` that eviction and
insertion are together one step (`TrackRefines`). `RemoveSession` and each entry
of the cleanup come down to one lemma (`RemovalRefines`), the refreshes to another
(`RenewalRefines`). `TableInGateway` carries the result over to `Gateway` by
`ManagerImplemented`.

**LoginStatesProofs**. TLC's invariants are not inductive: the theorem about
`Validate` needs that a state in the map belongs to a login that is on its way,
has had no callback accepted, and expires when the login is `Lifetime` old
(`EntriesAgree`), and that requests exist only for logins that were redirected
(`RequestsFollow`). For return URLs, each URL in a cookie jar was asked for by
a redirected login of that browser (`JarAsked`), each URL in a request by one of
the browser that sent it, whichever login's callback it is (`RequestsAsked`), and
logins keep what they asked for (`LoginKept`, `AskedKept`), also over restarts.

**GatewayProofs**. The proof starts from the session manager's: every step of
`Gateway` is one of `SessionManager` or leaves it alone, so `Spec` implements
`M!Spec` (`ManagerImplemented`) and M's invariant, with `LimitRespected`,
`IndexAgrees` and the rest, holds in the composition. To it the invariant adds
the breaker's types and `Holders`: exactly the requests between creation and
tracking have a pending session, of an account of their user's. `SignOnImplemented` maps a
request to a sign-in by its stage and follows the actions one by one; a refusal
by the breaker, a failed look-up and a lost reply are each a way of `SignOn` to
end. For `StraysHaveCauses`, a session that is alive and unknown after a step was
alive before it and known, so the step is one that removes it from the tracking
or forgets a request; the cleanup, an eviction and a restart are these.

**ProxyProofs**. `PlainRoutesAreAllowed` and `BackToThePage` rest on what a plain
entry is to the router (`PlainRoutes`: the route of a subtree is its stem and a
catch-all, nothing is joined) and on two lemmas about prefixes (a prefix loses its
last token, or the path gains a query); they hold for lists and pages of any
length, whatever else is in the list. `EndedIsOut` needs that a row which has
ended never comes back, though ids are given out meanwhile (`Later`).
`ValidatedIsServed` needs an invariant about jars and requests at once: two
unmixed cookies are the same while the session of `sso` is alive, and what an
answer sets is judged against the jar as it is then, not as it was when the
request left (`AnswerAgrees`).

**RetryProofs**. `Place` ties the number of calls to the loop variable at each
point of the loop, `Lateness` says where a call after the cancellation can still
be ahead, `Slept` compares the time slept with the closed form of the
schedule, by a lemma that adds one wait to it, and `Paused` says what `since` and
`before` are at each point. `PausesAreAsConfigured` follows from `Paused`, as one
more turn makes a wait longer (`TurnGrows`). `EffortIsBounded` needs in
addition that `Waits` grows with the number of retries (`WaitsGrow`, from the
monotony of multiplication), that a wait is under way only in `sleep`, and that
the steps to the end call nothing and sleep no more (`EndIsFree`), so the bound
that `Place` and `Slept` give inside the loop survives each way out of it.

**AuthorizationProofs**. The decision is authorizeUser's over the names in the
token, in whatever form; then precedence, growth and strictness follow without a
word about what a pattern matches. Growth under "all" counts a finite set of
places in the list. `PatternsAreGlobs` is about what patterns match, for names
and patterns of any length. `Glob` says that there are cuts of the name, one per
character of the pattern. From cuts to an occurrence (`GlobAround`) each
character moves the cut by one, and that many steps add up (`StepsAddUp`) is
proved with the least number at which they would not; the least-number principle
itself (`LeastNatural`) is that of `WellFoundedInduction`. In the other direction
the cuts are written down. Then each form of `matchPattern` is one lemma, by
which end of the text is tied down.

Only model-checked: the liveness properties (`Recovers`, `OpenIsTemporary`,
`CallbackEnds`, `ExpiredIsDropped`, `Returns`), which need ENABLED and fairness. Every invariant, action property and refinement that a passing run
checks is the statement of a theorem. `Gateway` instantiates `BreakerLifecycle`
and not `CircuitBreaker`: that the one may stand for the other there is
`CallsMove` read beside `Gateway`'s steps, and not itself a theorem.

## 5. Where documents and code differ

Five differences are shown by runs (`findings` in `PROJECT.json`). Met while
modelling and not run:

- With `use_dbc` off, the value that `icx_sec.createSession` returns for "no
  session" is tracked as a session id (`db/oracle.go:197`), one key for all
  users; `fnd_api.go:117` refuses it. `LimitRespected` fails under
  `UseDBC = FALSE`.
- `RESILIENCE_SUMMARY.md:160` lists "User not found (404)" under "Non-Retryable
  Errors"; the message quotes the address, so the look-up of an unknown user
  whose address contains a retryable word ("eof" in geoffrey@...) is retried.
- `config.yaml.template:80` says of `allowed_paths` "empty = allow all", as does
  `isPathAllowed`; `main.go:98` registers no route for an empty list, so nothing
  is proxied.
- `WEBADI_GUIDE.md:349` recommends the entry "/servlets/oracle.apps.fnd.*", which
  Gin takes for a wildcard without a name and refuses with a panic at the start.
- An entry such as "/OA_HTML/*.jsp" is, to Gin, a catch-all named ".jsp": every
  path below /OA_HTML/ is routed, and `isPathAllowed` compares the entry as it
  stands, so that all of them are answered "Path not allowed". The same happens
  to what a parameter (`:name`) routes, and to entries that Gin completes (no
  leading slash, double slashes). `ForbiddenForCause` and `LinksLeadBack` are
  therefore stated for plain entries.
- `ProxyRequest` validates the session of its own cookie while EBS goes by
  `ICX_SESSION`. The two differ after EBS has set its cookie for a session of
  its own (a sign-in at EBS's page), or when an answer of EBS arrives after the
  browser has signed in again or out: the session served is then not the one
  validated. `ServedAsValidated` says that there is no other way.
- A user whose account name is the e-mail address of another's account is signed
  in to that other account (`db/oracle.go:150`).
- `max_retries: 0` in a file becomes 3 (`config/config.go:260`): retries are
  switched off by `enable_retry` alone.
- The time-outs for EBS and the database (`DEPENDENCIES_AND_FAILURES.md:315-317`)
  are read and used nowhere; `ProxyRequest` builds its request without the
  context of the browser's (`proxy.go:89`), so it outlives it, and with an EBS
  that does not answer it waits for ever. That a proxied request is answered is
  not among the properties: it would have to assume that EBS answers.
- A client that goes away during `CreateEBSSession` counts as a failure of EBS
  with the breaker.
- Exponential backoff is promised at `resilience.go:205`, `config/config.go:37`,
  `README.md:44`, `config.yaml.template:126` and `RESILIENCE_SUMMARY.md:147`. The
  code waits delay times attempt (`resilience.go:208`), which is linear, as the
  2, 4 and 6 seconds of `DEPENDENCIES_AND_FAILURES.md:284-288` are; doubling would
  differ from the third wait on (8 instead of 6 seconds). `PausesIncrease` states
  what the descriptions have in common.
- Strict mode is said to require explicit group membership; with
  `require_group_match` off and some allowed group configured it admits anybody.
  `StrictAdmitsMembers` is therefore stated for `require_group_match` on.
- The deep link that `ProxyRequest` builds carries the query string, which an
  exact entry of `allowed_paths` does not match in `isValidReturnURL`;
  `LinksLeadBack` makes exactly this exception.
- `matchPattern` has no error for a pattern it does not know: a star that is
  neither half of `*text*` nor next to the slash of `text/*` or `*/text` matches
  a star, so `EBS_*` or `*_Admins` is a group that nobody has.

## 6. Not modelled, and next

Not modelled, and why: loading of configuration and DBC files and the HTML pages
(no state, no interleaving); the OIDC exchange (library code, of which only
failure reaches this program); `Health`, which reads the database once; the
creation of breakers on demand, which is unreachable; `ExecuteWithTimeout`,
`SessionManager.Stop`, `AuthorizationMiddleware`, the proxy's `ValidateSession`
middleware and the methods of `FNDAPIClient` that nothing calls; methods that
only read.

Assumed: EBS hands out each session id once.

Next, in this order:

1. `SessionManager.Stop` and the disabled manager, should they get callers, and
   `UpdateActivity` from `ProxyRequest`, should that be wired: `Gateway` then
   takes the step, and `active_users` should pass.
2. `LoginStates` composed with `Proxy`, so that the link's way through the shared
   cookie and the page it was made for are one behaviour.
