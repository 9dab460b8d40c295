--------------------------- MODULE BrowserSession ---------------------------
(***************************************************************************)
(* The session of one browser tab of the SecureOps frontend: the tokens in *)
(* localStorage and sessionStorage, the React state of AuthProvider, the   *)
(* pages that log in, and the requests in flight.  An answer arrives in    *)
(* any order and is applied by the function that waited for it, whether or *)
(* not its page is still there.  A second tab shares localStorage.         *)
(* The stored user is left out: the frontend writes it and never reads it. *)
(***************************************************************************)
EXTENDS Naturals, FiniteSets, TLC

CONSTANTS Tokens,      \* access tokens that may be issued
          Calls,       \* slots for requests in flight
          Admins,      \* the users whose role is admin
          Owner,       \* the user of each token
          EffectRuns,  \* how often React may run the effects of a new document:
                       \* once, or twice under the StrictMode of the dev server
          None

ASSUME NoneAssumption == None \notin Tokens \cup {Owner[t] : t \in Tokens}
ASSUME EffectRunsAssumption == EffectRuns \in Nat

Users == {Owner[t] : t \in Tokens}

VARIABLES
  stored,    \* the token in each storage
  legacy,    \* a token under a key of an older version, in each storage
  token, user, loading,     \* state of AuthProvider
  page,      \* the route that is rendered
  form,      \* the form of the page: its step, and isSubmitting
  calls,     \* requests in flight, with the token they were sent with
  issued,    \* server: none, live or ended (revoked or expired)
  leaving    \* window.location.assign was called, the page still runs

react == <<token, user, loading>>
vars == <<stored, legacy, token, user, loading, page, form, calls, issued, leaving>>

Storages == {"local", "session"}
MaybeToken == Tokens \cup {None}
Pages == {"login", "setup", "oauth", "admin", "user"}
FormKinds == {"login", "code", "verify", "setup"}
Kinds == FormKinds \cup {"refresh", "oauth", "data", "logout"}
Answers == {"waiting", "ok", "rejected"}
Free == [kind |-> "none", tok |-> None, answer |-> "waiting", here |-> FALSE]
Call == {Free} \cup
        [kind : Kinds, tok : MaybeToken, answer : Answers, here : BOOLEAN]
Steps == {"password", "verify-email", "second-factor"}
Blank == [step |-> "password", busy |-> FALSE]

TypeOK ==
  /\ stored \in [Storages -> MaybeToken] /\ legacy \in [Storages -> MaybeToken]
  /\ token \in MaybeToken /\ user \in Users \cup {None} /\ loading \in BOOLEAN
  /\ page \in Pages /\ form \in [step : Steps, busy : BOOLEAN]
  /\ calls \in [Calls -> Call]
  /\ issued \in [Tokens -> {"none", "live", "ended"}]
  /\ leaving \in BOOLEAN

-----------------------------------------------------------------------------
(* Storage *)

Read(st, s) == IF st[s] # None THEN st[s] ELSE legacy[s]

\* getStoredToken: localStorage before sessionStorage.
TokenIn(st) == IF Read(st, "local") # None THEN Read(st, "local")
                                           ELSE Read(st, "session")
StoredToken == TokenIn(stored)

\* storageToken copies a token found under an older key; sessionStorage is
\* looked at only when localStorage has none.
Migrate(st) ==
  [s \in Storages |-> IF s = "session" /\ Read(st, "local") # None
                        THEN st[s] ELSE Read(st, s)]

Empty == [s \in Storages |-> None]
ClearStoredAuth_KeepsLegacy == stored' = Empty /\ UNCHANGED legacy

ClearStoredAuth == stored' = Empty /\ legacy' = Empty

ClearAuth == ClearStoredAuth /\ token' = None /\ user' = None

StoreAuth(t, remember) ==
  LET s == IF remember THEN "local" ELSE "session"
  IN  /\ stored' = [Empty EXCEPT ![s] = t]
      /\ UNCHANGED legacy
      /\ token' = t
      /\ user' = Owner[t]

-----------------------------------------------------------------------------
(* Requests *)

\* A request takes the first free slot.
Idle(cs, c) == cs[c] = Free /\ c = CHOOSE d \in Calls : cs[d] = Free

\* request reads the token when it is called; the form that called it may be
\* gone when the answer comes.
Request(kind, t) ==
  [kind |-> kind, tok |-> t, answer |-> "waiting", here |-> kind \in FormKinds]
Send(cs, c, kind, t) == [cs EXCEPT ![c] = Request(kind, t)]
Done(c) == [calls EXCEPT ![c] = Free]
Unmounted(cs) == [c \in Calls |-> IF cs[c] = Free THEN Free ELSE [cs[c] EXCEPT !.here = FALSE]]

Got(c, kind, answer) == calls[c].kind = kind /\ calls[c].answer = answer

\* A request that the server has not refused may fail at any time: no network,
\* a wrong code, a server error, a lost answer.
Failed(c, kind) == calls[c].kind = kind /\ calls[c].answer # "rejected"

Home_Profile(u) == IF u \in Admins THEN "admin" ELSE "profile"

Home(u) == IF u \in Admins THEN "admin" ELSE "user"

\* ProtectedRoute renders its page, and AppLayout with it.
Showing ==
  /\ page \in {"admin", "user"}
  /\ ~loading /\ token # None /\ user # None
  /\ page = "admin" => user \in Admins

\* A page is shown instead of another: the form of the old one is gone.
GoTo(p) == page' = p /\ form' = Blank

-----------------------------------------------------------------------------
(* Loading the application *)

\* Each run of the effects of a new document sends one request of a kind.
Effects(cs, kind, t) ==
  {[c \in Calls |-> IF c \in R THEN Request(kind, t) ELSE cs[c]] :
     R \in {S \in SUBSET {c \in Calls : cs[c] = Free} :
              Cardinality(S) \in 1..EffectRuns}}

\* What AuthProvider and its first effect do in a fresh document: the token
\* is read for the state, then refreshCurrentUser asks /auth/me, or clears.
StartSession(st, cs) ==
  LET t == TokenIn(st)
  IN  /\ user' = None
      /\ IF t = None
           THEN ClearStoredAuth /\ loading' = FALSE /\ calls' = cs
           ELSE /\ stored' = Migrate(st) /\ UNCHANGED legacy
                /\ loading' = TRUE
                /\ calls' \in Effects(cs, "refresh", t)

NoCalls == [c \in Calls |-> Free]

\* The user opens a page or reloads it, once the session has been checked.
Load(p) ==
  /\ p # "oauth" /\ ~loading
  /\ GoTo(p)
  /\ StartSession(stored, NoCalls)
  /\ token' = StoredToken
  /\ leaving' = FALSE
  /\ UNCHANGED issued

\* GitHub sends the browser back with a token.  The effect of OAuthCallback
\* runs before the effect of AuthProvider: completeOAuthLogin stores the token
\* and asks /auth/me, then refreshCurrentUser asks again.
OAuthCallback(t) ==
  /\ issued[t] = "none" /\ issued' = [issued EXCEPT ![t] = "live"]
  /\ GoTo("oauth")
  /\ LET st == [Migrate(stored) EXCEPT !["local"] = t]
     IN \E cs \in Effects(NoCalls, "oauth", t) : StartSession(st, cs)
  /\ token' = StoredToken
  /\ leaving' = FALSE

\* The document that window.location.assign asked for replaces this one.
LoadLogin ==
  /\ leaving /\ leaving' = FALSE
  /\ GoTo("login")
  /\ StartSession(stored, NoCalls)
  /\ token' = StoredToken
  /\ UNCHANGED issued

RefreshFrom(c) ==
  IF StoredToken = None
    THEN ClearAuth /\ loading' = FALSE /\ calls' = Done(c)
    ELSE /\ calls' = Send(calls, c, "refresh", StoredToken)
         /\ stored' = Migrate(stored)
         /\ UNCHANGED <<legacy, token, user, loading>>

RefreshOk_LateToken(c) ==
  /\ Got(c, "refresh", "ok")
  /\ token' = StoredToken /\ user' = Owner[calls[c].tok] /\ loading' = FALSE
  /\ calls' = Done(c)
  /\ UNCHANGED <<stored, legacy, page, form, issued, leaving>>

\* getMe answered: the token that was read before the request goes to the state.
RefreshOk(c) ==
  /\ Got(c, "refresh", "ok")
  /\ token' = calls[c].tok /\ user' = Owner[calls[c].tok] /\ loading' = FALSE
  /\ calls' = Done(c)
  /\ UNCHANGED <<stored, legacy, page, form, issued, leaving>>

\* notifyAuthExpired: a rejected token that is no longer the stored one is
\* ignored; otherwise everything is cleared, and the browser goes to /login.
NotifyExpired(t) ==
  IF t # None /\ StoredToken # None /\ t # StoredToken
    THEN UNCHANGED leaving
    ELSE leaving' = (leaving \/ page # "login")

RefreshFails_StillLoading(c) ==
  /\ Got(c, "refresh", "rejected") \/ Failed(c, "refresh")
  /\ ClearAuth /\ UNCHANGED loading
  /\ IF calls[c].answer = "rejected" THEN NotifyExpired(calls[c].tok) ELSE UNCHANGED leaving
  /\ calls' = Done(c)
  /\ UNCHANGED <<page, form, issued>>

\* The catch of refreshCurrentUser clears whatever is stored by then.
RefreshFails(c) ==
  /\ Got(c, "refresh", "rejected") \/ Failed(c, "refresh")
  /\ ClearAuth /\ loading' = FALSE
  /\ IF calls[c].answer = "rejected" THEN NotifyExpired(calls[c].tok) ELSE UNCHANGED leaving
  /\ calls' = Done(c)
  /\ UNCHANGED <<page, form, issued>>

OAuthOk(c) ==
  /\ Got(c, "oauth", "ok")
  /\ StoreAuth(calls[c].tok, TRUE) /\ UNCHANGED loading
  /\ GoTo(Home(Owner[calls[c].tok]))
  /\ calls' = Unmounted(Done(c))
  /\ UNCHANGED <<issued, leaving>>

\* OAuthCallback shows an error; the token it stored stays, unless /auth/me
\* rejected it.
OAuthFails(c) ==
  /\ Got(c, "oauth", "rejected") \/ Failed(c, "oauth")
  /\ IF calls[c].answer = "rejected"
       THEN /\ NotifyExpired(calls[c].tok)
            /\ IF StoredToken \in {None, calls[c].tok}
                 THEN ClearAuth /\ loading' = FALSE
                 ELSE UNCHANGED <<stored, legacy, react>>
       ELSE UNCHANGED <<stored, legacy, react, leaving>>
  /\ calls' = Done(c)
  /\ UNCHANGED <<page, form, issued>>

-----------------------------------------------------------------------------
(* Pages and forms *)

\* A link, the back button or the address bar of the router.
Navigate(p) ==
  /\ p \notin {page, "oauth"}
  /\ GoTo(p) /\ calls' = Unmounted(calls)
  /\ UNCHANGED <<stored, legacy, react, issued, leaving>>

\* ProtectedRoute: nobody is authenticated, or a user is no admin.
Redirect ==
  /\ ~loading /\ page \in {"admin", "user"} /\ ~Showing
  /\ GoTo(IF token = None \/ user = None THEN "login" ELSE "user")
  /\ calls' = Unmounted(calls)
  /\ UNCHANGED <<stored, legacy, react, issued, leaving>>

Submit(c, p, step, kind) ==
  /\ page = p /\ form.step = step /\ ~form.busy /\ Idle(calls, c)
  /\ form' = [form EXCEPT !.busy = TRUE]
  /\ calls' = Send(calls, c, kind, None)
  /\ UNCHANGED <<page, issued, leaving>>

\* loginUser forgets the present session before it asks.
SubmitPassword(c) ==
  Submit(c, "login", "password", "login") /\ ClearAuth /\ UNCHANGED loading

\* verifyEmail and resendVerification.
SubmitEmailCode(c) ==
  Submit(c, "login", "verify-email", "code") /\ UNCHANGED <<stored, legacy, react>>

\* verifyTwoFactor or verifyAuthenticatorSetup, rememberMe = false.
SubmitSecondFactor(c) ==
  Submit(c, "login", "second-factor", "verify") /\ UNCHANGED <<stored, legacy, react>>

BackToPassword_Enables ==
  /\ page = "login" /\ form.step # "password"
  /\ form' = Blank
  /\ UNCHANGED <<stored, legacy, react, page, calls, issued, leaving>>

\* resetPasswordStep: the button is there while a request is running, too.
BackToPassword ==
  /\ page = "login" /\ form.step # "password"
  /\ form' = [form EXCEPT !.step = "password"]
  /\ UNCHANGED <<stored, legacy, react, page, calls, issued, leaving>>

SubmitNewPassword(c) ==
  Submit(c, "setup", "password", "code") /\ UNCHANGED <<stored, legacy, react>>

\* verifyAuthenticatorSetup with its default, rememberMe = true.
SubmitAuthenticator(c) ==
  Submit(c, "setup", "second-factor", "setup") /\ UNCHANGED <<stored, legacy, react>>

\* The answer moves the form it came from, if that is still there.
FormStep(c, steps) ==
  IF calls[c].here THEN \E s \in steps : form' = [step |-> s, busy |-> FALSE]
                   ELSE UNCHANGED form

StepsAfter(kind) ==
  CASE kind = "login"                   -> {"verify-email", "second-factor"}
    [] kind = "code" /\ page = "login" -> {"password", form.step}
    [] OTHER                            -> {"second-factor"}

FormOk(c) ==
  /\ calls[c].kind \in {"login", "code"}
  /\ FormStep(c, StepsAfter(calls[c].kind))
  /\ calls' = Done(c)
  /\ UNCHANGED <<stored, legacy, react, page, issued, leaving>>

FormFails(c) ==
  /\ calls[c].kind \in FormKinds
  /\ FormStep(c, {form.step})
  /\ calls' = Done(c)
  /\ UNCHANGED <<stored, legacy, react, page, issued, leaving>>

\* The last step of a login: the session is stored and the user's home shown,
\* also when the user has left the form meanwhile.
LoginDone(c) ==
  /\ Got(c, "verify", "ok") \/ Got(c, "setup", "ok")
  /\ StoreAuth(calls[c].tok, calls[c].kind = "setup") /\ UNCHANGED loading
  /\ GoTo(Home(Owner[calls[c].tok]))
  /\ calls' = Unmounted(Done(c))
  /\ UNCHANGED <<issued, leaving>>

-----------------------------------------------------------------------------
(* Inside the application *)

\* A page loads a list, sends an action or, on Profile, saves the name.
Ask(c) ==
  /\ Showing /\ Idle(calls, c)
  /\ calls' = Send(calls, c, "data", StoredToken)
  /\ stored' = Migrate(stored)
  /\ UNCHANGED <<legacy, react, page, form, issued, leaving>>

\* handleLogout goes to the login page in the end; a page that was refused
\* stays, for ProtectedRoute to redirect.
Leave(cs) == \/ GoTo("login") /\ calls' = Unmounted(cs)
             \/ UNCHANGED <<page, form>> /\ calls' = cs

\* logoutUser asks the server only when there is a token to revoke.
LogoutFrom(c) ==
  IF stored = Empty
    THEN ClearAuth /\ Leave(Done(c))
    ELSE /\ calls' = Send(calls, c, "logout", StoredToken)
         /\ UNCHANGED <<stored, legacy, token, user, page, form>>

LogoutUser(c) ==
  /\ Showing /\ Idle(calls, c)
  /\ LogoutFrom(c)
  /\ UNCHANGED <<loading, issued, leaving>>

Forget_OnlyOk(c) ==
  IF calls[c].answer = "ok" THEN ClearAuth ELSE UNCHANGED <<stored, legacy, token, user>>

\* The finally of logoutUser: whatever the server said, and whatever is stored.
Forget(c) == ClearAuth

LogoutDone(c) ==
  /\ calls[c].kind = "logout"
  /\ Forget(c) /\ Leave(Done(c))
  /\ UNCHANGED <<loading, issued, leaving>>

\* Errors are shown; AuditLogs only shows a refusal, too.
DataShown(c) ==
  /\ calls[c].kind = "data"
  /\ calls' = Done(c)
  /\ UNCHANGED <<stored, legacy, react, page, form, issued, leaving>>

\* 'Invalid or expired token.': the page logs out before it shows the error.
DataRejected(c) ==
  /\ Got(c, "data", "rejected")
  /\ LogoutFrom(c)
  /\ UNCHANGED <<loading, issued, leaving>>

\* saveProfile asks for the user again after its update.
ProfileSaved(c) ==
  /\ Got(c, "data", "ok")
  /\ RefreshFrom(c)
  /\ UNCHANGED <<page, form, issued, leaving>>

-----------------------------------------------------------------------------
(* The server, the clock and another tab *)

Answer(c, a) ==
  /\ calls[c] # Free /\ calls[c].answer = "waiting"
  /\ calls' = [calls EXCEPT ![c].answer = a]
  /\ UNCHANGED <<stored, legacy, react, page, form, leaving>>

State(t) == IF t = None THEN "none" ELSE issued[t]

\* Services other than auth-service accept a revoked token until it expires.
Accepts(c) == \/ State(calls[c].tok) = "live"
              \/ calls[c].kind = "data" /\ State(calls[c].tok) = "ended"

ServeOk(c) ==
  /\ calls[c].kind \in {"refresh", "oauth", "data"} /\ Accepts(c)
  /\ Answer(c, "ok") /\ UNCHANGED issued

ServeLogout(c) ==
  /\ Got(c, "logout", "waiting") /\ Accepts(c)
  /\ Answer(c, "ok") /\ issued' = [issued EXCEPT ![calls[c].tok] = "ended"]

ServeReject(c) ==
  /\ calls[c].kind \in {"refresh", "oauth", "data", "logout"}
  /\ State(calls[c].tok) # "live"
  /\ Answer(c, "rejected") /\ UNCHANGED issued

\* The second factor is right: the answer carries a new token.
IssueToken(c, t) ==
  /\ calls[c].kind \in {"verify", "setup"} /\ calls[c].answer = "waiting"
  /\ issued[t] = "none" /\ issued' = [issued EXCEPT ![t] = "live"]
  /\ calls' = [calls EXCEPT ![c].answer = "ok", ![c].tok = t]
  /\ UNCHANGED <<stored, legacy, react, page, form, leaving>>

Expire(t) ==
  /\ issued[t] = "live" /\ issued' = [issued EXCEPT ![t] = "ended"]
  /\ UNCHANGED <<stored, legacy, react, page, form, calls, leaving>>

\* Another tab logs in with rememberMe, or logs out: localStorage is shared.
OtherTabLogin(t) ==
  /\ issued[t] = "none" /\ issued' = [issued EXCEPT ![t] = "live"]
  /\ stored' = [stored EXCEPT !["local"] = t]
  /\ UNCHANGED <<legacy, react, page, form, calls, leaving>>

OtherTabLogout ==
  /\ stored' = [stored EXCEPT !["local"] = None]
  /\ legacy' = [legacy EXCEPT !["local"] = None]
  /\ UNCHANGED <<react, page, form, calls, issued, leaving>>

-----------------------------------------------------------------------------
\* A document has just been loaded, with whatever an earlier visit left behind.
Init ==
  /\ stored \in {Empty} \cup {[Empty EXCEPT ![s] = t] : s \in Storages, t \in Tokens}
  /\ \/ legacy = Empty
     \/ stored["local"] # None /\ \E t \in Tokens : legacy = [Empty EXCEPT !["local"] = t]
  /\ issued \in [Tokens -> {"none", "live", "ended"}]
  /\ \A t \in Tokens : (issued[t] = "none") <=> (\A s \in Storages : t \notin {stored[s], legacy[s]})
  /\ token = StoredToken /\ user = None /\ loading = (token # None)
  /\ IF token = None THEN calls = NoCalls
                     ELSE calls \in Effects(NoCalls, "refresh", token)
  /\ page = "user" /\ form = Blank
  /\ leaving = FALSE

Receive(c) ==
  \/ RefreshOk(c) \/ RefreshFails(c) \/ OAuthOk(c) \/ OAuthFails(c)
  \/ FormOk(c) \/ FormFails(c) \/ LoginDone(c)
  \/ LogoutDone(c) \/ DataShown(c) \/ DataRejected(c) \/ ProfileSaved(c)

Serve(c) ==
  \/ ServeOk(c) \/ ServeLogout(c) \/ ServeReject(c)
  \/ \E t \in Tokens : IssueToken(c, t)

UserActs(c) ==
  \/ SubmitPassword(c) \/ SubmitEmailCode(c) \/ SubmitSecondFactor(c)
  \/ SubmitNewPassword(c) \/ SubmitAuthenticator(c)
  \/ Ask(c) \/ LogoutUser(c)

Next ==
  \/ \E p \in Pages : Load(p) \/ Navigate(p)
  \/ \E t \in Tokens : OAuthCallback(t) \/ OtherTabLogin(t) \/ Expire(t)
  \/ LoadLogin \/ Redirect \/ BackToPassword \/ OtherTabLogout
  \/ \E c \in Calls : Receive(c) \/ Serve(c) \/ UserActs(c)

Spec == Init /\ [][Next]_vars

\* A request ends, with an answer or a failure.  Nothing is assumed of users,
\* nor of the time a document takes to load.
Fairness == \A c \in Calls : WF_vars(Receive(c))
FairSpec == Spec /\ Fairness

-----------------------------------------------------------------------------
(* Properties *)

\* Outside the check of the stored session, the token and the user of
\* AuthProvider are both there or both absent, and the user is the owner of
\* the token, whatever answers come late.
SessionWhole ==
  /\ ~loading => (token = None <=> user = None)
  /\ user # None => user = Owner[token]

\* The form on the screen is disabled exactly while one request it sent is in
\* flight: "Back" during a request does not let a second one out.
OneSubmission ==
  LET own == {c \in Calls : calls[c].here /\ calls[c].kind \in FormKinds}
  IN  (form.busy <=> own # {}) /\ \A c, d \in own : c = d

\* The browser is sent to /login only because the token that is stored was
\* rejected, or nothing is stored, and the step that sends it there leaves no
\* token behind: neither the rejected one nor an old copy under another key.
\* (A login of another tab, or a late answer, may store one again before the
\* document is loaded.)
ForcedOut ==
  [][~leaving /\ leaving' =>
        /\ \E c \in Calls : /\ calls[c].answer = "rejected" /\ calls'[c] = Free
                           /\ StoredToken \in {None, calls[c].tok}
        /\ StoredToken' = None]_vars

\* "Checking secure session..." ends.
CheckEnds == loading ~> ~loading

\* Nothing is left of a session: no user and no token, neither in the state of
\* AuthProvider nor in a storage, under the present or an older key.
LoggedOut == user = None /\ token = None /\ stored = Empty /\ legacy = Empty

\* A logout ends with everything forgotten, also when the server refuses it or
\* cannot be reached, unless the user opens another document before: that one
\* starts without a user and checks what is stored.
LogoutEnds ==
  (\E c \in Calls : calls[c].kind = "logout") ~> LoggedOut \/ (user = None /\ loading)

=============================================================================
