----------------------- MODULE BrowserSession_proofs -----------------------
(***************************************************************************)
(* Proofs about BrowserSession, for any tokens, owners, requests and runs  *)
(* of the effects.                                                         *)
(***************************************************************************)
EXTENDS BrowserSession, FiniteSetTheorems, TLAPS

(* A request in flight that may become a session has a token.              *)
GoodCall(k) ==
  /\ k \in Call
  /\ k.kind \in {"refresh", "oauth"} => k.tok \in Tokens
  /\ k.kind \in {"verify", "setup"} /\ k.answer = "ok" => k.tok \in Tokens

Good(cs) == cs \in [Calls -> Call] /\ \A c \in Calls : GoodCall(cs[c])

(* The requests of the form on the screen.                                 *)
Own(cs) == {c \in Calls : cs[c].here /\ cs[c].kind \in FormKinds}
Once(busy, cs) == (busy <=> Own(cs) # {}) /\ \A c, d \in Own(cs) : c = d

Stores == [Storages -> MaybeToken]

Whole ==
  /\ stored \in Stores /\ legacy \in Stores
  /\ token \in MaybeToken /\ user \in Users \cup {None} /\ loading \in BOOLEAN
  /\ SessionWhole

Busy == Good(calls) /\ form.busy \in BOOLEAN /\ Once(form.busy, calls)

Rest ==
  /\ page \in Pages /\ form \in [step : Steps, busy : BOOLEAN]
  /\ issued \in [Tokens -> {"none", "live", "ended"}]
  /\ leaving \in BOOLEAN

Inv == Whole /\ Busy /\ Rest

-----------------------------------------------------------------------------
(* Storage and the state of AuthProvider *)

(* What getStoredToken returns, and what it copies.                        *)
LEMMA ReadTyped ==
  ASSUME NEW st \in Stores, legacy \in Stores
  PROVE  TokenIn(st) \in MaybeToken /\ Migrate(st) \in Stores
<1>1. \A s \in Storages : Read(st, s) \in MaybeToken
  BY DEF Read, Stores
<1> QED
  BY <1>1 DEF TokenIn, Migrate, Stores, Storages

(* Nothing is stored after clearStoredAuth, under any key.                 *)
LEMMA ClearedEmpty ==
  ASSUME ClearStoredAuth
  PROVE  stored' \in Stores /\ legacy' \in Stores /\ StoredToken' = None
<1>1. stored' = Empty /\ legacy' = Empty
  BY DEF ClearStoredAuth
<1>2. Empty \in Stores /\ \A s \in Storages : Empty[s] = None
  BY DEF Empty, Stores, MaybeToken
<1> QED
  BY <1>1, <1>2 DEF StoredToken, TokenIn, Read, Storages

(* An empty session is whole.                                              *)
LEMMA Cleared ==
  ASSUME ClearAuth, loading' \in BOOLEAN
  PROVE  Whole'
BY ClearedEmpty DEF ClearAuth, Whole, SessionWhole, MaybeToken

(* A new session is whole.                                                 *)
LEMMA LoggedIn ==
  ASSUME Whole, NEW t \in Tokens, NEW remember \in BOOLEAN, StoreAuth(t, remember),
         loading' = loading
  PROVE  Whole'
<1>1. stored' \in Stores
  <2>1. \A s \in Storages : [Empty EXCEPT ![s] = t] \in Stores
    BY DEF Stores, Empty, MaybeToken
  <2> QED
    BY <2>1 DEF StoreAuth, Storages
<1>2. legacy' = legacy /\ token' = t /\ user' = Owner[t]
  BY DEF StoreAuth
<1>3. t # None /\ Owner[t] # None /\ Owner[t] \in Users
  BY NoneAssumption DEF Users
<1> QED
  BY <1>1, <1>2, <1>3 DEF Whole, SessionWhole, MaybeToken

(* A session that is left alone stays whole.                               *)
LEMMA SameSession ==
  ASSUME Whole, UNCHANGED <<stored, legacy, react>>
  PROVE  Whole'
BY DEF Whole, SessionWhole, react

(* So does one whose token is copied to the key of today.                  *)
LEMMA Migrated ==
  ASSUME Whole, stored' = Migrate(stored), UNCHANGED <<legacy, react>>
  PROVE  Whole'
BY ReadTyped DEF Whole, SessionWhole, react

(* A new document checks the stored token, or has none.                    *)
LEMMA Started ==
  ASSUME NEW st \in Stores, legacy \in Stores, NEW cs, StartSession(st, cs),
         token' \in MaybeToken, TokenIn(st) = None => token' = None
  PROVE  Whole'
<1>1. CASE TokenIn(st) = None
  <2>1. ClearStoredAuth /\ loading' = FALSE /\ user' = None /\ token' = None
    BY <1>1 DEF StartSession
  <2> QED
    BY <2>1, ClearedEmpty DEF Whole, SessionWhole, MaybeToken
<1>2. CASE TokenIn(st) # None
  <2>1. stored' = Migrate(st) /\ legacy' = legacy /\ loading' = TRUE /\ user' = None
    BY <1>2 DEF StartSession
  <2> QED
    BY <2>1, ReadTyped DEF Whole, SessionWhole
<1> QED
  BY <1>1, <1>2

-----------------------------------------------------------------------------
(* Requests *)

(* A free slot belongs to no form.                                         *)
LEMMA FreeIs ==
  /\ GoodCall(Free) /\ Free.kind = "none" /\ ~Free.here /\ Free.answer = "waiting"
  /\ Good(NoCalls) /\ Own(NoCalls) = {}
BY DEF Free, GoodCall, Call, Good, Own, NoCalls

(* A request that is sent is good; it belongs to the form if a form sent it. *)
LEMMA RequestIs ==
  ASSUME NEW kind \in Kinds, NEW t \in MaybeToken, kind \in {"refresh", "oauth"} => t \in Tokens
  PROVE  LET k == Request(kind, t)
         IN  GoodCall(k) /\ k.kind = kind /\ k.here = (kind \in FormKinds)
BY DEF Request, GoodCall, Call, Kinds, FormKinds, Answers

(* Replacing a request that is not the form's by another one like that.    *)
LEMMA Replaced ==
  ASSUME Busy, NEW c \in Calls, c \notin Own(calls), NEW k, GoodCall(k),
         k.here => k.kind \notin FormKinds,
         calls' = [calls EXCEPT ![c] = k], form'.busy = form.busy
  PROVE  Busy'
<1>1. calls' \in [Calls -> Call] /\ \A d \in Calls : GoodCall(calls'[d])
  BY DEF Busy, Good, GoodCall
<1>2. Own(calls') = Own(calls)
  BY DEF Busy, Good, Own
<1> QED
  BY <1>1, <1>2 DEF Busy, Good, Once

(* An answer that is not the form's is applied.                            *)
LEMMA Freed ==
  ASSUME Busy, NEW c \in Calls, calls[c].kind \notin FormKinds \/ ~calls[c].here,
         calls' = Done(c), form' = form
  PROVE  Busy'
<1>1. c \notin Own(calls)
  BY DEF Own
<1> QED
  BY <1>1, FreeIs, Replaced DEF Done

(* The answer of the form is applied, and the form enabled.                *)
LEMMA FreedForm ==
  ASSUME Busy, NEW c \in Calls, c \in Own(calls), calls' = Done(c), form'.busy = FALSE
  PROVE  Busy'
<1>1. calls' \in [Calls -> Call] /\ \A d \in Calls : GoodCall(calls'[d])
  BY FreeIs DEF Busy, Good, GoodCall, Done
<1>2. Own(calls') = {}
  <2>1. \A d \in Calls : d # c => calls'[d] = calls[d]
    BY DEF Busy, Good, Done
  <2>2. calls'[c] = Free
    BY DEF Busy, Good, Done
  <2>3. \A d \in Own(calls) : d = c
    BY DEF Busy, Once
  <2> QED
    BY <2>1, <2>2, <2>3, FreeIs DEF Own
<1> QED
  BY <1>1, <1>2 DEF Busy, Good, Once

(* Removing a request keeps the others good, and adds none to the form.    *)
LEMMA DoneGood ==
  ASSUME Good(calls), NEW c \in Calls
  PROVE  Good(Done(c))
BY FreeIs DEF Good, GoodCall, Done

(* A form that is gone has no requests.                                    *)
LEMMA Gone ==
  ASSUME NEW cs, Good(cs), calls' = Unmounted(cs), form' = Blank
  PROVE  Busy'
<1> DEFINE k(c) == [cs[c] EXCEPT !.here = FALSE]
<1>1. ASSUME NEW c \in Calls, cs[c] # Free
      PROVE  GoodCall(k(c)) /\ ~k(c).here
  <2>1. cs[c] \in [kind : Kinds, tok : MaybeToken, answer : Answers, here : BOOLEAN]
    BY <1>1 DEF Good, Call
  <2> QED
    BY <2>1 DEF Good, GoodCall, Call
<1>2. \A c \in Calls : GoodCall(calls'[c]) /\ ~calls'[c].here
  BY <1>1, FreeIs DEF Unmounted
<1>3. calls' \in [Calls -> Call]
  BY <1>2 DEF Unmounted, GoodCall
<1>4. Own(calls') = {} /\ ~form'.busy /\ form'.busy \in BOOLEAN
  BY <1>2 DEF Own, Blank
<1> QED
  BY <1>2, <1>3, <1>4 DEF Busy, Good, Once

(* A request of a page, of AuthProvider or of the logout.                  *)
LEMMA Sent ==
  ASSUME Busy, NEW c \in Calls, calls[c].kind \notin FormKinds,
         NEW kind \in Kinds \ FormKinds, NEW t \in MaybeToken,
         kind = "refresh" => t \in Tokens, kind # "oauth",
         calls' = Send(calls, c, kind, t), form' = form
  PROVE  Busy'
<1>1. c \notin Own(calls)
  BY DEF Own
<1>2. GoodCall(Request(kind, t)) /\ ~Request(kind, t).here
  BY RequestIs
<1> QED
  BY <1>1, <1>2, Replaced DEF Send

(* The effects of a new document send good requests.                       *)
LEMMA EffectsGood ==
  ASSUME NEW cs, Good(cs), Own(cs) = {}, NEW kind \in {"refresh", "oauth"}, NEW t \in Tokens,
         NEW es \in Effects(cs, kind, t)
  PROVE  Good(es) /\ Own(es) = {}
<1>1. GoodCall(Request(kind, t)) /\ ~Request(kind, t).here
  BY RequestIs DEF Kinds, FormKinds, MaybeToken
<1>2. PICK R \in SUBSET {c \in Calls : cs[c] = Free} :
        es = [c \in Calls |-> IF c \in R THEN Request(kind, t) ELSE cs[c]]
  BY DEF Effects
<1>3. \A c \in Calls : es[c] = Request(kind, t) \/ es[c] = cs[c]
  BY <1>2
<1>4. \A c \in Calls : GoodCall(es[c])
  BY <1>1, <1>3 DEF Good
<1>5. es \in [Calls -> Call]
  BY <1>2, <1>4 DEF GoodCall
<1>6. Own(es) = {}
  BY <1>1, <1>3 DEF Own
<1> QED
  BY <1>4, <1>5, <1>6 DEF Good

(* The requests of a new document are not a form's.                        *)
LEMMA StartedCalls ==
  ASSUME NEW st \in Stores, legacy \in Stores, NEW cs, Good(cs), Own(cs) = {},
         StartSession(st, cs), form' = Blank
  PROVE  Busy'
<1>1. Good(calls') /\ Own(calls') = {}
  <2>1. CASE TokenIn(st) = None
    BY <2>1 DEF StartSession
  <2>2. CASE TokenIn(st) # None
    <3>1. calls' \in Effects(cs, "refresh", TokenIn(st))
      BY <2>2 DEF StartSession
    <3>2. TokenIn(st) \in Tokens
      BY <2>2, ReadTyped DEF MaybeToken
    <3> QED
      BY <3>1, <3>2, EffectsGood
  <2> QED
    BY <2>1, <2>2
<1>2. ~form'.busy /\ form'.busy \in BOOLEAN
  BY DEF Blank
<1> QED
  BY <1>1, <1>2 DEF Busy, Once

(* A form sends its request only when it has none.                         *)
LEMMA Submitted ==
  ASSUME Busy, Rest, NEW c \in Calls, NEW kind \in FormKinds, NEW p, NEW step,
         Submit(c, p, step, kind)
  PROVE  Busy' /\ Rest'
<1>1. calls[c] = Free /\ ~form.busy /\ form' = [form EXCEPT !.busy = TRUE]
        /\ calls' = [calls EXCEPT ![c] = Request(kind, None)]
  BY DEF Submit, Idle, Send
<1>2. GoodCall(Request(kind, None)) /\ Request(kind, None).here
        /\ Request(kind, None).kind = kind
  BY RequestIs DEF Kinds, FormKinds, MaybeToken
<1>3. calls' \in [Calls -> Call] /\ \A d \in Calls : GoodCall(calls'[d])
  BY <1>1, <1>2 DEF Busy, Good, GoodCall
<1>4. Own(calls) = {}
  BY <1>1 DEF Busy, Once
<1>5. Own(calls') = {c}
  BY <1>1, <1>2, <1>4 DEF Own, Busy, Good
<1>6. form'.busy = TRUE /\ Rest'
  BY <1>1 DEF Rest, Submit
<1> QED
  BY <1>3, <1>5, <1>6 DEF Busy, Good, Once

(* The server answers: what belongs to the form still does.                *)
LEMMA Answered ==
  ASSUME Busy, NEW c \in Calls, calls[c] # Free, NEW a \in Answers, NEW t \in MaybeToken,
         calls[c].kind \in {"refresh", "oauth"} => t \in Tokens,
         calls[c].kind \in {"verify", "setup"} /\ a = "ok" => t \in Tokens,
         calls' = [calls EXCEPT ![c].answer = a, ![c].tok = t], form' = form
  PROVE  Busy'
<1> DEFINE k == [calls[c] EXCEPT !.answer = a, !.tok = t]
<1>1. calls[c] \in [kind : Kinds, tok : MaybeToken, answer : Answers, here : BOOLEAN]
  BY DEF Busy, Good, Call
<1>2. GoodCall(k) /\ k.here = calls[c].here /\ k.kind = calls[c].kind
  BY <1>1 DEF GoodCall, Call
<1>3. calls' = [calls EXCEPT ![c] = k]
  BY DEF Busy, Good
<1> HIDE DEF k
<1>4. calls' \in [Calls -> Call] /\ \A d \in Calls : GoodCall(calls'[d])
  BY <1>2, <1>3 DEF Busy, Good, GoodCall
<1>5. Own(calls') = Own(calls)
  BY <1>2, <1>3 DEF Busy, Good, Own
<1> QED
  BY <1>4, <1>5 DEF Busy, Good, Once

(* The same for an answer without a token.                                 *)
LEMMA AnsweredAs ==
  ASSUME Busy, NEW c \in Calls, NEW a \in Answers, Answer(c, a),
         calls[c].kind \in {"verify", "setup"} => a # "ok"
  PROVE  Busy'
<1> DEFINE k == [calls[c] EXCEPT !.answer = a]
<1>1. calls[c] \in [kind : Kinds, tok : MaybeToken, answer : Answers, here : BOOLEAN]
  BY DEF Busy, Good, Call, Answer
<1>2. GoodCall(k) /\ k.here = calls[c].here /\ k.kind = calls[c].kind
  BY <1>1 DEF GoodCall, Call, Busy, Good
<1>3. calls' = [calls EXCEPT ![c] = k] /\ form' = form
  BY DEF Busy, Good, Answer
<1> HIDE DEF k
<1>4. calls' \in [Calls -> Call] /\ \A d \in Calls : GoodCall(calls'[d])
  BY <1>2, <1>3 DEF Busy, Good, GoodCall
<1>5. Own(calls') = Own(calls)
  BY <1>2, <1>3 DEF Busy, Good, Own
<1> QED
  BY <1>3, <1>4, <1>5 DEF Busy, Good, Once

-----------------------------------------------------------------------------
(* Steps that several actions share *)

(* Kinds of requests that no form sends.                                   *)
LEMMA OtherKinds ==
  /\ {"refresh", "oauth", "data", "logout"} \subseteq Kinds \ FormKinds
  /\ FormKinds \subseteq Kinds /\ None \in MaybeToken /\ Tokens \subseteq MaybeToken
  /\ \A st \in Stores : legacy \in Stores => TokenIn(st) \in MaybeToken
BY ReadTyped DEF Kinds, FormKinds, MaybeToken

(* A slot that is free belongs to no form.                                 *)
LEMMA IdleIs == ASSUME NEW c \in Calls, Idle(calls, c) PROVE calls[c].kind \notin FormKinds
BY FreeIs DEF Idle, FormKinds

(* A page that is shown instead of another.                                *)
LEMMA Shown ==
  ASSUME Rest, NEW p \in Pages, GoTo(p), issued' = issued, leaving' \in BOOLEAN
  PROVE  Rest'
BY DEF GoTo, Blank, Steps, Rest

(* A form or page that stays.                                              *)
LEMMA SamePage ==
  ASSUME Rest, page' = page, form' = form, leaving' \in BOOLEAN,
         issued' \in [Tokens -> {"none", "live", "ended"}]
  PROVE  Rest'
BY DEF Rest

(* Where a user is at home.                                                *)
LEMMA HomeIs == \A u : Home(u) \in Pages
BY DEF Home, Pages

(* The browser is asked to leave, or goes on as before.                    *)
LEMMA NotifyIs == ASSUME leaving \in BOOLEAN, NEW t, NotifyExpired(t) PROVE leaving' \in BOOLEAN
BY DEF NotifyExpired

(* Logging out, from a page or from a request that was refused.            *)
LEMMA LogoutStep ==
  ASSUME Inv, NEW c \in Calls, calls[c].kind \notin FormKinds, LogoutFrom(c),
         UNCHANGED <<loading, issued, leaving>>
  PROVE  Inv'
<1> USE DEF Inv
<1>1. CASE stored = Empty
  <2>1. ClearAuth /\ Leave(Done(c))
    BY <1>1 DEF LogoutFrom
  <2>2. Whole'
    BY <2>1, Cleared DEF Whole
  <2>3. CASE GoTo("login") /\ calls' = Unmounted(Done(c))
    <3>1. Busy'
      BY <2>3, Gone, DoneGood DEF Busy, GoTo
    <3>2. Rest'
      BY <2>3, Shown DEF Rest, Pages
    <3> QED
      BY <2>2, <3>1, <3>2
  <2>4. CASE UNCHANGED <<page, form>> /\ calls' = Done(c)
    <3>1. Busy'
      BY <2>4, Freed
    <3> QED
      BY <2>2, <2>4, <3>1, SamePage DEF Rest
  <2> QED
    BY <2>1, <2>3, <2>4 DEF Leave
<1>2. CASE stored # Empty
  <2>1. calls' = Send(calls, c, "logout", StoredToken)
          /\ UNCHANGED <<stored, legacy, token, user, page, form>>
    BY <1>2 DEF LogoutFrom
  <2>2. StoredToken \in MaybeToken
    BY ReadTyped DEF StoredToken, Whole
  <2>3. Busy'
    BY <2>1, <2>2, Sent, OtherKinds
  <2>4. Whole' /\ Rest'
    BY <2>1, SameSession, SamePage DEF Rest, react
  <2> QED
    BY <2>3, <2>4
<1> QED
  BY <1>1, <1>2

(* Saving the profile asks for the user again, if there is a token.        *)
LEMMA RefreshStep ==
  ASSUME Inv, NEW c \in Calls, calls[c].kind \notin FormKinds, RefreshFrom(c),
         UNCHANGED <<page, form, issued, leaving>>
  PROVE  Inv'
<1> USE DEF Inv
<1>1. Rest'
  BY SamePage DEF Rest
<1>2. CASE StoredToken = None
  <2>1. ClearAuth /\ loading' = FALSE /\ calls' = Done(c)
    BY <1>2 DEF RefreshFrom
  <2> QED
    BY <1>1, <2>1, Cleared, Freed
<1>3. CASE StoredToken # None
  <2>1. /\ calls' = Send(calls, c, "refresh", StoredToken)
        /\ stored' = Migrate(stored) /\ UNCHANGED <<legacy, react>>
    BY <1>3 DEF RefreshFrom, react
  <2>2. StoredToken \in Tokens
    BY <1>3, ReadTyped DEF StoredToken, Whole, MaybeToken
  <2>3. Busy'
    BY <2>1, <2>2, Sent, OtherKinds
  <2> QED
    BY <1>1, <2>1, <2>3, Migrated
<1> QED
  BY <1>2, <1>3

(* An answer that changes neither the session nor the page.                *)
LEMMA ServeStep ==
  ASSUME Inv, NEW c \in Calls, NEW a \in Answers, Answer(c, a),
         calls[c].kind \notin FormKinds,
         issued' \in [Tokens -> {"none", "live", "ended"}]
  PROVE  Inv'
<1>1. Busy'
  BY AnsweredAs DEF Inv, FormKinds
<1>2. Whole' /\ Rest'
  BY SameSession, SamePage DEF Inv, Rest, Answer
<1> QED
  BY <1>1, <1>2 DEF Inv

(* A form step that neither logs in nor leaves the page.                   *)
LEMMA FormStepIs ==
  ASSUME Inv, NEW c \in Calls, calls[c].kind \in FormKinds, NEW steps \in SUBSET Steps,
         FormStep(c, steps), calls' = Done(c),
         UNCHANGED <<stored, legacy, react, page, issued, leaving>>
  PROVE  Inv'
<1> USE DEF Inv
<1>1. Whole'
  BY SameSession
<1>2. CASE calls[c].here
  <2>1. PICK st \in Steps : form' = [step |-> st, busy |-> FALSE]
    BY <1>2 DEF FormStep
  <2>2. Busy'
    BY <1>2, <2>1, FreedForm DEF Own
  <2> QED
    BY <1>1, <2>1, <2>2 DEF Rest
<1>3. CASE ~calls[c].here
  <2>1. form' = form
    BY <1>3 DEF FormStep
  <2> QED
    BY <1>1, <1>3, <2>1, Freed, SamePage DEF Rest
<1> QED
  BY <1>2, <1>3

-----------------------------------------------------------------------------
(* The actions *)

(* Documents and links.                                                    *)
LEMMA DocumentStep ==
  ASSUME Inv,
         \/ \E p \in Pages : Load(p) \/ Navigate(p)
         \/ \E t \in Tokens : OAuthCallback(t)
         \/ LoadLogin \/ Redirect \/ BackToPassword
  PROVE  Inv'
<1> USE DEF Inv
<1>0. StoredToken = TokenIn(stored) /\ StoredToken \in MaybeToken
        /\ stored \in Stores /\ legacy \in Stores
  BY ReadTyped DEF StoredToken, Whole
<1>1. ASSUME NEW p \in Pages, Load(p) PROVE Inv'
  <2>1. StartSession(stored, NoCalls) /\ token' = StoredToken /\ GoTo(p)
          /\ leaving' = FALSE /\ issued' = issued
    BY <1>1 DEF Load
  <2>2. Whole'
    BY <1>0, <2>1, Started
  <2>3. Busy'
    BY <1>0, <2>1, StartedCalls, FreeIs DEF GoTo
  <2> QED
    BY <2>1, <2>2, <2>3, Shown
<1>2. ASSUME NEW p \in Pages, Navigate(p) PROVE Inv'
  <2>1. Whole' /\ Rest'
    BY <1>2, SameSession, Shown DEF Navigate, Rest
  <2>2. Busy'
    BY <1>2, Gone DEF Navigate, Busy, GoTo
  <2> QED
    BY <2>1, <2>2
<1>3. ASSUME NEW t \in Tokens, OAuthCallback(t) PROVE Inv'
  <2> DEFINE st == [Migrate(stored) EXCEPT !["local"] = t]
  <2>1. PICK cs \in Effects(NoCalls, "oauth", t) : StartSession(st, cs)
    BY <1>3 DEF OAuthCallback
  <2>2. st \in Stores /\ st["local"] = t /\ t # None
    BY <1>0, ReadTyped, NoneAssumption DEF Stores, MaybeToken, Storages
  <2>3. TokenIn(st) = t
    BY <2>2 DEF TokenIn, Read
  <2>4. Good(cs) /\ Own(cs) = {}
    BY <2>1, FreeIs, EffectsGood
  <2> HIDE DEF st
  <2>5. token' = StoredToken /\ form' = Blank
    BY <1>3 DEF OAuthCallback, GoTo
  <2>6. Whole'
    BY <1>0, <2>1, <2>2, <2>3, <2>5, Started
  <2>7. Busy'
    BY <1>0, <2>1, <2>2, <2>4, <2>5, StartedCalls
  <2>8. Rest'
    BY <1>3 DEF OAuthCallback, GoTo, Blank, Steps, Pages, Rest
  <2> QED
    BY <2>6, <2>7, <2>8
<1>4. ASSUME LoadLogin PROVE Inv'
  <2>1. StartSession(stored, NoCalls) /\ token' = StoredToken /\ GoTo("login")
          /\ leaving' = FALSE /\ issued' = issued
    BY <1>4 DEF LoadLogin
  <2>2. Whole'
    BY <1>0, <2>1, Started
  <2>3. Busy'
    BY <1>0, <2>1, StartedCalls, FreeIs DEF GoTo
  <2> QED
    BY <2>1, <2>2, <2>3, Shown DEF Pages
<1>5. ASSUME Redirect PROVE Inv'
  <2>1. Whole'
    BY <1>5, SameSession DEF Redirect
  <2>2. Rest'
    <3>1. GoTo("login") \/ GoTo("user")
      BY <1>5 DEF Redirect
    <3> QED
      BY <1>5, <3>1, Shown DEF Redirect, Rest, Pages
  <2>3. Busy'
    BY <1>5, Gone DEF Redirect, Busy, GoTo
  <2> QED
    BY <2>1, <2>2, <2>3
<1>6. ASSUME BackToPassword PROVE Inv'
  <2>1. form' = [form EXCEPT !.step = "password"] /\ calls' = calls
    BY <1>6 DEF BackToPassword
  <2>2. form'.busy = form.busy
    BY <2>1 DEF Rest
  <2>3. Whole'
    BY <1>6, SameSession DEF BackToPassword
  <2>4. Rest'
    BY <1>6 DEF BackToPassword, Rest, Steps
  <2> QED
    BY <2>1, <2>2, <2>3, <2>4 DEF Busy
<1> QED
  BY <1>1, <1>2, <1>3, <1>4, <1>5, <1>6

(* Answers to AuthProvider and to OAuthCallback.                           *)
LEMMA SessionStep ==
  ASSUME Inv, NEW c \in Calls,
         RefreshOk(c) \/ RefreshFails(c) \/ OAuthOk(c) \/ OAuthFails(c) \/ LoginDone(c)
  PROVE  Inv'
<1> USE DEF Inv
<1>0. GoodCall(calls[c]) /\ Good(calls) /\ leaving \in BOOLEAN
  BY DEF Busy, Good, Rest
<1>1. ASSUME RefreshOk(c) PROVE Inv'
  <2>1. /\ calls[c].kind = "refresh" /\ calls[c].tok \in Tokens
        /\ token' = calls[c].tok /\ user' = Owner[calls[c].tok] /\ loading' = FALSE
        /\ UNCHANGED <<stored, legacy>>
    BY <1>0, <1>1 DEF RefreshOk, Got, GoodCall
  <2>2. token' # None /\ user' # None /\ user' \in Users
    BY <2>1, NoneAssumption DEF Users
  <2>3. Whole'
    BY <2>1, <2>2 DEF Whole, SessionWhole, MaybeToken
  <2>4. Busy'
    BY <1>1, <2>1, Freed DEF RefreshOk, FormKinds
  <2>5. Rest'
    BY <1>1, SamePage DEF RefreshOk, Rest
  <2> QED
    BY <2>3, <2>4, <2>5
<1>2. ASSUME RefreshFails(c) PROVE Inv'
  <2>1. calls[c].kind = "refresh" /\ calls' = Done(c) /\ form' = form
    BY <1>2 DEF RefreshFails, Got, Failed
  <2>2. Whole'
    BY <1>2, Cleared DEF RefreshFails
  <2>3. Busy'
    BY <2>1, Freed DEF FormKinds
  <2>4. leaving' \in BOOLEAN
    BY <1>0, <1>2, NotifyIs DEF RefreshFails
  <2>5. Rest'
    BY <1>2, <2>4, SamePage DEF RefreshFails, Rest
  <2> QED
    BY <2>2, <2>3, <2>5
<1>3. ASSUME OAuthOk(c) PROVE Inv'
  <2>1. calls[c].kind = "oauth" /\ calls[c].tok \in Tokens
    BY <1>0, <1>3 DEF OAuthOk, Got, GoodCall
  <2>2. Whole'
    BY <1>3, <2>1, LoggedIn DEF OAuthOk
  <2>3. Busy'
    BY <1>0, <1>3, Gone, DoneGood DEF OAuthOk, GoTo
  <2>4. Rest'
    BY <1>0, <1>3, Shown, HomeIs DEF OAuthOk
  <2> QED
    BY <2>2, <2>3, <2>4
<1>4. ASSUME OAuthFails(c) PROVE Inv'
  <2>1. calls[c].kind = "oauth" /\ calls' = Done(c) /\ form' = form
    BY <1>4 DEF OAuthFails, Got, Failed
  <2>2. \/ ClearAuth /\ loading' = FALSE
        \/ UNCHANGED <<stored, legacy, react>>
    BY <1>4 DEF OAuthFails
  <2>3. Whole'
    BY <2>2, Cleared, SameSession
  <2>4. Busy'
    BY <2>1, Freed DEF FormKinds
  <2>5. leaving' \in BOOLEAN
    BY <1>0, <1>4, NotifyIs DEF OAuthFails
  <2>6. Rest'
    BY <1>4, <2>5, SamePage DEF OAuthFails, Rest
  <2> QED
    BY <2>3, <2>4, <2>6
<1>5. ASSUME LoginDone(c) PROVE Inv'
  <2>1. calls[c].tok \in Tokens
    BY <1>0, <1>5 DEF LoginDone, Got, GoodCall
  <2>2. (calls[c].kind = "setup") \in BOOLEAN
    OBVIOUS
  <2>3. Whole'
    BY <1>5, <2>1, <2>2, LoggedIn DEF LoginDone
  <2>4. Busy'
    BY <1>0, <1>5, Gone, DoneGood DEF LoginDone, GoTo
  <2>5. Rest'
    BY <1>0, <1>5, Shown, HomeIs DEF LoginDone
  <2> QED
    BY <2>3, <2>4, <2>5
<1> QED
  BY <1>1, <1>2, <1>3, <1>4, <1>5

(* Forms and requests of pages.                                            *)
LEMMA PageStep ==
  ASSUME Inv, NEW c \in Calls,
         \/ UserActs(c) \/ FormOk(c) \/ FormFails(c)
         \/ LogoutDone(c) \/ DataShown(c) \/ DataRejected(c) \/ ProfileSaved(c)
  PROVE  Inv'
<1> USE DEF Inv
<1>1. ASSUME SubmitPassword(c) PROVE Inv'
  <2>1. Submit(c, "login", "password", "login") /\ ClearAuth /\ loading' = loading
    BY <1>1 DEF SubmitPassword
  <2>2. Whole'
    BY <2>1, Cleared DEF Whole
  <2>3. "login" \in FormKinds
    BY DEF FormKinds
  <2> QED
    BY <2>1, <2>2, <2>3, Submitted
<1>2. ASSUME NEW p, NEW step, NEW kind \in FormKinds, Submit(c, p, step, kind),
             UNCHANGED <<stored, legacy, react>>
      PROVE  Inv'
  BY <1>2, Submitted, SameSession
<1>3. ASSUME SubmitEmailCode(c) \/ SubmitSecondFactor(c)
               \/ SubmitNewPassword(c) \/ SubmitAuthenticator(c)
      PROVE  Inv'
  <2>1. {"code", "verify", "setup"} \subseteq FormKinds
    BY DEF FormKinds
  <2> QED
    BY <1>2, <1>3, <2>1
    DEF SubmitEmailCode, SubmitSecondFactor, SubmitNewPassword, SubmitAuthenticator
<1>4. ASSUME Ask(c) PROVE Inv'
  <2>1. calls' = Send(calls, c, "data", StoredToken) /\ form' = form
          /\ calls[c].kind \notin FormKinds
    BY <1>4, IdleIs DEF Ask
  <2>2. StoredToken \in MaybeToken
    BY ReadTyped DEF StoredToken, Whole
  <2>3. Busy'
    BY <2>1, <2>2, Sent, OtherKinds
  <2>4. Whole' /\ Rest'
    BY <1>4, Migrated, SamePage DEF Ask, Rest
  <2> QED
    BY <2>3, <2>4
<1>5. ASSUME LogoutUser(c) PROVE Inv'
  BY <1>5, IdleIs, LogoutStep DEF LogoutUser
<1>6. ASSUME FormOk(c) PROVE Inv'
  <2>1. form.step \in Steps
    BY DEF Rest
  <2>2. StepsAfter(calls[c].kind) \in SUBSET Steps
    BY <2>1 DEF StepsAfter, Steps
  <2> QED
    BY <1>6, <2>2, FormStepIs DEF FormOk, FormKinds
<1>7. ASSUME FormFails(c) PROVE Inv'
  <2>1. {form.step} \in SUBSET Steps
    BY DEF Rest
  <2> QED
    BY <1>7, <2>1, FormStepIs DEF FormFails
<1>8. ASSUME LogoutDone(c) PROVE Inv'
  <2>1. ClearAuth /\ loading' = loading /\ Leave(Done(c)) /\ calls[c].kind = "logout"
    BY <1>8 DEF LogoutDone, Forget
  <2>2. Whole'
    BY <2>1, Cleared DEF Whole
  <2>3. CASE GoTo("login") /\ calls' = Unmounted(Done(c))
    <3>1. Busy'
      BY <2>3, Gone, DoneGood DEF Busy, GoTo
    <3>2. Rest'
      BY <1>8, <2>3, Shown DEF LogoutDone, Rest, Pages
    <3> QED
      BY <2>2, <3>1, <3>2
  <2>4. CASE UNCHANGED <<page, form>> /\ calls' = Done(c)
    <3>1. Busy'
      BY <2>1, <2>4, Freed DEF FormKinds
    <3>2. Rest'
      BY <1>8, <2>4, SamePage DEF LogoutDone, Rest
    <3> QED
      BY <2>2, <3>1, <3>2
  <2> QED
    BY <2>1, <2>3, <2>4 DEF Leave
<1>9. ASSUME DataShown(c) PROVE Inv'
  <2>1. Busy'
    BY <1>9, Freed DEF DataShown, FormKinds
  <2>2. Whole' /\ Rest'
    BY <1>9, SameSession, SamePage DEF DataShown, Rest
  <2> QED
    BY <2>1, <2>2
<1>10. ASSUME DataRejected(c) PROVE Inv'
  BY <1>10, LogoutStep DEF DataRejected, Got, FormKinds
<1>11. ASSUME ProfileSaved(c) PROVE Inv'
  BY <1>11, RefreshStep DEF ProfileSaved, Got, FormKinds
<1> QED
  BY <1>1, <1>3, <1>4, <1>5, <1>6, <1>7, <1>8, <1>9, <1>10, <1>11 DEF UserActs

(* The server, the clock and another tab.                                  *)
LEMMA WorldStep ==
  ASSUME Inv,
         \/ \E c \in Calls : Serve(c)
         \/ \E t \in Tokens : OtherTabLogin(t) \/ Expire(t)
         \/ OtherTabLogout
  PROVE  Inv'
<1> USE DEF Inv
<1>0. issued \in [Tokens -> {"none", "live", "ended"}]
        /\ {"ok", "rejected"} \subseteq Answers
  BY DEF Rest, Answers
<1>1. ASSUME NEW c \in Calls, ServeOk(c) PROVE Inv'
  BY <1>0, <1>1, ServeStep DEF ServeOk, FormKinds
<1>2. ASSUME NEW c \in Calls, ServeLogout(c) PROVE Inv'
  <2>1. issued' \in [Tokens -> {"none", "live", "ended"}]
    BY <1>0, <1>2 DEF ServeLogout
  <2> QED
    BY <1>0, <1>2, <2>1, ServeStep DEF ServeLogout, Got, FormKinds
<1>3. ASSUME NEW c \in Calls, ServeReject(c) PROVE Inv'
  BY <1>0, <1>3, ServeStep DEF ServeReject, FormKinds
<1>4. ASSUME NEW c \in Calls, NEW t \in Tokens, IssueToken(c, t) PROVE Inv'
  <2>1. calls[c] # Free
    BY <1>4, FreeIs DEF IssueToken
  <2>2. calls[c].kind \notin {"refresh", "oauth"}
    BY <1>4 DEF IssueToken
  <2>3. Busy'
    BY <1>0, <1>4, <2>1, <2>2, Answered, OtherKinds DEF IssueToken
  <2>4. issued' \in [Tokens -> {"none", "live", "ended"}]
    BY <1>0, <1>4 DEF IssueToken
  <2>5. Whole' /\ Rest'
    BY <1>4, <2>4, SameSession, SamePage DEF IssueToken, Rest
  <2> QED
    BY <2>3, <2>5
<1>5. ASSUME NEW t \in Tokens, OtherTabLogin(t) PROVE Inv'
  <2>1. stored' \in Stores /\ UNCHANGED <<legacy, react>>
    BY <1>5 DEF OtherTabLogin, Whole, Stores, MaybeToken
  <2>2. Whole'
    BY <2>1 DEF Whole, SessionWhole, react
  <2>3. Busy'
    BY <1>5 DEF OtherTabLogin, Busy
  <2>4. Rest'
    BY <1>0, <1>5, SamePage DEF OtherTabLogin, Rest
  <2> QED
    BY <2>2, <2>3, <2>4
<1>6. ASSUME NEW t \in Tokens, Expire(t) PROVE Inv'
  <2>1. Whole'
    BY <1>6, SameSession DEF Expire
  <2>2. Busy'
    BY <1>6 DEF Expire, Busy
  <2>3. Rest'
    BY <1>0, <1>6, SamePage DEF Expire, Rest
  <2> QED
    BY <2>1, <2>2, <2>3
<1>7. ASSUME OtherTabLogout PROVE Inv'
  <2>1. stored' \in Stores /\ legacy' \in Stores /\ UNCHANGED react
    BY <1>7 DEF OtherTabLogout, Whole, Stores, MaybeToken
  <2>2. Whole'
    BY <2>1 DEF Whole, SessionWhole, react
  <2>3. Busy'
    BY <1>7 DEF OtherTabLogout, Busy
  <2>4. Rest'
    BY <1>7, SamePage DEF OtherTabLogout, Rest
  <2> QED
    BY <2>2, <2>3, <2>4
<1> QED
  BY <1>1, <1>2, <1>3, <1>4, <1>5, <1>6, <1>7 DEF Serve

-----------------------------------------------------------------------------
(* Every document starts whole.                                            *)
LEMMA InvInit == Init => Inv
<1> SUFFICES ASSUME Init PROVE Inv
  OBVIOUS
<1>1. stored \in Stores /\ legacy \in Stores
  <2>1. Empty \in Stores /\ \A s \in Storages, t \in Tokens : [Empty EXCEPT ![s] = t] \in Stores
    BY DEF Empty, Stores, MaybeToken
  <2> QED
    BY <2>1 DEF Init, Storages
<1>2. StoredToken \in MaybeToken
  BY <1>1, ReadTyped DEF StoredToken
<1>3. Whole
  BY <1>1, <1>2 DEF Init, Whole, SessionWhole
<1>4. Good(calls) /\ Own(calls) = {}
  <2>1. CASE token = None
    BY <2>1, FreeIs DEF Init
  <2>2. CASE token # None
    BY <1>2, <2>2, FreeIs, EffectsGood DEF Init, MaybeToken
  <2> QED
    BY <2>1, <2>2
<1>5. Busy
  BY <1>4 DEF Init, Blank, Busy, Once
<1>6. Rest
  <2>1. page = "user" /\ form = Blank /\ leaving = FALSE
          /\ issued \in [Tokens -> {"none", "live", "ended"}]
    BY DEF Init
  <2> QED
    BY <2>1 DEF Rest, Pages, Steps, Blank
<1> QED
  BY <1>3, <1>5, <1>6 DEF Inv

(* It holds in every state.                                                *)
THEOREM Invariance == Spec => []Inv
<1>1. Inv /\ [Next]_vars => Inv'
  <2> SUFFICES ASSUME Inv, [Next]_vars PROVE Inv'
    OBVIOUS
  <2>1. CASE UNCHANGED vars
    <3>1. Whole'
      BY <2>1, SameSession DEF vars, react, Inv
    <3>2. Busy' /\ Rest'
      BY <2>1 DEF vars, Inv, Busy, Rest
    <3> QED
      BY <3>1, <3>2 DEF Inv
  <2>2. CASE Next
    BY <2>2, DocumentStep, SessionStep, PageStep, WorldStep DEF Next, Receive
  <2> QED
    BY <2>1, <2>2
<1> QED
  BY InvInit, <1>1, PTL DEF Spec

(* Every variable keeps its type.                                          *)
THEOREM TypeCorrect == Spec => []TypeOK
<1>1. Inv => TypeOK
  BY DEF Inv, Whole, Busy, Good, Rest, Stores, TypeOK
<1> QED
  BY Invariance, <1>1, PTL

(* No late answer leaves half a session, or the user of another token.     *)
THEOREM SessionsWhole == Spec => []SessionWhole
<1>1. Inv => SessionWhole
  BY DEF Inv, Whole
<1> QED
  BY Invariance, <1>1, PTL

(* A form has one request under way while it is disabled, and none before. *)
THEOREM SubmissionsOnce == Spec => []OneSubmission
<1>1. Inv => OneSubmission
  BY DEF Inv, Busy, Once, Own, OneSubmission
<1> QED
  BY Invariance, <1>1, PTL

(* Only the refusal of the token that is stored, or of one when nothing is *)
(* stored, sends the browser to the login page, with nothing stored.       *)
THEOREM ForcedOutByStored == Spec => ForcedOut
<1> DEFINE Out == /\ \E c \in Calls : /\ calls[c].answer = "rejected" /\ calls'[c] = Free
                                      /\ StoredToken \in {None, calls[c].tok}
                  /\ StoredToken' = None
<1>1. ASSUME Inv, [Next]_vars, ~leaving, leaving' PROVE Out
  <2>1. PICK c \in Calls : RefreshFails(c) \/ OAuthFails(c)
    BY <1>1 DEF Next, vars, Receive, Serve, UserActs, Load, Navigate, OAuthCallback, OtherTabLogin,
      Expire, LoadLogin, Redirect, BackToPassword, OtherTabLogout, RefreshOk, OAuthOk, FormOk,
      FormFails, LoginDone, LogoutDone, DataShown, DataRejected, ProfileSaved, ServeOk, ServeLogout,
      ServeReject, IssueToken, Answer, SubmitPassword, SubmitEmailCode, SubmitSecondFactor,
      SubmitNewPassword, SubmitAuthenticator, Submit, Ask, LogoutUser
  <2>2. calls[c].answer = "rejected" /\ NotifyExpired(calls[c].tok)
    BY <1>1, <2>1 DEF RefreshFails, OAuthFails
  <2>3. calls[c].kind \in {"refresh", "oauth"}
    BY <2>1 DEF RefreshFails, OAuthFails, Got, Failed
  <2>4. calls[c].tok \in Tokens /\ calls[c].tok # None
    BY <1>1, <2>3, NoneAssumption DEF Inv, Busy, Good, GoodCall
  <2>5. StoredToken \in {None, calls[c].tok}
    BY <1>1, <2>2, <2>4 DEF NotifyExpired
  <2>6. ClearAuth
    BY <2>1, <2>2, <2>5 DEF RefreshFails, OAuthFails
  <2>7. StoredToken' = None
    BY <2>6, ClearedEmpty DEF ClearAuth
  <2>8. calls'[c] = Free
    BY <1>1, <2>1 DEF RefreshFails, OAuthFails, Done, Inv, Busy, Good
  <2> QED
    BY <2>2, <2>5, <2>7, <2>8
<1>2. Inv /\ [Next]_vars => [~leaving /\ leaving' =>
        /\ \E c \in Calls : /\ calls[c].answer = "rejected" /\ calls'[c] = Free
                           /\ StoredToken \in {None, calls[c].tok}
        /\ StoredToken' = None]_vars
  BY <1>1
<1> QED
  BY Invariance, <1>2, PTL DEF Spec, ForcedOut

-----------------------------------------------------------------------------
(* The safety halves of CheckEnds and LogoutEnds *)

(* While the page says that it checks the session, a check is under way.   *)
CheckUnderWay == loading => \E c \in Calls : calls[c].kind = "refresh"

(* The request of a logout is over only when everything is forgotten, or   *)
(* with its document.                                                      *)
Forgotten == LoggedOut \/ (user = None /\ loading)
LogoutForgets ==
  [][\A c \in Calls :
       calls[c].kind = "logout" /\ calls'[c].kind # "logout" => Forgotten']_vars

KeepsKind(c) == calls'[c].kind = calls[c].kind

(* What a step may do to the requests: replace them all with the document, *)
(* leave them, or change one, and then a check that is over has ended the  *)
(* loading and a logout that is over has forgotten the session.            *)
NewDocument == Forgotten' /\ CheckUnderWay'
Untouched == loading' = loading /\ \A c \in Calls : KeepsKind(c)
Touched(c) ==
  /\ loading' \in {FALSE, loading}
  /\ \A d \in Calls : d # c => KeepsKind(d)
  /\ calls[c].kind = "refresh" => KeepsKind(c) \/ loading' = FALSE
  /\ calls[c].kind = "logout" => KeepsKind(c) \/ LoggedOut'

(* The effects of a new document send at least one check, or forget all.   *)
LEMMA DocumentChecks ==
  ASSUME NEW st, NEW cs, StartSession(st, cs), TokenIn(st) = None => token' = None
  PROVE  NewDocument
<1>1. CASE TokenIn(st) = None
  BY <1>1 DEF StartSession, NewDocument, CheckUnderWay, Forgotten, LoggedOut, ClearStoredAuth
<1>2. CASE TokenIn(st) # None
  <2>1. user' = None /\ loading' /\ calls' \in Effects(cs, "refresh", TokenIn(st))
    BY <1>2 DEF StartSession
  <2>2. PICK R \in SUBSET {c \in Calls : cs[c] = Free} :
          /\ Cardinality(R) \in 1..EffectRuns
          /\ calls' = [c \in Calls |-> IF c \in R THEN Request("refresh", TokenIn(st)) ELSE cs[c]]
    BY <2>1 DEF Effects
  <2>3. R # {}
    BY <2>2, FS_EmptySet, EffectRunsAssumption
  <2>4. PICK c \in R : TRUE
    BY <2>3
  <2>5. c \in Calls /\ calls'[c].kind = "refresh"
    BY <2>2, <2>4 DEF Request
  <2> QED
    BY <2>1, <2>5 DEF NewDocument, CheckUnderWay, Forgotten
<1> QED
  BY <1>1, <1>2

(* A form that is gone takes no request with it.                           *)
LEMMA UnmountedKinds ==
  ASSUME NEW cs, Good(cs), NEW c \in Calls
  PROVE  Unmounted(cs)[c].kind = cs[c].kind
<1>1. CASE cs[c] = Free
  BY <1>1 DEF Unmounted
<1>2. CASE cs[c] # Free
  <2>1. cs[c] \in [kind : Kinds, tok : MaybeToken, answer : Answers, here : BOOLEAN]
    BY <1>2 DEF Good, Call
  <2> QED
    BY <1>2, <2>1 DEF Unmounted
<1> QED
  BY <1>1, <1>2

(* One request is over or replaced, and the form may be gone, too.         *)
LEMMA OneTouched ==
  ASSUME Inv, NEW c \in Calls, NEW k, GoodCall(k), NEW cs, cs = [calls EXCEPT ![c] = k],
         calls' \in {cs, Unmounted(cs)},
         loading' \in {FALSE, loading},
         calls[c].kind = "refresh" => k.kind = "refresh" \/ loading' = FALSE,
         calls[c].kind = "logout" => k.kind = "logout" \/ LoggedOut'
  PROVE  Touched(c)
<1>1. Good(cs)
  BY DEF Inv, Busy, Good, GoodCall
<1>2. \A d \in Calls : calls'[d].kind = cs[d].kind
  BY <1>1, UnmountedKinds
<1>3. cs[c] = k /\ \A d \in Calls : d # c => cs[d] = calls[d]
  BY DEF Inv, Busy, Good
<1> QED
  BY <1>2, <1>3 DEF Touched, KeepsKind

(* The same for a request that is over.                                    *)
LEMMA OneDone ==
  ASSUME Inv, NEW c \in Calls, calls' \in {Done(c), Unmounted(Done(c))},
         loading' \in {FALSE, loading},
         calls[c].kind = "refresh" => loading' = FALSE,
         calls[c].kind = "logout" => LoggedOut'
  PROVE  Touched(c)
BY OneTouched, FreeIs DEF Done

(* The same for one that is sent.                                          *)
LEMMA OneSent ==
  ASSUME Inv, NEW c \in Calls, NEW kind \in Kinds \ {"refresh", "oauth"}, NEW t \in MaybeToken,
         calls' = Send(calls, c, kind, t), loading' = loading,
         calls[c].kind \notin {"refresh", "logout"}
  PROVE  Touched(c)
<1>1. GoodCall(Request(kind, t))
  BY RequestIs
<1> QED
  BY <1>1, OneTouched DEF Send

(* Every step of the tab is one of the three.                              *)
LEMMA Touches ==
  ASSUME Inv, Next
  PROVE  NewDocument \/ Untouched \/ \E c \in Calls : Touched(c)
<1>0. Good(calls) /\ StoredToken \in MaybeToken
  BY ReadTyped DEF Inv, Busy, Whole, StoredToken
<1>1. ASSUME NEW p \in Pages, Load(p) PROVE NewDocument
  BY <1>1, DocumentChecks DEF Load, StoredToken
<1>2. ASSUME NEW t \in Tokens, OAuthCallback(t) PROVE NewDocument
  <2> DEFINE st == [Migrate(stored) EXCEPT !["local"] = t]
  <2>1. TokenIn(st) # None
    BY NoneAssumption DEF TokenIn, Read, Migrate, Storages
  <2>2. PICK cs : StartSession(st, cs)
    BY <1>2 DEF OAuthCallback
  <2> QED
    BY <2>1, <2>2, DocumentChecks
<1>3. ASSUME LoadLogin PROVE NewDocument
  BY <1>3, DocumentChecks DEF LoadLogin, StoredToken
<1>4. ASSUME Redirect \/ \E p \in Pages : Navigate(p) PROVE Untouched
  <2>1. calls' = Unmounted(calls) /\ loading' = loading
    BY <1>4 DEF Redirect, Navigate, react
  <2> QED
    BY <1>0, <2>1, UnmountedKinds DEF Untouched, KeepsKind
<1>5. ASSUME BackToPassword \/ OtherTabLogout \/ \E t \in Tokens : OtherTabLogin(t) \/ Expire(t)
      PROVE  Untouched
  BY <1>5 DEF BackToPassword, OtherTabLogout, OtherTabLogin, Expire, react, Untouched, KeepsKind
<1>6. ASSUME NEW c \in Calls, Serve(c) PROVE Untouched
  <2>1. loading' = loading /\ calls[c] # Free
    BY <1>6, FreeIs DEF Serve, ServeOk, ServeLogout, ServeReject, IssueToken, Answer, react
  <2>2. calls[c] \in [kind : Kinds, tok : MaybeToken, answer : Answers, here : BOOLEAN]
    BY <1>0, <2>1 DEF Good, Call
  <2>3. PICK a, t : \/ calls' = [calls EXCEPT ![c].answer = a]
                    \/ calls' = [calls EXCEPT ![c].answer = a, ![c].tok = t]
    BY <1>6 DEF Serve, ServeOk, ServeLogout, ServeReject, IssueToken, Answer
  <2>4. \A d \in Calls : KeepsKind(d)
    <3>1. CASE calls' = [calls EXCEPT ![c].answer = a]
      <4>1. calls'[c] = [calls[c] EXCEPT !.answer = a] /\ \A d \in Calls : d # c => calls'[d] = calls[d]
        BY <1>0, <3>1 DEF Good
      <4> QED
        BY <2>2, <4>1 DEF KeepsKind
    <3>2. CASE calls' = [calls EXCEPT ![c].answer = a, ![c].tok = t]
      <4>1. calls'[c] = [calls[c] EXCEPT !.answer = a, !.tok = t]
              /\ \A d \in Calls : d # c => calls'[d] = calls[d]
        BY <1>0, <3>2 DEF Good
      <4> QED
        BY <2>2, <4>1 DEF KeepsKind
    <3> QED
      BY <2>3, <3>1, <3>2
  <2> QED
    BY <2>1, <2>4 DEF Untouched
<1>7. ASSUME NEW c \in Calls, Receive(c) PROVE Touched(c)
  <2>1. CASE RefreshOk(c) \/ RefreshFails(c)
    BY <2>1, OneDone DEF RefreshOk, RefreshFails, Got, Failed
  <2>2. CASE OAuthOk(c) \/ OAuthFails(c)
    BY <2>2, OneDone DEF OAuthOk, OAuthFails, Got, Failed, react
  <2>3. CASE FormOk(c) \/ FormFails(c) \/ LoginDone(c)
    BY <2>3, OneDone DEF FormOk, FormFails, LoginDone, Got, FormKinds, react
  <2>4. CASE LogoutDone(c)
    BY <2>4, OneDone DEF LogoutDone, Forget, ClearAuth, ClearStoredAuth, Leave, LoggedOut
  <2>5. CASE DataShown(c)
    BY <2>5, OneDone DEF DataShown, react
  <2>6. CASE DataRejected(c)
    <3>1. calls[c].kind = "data" /\ LogoutFrom(c) /\ loading' = loading
      BY <2>6 DEF DataRejected, Got
    <3>2. CASE stored = Empty
      BY <3>1, <3>2, OneDone DEF LogoutFrom, Leave
    <3>3. CASE stored # Empty
      BY <1>0, <3>1, <3>3, OneSent DEF LogoutFrom, Kinds
    <3> QED
      BY <3>2, <3>3
  <2>7. CASE ProfileSaved(c)
    <3>1. calls[c].kind = "data" /\ RefreshFrom(c)
      BY <2>7 DEF ProfileSaved, Got
    <3>2. CASE StoredToken = None
      BY <3>1, <3>2, OneDone DEF RefreshFrom
    <3>3. CASE StoredToken # None
      <4>1. GoodCall(Request("refresh", StoredToken))
        BY <1>0, <3>3, RequestIs DEF Kinds, MaybeToken
      <4>2. calls' = [calls EXCEPT ![c] = Request("refresh", StoredToken)] /\ loading' = loading
        BY <3>1, <3>3 DEF RefreshFrom, Send
      <4> QED
        BY <3>1, <4>1, <4>2, OneTouched
    <3> QED
      BY <3>2, <3>3
  <2> QED
    BY <1>7, <2>1, <2>2, <2>3, <2>4, <2>5, <2>6, <2>7 DEF Receive
<1>8. ASSUME NEW c \in Calls, UserActs(c) PROVE Touched(c)
  <2>1. calls[c] = Free /\ loading' = loading
    BY <1>8 DEF UserActs, SubmitPassword, SubmitEmailCode, SubmitSecondFactor, SubmitNewPassword,
      SubmitAuthenticator, Submit, Ask, LogoutUser, Idle, react
  <2>2. CASE LogoutUser(c) /\ stored = Empty
    BY <2>1, <2>2, FreeIs, OneDone DEF LogoutUser, LogoutFrom, Leave
  <2>3. CASE LogoutUser(c) /\ stored # Empty
    BY <1>0, <2>1, <2>3, FreeIs, OneSent DEF LogoutUser, LogoutFrom, Kinds
  <2>4. CASE ~LogoutUser(c)
    <3>1. \E kind \in Kinds \ {"refresh", "oauth"}, t \in MaybeToken : calls' = Send(calls, c, kind, t)
      BY <1>0, <1>8, <2>4 DEF UserActs, SubmitPassword, SubmitEmailCode, SubmitSecondFactor,
        SubmitNewPassword, SubmitAuthenticator, Submit, Ask, Kinds, FormKinds, MaybeToken
    <3> QED
      BY <2>1, <3>1, FreeIs, OneSent
  <2> QED
    BY <2>2, <2>3, <2>4
<1> QED
  BY <1>1, <1>2, <1>3, <1>4, <1>5, <1>6, <1>7, <1>8 DEF Next

(* "Checking secure session..." is shown only while a request for the user *)
(* is in flight, whose answer or failure ends it: no answer that is        *)
(* applied late leaves the page checking a session with nobody asking.     *)
THEOREM ChecksUnderWay == Spec => []CheckUnderWay
<1>1. Init => CheckUnderWay
  <2> SUFFICES ASSUME Init, loading PROVE \E c \in Calls : calls[c].kind = "refresh"
    BY DEF CheckUnderWay
  <2>1. calls \in Effects(NoCalls, "refresh", token)
    <3>1. loading = (token # None) /\ (token # None => calls \in Effects(NoCalls, "refresh", token))
      BY DEF Init
    <3>2. token # None
      BY <3>1
    <3> QED
      BY <3>1, <3>2
  <2>2. PICK R \in SUBSET {c \in Calls : NoCalls[c] = Free} :
          /\ Cardinality(R) \in 1..EffectRuns
          /\ calls = [c \in Calls |-> IF c \in R THEN Request("refresh", token) ELSE NoCalls[c]]
    BY <2>1 DEF Effects
  <2>3. PICK c \in R : TRUE
    BY <2>2, FS_EmptySet, EffectRunsAssumption
  <2> QED
    BY <2>2, <2>3 DEF Request
<1>2. Inv /\ CheckUnderWay /\ [Next]_vars => CheckUnderWay'
  <2> SUFFICES ASSUME Inv, CheckUnderWay, [Next]_vars PROVE CheckUnderWay'
    OBVIOUS
  <2>1. CASE UNCHANGED vars
    BY <2>1 DEF vars, CheckUnderWay
  <2>2. CASE Next
    <3>1. CASE NewDocument
      BY <3>1 DEF NewDocument
    <3>2. CASE Untouched
      BY <3>2 DEF Untouched, KeepsKind, CheckUnderWay
    <3>3. ASSUME NEW c \in Calls, Touched(c) PROVE CheckUnderWay'
      BY <3>3 DEF Touched, KeepsKind, CheckUnderWay
    <3> QED
      BY <2>2, <3>1, <3>2, <3>3, Touches
  <2> QED
    BY <2>1, <2>2
<1> QED
  BY Invariance, <1>1, <1>2, PTL DEF Spec

(* The request of a logout ends, with whatever answer or failure, in a     *)
(* step after which nothing of the session is left in React or in a        *)
(* storage, unless a new document takes its place.                         *)
THEOREM LogoutsForget == Spec => LogoutForgets
<1>1. ASSUME Inv, [Next]_vars, NEW c \in Calls,
             calls[c].kind = "logout", calls'[c].kind # "logout"
      PROVE  Forgotten'
  <2>1. Next
    BY <1>1 DEF vars
  <2>2. NewDocument \/ \E d \in Calls : Touched(d)
    BY <1>1, <2>1, Touches DEF Untouched, KeepsKind
  <2> QED
    BY <1>1, <2>2 DEF NewDocument, Touched, KeepsKind, Forgotten
<1>2. Inv /\ [Next]_vars =>
        [\A c \in Calls :
           calls[c].kind = "logout" /\ calls'[c].kind # "logout" => Forgotten']_vars
  BY <1>1
<1> QED
  BY Invariance, <1>2, PTL DEF Spec, LogoutForgets

=============================================================================
