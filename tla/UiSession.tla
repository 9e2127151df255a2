------------------------------ MODULE UiSession ------------------------------
(***************************************************************************)
(* The sessions of the web UI (cli/ui.py) with sign-in switched on: one     *)
(* browser with several tabs, the cookie they share, and the handlers of    *)
(* the UI server, which keeps no session itself.                            *)
(*                                                                         *)
(* Starlette's SessionMiddleware puts the whole session into a signed       *)
(* cookie.  A handler works on the cookie as it was when the browser SENT   *)
(* the request, and the answer writes the session back, changed or not: an  *)
(* answer to an older request undoes what newer answers have written.       *)
(* Nothing else is shared between requests, so a handler runs in the step   *)
(* in which its answer reaches the browser.                                 *)
(***************************************************************************)
EXTENDS Integers

CONSTANTS
  Tabs,          \* tabs of the browser
  Users,         \* people, each with an account and access tokens
  Members,       \* those of Users with the required group and role
  NoOne,         \* None: no user, no token
  MaxFlows       \* bound on the flows (sign-ins at Entra) that exist at a time

ASSUME UiConstants ==
  /\ Members \subseteq Users
  /\ NoOne \notin Users
  /\ MaxFlows \in Nat

VARIABLES
  apiScope,  \* is an access token of the API asked for with a sign-in at Entra? (never changes)
  cookie,    \* the session in the browser's cookie
  page,      \* page[t]: what tab t shows
  nav,       \* nav[t]: the page request of tab t under way
  poll,      \* poll[t]: the fragment request of tab t under way
  went,      \* went[t]: the flow with which tab t was sent to Entra
  \* history variables
  expected,  \* who the last sign-in or sign-out left signed in, or "overtaken" when a
             \* request sent before it has been answered since
  mixed,     \* has somebody signed in at Entra over a session with another's token?
  excused    \* excused[t]: has something come between tab t and its sign-in at Entra?

history == <<expected, mixed, excused>>
vars == <<apiScope, cookie, page, nav, poll, went, history>>

Persons == Users \cup {NoOne}

\* user, api_token, auth_flow (0: none), and whether there is an auth_next.
Session == [user : Persons, token : Persons, flow : 0 .. MaxFlows, next : BOOLEAN]

Empty == [user |-> NoOne, token |-> NoOne, flow |-> 0, next |-> FALSE]

Idle == [to |-> "nothing"]

\* A request and the cookie it carries.  who: whose token, or whose sign-in at Entra, comes
\* with it (NoOne: none); flow: the flow it creates or completes; old: was it sent before
\* the last sign-in or sign-out?
Request(to, who, flow, session) ==
  [to |-> to, who |-> who, flow |-> flow, session |-> session, old |-> FALSE]

-------------------------------------------------------------------------------
(***************************************************************************)
(* The handlers, as functions of the session they are given.                *)
(***************************************************************************)
Answer(redirect, to, session) ==
  [redirect |-> redirect, to |-> to, session |-> session, saved |-> TRUE]
Shows(what, session) == Answer(FALSE, what, session)
Redirects(path, session) == Answer(TRUE, path, session)

\* An exception passes the middleware, and no cookie is set.
Raises(what, session) == [Shows(what, session) EXCEPT !.saved = FALSE]

RequireAuth(session) == session.user # NoOne

\* The guarded pages, which treat the session alike.
Dashboard(session) ==
  IF RequireAuth(session) THEN Shows("dashboard", session) ELSE Redirects("login", session)

\* The token with which the server calls the API for a page.
ApiToken(session) == session.token

\* What a page loads from the API, or the error of a call that failed.
Fragment(session) == Shows("fragment", session)

AuthLogin(session) ==
  IF session.user # NoOne THEN Redirects("dashboard", session) ELSE Shows("login", session)

\* Faulty variant: the claims are stored with the name they give.
SignedInWithClaims(session, who, token) ==
  Redirects("dashboard", [session EXCEPT !.user = <<who>>, !.token = token])

SignedIn(session, who, token) ==
  Redirects("dashboard", [session EXCEPT !.user = who, !.token = token])

\* Whose token is found on the machine of the server: the environment comes before the
\* Azure CLI.
TryAnyToken(environment, azureCli) ==
  IF environment # NoOne THEN environment ELSE azureCli

AuthAzLogin(session, who) ==
  IF who = NoOne THEN Shows("error", session) ELSE SignedIn(session, who, who)

\* who is NoOne: what was pasted is no JWT.
AuthTokenSubmit(session, who) ==
  IF who = NoOne THEN Shows("error", session) ELSE SignedIn(session, who, who)

AuthSso(session, flow) == Shows("entra", [session EXCEPT !.next = TRUE, !.flow = flow])

\* Faulty variant: the token is not stored for the new user.
ClaimsNoToken(session, who) ==
  SignedIn([session EXCEPT !.next = FALSE], who, session.token)

\* The sign-in succeeds; without an API scope Entra returns no token for the API, and
\* the session keeps the one it has.
Claims(session, who) ==
  SignedIn([session EXCEPT !.next = FALSE], who, IF apiScope THEN who ELSE session.token)

\* Faulty variant: the user is stored before group and role are looked at.
AuthCallbackUnchecked(session, who, flow) ==
  LET popped == [session EXCEPT !.flow = 0]
  IN  IF who = NoOne \/ session.flow # flow THEN {Shows("failed", popped)}
      ELSE {Shows("error", Claims(popped, who).session)}
             \cup IF who \in Members THEN {Claims(popped, who)} ELSE {}

\* A flow is used up by a callback, except by one with an error of Entra (who is NoOne);
\* for the flow of another sign-in MSAL raises, and it may fail to redeem the right one.
AuthCallback(session, who, flow) ==
  LET popped == [session EXCEPT !.flow = 0]
  IN  CASE who = NoOne                       -> {Shows("error", session)}
        [] who # NoOne /\ session.flow = 0   -> {Shows("failed", session)}
        [] who # NoOne /\ session.flow \notin {0, flow} -> {Raises("failed", session)}
        [] who # NoOne /\ session.flow = flow ->
             {Shows("error", popped), Raises("error", session)}
               \cup IF who \in Members THEN {Claims(popped, who)} ELSE {}

\* Faulty variant: everything in the session is forgotten.
AuthLogoutClears(session) == Shows("away", Empty)

AuthLogout(session) == Shows("away", [session EXCEPT !.user = NoOne, !.token = NoOne])

Responses(q) ==
  CASE q.to = "dashboard" -> {Dashboard(q.session)}
    [] q.to = "login"     -> {AuthLogin(q.session)}
    [] q.to = "az-login"  -> {AuthAzLogin(q.session, q.who)}
    [] q.to = "token"     -> {AuthTokenSubmit(q.session, q.who)}
    [] q.to = "sso"       -> {AuthSso(q.session, q.flow), Raises("error", q.session)}
    [] q.to = "callback"  -> AuthCallback(q.session, q.who, q.flow)
    [] q.to = "logout"    -> {AuthLogout(q.session)}

\* What the browser's cookie is after answer r to q: the middleware sends the session back,
\* changed or not, unless it is and was empty.
CookieAfter(q, r) ==
  IF r.saved /\ (r.session # Empty \/ q.session # Empty) THEN r.session ELSE cookie

-------------------------------------------------------------------------------
(***************************************************************************)
(* What the people at the browser do.  A tab has one page request under way *)
(* at a time.                                                               *)
(***************************************************************************)
Navigate(t, to, who, flow) ==
  /\ nav[t] = Idle
  /\ nav' = [nav EXCEPT ![t] = Request(to, who, flow, cookie)]
  /\ UNCHANGED <<apiScope, cookie, page, poll, went, history>>

\* A link, a bookmark, a reload, the way back from Entra.
Visit(t) == \E to \in {"dashboard", "login"} : Navigate(t, to, NoOne, 0)

ChooseToken(t) ==
  /\ page[t] = "login"
  /\ \E environment, azureCli, pasted \in Persons :
       \/ Navigate(t, "az-login", TryAnyToken(environment, azureCli), 0)
       \/ Navigate(t, "token", pasted, 0)

\* A new flow is one that is nowhere to be found.
LiveFlows ==
  LET InRequest(q) == IF q = Idle THEN {} ELSE {q.flow, q.session.flow}
  IN  {cookie.flow} \cup UNION {InRequest(nav[t]) \cup InRequest(poll[t]) \cup {went[t]} : t \in Tabs}

ChooseEntra(t) ==
  /\ page[t] = "login"
  /\ \E f \in (1 .. MaxFlows) \ LiveFlows : Navigate(t, "sso", NoOne, f)

\* Somebody signs in at Entra, or Entra reports an error.
ReturnFromEntra(t) ==
  /\ page[t] = "entra"
  /\ \E who \in Persons : Navigate(t, "callback", who, went[t])

SignOut(t) ==
  /\ page[t] = "dashboard"
  /\ Navigate(t, "logout", NoOne, 0)

\* The dashboard reloads its fragments every 15 to 30 seconds.  Bound: one fragment
\* request of the browser is under way at a time.
Poll(t) ==
  /\ page[t] = "dashboard"
  /\ \A x \in Tabs : poll[x] = Idle
  /\ poll' = [poll EXCEPT ![t] = Request("fragment", NoOne, 0, cookie)]
  /\ UNCHANGED <<apiScope, cookie, page, nav, went, history>>

-------------------------------------------------------------------------------
(***************************************************************************)
(* Answers.                                                                 *)
(***************************************************************************)
SignsIn(q, r) == q.to \in {"az-login", "token", "callback"} /\ r.redirect

\* Signing out of an empty session changes nothing, not even a session begun meanwhile.
SignsOut(q) == q.to = "logout" /\ q.session # Empty

Decides(q, r) == SignsIn(q, r) \/ SignsOut(q)

\* History: the requests that are under way after answer r to q, among them the old ones.
\* (Which are old matters no more once one of them has been answered.)
Marked(requests, q, r) ==
  LET Mark(old) == [t \in Tabs |-> IF requests[t] = Idle THEN Idle
                                   ELSE [requests[t] EXCEPT !.old = old]]
  IN  IF Decides(q, r) THEN Mark(TRUE) ELSE IF q.old THEN Mark(FALSE) ELSE requests

\* The person that tab t has sent to Entra is still there.
AtEntra(t) == page[t] = "entra" /\ nav[t] = Idle

\* The flow of a tab x at Entra does not survive an answer to a request of another tab
\* that replaces or uses up a flow, or that was sent without x's flow.
ComesBetween(q, x) ==
  AtEntra(x) /\ (q.to \in {"sso", "callback"} \/ q.session.flow # went[x])

\* History: the answer r to request q of tab t.
Remember(t, q, r) ==
  /\ expected' = IF Decides(q, r) THEN r.session.user
                 ELSE IF q.old THEN "overtaken" ELSE expected
  /\ mixed' = (mixed \/ (/\ SignsIn(q, r) /\ q.to = "callback" /\ ~apiScope
                         /\ q.session.token \notin {NoOne, q.who}))
  /\ excused' = [x \in Tabs |-> IF x = t
                                THEN excused[x] /\ (r.redirect \/ r.to \in {"failed", "fragment"})
                                ELSE excused[x] \/ ComesBetween(q, x)]

\* A redirect is followed at once, with the cookie that came with it; a new page ends
\* what the old one was loading.
AnswerPage(t) ==
  LET q == nav[t]
  IN  /\ q # Idle
      /\ \E r \in Responses(q) :
           LET others == Marked([nav EXCEPT ![t] = Idle], q, r)
               loads  == IF r.redirect THEN poll ELSE [poll EXCEPT ![t] = Idle]
           IN  /\ cookie' = CookieAfter(q, r)
               /\ nav' = IF r.redirect
                         THEN [others EXCEPT ![t] = Request(r.to, NoOne, 0, cookie')]
                         ELSE others
               /\ poll' = Marked(loads, q, r)
               /\ page' = IF r.redirect THEN page ELSE [page EXCEPT ![t] = r.to]
               /\ went' = IF r.redirect THEN went
                          ELSE [went EXCEPT ![t] = IF r.to = "entra" THEN q.flow ELSE 0]
               /\ Remember(t, q, r)
      /\ UNCHANGED apiScope

AnswerPoll(t) ==
  LET q == poll[t]
  IN  /\ q # Idle
      /\ LET r == Fragment(q.session)
         IN  /\ cookie' = CookieAfter(q, r)
             /\ nav' = Marked(nav, q, r)
             /\ poll' = Marked([poll EXCEPT ![t] = Idle], q, r)
             /\ Remember(t, q, r)
      /\ UNCHANGED <<apiScope, page, went>>

\* The UI server starts again with a new key: it reads no cookie of before, and the
\* requests under way are lost.
Restart ==
  /\ cookie' = Empty
  /\ page' = [t \in Tabs |-> IF nav[t] = Idle THEN page[t] ELSE "error"]
  /\ nav' = [t \in Tabs |-> Idle]
  /\ poll' = [t \in Tabs |-> Idle]
  /\ went' = [t \in Tabs |-> IF nav[t] = Idle THEN went[t] ELSE 0]
  /\ expected' = NoOne
  /\ mixed' = FALSE
  /\ excused' = [t \in Tabs |-> AtEntra(t) \/ page'[t] = "failed"]
  /\ UNCHANGED apiScope

-------------------------------------------------------------------------------

Init ==
  /\ apiScope \in BOOLEAN
  /\ cookie = Empty
  /\ page = [t \in Tabs |-> "away"]
  /\ nav = [t \in Tabs |-> Idle]
  /\ poll = [t \in Tabs |-> Idle]
  /\ went = [t \in Tabs |-> 0]
  /\ expected = NoOne
  /\ mixed = FALSE
  /\ excused = [t \in Tabs |-> FALSE]

Browse(t) ==
  Visit(t) \/ ChooseToken(t) \/ ChooseEntra(t) \/ ReturnFromEntra(t) \/ SignOut(t) \/ Poll(t)

Next ==
  \/ \E t \in Tabs : Browse(t) \/ AnswerPage(t) \/ AnswerPoll(t)
  \/ Restart

Spec == Init /\ [][Next]_vars

-------------------------------------------------------------------------------
(***************************************************************************)
(* Properties                                                              *)
(***************************************************************************)

Pages == {"away", "dashboard", "login", "entra", "error", "failed"}

NavRequests ==
  [to : {"dashboard", "login", "az-login", "token", "sso", "callback", "logout"},
   who : Persons, flow : 0 .. MaxFlows, session : Session, old : BOOLEAN]

TypeOK ==
  /\ apiScope \in BOOLEAN
  /\ cookie \in Session
  /\ page \in [Tabs -> Pages]
  /\ \A t \in Tabs : nav[t] \in NavRequests \cup {Idle}
  /\ \A t \in Tabs : poll[t] # Idle => poll[t].session \in Session /\ page[t] = "dashboard"
  /\ \A t \in Tabs : went[t] \in 0 .. MaxFlows /\ (page[t] = "entra" <=> went[t] # 0)
  /\ expected \in Persons \cup {"overtaken"}
  /\ mixed \in BOOLEAN
  /\ excused \in [Tabs -> BOOLEAN]

\* Whoever signed in last is signed in, and nobody is after a sign-out, in every tab and
\* until the next sign-in, sign-out or restart, unless the answer to a request that was
\* sent before has come in since (such an answer brings the older session back: the
\* dashboard's polling can undo a sign-out).
SessionFollowsSignIns ==
  expected # "overtaken" =>
    /\ cookie.user = expected
    /\ cookie.user = NoOne => cookie.token = NoOne

\* The token that goes to the API belongs to the user the pages show, also after answers
\* out of order; except without an API scope, when somebody has signed in at Entra while
\* another one's token was in the session.  Without a user there is no token.
OneIdentity ==
  ApiToken(cookie) # NoOne =>
    /\ cookie.user # NoOne
    /\ ApiToken(cookie) = cookie.user \/ mixed

\* Who comes back from Entra is not sent away for want of the flow, whatever happens in
\* the other tabs (pages, sign-ins with a token, sign-outs), unless another tab has begun
\* or completed a sign-in at Entra meanwhile, an answer to a request sent before this
\* sign-in has come in, or the server has restarted.
SignInSurvives == \A t \in Tabs : page[t] = "failed" => excused[t]
===============================================================================
