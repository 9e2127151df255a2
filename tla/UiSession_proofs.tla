-------------------------- MODULE UiSession_proofs --------------------------
(***************************************************************************)
(* Proofs about the sessions of the web UI.  A request carries the session *)
(* as it was when it was sent, so the inductive invariant UiInv says of    *)
(* each request under way what the properties say of the cookie.           *)
(***************************************************************************)
EXTENDS UiSession, TLAPS

Requests ==
  [to : {"dashboard", "login", "az-login", "token", "sso", "callback", "logout", "fragment"},
   who : Persons, flow : 0 .. MaxFlows, session : Session, old : BOOLEAN]

Answers ==
  [redirect : BOOLEAN, to : Pages \cup {"fragment"}, session : Session, saved : BOOLEAN]

\* A token in session s belongs to its user, or somebody has mixed them.
Own(s) == s.token # NoOne => s.user # NoOne /\ (s.token = s.user \/ mixed)

\* Session s is the one that the last sign-in or sign-out has left.
Current(s) == expected # "overtaken" => s.user = expected

\* A request brings back its own session; an old one brings back an older user.
RequestInv(q) == q # Idle => Own(q.session) /\ (~ q.old => Current(q.session))

\* A tab at Entra, or back from there, still has its flow in the session.
FlowInv(t) ==
  ~ excused[t] =>
    /\ page[t] # "failed"
    /\ AtEntra(t) => cookie.flow = went[t]
    /\ nav[t].to = "callback" => nav[t].session.flow = nav[t].flow

UiTypes ==
  /\ TypeOK
  /\ nav \in [Tabs -> Requests \cup {Idle}]
  /\ poll \in [Tabs -> Requests \cup {Idle}]
  /\ page \in [Tabs -> Pages]
  /\ went \in [Tabs -> 0 .. MaxFlows]
  /\ \A t \in Tabs : poll[t] # Idle => poll[t].to = "fragment"
  /\ \A t \in Tabs : nav[t].to = "sso" => nav[t].flow # 0
  /\ \A t \in Tabs : nav[t].to = "callback" => nav[t].flow # 0 /\ page[t] = "entra"

\* The inductive invariant.
UiInv ==
  /\ UiTypes
  /\ Own(cookie) /\ Current(cookie)
  /\ \A t \in Tabs : RequestInv(nav[t]) /\ RequestInv(poll[t])
  /\ \A t \in Tabs : FlowInv(t)

-------------------------------------------------------------------------------
(***************************************************************************)
(* Handlers.                                                               *)
(***************************************************************************)

\* What every answer r to request q keeps of the session: a user and a token change
\* together, and only when somebody signs in or out; a flow changes only when one is
\* begun or completed.
Faithful(q, r) ==
  /\ r \in Answers
  /\ r.redirect => r.saved /\ r.to \in {"dashboard", "login"}
  /\ ~ SignsIn(q, r) /\ q.to # "logout" =>
       r.session.user = q.session.user /\ r.session.token = q.session.token
  /\ q.to = "logout" => r.saved /\ r.session.user = NoOne /\ r.session.token = NoOne
  /\ SignsIn(q, r) =>
       /\ q.who # NoOne /\ r.session.user = q.who
       /\ \/ r.session.token = q.who
          \/ q.to = "callback" /\ ~ apiScope /\ r.session.token = q.session.token
  /\ q.to \notin {"sso", "callback"} => r.session.flow = q.session.flow
  /\ ~ r.redirect /\ r.to = "entra" => q.to = "sso" /\ r.saved /\ r.session.flow = q.flow
  /\ ~ r.redirect /\ r.to = "failed" =>
       q.to = "callback" /\ (q.flow # 0 => q.session.flow # q.flow)
  /\ r.to = "fragment" => q.to = "fragment"

LEMMA ShownSession ==
  ASSUME NEW s \in Session, NEW what \in Pages \cup {"fragment"}
  PROVE  /\ Shows(what, s) \in Answers /\ Raises(what, s) \in Answers
         /\ Shows(what, s) = [redirect |-> FALSE, to |-> what, session |-> s, saved |-> TRUE]
         /\ Raises(what, s).to = what /\ Raises(what, s).session = s
         /\ ~ Raises(what, s).redirect
<1>1. /\ Shows(what, s) \in Answers
      /\ Shows(what, s) = [redirect |-> FALSE, to |-> what, session |-> s, saved |-> TRUE]
  BY DEF Shows, Answer, Answers
<1>2. /\ Raises(what, s) \in Answers
      /\ Raises(what, s).to = what /\ Raises(what, s).session = s
      /\ ~ Raises(what, s).redirect
  BY DEF Raises, Shows, Answer, Answers
<1> QED BY <1>1, <1>2

LEMMA RedirectedSession ==
  ASSUME NEW s \in Session, NEW path \in {"dashboard", "login"}
  PROVE  /\ Redirects(path, s) \in Answers
         /\ Redirects(path, s) = [redirect |-> TRUE, to |-> path, session |-> s, saved |-> TRUE]
BY DEF Redirects, Answer, Answers, Pages

LEMMA SignedInSession ==
  ASSUME NEW s \in Session, NEW who \in Persons, NEW token \in Persons
  PROVE  /\ SignedIn(s, who, token) \in Answers
         /\ SignedIn(s, who, token).redirect /\ SignedIn(s, who, token).saved
         /\ SignedIn(s, who, token).to = "dashboard"
         /\ SignedIn(s, who, token).session.user = who
         /\ SignedIn(s, who, token).session.token = token
         /\ SignedIn(s, who, token).session.flow = s.flow
BY DEF SignedIn, Redirects, Answer, Answers, Session, Pages

LEMMA PagesAnswer ==
  ASSUME UiTypes, NEW q \in Requests, NEW r \in Responses(q), q.to \in {"dashboard", "login", "logout"}
  PROVE  Faithful(q, r)
<1>1. q.session \in Session
  BY DEF Requests
<1>2. CASE q.to \in {"dashboard", "login"}
  <2>1. PICK to \in {"dashboard", "login"} :
          r = Shows(to, q.session) \/ r = Redirects(to, q.session)
    BY <1>2 DEF Responses, Dashboard, AuthLogin
  <2>2. CASE r = Shows(to, q.session)
    BY <1>1, <1>2, <2>2, ShownSession DEF Faithful, SignsIn, Pages
  <2>3. CASE r = Redirects(to, q.session)
    BY <1>1, <1>2, <2>3, RedirectedSession DEF Faithful, SignsIn, Pages
  <2> QED BY <2>1, <2>2, <2>3
<1>3. CASE q.to = "logout"
  <2> DEFINE s == [q.session EXCEPT !.user = NoOne, !.token = NoOne]
  <2>1. /\ s \in Session /\ s.user = NoOne /\ s.token = NoOne
        /\ s.flow = q.session.flow
    BY <1>1 DEF Session, Persons
  <2>2. r = Shows("away", s)
    BY <1>3 DEF Responses, AuthLogout
  <2> HIDE DEF s
  <2> QED BY <1>3, <2>1, <2>2, ShownSession DEF Faithful, SignsIn, Pages
<1> QED BY <1>2, <1>3

LEMMA TokenAnswer ==
  ASSUME UiTypes, NEW q \in Requests, NEW r \in Responses(q), q.to \in {"az-login", "token"}
  PROVE  Faithful(q, r)
<1>1. q.session \in Session /\ q.who \in Persons
  BY DEF Requests
<1>2. CASE q.who = NoOne
  <2>1. r = Shows("error", q.session)
    BY <1>2 DEF Responses, AuthAzLogin, AuthTokenSubmit
  <2> QED BY <1>1, <2>1 DEF Shows, Answer, Answers, Faithful, SignsIn, Pages
<1>3. CASE q.who # NoOne
  <2>1. r = SignedIn(q.session, q.who, q.who)
    BY <1>3 DEF Responses, AuthAzLogin, AuthTokenSubmit
  <2> QED BY <1>1, <1>3, <2>1, SignedInSession DEF Faithful, SignsIn
<1> QED BY <1>2, <1>3

LEMMA SsoAnswer ==
  ASSUME UiTypes, NEW q \in Requests, NEW r \in Responses(q), q.to = "sso"
  PROVE  Faithful(q, r)
<1> DEFINE s == [q.session EXCEPT !.next = TRUE, !.flow = q.flow]
<1>1. q.session \in Session
  BY DEF Requests
<1>2. /\ s \in Session /\ s.user = q.session.user /\ s.token = q.session.token
      /\ s.flow = q.flow
  BY DEF Requests, Session
<1>3. r = Shows("entra", s) \/ r = Raises("error", q.session)
  BY DEF Responses, AuthSso
<1> HIDE DEF s
<1>4. CASE r = Shows("entra", s)
  BY <1>2, <1>4, ShownSession DEF Faithful, SignsIn, Pages
<1>5. CASE r = Raises("error", q.session)
  BY <1>1, <1>5, ShownSession DEF Faithful, SignsIn, Pages
<1> QED BY <1>3, <1>4, <1>5

LEMMA ClaimsSession ==
  ASSUME NEW s \in Session, NEW who \in Persons, apiScope \in BOOLEAN
  PROVE  /\ Claims(s, who) \in Answers
         /\ Claims(s, who).redirect /\ Claims(s, who).saved /\ Claims(s, who).to = "dashboard"
         /\ Claims(s, who).session.user = who
         /\ Claims(s, who).session.token = IF apiScope THEN who ELSE s.token
<1> DEFINE n == [s EXCEPT !.next = FALSE]
           token == IF apiScope THEN who ELSE s.token
<1>1. n \in Session /\ token \in Persons
  BY DEF Session
<1>2. Claims(s, who) = SignedIn(n, who, token)
  BY DEF Claims
<1> HIDE DEF n, token
<1>3. /\ SignedIn(n, who, token) \in Answers
      /\ SignedIn(n, who, token).redirect /\ SignedIn(n, who, token).saved
      /\ SignedIn(n, who, token).to = "dashboard"
      /\ SignedIn(n, who, token).session.user = who
      /\ SignedIn(n, who, token).session.token = token
  BY <1>1, SignedInSession
<1> QED BY <1>2, <1>3 DEF token

LEMMA CallbackAnswer ==
  ASSUME UiTypes, NEW q \in Requests, NEW r \in Responses(q), q.to = "callback", q.flow # 0
  PROVE  Faithful(q, r)
<1> DEFINE popped == [q.session EXCEPT !.flow = 0]
<1>1. /\ q.session \in Session /\ q.who \in Persons /\ popped \in Session
      /\ popped.user = q.session.user /\ popped.token = q.session.token
  BY UiConstants DEF Requests, Session
<1>2. r \in AuthCallback(q.session, q.who, q.flow)
  BY DEF Responses
<1>3. \/ r = Shows("error", q.session)
      \/ r = Shows("failed", q.session) /\ q.session.flow # q.flow
      \/ r = Raises("failed", q.session) /\ q.session.flow # q.flow
      \/ r = Shows("error", popped)
      \/ r = Raises("error", q.session)
      \/ r = Claims(popped, q.who) /\ q.who # NoOne
  <2>1. CASE q.who = NoOne
    BY <1>2, <2>1 DEF AuthCallback
  <2>2. CASE q.who # NoOne /\ q.session.flow = 0
    BY <1>2, <2>2 DEF AuthCallback
  <2>3. CASE q.who # NoOne /\ q.session.flow \notin {0, q.flow}
    BY <1>2, <2>3 DEF AuthCallback
  <2>4. CASE q.who # NoOne /\ q.session.flow = q.flow
    BY <1>2, <2>4 DEF AuthCallback
  <2> QED BY <2>1, <2>2, <2>3, <2>4
<1> HIDE DEF popped
<1>4. CASE r = Claims(popped, q.who) /\ q.who # NoOne
  <2>1. apiScope \in BOOLEAN
    BY DEF UiTypes, TypeOK
  <2> QED BY <1>1, <1>4, <2>1, ClaimsSession DEF Faithful, SignsIn
<1>5. ASSUME NEW s \in {q.session, popped}, NEW to \in {"error", "failed"},
             r = Shows(to, s) \/ r = Raises(to, s), to = "failed" => q.session.flow # q.flow
      PROVE  Faithful(q, r)
  <2>1. r \in Answers /\ ~ r.redirect /\ r.to = to /\ r.session = s
    BY <1>1, <1>5, ShownSession DEF Pages
  <2> QED BY <1>1, <1>5, <2>1 DEF Faithful, SignsIn
<1>6. CASE \E s \in {q.session, popped} : r = Shows("error", s) \/ r = Raises("error", s)
  BY <1>5, <1>6
<1>7. CASE q.session.flow # q.flow /\ (r = Shows("failed", q.session) \/ r = Raises("failed", q.session))
  BY <1>5, <1>7
<1> QED BY <1>3, <1>4, <1>6, <1>7

\* Every handler is faithful in this sense.
LEMMA EveryAnswer ==
  ASSUME UiTypes, NEW q \in Requests, NEW r \in Responses(q), q.to # "fragment",
         q.to = "callback" => q.flow # 0
  PROVE  Faithful(q, r)
<1>1. q.to \in {"dashboard", "login", "az-login", "token", "sso", "callback", "logout", "fragment"}
  BY DEF Requests
<1> QED BY <1>1, PagesAnswer, TokenAnswer, SsoAnswer, CallbackAnswer

LEMMA FragmentAnswer ==
  ASSUME NEW q \in Requests, q.to = "fragment"
  PROVE  Faithful(q, Fragment(q.session))
BY DEF Fragment, Shows, Answer, Answers, Faithful, SignsIn, Requests
-------------------------------------------------------------------------------
(***************************************************************************)
(* Requests and answers.                                                   *)
(***************************************************************************)

\* A request under way has the fields of one, and Idle has another `to`.
LEMMA NotIdle ==
  ASSUME NEW q \in Requests
  PROVE  q # Idle
BY DEF Requests, Idle

\* What Marked does to the requests under way: it marks them old or not, no more.
LEMMA MarkedRequests ==
  ASSUME NEW requests \in [Tabs -> Requests \cup {Idle}], NEW q, NEW r,
         NEW m, m = Marked(requests, q, r)
  PROVE  /\ m \in [Tabs -> Requests \cup {Idle}]
         /\ \A t \in Tabs : (requests[t] = Idle <=> m[t] = Idle)
         /\ \A t \in Tabs : requests[t] # Idle =>
              /\ m[t].to = requests[t].to
              /\ m[t].flow = requests[t].flow
              /\ m[t].who = requests[t].who
              /\ m[t].session = requests[t].session
              /\ m[t].old <=> Decides(q, r) \/ (requests[t].old /\ ~ q.old)
<1> DEFINE Mark(old) == [t \in Tabs |-> IF requests[t] = Idle THEN Idle
                                        ELSE [requests[t] EXCEPT !.old = old]]
<1>1. ASSUME NEW old \in BOOLEAN, m = Mark(old)
      PROVE  /\ m \in [Tabs -> Requests \cup {Idle}]
             /\ \A t \in Tabs : (requests[t] = Idle <=> m[t] = Idle)
             /\ \A t \in Tabs : requests[t] # Idle =>
                  /\ m[t].to = requests[t].to
                  /\ m[t].flow = requests[t].flow
                  /\ m[t].who = requests[t].who
                  /\ m[t].session = requests[t].session
                  /\ m[t].old <=> old
  <2>1. ASSUME NEW t \in Tabs, requests[t] # Idle
        PROVE  /\ m[t] \in Requests
               /\ m[t].to = requests[t].to
               /\ m[t].flow = requests[t].flow
               /\ m[t].who = requests[t].who
               /\ m[t].session = requests[t].session
               /\ m[t].old <=> old
    <3>1. requests[t] \in Requests /\ m[t] = [requests[t] EXCEPT !.old = old]
      BY <1>1, <2>1
    <3> QED BY <3>1 DEF Requests
  <2>2. ASSUME NEW t \in Tabs, requests[t] = Idle
        PROVE  m[t] = Idle
    BY <1>1, <2>2
  <2>3. m = [t \in Tabs |-> m[t]]
    BY <1>1
  <2> QED BY <2>1, <2>2, <2>3, NotIdle
<1>2. CASE Decides(q, r)
  BY <1>1, <1>2 DEF Marked
<1>3. CASE ~ Decides(q, r) /\ q.old
  BY <1>1, <1>3 DEF Marked
<1>4. CASE ~ Decides(q, r) /\ ~ q.old
  BY <1>4 DEF Marked
<1> QED BY <1>2, <1>3, <1>4

\* A new request.
LEMMA NewRequest ==
  ASSUME NEW to \in {"dashboard", "login", "az-login", "token", "sso", "callback", "logout",
                     "fragment"},
         NEW who \in Persons, NEW flow \in 0 .. MaxFlows, NEW s \in Session
  PROVE  /\ Request(to, who, flow, s) \in Requests
         /\ Request(to, who, flow, s).to = to
         /\ Request(to, who, flow, s).who = who
         /\ Request(to, who, flow, s).flow = flow
         /\ Request(to, who, flow, s).session = s
         /\ ~ Request(to, who, flow, s).old
BY DEF Request, Requests

\* What an answer leaves in the browser's cookie: the session it was given or changed,
\* or the cookie as it was.
LEMMA AnsweredCookie ==
  ASSUME UiInv, NEW q \in Requests, NEW r, Faithful(q, r), RequestInv(q), NEW t,
         cookie' = CookieAfter(q, r), Remember(t, q, r), apiScope' = apiScope
  PROVE  /\ cookie' \in Session /\ expected' \in Persons \cup {"overtaken"} /\ mixed' \in BOOLEAN
         /\ mixed => mixed'
         /\ Own(cookie)' /\ Current(cookie)'
         /\ ~ Decides(q, r) => expected' = IF q.old THEN "overtaken" ELSE expected
<1> USE DEF UiInv
<1>1. /\ q # Idle /\ Own(q.session) /\ (~ q.old => Current(q.session))
      /\ cookie \in Session /\ q.session \in Session /\ r.session \in Session
      /\ mixed \in BOOLEAN /\ expected \in Persons \cup {"overtaken"}
  BY NotIdle DEF RequestInv, UiTypes, TypeOK, Requests, Faithful, Answers
<1>2. /\ mixed' \in BOOLEAN /\ (mixed => mixed')
      /\ SignsIn(q, r) /\ q.to = "callback" /\ ~ apiScope /\ q.session.token \notin {NoOne, q.who}
           => mixed'
  BY <1>1 DEF Remember
<1>3. /\ Decides(q, r) => expected' = r.session.user
      /\ ~ Decides(q, r) => expected' = IF q.old THEN "overtaken" ELSE expected
  BY DEF Remember
<1>4. cookie' \in Session
  BY <1>1 DEF CookieAfter
<1>5. expected' \in Persons \cup {"overtaken"}
  BY <1>1, <1>3 DEF Session
<1>6. Own(r.session)'
  <2>1. CASE SignsIn(q, r)
    BY <1>1, <1>2, <2>1 DEF Own, Faithful
  <2>2. CASE q.to = "logout"
    BY <2>2 DEF Own, Faithful
  <2>3. CASE ~ SignsIn(q, r) /\ q.to # "logout"
    BY <1>1, <1>2, <2>3 DEF Own, Faithful
  <2> QED BY <2>1, <2>2, <2>3
<1>7. Own(cookie)'
  BY <1>2, <1>6 DEF Own, CookieAfter
<1>8. Current(cookie)'
  <2>1. CASE SignsIn(q, r)
    <3>1. r.saved /\ r.session.user # NoOne
      BY <2>1 DEF Faithful, SignsIn
    <3>2. r.session # Empty
      BY <3>1 DEF Empty
    <3>3. cookie' = r.session
      BY <3>1, <3>2 DEF CookieAfter
    <3> QED BY <1>3, <2>1, <3>3 DEF Decides, Current
  <2>2. CASE q.to = "logout" /\ q.session # Empty
    <3>1. cookie' = r.session
      BY <2>2 DEF Faithful, CookieAfter
    <3> QED BY <1>3, <2>2, <3>1 DEF Decides, SignsOut, Current
  <2>3. CASE ~ Decides(q, r)
    <3>1. SUFFICES ASSUME ~ q.old, expected # "overtaken"
                   PROVE  cookie'.user = expected
      BY <1>3, <2>3 DEF Current
    <3>2. q.session.user = expected /\ cookie.user = expected
      BY <1>1, <3>1 DEF Current
    <3>3. CASE q.to = "logout"
      <4>1. q.session = Empty
        BY <2>3, <3>3 DEF Decides, SignsOut
      <4>2. r.session.user = expected
        BY <3>2, <3>3, <4>1 DEF Faithful, Empty
      <4> QED BY <3>2, <4>2 DEF CookieAfter
    <3>4. CASE q.to # "logout"
      <4>1. r.session.user = expected
        BY <2>3, <3>2, <3>4 DEF Faithful, Decides
      <4> QED BY <3>2, <4>1 DEF CookieAfter
    <3> QED BY <3>3, <3>4
  <2> QED BY <2>1, <2>2, <2>3 DEF Decides, SignsOut
<1> QED BY <1>2, <1>3, <1>4, <1>5, <1>7, <1>8

-------------------------------------------------------------------------------
(***************************************************************************)
(* Initial states and actions.                                             *)
(***************************************************************************)

LEMMA InitUi == Init => UiInv
<1> SUFFICES ASSUME Init PROVE UiInv
  OBVIOUS
<1>1. /\ Empty \in Session /\ Empty.user = NoOne /\ Empty.token = NoOne
      /\ Idle.to = "nothing"
  BY UiConstants DEF Empty, Session, Persons, Idle
<1>2. UiTypes
  <2>1. nav \in [Tabs -> Requests \cup {Idle}] /\ poll \in [Tabs -> Requests \cup {Idle}]
    BY DEF Init
  <2>2. page \in [Tabs -> Pages] /\ went \in [Tabs -> 0 .. MaxFlows]
    BY UiConstants DEF Init, Pages
  <2>3. /\ expected \in Persons \cup {"overtaken"} /\ mixed \in BOOLEAN
        /\ excused \in [Tabs -> BOOLEAN] /\ apiScope \in BOOLEAN /\ cookie \in Session
    BY <1>1 DEF Init, Persons
  <2>4. \A t \in Tabs : nav[t] = Idle /\ poll[t] = Idle /\ page[t] = "away" /\ went[t] = 0
    BY DEF Init
  <2>5. TypeOK
    BY <2>2, <2>3, <2>4 DEF TypeOK
  <2> QED BY <1>1, <2>1, <2>2, <2>4, <2>5 DEF UiTypes
<1>3. Own(cookie) /\ Current(cookie)
  BY <1>1 DEF Init, Own, Current
<1>4. \A t \in Tabs : RequestInv(nav[t]) /\ RequestInv(poll[t])
  BY DEF Init, RequestInv
<1>5. \A t \in Tabs : FlowInv(t)
  BY <1>1 DEF Init, FlowInv, AtEntra
<1> QED BY <1>2, <1>3, <1>4, <1>5 DEF UiInv

\* A page request carries the cookie, and with it all that holds of the cookie.
LEMMA NavigateUi ==
  ASSUME UiInv, NEW t \in Tabs,
         NEW to \in {"dashboard", "login", "az-login", "token", "sso", "callback", "logout"},
         NEW who \in Persons, NEW flow \in 0 .. MaxFlows, Navigate(t, to, who, flow),
         to = "sso" => flow # 0,
         to = "callback" => page[t] = "entra" /\ flow = went[t]
  PROVE  UiInv'
<1> USE DEF UiInv
<1> DEFINE q == Request(to, who, flow, cookie)
<1>1. /\ q \in Requests /\ q \in NavRequests /\ q # Idle /\ q.to = to /\ q.flow = flow
      /\ q.session = cookie /\ ~ q.old
  <2>1. cookie \in Session
    BY DEF UiTypes, TypeOK
  <2>2. /\ q \in Requests /\ q.to = to /\ q.flow = flow /\ q.session = cookie /\ ~ q.old
    BY <2>1, NewRequest
  <2>3. q \in NavRequests
    BY <2>1 DEF Request, NavRequests
  <2> HIDE DEF q
  <2> QED BY <2>2, <2>3, NotIdle
<1>2. /\ nav[t] = Idle /\ nav' = [nav EXCEPT ![t] = q]
      /\ UNCHANGED <<apiScope, cookie, page, poll, went, history>>
  BY DEF Navigate
<1> HIDE DEF q
<1>3. /\ nav' \in [Tabs -> Requests \cup {Idle}] /\ nav'[t] = q
      /\ \A x \in Tabs \ {t} : nav'[x] = nav[x]
  BY <1>1, <1>2 DEF UiTypes
<1>4. UiTypes'
  <2>1. \A x \in Tabs : nav'[x] \in NavRequests \cup {Idle}
    BY <1>1, <1>3 DEF UiTypes, TypeOK
  <2>2. TypeOK'
    BY <1>2, <2>1 DEF UiTypes, TypeOK, history
  <2>3. went[t] # 0 \/ page[t] # "entra"
    BY DEF UiTypes, TypeOK
  <2>4. /\ \A x \in Tabs : nav'[x].to = "sso" => nav'[x].flow # 0
        /\ \A x \in Tabs : nav'[x].to = "callback" => nav'[x].flow # 0 /\ page[x] = "entra"
    BY <1>1, <1>3, <2>3 DEF UiTypes
  <2> QED BY <1>2, <1>3, <2>2, <2>4 DEF UiTypes
<1>5. Own(cookie)' /\ Current(cookie)'
  BY <1>2 DEF history, Own, Current
<1>6. ASSUME NEW x \in Tabs
      PROVE  RequestInv(nav[x])' /\ RequestInv(poll[x])'
  <2>1. RequestInv(poll[x])'
    BY <1>2 DEF history, RequestInv, Own, Current
  <2>2. CASE x # t
    BY <1>2, <1>3, <2>1, <2>2 DEF history, RequestInv, Own, Current
  <2>3. CASE x = t
    BY <1>1, <1>2, <1>3, <2>1, <2>3 DEF history, RequestInv, Own, Current
  <2> QED BY <2>2, <2>3
<1>7. ASSUME NEW x \in Tabs
      PROVE  FlowInv(x)'
  <2>1. CASE x # t
    BY <1>2, <1>3, <2>1 DEF history, FlowInv, AtEntra
  <2>2. CASE x = t
    <3>1. to = "callback" /\ ~ excused[t] => cookie.flow = flow
      BY <1>2 DEF FlowInv, AtEntra
    <3> QED BY <1>1, <1>2, <1>3, <2>2, <3>1 DEF history, FlowInv, AtEntra
  <2> QED BY <2>1, <2>2
<1> QED BY <1>4, <1>5, <1>6, <1>7

LEMMA PollUi ==
  ASSUME UiInv, NEW t \in Tabs, Poll(t)
  PROVE  UiInv'
<1> USE DEF UiInv
<1> DEFINE q == Request("fragment", NoOne, 0, cookie)
<1>1. /\ q \in Requests /\ q # Idle /\ q.to = "fragment" /\ q.session = cookie /\ ~ q.old
      /\ cookie \in Session
  <2>1. cookie \in Session /\ NoOne \in Persons /\ 0 \in 0 .. MaxFlows
    BY UiConstants DEF UiTypes, TypeOK, Persons
  <2>2. /\ q \in Requests /\ q.to = "fragment" /\ q.session = cookie /\ ~ q.old
    BY <2>1, NewRequest
  <2> HIDE DEF q
  <2> QED BY <2>1, <2>2, NotIdle
<1>2. /\ page[t] = "dashboard" /\ poll' = [poll EXCEPT ![t] = q]
      /\ UNCHANGED <<apiScope, cookie, page, nav, went, history>>
  BY DEF Poll
<1> HIDE DEF q
<1>3. /\ poll' \in [Tabs -> Requests \cup {Idle}] /\ poll'[t] = q
      /\ \A x \in Tabs \ {t} : poll'[x] = poll[x]
  BY <1>1, <1>2 DEF UiTypes
<1>4. UiTypes'
  <2>1. \A x \in Tabs : poll'[x] # Idle => poll'[x].session \in Session /\ page[x] = "dashboard"
    BY <1>1, <1>2, <1>3 DEF UiTypes, TypeOK
  <2>2. TypeOK'
    BY <1>2, <2>1 DEF UiTypes, TypeOK, history
  <2> QED BY <1>1, <1>2, <1>3, <2>2 DEF UiTypes
<1>5. Own(cookie)' /\ Current(cookie)'
  BY <1>2 DEF history, Own, Current
<1>6. ASSUME NEW x \in Tabs
      PROVE  RequestInv(nav[x])' /\ RequestInv(poll[x])'
  <2>1. RequestInv(nav[x])'
    BY <1>2 DEF history, RequestInv, Own, Current
  <2>2. CASE x # t
    BY <1>2, <1>3, <2>1, <2>2 DEF history, RequestInv, Own, Current
  <2>3. CASE x = t
    BY <1>1, <1>2, <1>3, <2>1, <2>3 DEF history, RequestInv, Own, Current
  <2> QED BY <2>2, <2>3
<1>7. \A x \in Tabs : FlowInv(x)'
  BY <1>2 DEF history, FlowInv, AtEntra
<1> QED BY <1>4, <1>5, <1>6, <1>7

\* The flow of another tab at Entra survives an answer, or the tab is excused.
LEMMA AnsweredFlow ==
  ASSUME UiInv, NEW q \in Requests, NEW r, Faithful(q, r), NEW t \in Tabs,
         cookie' = CookieAfter(q, r), Remember(t, q, r), NEW x \in Tabs, x # t,
         ~ excused'[x], AtEntra(x)
  PROVE  cookie'.flow = went[x]
<1>1. excused'[x] = (excused[x] \/ ComesBetween(q, x))
  BY DEF Remember
<1>2. ~ excused[x] /\ ~ ComesBetween(q, x)
  BY <1>1
<1>3. cookie.flow = went[x]
  BY <1>2 DEF UiInv, FlowInv
<1>4. r.session.flow = went[x]
  BY <1>2 DEF ComesBetween, Faithful
<1> QED BY <1>3, <1>4 DEF CookieAfter

LEMMA AnswerPollUi ==
  ASSUME UiInv, NEW t \in Tabs, AnswerPoll(t)
  PROVE  UiInv'
<1> USE DEF UiInv
<1> DEFINE q == poll[t]
           r == Fragment(q.session)
           rest == [poll EXCEPT ![t] = Idle]
<1>1. /\ q # Idle
      /\ cookie' = CookieAfter(q, r)
      /\ nav' = Marked(nav, q, r)
      /\ poll' = Marked(rest, q, r)
      /\ Remember(t, q, r)
      /\ UNCHANGED <<apiScope, page, went>>
  BY DEF AnswerPoll
<1>2. q \in Requests /\ q.to = "fragment" /\ RequestInv(q) /\ page[t] = "dashboard"
  BY <1>1 DEF UiTypes, TypeOK
<1>3. Faithful(q, r)
  BY <1>2, FragmentAnswer
<1>4. ~ r.redirect /\ r.to = "fragment"
  BY DEF Fragment, Shows, Answer
<1>5. /\ rest \in [Tabs -> Requests \cup {Idle}] /\ nav \in [Tabs -> Requests \cup {Idle}]
      /\ \A x \in Tabs : rest[x] # Idle => rest[x] = poll[x]
  BY DEF UiTypes
<1> HIDE DEF q, r, rest
<1>6. /\ cookie' \in Session /\ expected' \in Persons \cup {"overtaken"} /\ mixed' \in BOOLEAN
      /\ mixed => mixed'
      /\ Own(cookie)' /\ Current(cookie)'
      /\ ~ Decides(q, r) => expected' = IF q.old THEN "overtaken" ELSE expected
  BY <1>1, <1>2, <1>3, AnsweredCookie
<1>7. excused' \in [Tabs -> BOOLEAN] /\ excused'[t] = excused[t]
  <2>1. excused \in [Tabs -> BOOLEAN]
    BY DEF UiTypes, TypeOK
  <2>2. excused' = [x \in Tabs |-> IF x = t
                                   THEN excused[x] /\ (r.redirect \/ r.to \in {"failed", "fragment"})
                                   ELSE excused[x] \/ ComesBetween(q, x)]
    BY <1>1 DEF Remember
  <2>3. \A x \in Tabs : ComesBetween(q, x) \in BOOLEAN
    BY DEF ComesBetween
  <2> QED BY <1>4, <2>1, <2>2, <2>3
<1>8. /\ nav' \in [Tabs -> Requests \cup {Idle}]
      /\ \A x \in Tabs : (nav[x] = Idle <=> nav'[x] = Idle)
      /\ \A x \in Tabs : nav[x] # Idle =>
           /\ nav'[x].to = nav[x].to /\ nav'[x].flow = nav[x].flow /\ nav'[x].who = nav[x].who
           /\ nav'[x].session = nav[x].session
           /\ nav'[x].old <=> Decides(q, r) \/ (nav[x].old /\ ~ q.old)
  BY <1>1, <1>5, MarkedRequests
<1>9. /\ poll' \in [Tabs -> Requests \cup {Idle}]
      /\ \A x \in Tabs : poll'[x] # Idle =>
           /\ poll[x] # Idle
           /\ poll'[x].to = poll[x].to /\ poll'[x].session = poll[x].session
           /\ poll'[x].old <=> Decides(q, r) \/ (poll[x].old /\ ~ q.old)
  BY <1>1, <1>5, MarkedRequests
<1>10. UiTypes'
  <2>1. \A x \in Tabs : nav'[x] \in NavRequests \cup {Idle}
    <3> SUFFICES ASSUME NEW x \in Tabs, nav'[x] # Idle PROVE nav'[x] \in NavRequests
      OBVIOUS
    <3>1. nav'[x] \in Requests /\ nav'[x].to = nav[x].to /\ nav[x] \in NavRequests
      BY <1>8 DEF UiTypes, TypeOK
    <3> QED BY <3>1 DEF Requests, NavRequests
  <2>2. \A x \in Tabs : poll'[x] # Idle => poll'[x].session \in Session /\ page[x] = "dashboard"
    BY <1>9 DEF UiTypes, TypeOK
  <2>3. TypeOK'
    BY <1>1, <1>6, <1>7, <2>1, <2>2 DEF UiTypes, TypeOK
  <2>4. \A x \in Tabs : poll'[x] # Idle => poll'[x].to = "fragment"
    BY <1>9 DEF UiTypes
  <2>5. ASSUME NEW x \in Tabs
        PROVE  /\ nav'[x].to = "sso" => nav'[x].flow # 0
               /\ nav'[x].to = "callback" => nav'[x].flow # 0 /\ page[x] = "entra"
    <3>1. CASE nav[x] = Idle
      BY <1>8, <3>1 DEF Idle
    <3>2. CASE nav[x] # Idle
      BY <1>8, <3>2 DEF UiTypes
    <3> QED BY <3>1, <3>2
  <2> QED BY <1>1, <1>8, <1>9, <2>3, <2>4, <2>5 DEF UiTypes
<1>11. ASSUME NEW x \in Tabs
       PROVE  RequestInv(nav[x])' /\ RequestInv(poll[x])'
  <2>1. RequestInv(nav[x])'
    <3>1. CASE nav[x] = Idle
      BY <1>8, <3>1 DEF RequestInv
    <3>2. CASE nav[x] # Idle
      BY <1>6, <1>8, <3>2 DEF RequestInv, Own, Current
    <3> QED BY <3>1, <3>2
  <2>2. RequestInv(poll[x])'
    BY <1>6, <1>9 DEF RequestInv, Own, Current
  <2> QED BY <2>1, <2>2
<1>12. ASSUME NEW x \in Tabs
       PROVE  FlowInv(x)'
  <2>1. CASE x = t
    <3>1. page[x] # "entra" /\ nav[x].to # "callback"
      BY <1>2, <2>1 DEF UiTypes
    <3>2. nav'[x].to # "callback"
      BY <1>8, <3>1 DEF Idle
    <3> QED BY <1>1, <1>2, <2>1, <3>1, <3>2 DEF FlowInv, AtEntra
  <2>2. CASE x # t
    <3>1. ~ excused'[x] => ~ excused[x]
      BY <1>1, <2>2 DEF Remember
    <3>2. AtEntra(x)' => AtEntra(x)
      BY <1>1, <1>8 DEF AtEntra
    <3>3. ~ excused'[x] /\ AtEntra(x) => cookie'.flow = went[x]
      BY <1>1, <1>2, <1>3, <2>2, AnsweredFlow
    <3>4. nav'[x].to = "callback" =>
            nav[x].to = "callback" /\ nav'[x].session.flow = nav[x].session.flow
            /\ nav'[x].flow = nav[x].flow
      BY <1>8 DEF Idle
    <3> QED BY <1>1, <3>1, <3>2, <3>3, <3>4 DEF FlowInv
  <2> QED BY <2>1, <2>2
<1> QED BY <1>6, <1>10, <1>11, <1>12

\* A page request is answered: with a page, which replaces what the tab shows, or with
\* a redirect, which the browser follows with the new cookie.
LEMMA AnswerPageUi ==
  ASSUME UiInv, NEW t \in Tabs, AnswerPage(t)
  PROVE  UiInv'
<1> USE DEF UiInv
<1> DEFINE q == nav[t]
           rest == [nav EXCEPT ![t] = Idle]
<1>1. PICK r \in Responses(q) :
        /\ cookie' = CookieAfter(q, r)
        /\ nav' = IF r.redirect
                  THEN [Marked(rest, q, r) EXCEPT ![t] = Request(r.to, NoOne, 0, cookie')]
                  ELSE Marked(rest, q, r)
        /\ poll' = Marked(IF r.redirect THEN poll ELSE [poll EXCEPT ![t] = Idle], q, r)
        /\ page' = IF r.redirect THEN page ELSE [page EXCEPT ![t] = r.to]
        /\ went' = IF r.redirect THEN went
                   ELSE [went EXCEPT ![t] = IF r.to = "entra" THEN q.flow ELSE 0]
        /\ Remember(t, q, r)
  BY DEF AnswerPage
<1> DEFINE loads == IF r.redirect THEN poll ELSE [poll EXCEPT ![t] = Idle]
           others == Marked(rest, q, r)
<1>2. q # Idle /\ UNCHANGED apiScope
  BY DEF AnswerPage
<1>3. /\ q \in Requests /\ q \in NavRequests /\ RequestInv(q)
      /\ q.to = "sso" => q.flow # 0
      /\ q.to = "callback" => q.flow # 0 /\ page[t] = "entra"
  BY <1>2 DEF UiTypes, TypeOK
<1>4. Faithful(q, r)
  <2>1. q.to # "fragment"
    BY <1>3 DEF NavRequests
  <2> QED BY <1>1, <1>3, <2>1, EveryAnswer
<1>5. /\ rest \in [Tabs -> Requests \cup {Idle}]
      /\ rest[t] = Idle /\ \A x \in Tabs \ {t} : rest[x] = nav[x]
      /\ loads \in [Tabs -> Requests \cup {Idle}]
      /\ \A x \in Tabs : loads[x] # Idle => loads[x] = poll[x]
      /\ ~ r.redirect => loads[t] = Idle
  BY DEF UiTypes
<1>6. r.to \in Pages /\ (r.redirect => r.to \in {"dashboard", "login"})
  <2>1. r.to \in Pages \cup {"fragment"} /\ r.to # "fragment"
    BY <1>3, <1>4 DEF Faithful, Answers, NavRequests
  <2> QED BY <1>4, <2>1 DEF Faithful
<1> HIDE DEF q, rest, loads, others
<1>7. /\ cookie' \in Session /\ expected' \in Persons \cup {"overtaken"} /\ mixed' \in BOOLEAN
      /\ mixed => mixed'
      /\ Own(cookie)' /\ Current(cookie)'
      /\ ~ Decides(q, r) => expected' = IF q.old THEN "overtaken" ELSE expected
  BY <1>1, <1>2, <1>3, <1>4, AnsweredCookie
<1>8. excused' \in [Tabs -> BOOLEAN]
      /\ excused'[t] = (excused[t] /\ (r.redirect \/ r.to \in {"failed", "fragment"}))
  <2>1. excused \in [Tabs -> BOOLEAN]
    BY DEF UiTypes, TypeOK
  <2>2. excused' = [x \in Tabs |-> IF x = t
                                   THEN excused[x] /\ (r.redirect \/ r.to \in {"failed", "fragment"})
                                   ELSE excused[x] \/ ComesBetween(q, x)]
    BY <1>1 DEF Remember
  <2>3. \A x \in Tabs : ComesBetween(q, x) \in BOOLEAN
    BY DEF ComesBetween
  <2>4. (r.redirect \/ r.to \in {"failed", "fragment"}) \in BOOLEAN
    BY <1>4 DEF Faithful, Answers
  <2> QED BY <2>1, <2>2, <2>3, <2>4
<1>9. /\ others \in [Tabs -> Requests \cup {Idle}]
      /\ \A x \in Tabs : (rest[x] = Idle <=> others[x] = Idle)
      /\ \A x \in Tabs : rest[x] # Idle =>
           /\ others[x].to = rest[x].to /\ others[x].flow = rest[x].flow
           /\ others[x].session = rest[x].session
           /\ others[x].old <=> Decides(q, r) \/ (rest[x].old /\ ~ q.old)
  BY <1>5, MarkedRequests DEF others
<1>10. /\ poll' \in [Tabs -> Requests \cup {Idle}]
       /\ \A x \in Tabs : poll'[x] # Idle =>
            /\ loads[x] # Idle
            /\ poll'[x].to = loads[x].to /\ poll'[x].session = loads[x].session
            /\ poll'[x].old <=> Decides(q, r) \/ (loads[x].old /\ ~ q.old)
  <2>1. poll' = Marked(loads, q, r)
    BY <1>1 DEF loads
  <2> QED BY <1>5, <2>1, MarkedRequests
<1> DEFINE n == Request(r.to, NoOne, 0, cookie')
<1>11. r.redirect => /\ n \in Requests /\ n.to \in {"dashboard", "login"} /\ n.session = cookie'
                     /\ ~ n.old
  <2>1. NoOne \in Persons /\ 0 \in 0 .. MaxFlows
    BY UiConstants DEF Persons
  <2> QED BY <1>6, <1>7, <2>1, NewRequest
<1>12. /\ nav' \in [Tabs -> Requests \cup {Idle}]
       /\ r.redirect => nav'[t] = n
       /\ ~ r.redirect => nav'[t] = Idle
       /\ \A x \in Tabs \ {t} : nav'[x] = others[x]
  <2>1. CASE r.redirect
    <3>1. nav' = [others EXCEPT ![t] = n]
      BY <1>1, <2>1 DEF others
    <3> HIDE DEF n
    <3> QED BY <1>9, <1>11, <2>1, <3>1
  <2>2. CASE ~ r.redirect
    <3>1. nav' = others
      BY <1>1, <2>2 DEF others
    <3> QED BY <1>5, <1>9, <2>2, <3>1
  <2> QED BY <2>1, <2>2
<1> HIDE DEF n
<1>13. ASSUME NEW x \in Tabs \ {t}, nav'[x] # Idle
       PROVE  /\ nav[x] # Idle
              /\ nav'[x].to = nav[x].to /\ nav'[x].flow = nav[x].flow
              /\ nav'[x].session = nav[x].session
              /\ nav'[x].old <=> Decides(q, r) \/ (nav[x].old /\ ~ q.old)
  BY <1>5, <1>9, <1>12, <1>13
<1>14. /\ page' \in [Tabs -> Pages] /\ went' \in [Tabs -> 0 .. MaxFlows]
       /\ \A x \in Tabs \ {t} : page'[x] = page[x] /\ went'[x] = went[x]
       /\ r.redirect => page'[t] = page[t] /\ went'[t] = went[t]
       /\ ~ r.redirect => page'[t] = r.to /\ went'[t] = IF r.to = "entra" THEN q.flow ELSE 0
  <2>1. CASE r.redirect
    BY <1>1, <2>1 DEF UiTypes
  <2>2. CASE ~ r.redirect
    <3>1. (IF r.to = "entra" THEN q.flow ELSE 0) \in 0 .. MaxFlows
      BY <1>3, UiConstants DEF Requests
    <3>2. page' = [page EXCEPT ![t] = r.to]
          /\ went' = [went EXCEPT ![t] = IF r.to = "entra" THEN q.flow ELSE 0]
      BY <1>1, <2>2
    <3> QED BY <1>6, <2>2, <3>1, <3>2 DEF UiTypes
  <2> QED BY <2>1, <2>2
<1>15. UiTypes'
  <2>1. ASSUME NEW x \in Tabs
        PROVE  /\ nav'[x] \in NavRequests \cup {Idle}
               /\ nav'[x].to = "sso" => nav'[x].flow # 0
               /\ nav'[x].to = "callback" => nav'[x].flow # 0 /\ page'[x] = "entra"
    <3>1. CASE nav'[x] = Idle
      BY <3>1 DEF Idle
    <3>2. CASE x = t /\ nav'[x] # Idle
      <4>1. nav'[x] \in Requests /\ nav'[x].to \in {"dashboard", "login"}
        BY <1>11, <1>12, <3>2
      <4> QED BY <4>1 DEF Requests, NavRequests
    <3>3. CASE x # t /\ nav'[x] # Idle
      <4>1. nav[x] \in NavRequests /\ nav'[x] \in Requests /\ nav'[x].to = nav[x].to
            /\ nav'[x].flow = nav[x].flow
        BY <1>12, <1>13, <3>3 DEF UiTypes, TypeOK
      <4>2. nav'[x] \in NavRequests
        BY <4>1 DEF Requests, NavRequests
      <4> QED BY <1>14, <3>3, <4>1, <4>2 DEF UiTypes
    <3> QED BY <3>1, <3>2, <3>3
  <2>2. ASSUME NEW x \in Tabs, poll'[x] # Idle
        PROVE  /\ poll'[x].session \in Session /\ page'[x] = "dashboard"
               /\ poll'[x].to = "fragment"
    <3>1. /\ poll[x] # Idle /\ poll'[x].session = poll[x].session /\ poll'[x].to = poll[x].to
          /\ (x = t => r.redirect)
      BY <1>5, <1>10, <2>2
    <3>2. page'[x] = page[x]
      BY <1>14, <3>1
    <3> QED BY <3>1, <3>2 DEF UiTypes, TypeOK
  <2>3. ASSUME NEW x \in Tabs
        PROVE  went'[x] \in 0 .. MaxFlows /\ (page'[x] = "entra" <=> went'[x] # 0)
    <3>1. r.to = "entra" /\ ~ r.redirect => q.flow # 0
      BY <1>3, <1>4 DEF Faithful
    <3> QED BY <1>14, <3>1 DEF UiTypes, TypeOK
  <2>4. TypeOK'
    BY <1>2, <1>7, <1>8, <1>14, <2>1, <2>2, <2>3 DEF UiTypes, TypeOK
  <2> QED BY <1>10, <1>12, <1>14, <2>1, <2>2, <2>4 DEF UiTypes
<1>16. ASSUME NEW x \in Tabs
       PROVE  RequestInv(nav[x])' /\ RequestInv(poll[x])'
  <2>1. RequestInv(nav[x])'
    <3>1. CASE nav'[x] = Idle
      BY <3>1 DEF RequestInv
    <3>2. CASE x = t /\ nav'[x] # Idle
      BY <1>7, <1>11, <1>12, <3>2 DEF RequestInv, Own, Current
    <3>3. CASE x # t /\ nav'[x] # Idle
      BY <1>7, <1>13, <3>3 DEF RequestInv, Own, Current
    <3> QED BY <3>1, <3>2, <3>3
  <2>2. CASE poll'[x] = Idle
    BY <2>1, <2>2 DEF RequestInv
  <2>3. CASE poll'[x] # Idle
    <3>1. /\ poll[x] # Idle /\ poll'[x].session = poll[x].session
          /\ poll'[x].old <=> Decides(q, r) \/ (poll[x].old /\ ~ q.old)
      BY <1>5, <1>10, <2>3
    <3> QED BY <1>7, <2>1, <3>1 DEF RequestInv, Own, Current
  <2> QED BY <2>2, <2>3
<1>17. ASSUME NEW x \in Tabs
       PROVE  FlowInv(x)'
  <2>1. CASE x = t /\ r.redirect
    <3>1. nav'[x].to # "callback" /\ nav'[x] # Idle
      BY <1>11, <1>12, <2>1, NotIdle
    <3> QED BY <1>8, <1>14, <2>1, <3>1 DEF FlowInv, AtEntra
  <2>2. CASE x = t /\ ~ r.redirect
    <3>1. nav'[x].to # "callback" /\ nav'[x] = Idle /\ page'[x] = r.to
      BY <1>12, <1>14, <2>2 DEF Idle
    <3>2. r.to = "failed" => excused[t]
      BY <1>3, <1>4, <2>2 DEF q, Faithful, FlowInv
    <3>3. r.to = "entra" => cookie'.flow = q.flow /\ went'[x] = q.flow
      <4>1. SUFFICES ASSUME r.to = "entra" PROVE cookie'.flow = q.flow
        BY <1>14, <2>2
      <4>2. r.saved /\ r.session.flow = q.flow /\ q.flow # 0
        BY <1>3, <1>4, <2>2, <4>1 DEF Faithful
      <4>3. r.session # Empty
        BY <4>2 DEF Empty
      <4> QED BY <1>1, <4>2, <4>3 DEF CookieAfter
    <3> QED BY <1>8, <2>2, <3>1, <3>2, <3>3 DEF FlowInv, AtEntra
  <2>3. CASE x # t
    <3>1. ~ excused'[x] => ~ excused[x]
      BY <1>1, <2>3 DEF Remember
    <3>2. AtEntra(x)' => AtEntra(x)
      BY <1>5, <1>9, <1>12, <1>14, <2>3 DEF AtEntra
    <3>3. ~ excused'[x] /\ AtEntra(x) => cookie'.flow = went[x]
      BY <1>1, <1>3, <1>4, <2>3, AnsweredFlow
    <3>4. nav'[x].to = "callback" =>
            nav[x].to = "callback" /\ nav'[x].session.flow = nav[x].session.flow
            /\ nav'[x].flow = nav[x].flow
      BY <1>13, <2>3 DEF Idle
    <3>5. page'[x] = page[x] /\ went'[x] = went[x]
      BY <1>14, <2>3
    <3> QED BY <3>1, <3>2, <3>3, <3>4, <3>5 DEF FlowInv
  <2> QED BY <2>1, <2>2, <2>3
<1> QED BY <1>7, <1>15, <1>16, <1>17

LEMMA RestartUi ==
  ASSUME UiInv, Restart
  PROVE  UiInv'
<1> USE DEF UiInv
<1>1. /\ Empty \in Session /\ Empty.user = NoOne /\ Empty.token = NoOne /\ Empty.flow = 0
      /\ Idle.to = "nothing"
  BY UiConstants DEF Empty, Session, Persons, Idle
<1>2. \A t \in Tabs : /\ nav'[t] = Idle /\ poll'[t] = Idle
                      /\ page'[t] = IF nav[t] = Idle THEN page[t] ELSE "error"
                      /\ went'[t] = IF nav[t] = Idle THEN went[t] ELSE 0
                      /\ excused'[t] = (AtEntra(t) \/ page'[t] = "failed")
  BY DEF Restart
<1>3. /\ page' \in [Tabs -> Pages] /\ went' \in [Tabs -> 0 .. MaxFlows]
      /\ nav' \in [Tabs -> Requests \cup {Idle}] /\ poll' \in [Tabs -> Requests \cup {Idle}]
  BY UiConstants DEF Restart, UiTypes, Pages
<1>4. excused' \in [Tabs -> BOOLEAN]
  BY DEF Restart, AtEntra
<1>5. UiTypes'
  <2>1. /\ expected' \in Persons \cup {"overtaken"} /\ mixed' \in BOOLEAN
        /\ apiScope' \in BOOLEAN /\ cookie' \in Session
    BY <1>1 DEF Restart, UiTypes, TypeOK, Persons
  <2>2. \A t \in Tabs : went'[t] \in 0 .. MaxFlows /\ (page'[t] = "entra" <=> went'[t] # 0)
    BY <1>2, <1>3 DEF UiTypes, TypeOK
  <2>3. TypeOK'
    BY <1>2, <1>3, <1>4, <2>1, <2>2 DEF TypeOK
  <2> QED BY <1>1, <1>2, <1>3, <2>3 DEF UiTypes
<1>6. Own(cookie)' /\ Current(cookie)'
  BY <1>1 DEF Restart, Own, Current
<1>7. \A t \in Tabs : RequestInv(nav[t])' /\ RequestInv(poll[t])'
  BY <1>2 DEF RequestInv
<1>8. ASSUME NEW t \in Tabs
      PROVE  FlowInv(t)'
  <2>1. nav'[t].to # "callback"
    BY <1>1, <1>2
  <2>2. AtEntra(t)' => excused'[t]
    BY <1>2 DEF AtEntra
  <2> QED BY <1>2, <2>1, <2>2 DEF FlowInv
<1> QED BY <1>5, <1>6, <1>7, <1>8

\* Everything the people at the browser do is a request of a page or of a fragment.
LEMMA BrowseUi ==
  ASSUME UiInv, NEW t \in Tabs, Browse(t)
  PROVE  UiInv'
<1>1. NoOne \in Persons /\ 0 \in 0 .. MaxFlows /\ went[t] \in 0 .. MaxFlows
  BY UiConstants DEF Persons, UiInv, UiTypes
<1>2. CASE Visit(t)
  BY <1>1, <1>2, NavigateUi DEF Visit
<1>3. CASE ChooseToken(t)
  <2>1. PICK environment \in Persons, azureCli \in Persons, pasted \in Persons :
          \/ Navigate(t, "az-login", TryAnyToken(environment, azureCli), 0)
          \/ Navigate(t, "token", pasted, 0)
    BY <1>3 DEF ChooseToken
  <2>2. TryAnyToken(environment, azureCli) \in Persons
    BY DEF TryAnyToken
  <2> QED BY <1>1, <2>1, <2>2, NavigateUi
<1>4. CASE ChooseEntra(t)
  <2>1. PICK f \in (1 .. MaxFlows) \ LiveFlows : Navigate(t, "sso", NoOne, f)
    BY <1>4 DEF ChooseEntra
  <2>2. f \in 0 .. MaxFlows /\ f # 0
    BY UiConstants
  <2> QED BY <1>1, <2>1, <2>2, NavigateUi
<1>5. CASE ReturnFromEntra(t)
  BY <1>1, <1>5, NavigateUi DEF ReturnFromEntra
<1>6. CASE SignOut(t)
  BY <1>1, <1>6, NavigateUi DEF SignOut
<1>7. CASE Poll(t)
  BY <1>7, PollUi
<1> QED BY <1>2, <1>3, <1>4, <1>5, <1>6, <1>7 DEF Browse

LEMMA NextUi == UiInv /\ [Next]_vars => UiInv'
<1> SUFFICES ASSUME UiInv, [Next]_vars PROVE UiInv'
  OBVIOUS
<1>1. CASE UNCHANGED vars
  BY <1>1 DEF vars, history, UiInv, UiTypes, TypeOK, Own, Current, RequestInv, FlowInv, AtEntra
<1>2. ASSUME NEW t \in Tabs, Browse(t) \/ AnswerPage(t) \/ AnswerPoll(t)
      PROVE  UiInv'
  BY <1>2, BrowseUi, AnswerPageUi, AnswerPollUi
<1>3. CASE Restart
  BY <1>3, RestartUi
<1> QED BY <1>1, <1>2, <1>3 DEF Next

-------------------------------------------------------------------------------

\* UiInv holds in every reachable state, for any tabs, users and flows (the handlers of
\* cli/ui.py behind the session cookie).
THEOREM UiInvHolds == Spec => []UiInv
<1>1. Init => UiInv
  BY InitUi
<1>2. UiInv /\ [Next]_vars => UiInv'
  BY NextUi
<1> QED BY <1>1, <1>2, PTL DEF Spec

\* The variables of UiSession keep their types.
THEOREM UiTypeHolds == Spec => []TypeOK
<1>1. UiInv => TypeOK
  BY DEF UiInv, UiTypes
<1> QED BY <1>1, UiInvHolds, PTL

\* The user in the cookie is who signed in last, unless an older answer has come in
\* since (auth_az_login, auth_token_submit, auth_callback, auth_logout).
THEOREM SessionFollowsHolds == Spec => []SessionFollowsSignIns
<1>1. UiInv => SessionFollowsSignIns
  BY DEF UiInv, Current, Own, SessionFollowsSignIns
<1> QED BY <1>1, UiInvHolds, PTL

\* The token that goes to the API is that of the user shown, whatever the order of the
\* answers (_api_token, auth_callback).
THEOREM OneIdentityHolds == Spec => []OneIdentity
<1>1. UiInv => OneIdentity
  BY DEF UiInv, Own, ApiToken, OneIdentity
<1> QED BY <1>1, UiInvHolds, PTL

\* Whoever comes back from Entra finds the flow, unless something came between
\* (auth_sso, auth_callback).
THEOREM SignInHolds == Spec => []SignInSurvives
<1>1. UiInv => SignInSurvives
  BY DEF UiInv, FlowInv, SignInSurvives
<1> QED BY <1>1, UiInvHolds, PTL
===============================================================================
