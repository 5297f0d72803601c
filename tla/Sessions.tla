----------------------------- MODULE Sessions -----------------------------
(***************************************************************************)
(* Who the server takes a browser for: users, identities, sessions, the    *)
(* flows of a redirect sign-in, and the cookies of v1 that are swapped for *)
(* sessions (internal/server's session.go, internal/store's users.go,      *)
(* internal/auth's oidc.go).                                               *)
(*                                                                         *)
(* A browser has several requests under way at once.  A request carries    *)
(* the cookies of the moment it was sent, it is handled at any later time, *)
(* and what its response does to the cookies happens later still, in any   *)
(* order, or never.  A handler is one step: of what it reads only sessions *)
(* are ever deleted, and it reads those first.                             *)
(*                                                                         *)
(* Tokens and states are drawn at random and never met again; which        *)
(* browser started a flow and who signed in where are kept for the         *)
(* properties alone.                                                       *)
(***************************************************************************)
EXTENDS Integers, FiniteSets

CONSTANTS
  Browsers, Users, Tokens, States,
  Subjects,       \* what a provider can recognise somebody again by
  SubjectOf,      \* SubjectOf[b], the subject of whoever sits at b
  V1User,         \* V1User[b], the user of v1 whose cookie b has, or None
  Slots,          \* requests under way
  MaxFlows,
  MaxSent,        \* bound on the requests there are in all
  None, Keep      \* no cookie; a response that leaves a cookie alone

\* The drivers that know a subject, and what an identity is keyed by: one
\* subject may occur under both, and is then two people.
Providers  == {"ldap", "oidc"}
Identities == Providers \X Subjects

ASSUME SessionsAssumption ==
  /\ SubjectOf \in [Browsers -> Subjects]
  /\ V1User \in [Browsers -> Users \cup {None}]
  /\ MaxFlows \in Nat /\ MaxSent \in Nat
  /\ {None, Keep} \cap (Users \cup Tokens \cup States) = {} 
  /\ None \notin Browsers \cup Identities

VARIABLES
  users,      \* the users there are
  identity,   \* identity[i], the user of identity i, or None
  session,    \* session[t], the user and whether it has yet to expire
  flows,      \* flows[f], "none", "live" or "expired"
  jar,        \* the cookies of a browser
  request,    \* request[q], what is under way
  sent,       \* how many requests there have been
  startedBy,  \* the browser that flow f was started in
  was,        \* was[b], the users who signed in at b
  signedIn,   \* <<i, u>> when identity i, None for a name, was signed in as user u
  finished    \* finished[f], how many times flow f has signed somebody in

tables  == <<users, identity, session>>
history == <<startedBy, was, signedIn, finished>>
vars    == <<tables, flows, jar, request, sent, history>>

Jar == [session : Tokens \cup {None}, v1 : Users \cup {None}, flow : States \cup {None}]

\* v1 left users and cookies behind; the user of a cookie may be gone.
Init ==
  /\ users \in SUBSET ({V1User[b] : b \in Browsers} \ {None})
  /\ identity = [i \in Identities |-> None]
  /\ session = [t \in Tokens |-> None]
  /\ flows = [f \in States |-> "none"]
  /\ jar = [b \in Browsers |-> [session |-> None, v1 |-> V1User[b], flow |-> None]]
  /\ request = [q \in Slots |-> None]
  /\ sent = 0
  /\ startedBy = [f \in States |-> None]
  /\ was = [b \in Browsers |-> {V1User[b]} \ {None}]
  /\ signedIn = {} /\ finished = [f \in States |-> 0]

---------------------------------------------------------------------------
(* Requests and responses *)

Kinds == {"page", "name", "account", "start", "signout"}

\* A browser sends a request with the cookies it has; of these the request
\* keeps the ones its handler reads.
Send(q, b, kind, state) ==
  /\ request[q] = None
  /\ sent < MaxSent /\ sent' = sent + 1
  /\ request' = [request EXCEPT ![q] =
       [kind |-> kind, browser |-> b, state |-> state,
        session |-> IF kind \in {"page", "signout"} THEN jar[b].session ELSE None,
        v1      |-> IF kind = "page" THEN jar[b].v1 ELSE None,
        flow    |-> IF kind = "callback" THEN jar[b].flow ELSE None]]
  /\ UNCHANGED <<tables, flows, jar, history>>

\* The provider sends whoever started a flow back to the callback with its
\* state; the address may be opened again, and in another browser.
CallBack(q, b, f) == startedBy[f] # None /\ Send(q, b, "callback", f)

\* Request q is answered, with these values for the three cookies.
Reply(q, s, v, f) ==
  request' = [request EXCEPT ![q] =
    [kind |-> "reply", browser |-> request[q].browser, state |-> None,
     session |-> s, v1 |-> v, flow |-> f]]

Waiting(q, kind) == request[q] # None /\ request[q].kind = kind

\* The response arrives and the browser does what Set-Cookie says.
Arrive(q) ==
  /\ Waiting(q, "reply")
  /\ LET r == request[q]
         Set(value, cookie) == IF value = Keep THEN cookie ELSE value
     IN jar' = [jar EXCEPT ![r.browser] =
                  [session |-> Set(r.session, @.session),
                   v1      |-> Set(r.v1, @.v1),
                   flow    |-> Set(r.flow, @.flow)]]
  /\ request' = [request EXCEPT ![q] = None]
  /\ UNCHANGED <<tables, flows, sent, history>>

\* The connection goes, before the request is handled or after.
Lose(q) ==
  /\ request[q] # None
  /\ request' = [request EXCEPT ![q] = None]
  /\ UNCHANGED <<tables, flows, jar, sent, history>>

---------------------------------------------------------------------------
(* Users and sessions *)

\* UserBySession: the token has a session that has not expired.
Accepted(t) == t # None /\ session[t] # None /\ session[t].live

FreshTokens ==
  {t \in Tokens : /\ session[t] = None
                  /\ \A b \in Browsers : jar[b].session # t
                  /\ \A q \in Slots : request[q] # None => request[q].session # t}

\* CreateSession
CreateSession(t, u) ==
  session' = [session EXCEPT ![t] = [user |-> u, live |-> TRUE]]

\* newID never gives an id again, nor one of v1's.
FreshUsers == Users \ (users \cup {V1User[b] : b \in Browsers})

\* Mutant: the row is looked up by its subject, whatever the provider.
BadSignIn(i, u) ==
  LET known == {k \in Identities : i # None /\ k[2] = i[2] /\ identity[k] # None} IN
  IF known # {}
  THEN (\E k \in known : u = identity[k]) /\ UNCHANGED <<users, identity>>
  ELSE /\ u \in FreshUsers
       /\ users' = users \cup {u}
       /\ identity' = IF i = None THEN identity ELSE [identity EXCEPT ![i] = u]

\* SignIn: an identity seen before keeps its user; otherwise, and always when
\* there is no subject, u is new.  It is one transaction.
SignIn(i, u) ==
  IF i # None /\ identity[i] # None
  THEN u = identity[i] /\ UNCHANGED <<users, identity>>
  ELSE /\ u \in FreshUsers
       /\ users' = users \cup {u}
       /\ identity' = IF i = None THEN identity ELSE [identity EXCEPT ![i] = u]

\* SignIn, then CreateSession, for identity i, or a new person, at browser b.
\* The second may fail after the first has committed, and then the response
\* sets no session.  f is what becomes of the cookie of the flow.
Admit(q, i, b, f) ==
  /\ \E u \in Users :
       /\ SignIn(i, u)
       /\ was' = [was EXCEPT ![b] = @ \cup {u}]
       /\ signedIn' = signedIn \cup {<<i, u>>}
       /\ \/ \E t \in FreshTokens : CreateSession(t, u) /\ Reply(q, t, Keep, f)
          \/ UNCHANGED session /\ Reply(q, Keep, Keep, f)
  /\ UNCHANGED <<jar, sent, startedBy>>

\* signIn, with a driver that knows a name only, or an account.
NameSignIn(q) ==
  /\ Waiting(q, "name") /\ Admit(q, None, request[q].browser, Keep)
  /\ UNCHANGED <<flows, sent, finished>>

AccountSignIn(q) ==
  /\ Waiting(q, "account")
  /\ Admit(q, <<"ldap", SubjectOf[request[q].browser]>>, request[q].browser, Keep)
  /\ UNCHANGED <<flows, sent, finished>>

\* currentUser, the session is good: the request is answered as its user.
PageAccepted(q) ==
  /\ Waiting(q, "page") /\ Accepted(request[q].session)
  /\ Reply(q, Keep, Keep, Keep)
  /\ UNCHANGED <<tables, flows, jar, sent, history>>

\* adoptV1Session: the cookie is v1's and its user is there, so it is swapped
\* for a session of that user.
PageAdopted(q) ==
  /\ Waiting(q, "page") /\ ~Accepted(request[q].session)
  /\ request[q].v1 # None /\ request[q].v1 \in users
  /\ \E t \in FreshTokens : CreateSession(t, request[q].v1) /\ Reply(q, t, None, Keep)
  /\ UNCHANGED <<users, identity, flows, jar, sent, history>>

\* currentUser finds nobody, or cannot make the session; a session cookie that
\* was sent is cleared.
PageRefused(q) ==
  /\ Waiting(q, "page") /\ ~Accepted(request[q].session)
  /\ Reply(q, IF request[q].session = None THEN Keep ELSE None, Keep, Keep)
  /\ UNCHANGED <<tables, flows, jar, sent, history>>

\* signOut: the session sent along is deleted, and its cookie.
SignOut(q) ==
  /\ Waiting(q, "signout")
  /\ session' = IF request[q].session = None THEN session
                ELSE [session EXCEPT ![request[q].session] = None]
  /\ Reply(q, None, Keep, Keep)
  /\ UNCHANGED <<users, identity, flows, jar, sent, history>>

---------------------------------------------------------------------------
(* Redirect sign-in *)

Unexpired == [f \in States |-> IF flows[f] = "expired" THEN "none" ELSE flows[f]]

InProgress(fs) == {f \in States : fs[f] # "none"}

\* Mutant: the limit is checked with > in place of >=.
BadStart(q) ==
  /\ Waiting(q, "start")
  /\ Cardinality(InProgress(Unexpired)) <= MaxFlows
  /\ \E f \in States :
       /\ startedBy[f] = None
       /\ flows' = [Unexpired EXCEPT ![f] = "live"]
       /\ startedBy' = [startedBy EXCEPT ![f] = request[q].browser]
       /\ Reply(q, Keep, Keep, f)
  /\ UNCHANGED <<tables, jar, sent, was, signedIn, finished>>

\* Start: expired flows are forgotten, and there is room for one more.
Start(q) ==
  /\ Waiting(q, "start")
  /\ Cardinality(InProgress(Unexpired)) < MaxFlows
  /\ \E f \in States :
       /\ startedBy[f] = None
       /\ flows' = [Unexpired EXCEPT ![f] = "live"]
       /\ startedBy' = [startedBy EXCEPT ![f] = request[q].browser]
       /\ Reply(q, Keep, Keep, f)
  /\ UNCHANGED <<tables, jar, sent, was, signedIn, finished>>

\* Start: "too many sign-ins in progress".
StartRefused(q) ==
  /\ Waiting(q, "start")
  /\ Cardinality(InProgress(Unexpired)) >= MaxFlows
  /\ flows' = Unexpired
  /\ Reply(q, Keep, Keep, Keep)
  /\ UNCHANGED <<tables, jar, sent, history>>

\* Mutant: the flow is looked up, and left where it is.
BadTake(f) == flows

\* Finish takes the flow out of the map before it looks at anything else.
Take(f) == [flows EXCEPT ![f] = "none"]

\* Mutant: any state the server knows will do, whatever the cookie says.
BadMatches(q) == flows[request[q].state] = "live"

\* Finish: the state is known, unexpired, and the one in the cookie.
Matches(q) ==
  flows[request[q].state] = "live" /\ request[q].state = request[q].flow

\* Finish and finishRedirect: the code is exchanged for the identity of
\* whoever was sent to the provider, and that person is signed in.
Finish(q) ==
  LET f == request[q].state IN
  /\ Waiting(q, "callback") /\ Matches(q)
  /\ flows' = Take(f)
  /\ finished' = [finished EXCEPT ![f] = @ + 1]
  /\ Admit(q, <<"oidc", SubjectOf[startedBy[f]]>>, startedBy[f], None)

\* The provider said no, the state does not match, or the exchange failed:
\* the flow is used up all the same.
FinishFails(q) ==
  /\ Waiting(q, "callback")
  /\ flows' = Take(request[q].state)
  /\ Reply(q, Keep, Keep, None)
  /\ UNCHANGED <<tables, jar, sent, history>>

---------------------------------------------------------------------------
(* Time *)

SessionExpires(t) ==
  /\ session[t] # None /\ session[t].live
  /\ session' = [session EXCEPT ![t].live = FALSE]
  /\ UNCHANGED <<users, identity, flows, jar, request, sent, history>>

FlowExpires(f) ==
  /\ flows[f] = "live"
  /\ flows' = [flows EXCEPT ![f] = "expired"]
  /\ UNCHANGED <<tables, jar, request, sent, history>>

\* The server is started again: flows were in memory only.
Restart ==
  /\ InProgress(flows) # {}
  /\ flows' = [f \in States |-> "none"]
  /\ UNCHANGED <<tables, jar, request, sent, history>>

Handle(q) ==
  \/ NameSignIn(q) \/ AccountSignIn(q)
  \/ PageAccepted(q) \/ PageAdopted(q) \/ PageRefused(q) \/ SignOut(q)
  \/ Start(q) \/ StartRefused(q) \/ Finish(q) \/ FinishFails(q)

Next ==
  \/ \E q \in Slots :
       \/ \E b \in Browsers, k \in Kinds : Send(q, b, k, None)
       \/ \E b \in Browsers, f \in States : CallBack(q, b, f)
       \/ Handle(q) \/ Arrive(q) \/ Lose(q)
  \/ \E t \in Tokens : SessionExpires(t)
  \/ \E f \in States : FlowExpires(f)
  \/ Restart

Spec == Init /\ [][Next]_vars

---------------------------------------------------------------------------
TypeOK ==
  /\ users \subseteq Users
  /\ identity \in [Identities -> users \cup {None}]
  /\ session \in [Tokens -> [user : users, live : BOOLEAN] \cup {None}]
  /\ jar \in [Browsers -> Jar]
  /\ Cardinality(InProgress(flows)) <= MaxFlows
  /\ \A f \in InProgress(flows) : startedBy[f] # None

\* "tell it's the same browser": whatever cookies a browser ends up with, from
\* responses in any order and sign-ins it began, opened twice or did not begin,
\* whom the server takes it for is somebody who signed in at it.
ActsAsItself ==
  \A b \in Browsers :
    Accepted(jar[b].session) => session[jar[b].session].user \in was[b]

\* "A returning subject keeps their user", and nobody else's: sign-ins of one
\* subject with one provider, however far apart, are one user; those of another
\* subject, of the same subject with another provider, or with a name alone,
\* are never that user.
OneUserPerIdentity ==
  \A x, y \in signedIn :
    /\ x[1] = y[1] /\ x[1] # None => x[2] = y[2]
    /\ x[1] # y[1] => x[2] # y[2]

\* A flow signs somebody in once, however often its callback is opened.
FlowsFinishOnce == \A f \in States : finished[f] <= 1
=============================================================================
