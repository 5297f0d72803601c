-------------------------- MODULE SessionsProofs --------------------------
(***************************************************************************)
(* Proofs about Sessions for any browsers, people, tokens and states, any  *)
(* number of requests under way and any limit on the flows.                *)
(***************************************************************************)
EXTENDS Sessions, FiniteSetTheorems, TLAPS

---------------------------------------------------------------------------
(* The inductive invariant *)

Request ==
  [kind : Kinds \cup {"callback", "reply"}, browser : Browsers, state : States \cup {None},
   session : Tokens \cup {None, Keep}, v1 : Users \cup {None, Keep},
   flow : States \cup {None, Keep}]

\* What TypeOK leaves out.
Types ==
  /\ TypeOK
  /\ request \in [Slots -> Request \cup {None}]
  /\ \A q \in Slots : Waiting(q, "callback") => request[q].state \in States
  /\ flows \in [States -> {"none", "live", "expired"}]
  /\ IsFiniteSet(InProgress(flows))
  /\ startedBy \in [States -> Browsers \cup {None}]
  /\ was \in [Browsers -> SUBSET Users]

\* These cookies, in a jar or on the way, are ones browser b may have.
Theirs(b, c) ==
  /\ c.session \in Tokens /\ session[c.session] # None =>
       session[c.session].user \in was[b]
  /\ c.v1 \in Users => c.v1 \in was[b]
  /\ c.flow \in States => startedBy[c.flow] = b

CookiesAreTheirs ==
  /\ \A b \in Browsers : Theirs(b, jar[b])
  /\ \A q \in Slots : request[q] # None => Theirs(request[q].browser, request[q])

\* Whoever was signed in with an identity has it still, with that user and no
\* other, and there is no identity of anybody who was not.
IdentityLasts ==
  /\ signedIn \subseteq (Identities \cup {None}) \X users
  /\ \A x \in signedIn, k \in Identities : x[1] = k <=> identity[k] = x[2]
  /\ \A k \in Identities : identity[k] # None => <<k, identity[k]>> \in signedIn

\* A flow that signed somebody in is over, and its state is not used again.
FinishedIsOver ==
  /\ finished \in [States -> {0, 1}]
  /\ \A f \in States : finished[f] = 1 => flows[f] = "none" /\ startedBy[f] # None

Inductive == Types /\ CookiesAreTheirs /\ IdentityLasts /\ FinishedIsOver

---------------------------------------------------------------------------
(* Types *)

\* A request of the right type, put in a slot, keeps the type of request.
LEMMA ReplyTypes ==
  ASSUME NEW q \in Slots, request \in [Slots -> Request \cup {None}], request[q] # None,
         NEW s \in Tokens \cup {None, Keep}, NEW v \in Users \cup {None, Keep},
         NEW f \in States \cup {None, Keep}, Reply(q, s, v, f)
  PROVE  /\ request' \in [Slots -> Request \cup {None}]
         /\ request'[q] = [kind |-> "reply", browser |-> request[q].browser, state |-> None,
                           session |-> s, v1 |-> v, flow |-> f]
         /\ request[q].browser \in Browsers
         /\ \A p \in Slots : p # q => request'[p] = request[p]
         /\ \A p \in Slots : Waiting(p, "callback")' => Waiting(p, "callback") /\ p # q
<1>1. request[q].browser \in Browsers
  BY DEF Request
<1>2. [kind |-> "reply", browser |-> request[q].browser, state |-> None,
       session |-> s, v1 |-> v, flow |-> f] \in Request
  BY <1>1 DEF Request
<1> QED
  BY <1>1, <1>2 DEF Reply, Waiting

\* There are no users and no flows at the beginning, but for v1's.
LEMMA InitInductive == Init => Inductive
<1> SUFFICES ASSUME Init
             PROVE  Inductive
  OBVIOUS
<1> USE SessionsAssumption DEF Init
<1>1. InProgress(flows) = {}
  BY DEF InProgress
<1>2. IsFiniteSet(InProgress(flows)) /\ Cardinality(InProgress(flows)) = 0
  BY <1>1, FS_EmptySet
<1>3. TypeOK
  BY <1>1, <1>2 DEF TypeOK, Jar
<1>4. Types
  BY <1>2, <1>3 DEF Types, Waiting
<1>5. CookiesAreTheirs
  BY DEF CookiesAreTheirs, Theirs
<1>6. IdentityLasts /\ FinishedIsOver
  BY DEF IdentityLasts, FinishedIsOver
<1> QED
  BY <1>4, <1>5, <1>6 DEF Inductive

\* Forgetting or ending flows leaves no more of them than there were.
LEMMA FewerFlows ==
  ASSUME Types, flows' \in [States -> {"none", "live", "expired"}],
         InProgress(flows') \subseteq InProgress(flows), startedBy' = startedBy
  PROVE  /\ IsFiniteSet(InProgress(flows'))
         /\ Cardinality(InProgress(flows')) <= MaxFlows
         /\ \A f \in InProgress(flows') : startedBy'[f] # None
<1>1. /\ IsFiniteSet(InProgress(flows'))
      /\ Cardinality(InProgress(flows')) <= Cardinality(InProgress(flows))
  BY FS_Subset DEF Types
<1>2. Cardinality(InProgress(flows)) \in Nat /\ Cardinality(InProgress(flows')) \in Nat
  BY <1>1, FS_CardinalityType DEF Types
<1> QED
  BY <1>1, <1>2, SessionsAssumption DEF Types, TypeOK
---------------------------------------------------------------------------
(* Cookies *)

\* Cookies stay their browser's when users only join it, states that are taken
\* stay taken, and the sessions they name stay or go.
LEMMA StillTheirs ==
  ASSUME NEW b \in Browsers, NEW c \in Jar \cup Request, Theirs(b, c),
         was[b] \subseteq was'[b],
         \A f \in States : startedBy[f] = b => startedBy'[f] = b,
         c.session \in Tokens =>
           \/ session'[c.session] = None
           \/ session[c.session] # None /\ session'[c.session].user = session[c.session].user
  PROVE  /\ c.session \in Tokens /\ session'[c.session] # None =>
              session'[c.session].user \in was'[b]
         /\ c.v1 \in Users => c.v1 \in was'[b]
         /\ c.flow \in States => startedBy'[c.flow] = b
BY DEF Theirs

\* A request sent carries cookies of the browser that sends it.
LEMMA SendStep ==
  ASSUME Inductive, NEW q \in Slots, NEW b \in Browsers, NEW kind \in Kinds \cup {"callback"},
         NEW state \in States \cup {None}, kind = "callback" => state \in States,
         Send(q, b, kind, state)
  PROVE  Inductive'
<1> USE DEF Inductive, Send, tables, history
<1> DEFINE r == [kind |-> kind, browser |-> b, state |-> state,
        session |-> IF kind \in {"page", "signout"} THEN jar[b].session ELSE None,
        v1      |-> IF kind = "page" THEN jar[b].v1 ELSE None,
        flow    |-> IF kind = "callback" THEN jar[b].flow ELSE None]
<1>1. jar[b] \in Jar
  BY DEF Types, TypeOK
<1>2. r \in Request
  BY <1>1 DEF Jar, Request
<1>3. request' = [request EXCEPT ![q] = r]
  OBVIOUS
<1>4. Types'
  <2>1. request' \in [Slots -> Request \cup {None}]
    BY <1>2, <1>3 DEF Types
  <2>2. \A p \in Slots : Waiting(p, "callback")' => request'[p].state \in States
    BY <1>3 DEF Types, Waiting
  <2>3. TypeOK'
    BY DEF Types, TypeOK
  <2> QED
    BY <2>1, <2>2, <2>3 DEF Types
<1>5. CookiesAreTheirs'
  <2>1. Theirs(b, r)
    BY SessionsAssumption DEF CookiesAreTheirs, Theirs
  <2>2. ASSUME NEW p \in Slots, request'[p] # None
        PROVE  Theirs(request'[p].browser, request'[p])
    BY <1>3, <2>1, <2>2 DEF CookiesAreTheirs, Types
  <2> QED
    BY <2>2 DEF CookiesAreTheirs, Theirs
<1>6. IdentityLasts' /\ FinishedIsOver'
  BY DEF IdentityLasts, FinishedIsOver
<1> QED
  BY <1>4, <1>5, <1>6

\* A response brings a browser cookies that were meant for it.
LEMMA ArriveStep ==
  ASSUME Inductive, NEW q \in Slots, Arrive(q)
  PROVE  Inductive'
<1> USE DEF Inductive, Arrive, tables, history
<1> DEFINE r == request[q]
           j == [session |-> IF r.session = Keep THEN jar[r.browser].session ELSE r.session,
                 v1      |-> IF r.v1 = Keep THEN jar[r.browser].v1 ELSE r.v1,
                 flow    |-> IF r.flow = Keep THEN jar[r.browser].flow ELSE r.flow]
<1>1. r \in Request /\ r.browser \in Browsers /\ jar \in [Browsers -> Jar]
  BY DEF Types, TypeOK, Waiting, Request
<1>2. j \in Jar
  BY <1>1 DEF Jar, Request
<1>3. jar' = [jar EXCEPT ![r.browser] = j] /\ request' = [request EXCEPT ![q] = None]
  BY <1>1
<1>4. Types'
  <2>1. jar' \in [Browsers -> Jar]
    BY <1>1, <1>2, <1>3
  <2>2. request' \in [Slots -> Request \cup {None}]
    BY <1>3 DEF Types
  <2>3. \A p \in Slots : Waiting(p, "callback")' => request'[p].state \in States
    BY <1>3 DEF Types, Waiting
  <2> QED
    BY <2>1, <2>2, <2>3 DEF Types, TypeOK
<1>5. CookiesAreTheirs'
  <2>1. Theirs(r.browser, r) /\ Theirs(r.browser, jar[r.browser])
    BY <1>1 DEF CookiesAreTheirs, Waiting
  <2>2. Theirs(r.browser, j)
    BY <2>1 DEF Theirs
  <2>3. ASSUME NEW b \in Browsers
        PROVE  Theirs(b, jar'[b])
    BY <1>1, <1>3, <2>2 DEF CookiesAreTheirs
  <2>4. ASSUME NEW p \in Slots, request'[p] # None
        PROVE  Theirs(request'[p].browser, request'[p])
    BY <1>3, <2>4 DEF CookiesAreTheirs, Types
  <2> QED
    BY <2>3, <2>4 DEF CookiesAreTheirs, Theirs
<1>6. IdentityLasts' /\ FinishedIsOver'
  BY DEF IdentityLasts, FinishedIsOver
<1> QED
  BY <1>4, <1>5, <1>6

\* A request or a response that is lost takes its cookies along.
LEMMA LoseStep ==
  ASSUME Inductive, NEW q \in Slots, Lose(q)
  PROVE  Inductive'
<1> USE DEF Inductive, Lose, tables, history
<1>1. Types'
  <2>1. request' \in [Slots -> Request \cup {None}]
    BY DEF Types
  <2>2. \A p \in Slots : Waiting(p, "callback")' => request'[p].state \in States
    BY DEF Types, Waiting
  <2> QED
    BY <2>1, <2>2 DEF Types, TypeOK
<1>2. CookiesAreTheirs'
  BY DEF CookiesAreTheirs, Theirs, Types
<1>3. IdentityLasts' /\ FinishedIsOver'
  BY DEF IdentityLasts, FinishedIsOver
<1> QED
  BY <1>1, <1>2, <1>3
---------------------------------------------------------------------------
(* Handlers *)

\* What a handler may do to the tables: users only join a browser, states that
\* are taken stay taken, and a session stays its user's, goes, or is new.
Orderly ==
  /\ \A b \in Browsers : was[b] \subseteq was'[b]
  /\ \A f \in States : startedBy[f] # None => startedBy'[f] = startedBy[f]
  /\ \A t \in Tokens : \/ session'[t] = None
                       \/ session[t] # None /\ session'[t].user = session[t].user
                       \/ t \in FreshTokens

\* An orderly handler leaves every cookie where it belongs, if the ones of its
\* own response do: nobody holds a token it has just drawn.
LEMMA AnswerTheirs ==
  ASSUME Types, CookiesAreTheirs, Orderly, NEW q \in Slots, request[q] # None, jar' = jar,
         NEW s \in Tokens \cup {None, Keep}, NEW v \in Users \cup {None, Keep},
         NEW f \in States \cup {None, Keep}, Reply(q, s, v, f),
         (s \in Tokens /\ session'[s] # None) => session'[s].user \in was'[request[q].browser],
         v \in Users => v \in was'[request[q].browser],
         f \in States => startedBy'[f] = request[q].browser
  PROVE  CookiesAreTheirs'
<1>1. /\ request \in [Slots -> Request \cup {None}] /\ jar \in [Browsers -> Jar]
      /\ startedBy \in [States -> Browsers \cup {None}]
  BY DEF Types, TypeOK
<1>2. \A p \in Slots : p # q => request'[p] = request[p]
  BY <1>1, ReplyTypes
<1>3. ASSUME NEW b \in Browsers
      PROVE  Theirs(b, jar[b])'
  <2>1. jar[b] \in Jar \cup Request /\ Theirs(b, jar[b])
    BY <1>1 DEF CookiesAreTheirs
  <2>2. jar[b].session \in Tokens => jar[b].session \notin FreshTokens
    BY DEF FreshTokens
  <2>3. \A g \in States : startedBy[g] = b => startedBy'[g] = b
    BY SessionsAssumption DEF Orderly
  <2> QED
    BY <2>1, <2>2, <2>3 DEF Theirs, Orderly
<1>4. ASSUME NEW p \in Slots, p # q, request[p] # None
      PROVE  Theirs(request[p].browser, request[p])'
  <2> DEFINE r == request[p]
  <2>1. r \in Request /\ r.browser \in Browsers /\ Theirs(r.browser, r)
    BY <1>1, <1>4 DEF CookiesAreTheirs, Request
  <2>2. r.session \in Tokens => r.session \notin FreshTokens
    BY <1>4 DEF FreshTokens
  <2>3. \A g \in States : startedBy[g] = r.browser => startedBy'[g] = r.browser
    BY <2>1, SessionsAssumption DEF Orderly
  <2>4. request'[p] = request[p]
    BY <1>2, <1>4
  <2> QED
    BY <2>1, <2>2, <2>3, <2>4 DEF Theirs, Orderly
<1>5. Theirs(request[q].browser, request[q])'
  <2> DEFINE r == [kind |-> "reply", browser |-> request[q].browser, state |-> None,
                   session |-> s, v1 |-> v, flow |-> f]
  <2>1. request'[q] = r
    BY <1>1, ReplyTypes
  <2>2. /\ r.browser = request[q].browser
        /\ r.session = s /\ r.v1 = v /\ r.flow = f
    OBVIOUS
  <2> HIDE DEF r
  <2> QED
    BY <2>1, <2>2 DEF Theirs
<1> QED
  BY <1>2, <1>3, <1>4, <1>5 DEF CookiesAreTheirs

\* A page served or refused changes no table.
LEMMA PageStep ==
  ASSUME Inductive, NEW q \in Slots, PageAccepted(q) \/ PageRefused(q)
  PROVE  Inductive'
<1> USE DEF Inductive, PageAccepted, PageRefused, tables, history
<1>1. PICK s \in {None, Keep} : Reply(q, s, Keep, Keep)
  OBVIOUS
<1>2. request[q] # None /\ request \in [Slots -> Request \cup {None}]
  BY DEF Types, Waiting
<1>3. Types'
  BY <1>1, <1>2, ReplyTypes DEF Types, TypeOK
<1>4. CookiesAreTheirs'
  <2>1. Orderly
    BY DEF Orderly
  <2> QED
    BY <1>1, <1>2, <2>1, AnswerTheirs, SessionsAssumption
<1>5. IdentityLasts' /\ FinishedIsOver'
  BY DEF IdentityLasts, FinishedIsOver
<1> QED
  BY <1>3, <1>4, <1>5

\* The cookie of v1 that is swapped was the browser's own.
LEMMA PageAdoptedStep ==
  ASSUME Inductive, NEW q \in Slots, PageAdopted(q)
  PROVE  Inductive'
<1> USE DEF Inductive, PageAdopted, tables, history
<1>1. PICK t \in FreshTokens : CreateSession(t, request[q].v1) /\ Reply(q, t, None, Keep)
  OBVIOUS
<1>2. /\ request[q] # None /\ request \in [Slots -> Request \cup {None}]
      /\ t \in Tokens /\ request[q].v1 \in users /\ users \subseteq Users
  BY DEF Types, TypeOK, Waiting, FreshTokens
<1>3. session' = [session EXCEPT ![t] = [user |-> request[q].v1, live |-> TRUE]]
  BY <1>1 DEF CreateSession
<1>4. Types'
  <2>1. session' \in [Tokens -> [user : users, live : BOOLEAN] \cup {None}]
    BY <1>2, <1>3 DEF Types, TypeOK
  <2> QED
    BY <1>1, <1>2, <2>1, ReplyTypes DEF Types, TypeOK
<1>5. CookiesAreTheirs'
  <2>1. Orderly
    BY <1>1, <1>2, <1>3 DEF Orderly, Types, TypeOK
  <2>2. request[q].v1 \in was[request[q].browser]
    BY <1>2 DEF CookiesAreTheirs, Theirs
  <2>3. session'[t].user = request[q].v1
    BY <1>2, <1>3 DEF Types, TypeOK
  <2> QED
    BY <1>1, <1>2, <2>1, <2>2, <2>3, AnswerTheirs, SessionsAssumption
<1>6. IdentityLasts' /\ FinishedIsOver'
  BY DEF IdentityLasts, FinishedIsOver
<1> QED
  BY <1>4, <1>5, <1>6

\* Signing out only takes a session away.
LEMMA SignOutStep ==
  ASSUME Inductive, NEW q \in Slots, SignOut(q)
  PROVE  Inductive'
<1> USE DEF Inductive, SignOut, tables, history
<1>1. request[q] # None /\ request \in [Slots -> Request \cup {None}] /\ Reply(q, None, Keep, Keep)
  BY DEF Types, Waiting
<1>2. Types'
  <2>1. session' \in [Tokens -> [user : users, live : BOOLEAN] \cup {None}]
    BY DEF Types, TypeOK
  <2> QED
    BY <1>1, <2>1, ReplyTypes DEF Types, TypeOK
<1>3. CookiesAreTheirs'
  <2>1. Orderly
    BY DEF Orderly, Types, TypeOK
  <2> QED
    BY <1>1, <2>1, AnswerTheirs, SessionsAssumption
<1>4. IdentityLasts' /\ FinishedIsOver'
  BY DEF IdentityLasts, FinishedIsOver
<1> QED
  BY <1>2, <1>3, <1>4
\* Whoever is signed in is a user: the identity's if it has one already, and
\* otherwise one that was nobody's.
LEMMA SignInUsers ==
  ASSUME Types, IdentityLasts, NEW i \in Identities \cup {None}, NEW u \in Users, SignIn(i, u),
         signedIn' = signedIn \cup {<<i, u>>}
  PROVE  /\ u \in users' /\ users \subseteq users' /\ users' \subseteq Users
         /\ identity' \in [Identities -> users' \cup {None}]
         /\ IdentityLasts'
<1>1. users \subseteq Users /\ identity \in [Identities -> users \cup {None}]
  BY DEF Types, TypeOK
<1>2. /\ u \in users' /\ users \subseteq users' /\ users' \subseteq Users
      /\ identity' \in [Identities -> users' \cup {None}]
  BY <1>1, SessionsAssumption DEF SignIn, FreshUsers
<1>3. signedIn' \subseteq (Identities \cup {None}) \X users'
  BY <1>2 DEF IdentityLasts
<1>4. None \notin Users /\ None \notin Identities
  BY SessionsAssumption
<1>5. CASE i # None /\ identity[i] # None
  <2>1. u = identity[i] /\ users' = users /\ identity' = identity /\ i \in Identities
    BY <1>5 DEF SignIn
  <2>2. signedIn' = signedIn
    BY <1>5, <2>1 DEF IdentityLasts
  <2> QED
    BY <1>2, <2>1, <2>2 DEF IdentityLasts
<1>6. CASE i = None \/ identity[i] = None
  <2>1. u \in Users \ users
    BY <1>6 DEF SignIn, FreshUsers
  <2>2. \A k \in Identities : identity'[k] = IF k = i THEN u ELSE identity[k]
    BY <1>1, <1>4, <1>6 DEF SignIn
  <2>3. ASSUME NEW x \in signedIn', NEW k \in Identities
        PROVE  x[1] = k <=> identity'[k] = x[2]
    <3>1. CASE x = <<i, u>>
      BY <1>1, <1>4, <2>1, <2>2, <3>1
    <3>2. CASE x \in signedIn
      <4>1. x[2] \in users /\ x[2] # u /\ (x[1] = k <=> identity[k] = x[2])
        BY <2>1, <3>2 DEF IdentityLasts
      <4>2. k = i => identity[k] # x[2]
        BY <1>1, <1>4, <1>6, <4>1
      <4> QED
        BY <2>2, <4>1, <4>2
    <3> QED
      BY <3>1, <3>2
  <2>4. ASSUME NEW k \in Identities, identity'[k] # None
        PROVE  <<k, identity'[k]>> \in signedIn'
    BY <2>2, <2>4 DEF IdentityLasts
  <2> QED
    BY <1>2, <1>3, <2>3, <2>4 DEF IdentityLasts
<1> QED
  BY <1>5, <1>6

\* Somebody signed in at browser b, with the response going to b, leaves b with
\* cookies of its own, whether or not the session could be made.
LEMMA AdmitStep ==
  ASSUME Types, CookiesAreTheirs, IdentityLasts, NEW q \in Slots, request[q] # None,
         NEW i \in Identities \cup {None}, NEW f \in {None, Keep},
         Admit(q, i, request[q].browser, f)
  PROVE  /\ users' \subseteq Users
         /\ identity' \in [Identities -> users' \cup {None}]
         /\ session' \in [Tokens -> [user : users', live : BOOLEAN] \cup {None}]
         /\ was' \in [Browsers -> SUBSET Users]
         /\ request' \in [Slots -> Request \cup {None}]
         /\ \A p \in Slots : Waiting(p, "callback")' => Waiting(p, "callback") /\ p # q
         /\ \A p \in Slots : p # q => request'[p] = request[p]
         /\ CookiesAreTheirs' /\ IdentityLasts'
<1> DEFINE b == request[q].browser
<1>1. PICK u \in Users :
        /\ SignIn(i, u)
        /\ was' = [was EXCEPT ![b] = @ \cup {u}]
        /\ signedIn' = signedIn \cup {<<i, u>>}
        /\ \/ \E t \in FreshTokens : CreateSession(t, u) /\ Reply(q, t, Keep, f)
           \/ UNCHANGED session /\ Reply(q, Keep, Keep, f)
  BY DEF Admit
<1>2. /\ request \in [Slots -> Request \cup {None}] /\ b \in Browsers
      /\ session \in [Tokens -> [user : users, live : BOOLEAN] \cup {None}]
      /\ was \in [Browsers -> SUBSET Users]
  BY DEF Types, TypeOK, Request
<1>3. /\ u \in users' /\ users \subseteq users' /\ users' \subseteq Users
      /\ identity' \in [Identities -> users' \cup {None}]
      /\ IdentityLasts'
  BY <1>1, SignInUsers
<1>4. was' \in [Browsers -> SUBSET Users] /\ u \in was'[b] /\ jar' = jar /\ startedBy' = startedBy
  BY <1>1, <1>2 DEF Admit
<1>5. \A x \in Browsers : was[x] \subseteq was'[x]
  BY <1>1, <1>2
<1>6. CASE \E t \in FreshTokens : CreateSession(t, u) /\ Reply(q, t, Keep, f)
  <2>1. PICK t \in FreshTokens : CreateSession(t, u) /\ Reply(q, t, Keep, f)
    BY <1>6
  <2>2. t \in Tokens /\ session' = [session EXCEPT ![t] = [user |-> u, live |-> TRUE]]
    BY <2>1 DEF FreshTokens, CreateSession
  <2>3. session' \in [Tokens -> [user : users', live : BOOLEAN] \cup {None}]
    BY <1>2, <1>3, <2>2
  <2>4. Orderly
    BY <1>2, <1>4, <1>5, <2>2 DEF Orderly
  <2>5. session'[t].user \in was'[b]
    BY <1>2, <1>4, <2>2
  <2>6. CookiesAreTheirs'
    BY <1>4, <2>1, <2>2, <2>4, <2>5, AnswerTheirs, SessionsAssumption
  <2> QED
    BY <1>2, <1>3, <1>4, <2>1, <2>2, <2>3, <2>6, ReplyTypes
<1>7. CASE UNCHANGED session /\ Reply(q, Keep, Keep, f)
  <2>1. session' \in [Tokens -> [user : users', live : BOOLEAN] \cup {None}]
    BY <1>2, <1>3, <1>7
  <2>2. Orderly
    BY <1>2, <1>4, <1>5, <1>7 DEF Orderly
  <2>3. CookiesAreTheirs'
    BY <1>4, <1>7, <2>2, AnswerTheirs, SessionsAssumption
  <2> QED
    BY <1>2, <1>3, <1>4, <1>7, <2>1, <2>3, ReplyTypes
<1> QED
  BY <1>1, <1>6, <1>7

\* Signing in with a name or an account is at the browser that asked.
LEMMA DirectSignInStep ==
  ASSUME Inductive, NEW q \in Slots, NameSignIn(q) \/ AccountSignIn(q)
  PROVE  Inductive'
<1> USE DEF Inductive, NameSignIn, AccountSignIn
<1>1. request[q] # None /\ request[q].browser \in Browsers
  BY DEF Waiting, Types, Request
<1>2. PICK i \in Identities \cup {None} : Admit(q, i, request[q].browser, Keep)
  BY <1>1, SessionsAssumption DEF Identities, Providers
<1>3. /\ jar' = jar /\ startedBy' = startedBy /\ flows' = flows /\ finished' = finished
      /\ \A p \in Slots : p # q => request'[p] = request[p]
  BY <1>1, <1>2, AdmitStep DEF Admit
<1>4. Types'
  BY <1>1, <1>2, <1>3, AdmitStep DEF Types, TypeOK
<1>5. CookiesAreTheirs' /\ IdentityLasts'
  BY <1>1, <1>2, AdmitStep
<1>6. FinishedIsOver'
  BY <1>3 DEF FinishedIsOver
<1> QED
  BY <1>4, <1>5, <1>6
---------------------------------------------------------------------------
(* Flows *)

\* Taking a flow out leaves the others.
LEMMA TakeFlow ==
  ASSUME Types, NEW f \in States, flows' = Take(f), startedBy' = startedBy
  PROVE  /\ flows' \in [States -> {"none", "live", "expired"}]
         /\ IsFiniteSet(InProgress(flows')) /\ Cardinality(InProgress(flows')) <= MaxFlows
         /\ \A g \in InProgress(flows') : startedBy'[g] # None
<1>1. flows' \in [States -> {"none", "live", "expired"}]
  BY DEF Types, Take
<1>2. InProgress(flows') \subseteq InProgress(flows)
  BY DEF Types, Take, InProgress
<1> QED
  BY <1>1, <1>2, FewerFlows

\* The state in the cookie is one the browser started, so the person signed in
\* and the browser that gets the session are the ones the flow began with.
LEMMA FinishStep ==
  ASSUME Inductive, NEW q \in Slots, Finish(q)
  PROVE  Inductive'
<1> USE DEF Inductive, Finish
<1> DEFINE f == request[q].state
<1>1. /\ request[q] # None /\ f \in States /\ f = request[q].flow
      /\ request[q].browser \in Browsers
  BY DEF Types, Request, Waiting, Matches
<1>2. startedBy[f] = request[q].browser
  BY <1>1 DEF CookiesAreTheirs, Theirs
<1>3. <<"oidc", SubjectOf[startedBy[f]]>> \in Identities
  BY <1>1, <1>2, SessionsAssumption DEF Identities, Providers
<1>4. Admit(q, <<"oidc", SubjectOf[startedBy[f]]>>, request[q].browser, None)
  BY <1>2
<1>5. jar' = jar /\ startedBy' = startedBy /\ flows' = Take(f)
  BY <1>4 DEF Admit
<1>6. Types'
  BY <1>1, <1>3, <1>4, <1>5, AdmitStep, TakeFlow DEF Types, TypeOK
<1>7. CookiesAreTheirs' /\ IdentityLasts'
  BY <1>1, <1>3, <1>4, AdmitStep
<1>8. FinishedIsOver'
  <2>1. flows[f] = "live" /\ startedBy[f] # None
    BY <1>1, <1>2, SessionsAssumption DEF Matches
  <2>2. finished[f] = 0 /\ finished' = [finished EXCEPT ![f] = finished[f] + 1]
    BY <1>1, <2>1 DEF FinishedIsOver
  <2> QED
    BY <1>1, <1>5, <2>1, <2>2 DEF FinishedIsOver, Take, Types
<1> QED
  BY <1>6, <1>7, <1>8

\* A callback that fails uses the flow up.
LEMMA FinishFailsStep ==
  ASSUME Inductive, NEW q \in Slots, FinishFails(q)
  PROVE  Inductive'
<1> USE DEF Inductive, FinishFails, tables, history
<1> DEFINE f == request[q].state
<1>1. /\ request[q] # None /\ f \in States
      /\ request \in [Slots -> Request \cup {None}] /\ Reply(q, Keep, Keep, None)
  BY DEF Types, Waiting
<1>2. Types'
  BY <1>1, TakeFlow, ReplyTypes DEF Types, TypeOK
<1>3. CookiesAreTheirs'
  <2>1. Orderly
    BY DEF Orderly
  <2> QED
    BY <1>1, <2>1, AnswerTheirs, SessionsAssumption
<1>4. IdentityLasts' /\ FinishedIsOver'
  BY <1>1 DEF IdentityLasts, FinishedIsOver, Take, Types
<1> QED
  BY <1>2, <1>3, <1>4

\* Forgetting the expired flows.
LEMMA UnexpiredFlows ==
  ASSUME Types
  PROVE  /\ Unexpired \in [States -> {"none", "live", "expired"}]
         /\ InProgress(Unexpired) \subseteq InProgress(flows)
         /\ IsFiniteSet(InProgress(Unexpired)) /\ Cardinality(InProgress(Unexpired)) \in Nat
         /\ \A f \in States : flows[f] = "none" => Unexpired[f] = "none"
<1>1. /\ Unexpired \in [States -> {"none", "live", "expired"}]
      /\ InProgress(Unexpired) \subseteq InProgress(flows)
      /\ \A f \in States : flows[f] = "none" => Unexpired[f] = "none"
  BY DEF Types, Unexpired, InProgress
<1>2. IsFiniteSet(InProgress(Unexpired))
  BY <1>1, FS_Subset DEF Types
<1> QED
  BY <1>1, <1>2, FS_CardinalityType

\* One element more makes a finite set at most one larger.
LEMMA OneMore ==
  ASSUME NEW S, NEW x, IsFiniteSet(S)
  PROVE  IsFiniteSet(S \cup {x}) /\ Cardinality(S \cup {x}) <= Cardinality(S) + 1
<1>1. /\ IsFiniteSet(S \cup {x})
      /\ Cardinality(S \cup {x}) = IF x \in S THEN Cardinality(S) ELSE Cardinality(S) + 1
  BY FS_AddElement
<1>2. Cardinality(S) \in Nat
  BY FS_CardinalityType
<1> QED
  BY <1>1, <1>2

\* A new flow takes a state never used, and the last free place at most.
LEMMA StartStep ==
  ASSUME Inductive, NEW q \in Slots, Start(q)
  PROVE  Inductive'
<1> USE DEF Inductive, Start, tables
<1>1. PICK f \in States :
        /\ startedBy[f] = None
        /\ flows' = [Unexpired EXCEPT ![f] = "live"]
        /\ startedBy' = [startedBy EXCEPT ![f] = request[q].browser]
        /\ Reply(q, Keep, Keep, f)
  OBVIOUS
<1>2. /\ request[q] # None /\ request \in [Slots -> Request \cup {None}]
      /\ request[q].browser \in Browsers
  BY DEF Types, Waiting, Request
<1>3. startedBy' \in [States -> Browsers \cup {None}] /\ startedBy'[f] = request[q].browser
  BY <1>1, <1>2 DEF Types
<1>4. /\ flows' \in [States -> {"none", "live", "expired"}]
      /\ IsFiniteSet(InProgress(flows')) /\ Cardinality(InProgress(flows')) <= MaxFlows
      /\ \A g \in InProgress(flows') : startedBy'[g] # None
  <2>1. flows' \in [States -> {"none", "live", "expired"}]
    BY <1>1, UnexpiredFlows
  <2>2. InProgress(flows') = InProgress(Unexpired) \cup {f}
    BY <1>1, UnexpiredFlows DEF InProgress
  <2>3. /\ IsFiniteSet(InProgress(flows'))
        /\ Cardinality(InProgress(flows')) <= Cardinality(InProgress(Unexpired)) + 1
    <3> DEFINE S == InProgress(Unexpired)
    <3>1. IsFiniteSet(S)
      BY UnexpiredFlows
    <3> HIDE DEF S
    <3>2. IsFiniteSet(S \cup {f}) /\ Cardinality(S \cup {f}) <= Cardinality(S) + 1
      BY <3>1, OneMore
    <3> QED
      BY <2>2, <3>2 DEF S
  <2>4. Cardinality(InProgress(flows')) <= MaxFlows
    BY <2>3, UnexpiredFlows, FS_CardinalityType, SessionsAssumption
  <2>5. \A g \in InProgress(flows') : startedBy'[g] # None
    BY <1>1, <1>2, <2>2, UnexpiredFlows, SessionsAssumption DEF Types, TypeOK, InProgress
  <2> QED
    BY <2>1, <2>3, <2>4, <2>5
<1>5. Types'
  <2>1. /\ request' \in [Slots -> Request \cup {None}]
        /\ \A p \in Slots : Waiting(p, "callback")' => request'[p].state \in States
    BY ZenonT(30), <1>1, <1>2, ReplyTypes DEF Types
  <2>2. TypeOK'
    BY <1>4 DEF Types, TypeOK
  <2> QED
    BY <1>3, <1>4, <2>1, <2>2 DEF Types
<1>6. CookiesAreTheirs'
  <2>1. Orderly
    BY <1>1 DEF Orderly, Types
  <2> QED
    BY <1>1, <1>2, <1>3, <2>1, AnswerTheirs, SessionsAssumption
<1>7. IdentityLasts'
  BY DEF IdentityLasts
<1>8. FinishedIsOver'
  BY <1>1, <1>2, UnexpiredFlows, SessionsAssumption DEF FinishedIsOver, Types
<1> QED
  BY <1>5, <1>6, <1>7, <1>8

\* When there is no room, expired flows have gone all the same.
LEMMA StartRefusedStep ==
  ASSUME Inductive, NEW q \in Slots, StartRefused(q)
  PROVE  Inductive'
<1> USE DEF Inductive, StartRefused, tables, history
<1>1. /\ request[q] # None /\ request \in [Slots -> Request \cup {None}]
      /\ Reply(q, Keep, Keep, Keep)
  BY DEF Types, Waiting
<1>2. Types'
  BY <1>1, UnexpiredFlows, FewerFlows, ReplyTypes DEF Types, TypeOK
<1>3. CookiesAreTheirs'
  <2>1. Orderly
    BY DEF Orderly
  <2> QED
    BY <1>1, <2>1, AnswerTheirs, SessionsAssumption
<1>4. IdentityLasts' /\ FinishedIsOver'
  BY UnexpiredFlows DEF IdentityLasts, FinishedIsOver
<1> QED
  BY <1>2, <1>3, <1>4
---------------------------------------------------------------------------
(* Time, and all of it *)

\* Sessions expire but keep their user; flows expire, or go with the server.
LEMMA TimeStep ==
  ASSUME Inductive,
         \/ \E t \in Tokens : SessionExpires(t)
         \/ \E f \in States : FlowExpires(f)
         \/ Restart
  PROVE  Inductive'
<1> USE DEF Inductive, tables, history
<1>1. ASSUME NEW t \in Tokens, SessionExpires(t)
      PROVE  Inductive'
  <2> USE <1>1 DEF SessionExpires
  <2>1. session' \in [Tokens -> [user : users, live : BOOLEAN] \cup {None}]
    BY ZenonT(30) DEF Types, TypeOK
  <2>2. \A k \in Tokens : /\ session'[k] # None => session[k] # None
                          /\ session'[k] # None => session'[k].user = session[k].user
    BY DEF Types, TypeOK
  <2>3. Types'
    BY <2>1 DEF Types, TypeOK, Waiting
  <2>4. CookiesAreTheirs'
    BY <2>2 DEF CookiesAreTheirs, Theirs
  <2> QED
    BY <2>3, <2>4 DEF IdentityLasts, FinishedIsOver
<1>2. CASE (\E f \in States : FlowExpires(f)) \/ Restart
  <2> USE <1>2 DEF FlowExpires, Restart
  <2>1. flows' \in [States -> {"none", "live", "expired"}]
    BY DEF Types
  <2>2. \A f \in States : flows[f] = "none" => flows'[f] = "none"
    BY DEF Types
  <2>3. InProgress(flows') \subseteq InProgress(flows)
    BY <2>2 DEF InProgress
  <2>4. Types'
    BY <2>1, <2>3, FewerFlows DEF Types, TypeOK, Waiting
  <2>5. CookiesAreTheirs'
    BY DEF CookiesAreTheirs, Theirs
  <2> QED
    BY <2>2, <2>4, <2>5 DEF IdentityLasts, FinishedIsOver
<1> QED
  BY <1>1, <1>2

\* Every step keeps the inductive invariant.
LEMMA NextInductive == Inductive /\ [Next]_vars => Inductive'
<1> SUFFICES ASSUME Inductive, [Next]_vars
             PROVE  Inductive'
  OBVIOUS
<1>1. ASSUME NEW q \in Slots, NEW b \in Browsers, NEW k \in Kinds, Send(q, b, k, None)
      PROVE  Inductive'
  BY <1>1, SendStep DEF Kinds
<1>2. ASSUME NEW q \in Slots, NEW b \in Browsers, NEW f \in States, CallBack(q, b, f)
      PROVE  Inductive'
  BY <1>2, SendStep DEF CallBack
<1>3. ASSUME NEW q \in Slots, Handle(q)
      PROVE  Inductive'
  <2>1. CASE NameSignIn(q) \/ AccountSignIn(q)
    BY <2>1, DirectSignInStep
  <2>2. CASE PageAccepted(q) \/ PageRefused(q)
    BY <2>2, PageStep
  <2>3. CASE PageAdopted(q)
    BY <2>3, PageAdoptedStep
  <2>4. CASE SignOut(q)
    BY <2>4, SignOutStep
  <2>5. CASE Start(q)
    BY <2>5, StartStep
  <2>6. CASE StartRefused(q)
    BY <2>6, StartRefusedStep
  <2>7. CASE Finish(q)
    BY <2>7, FinishStep
  <2>8. CASE FinishFails(q)
    BY <2>8, FinishFailsStep
  <2> QED
    BY <1>3, <2>1, <2>2, <2>3, <2>4, <2>5, <2>6, <2>7, <2>8 DEF Handle
<1>4. ASSUME NEW q \in Slots, Arrive(q)
      PROVE  Inductive'
  BY <1>4, ArriveStep
<1>5. ASSUME NEW q \in Slots, Lose(q)
      PROVE  Inductive'
  BY <1>5, LoseStep
<1>6. CASE \/ \E t \in Tokens : SessionExpires(t)
           \/ \E f \in States : FlowExpires(f)
           \/ Restart
  BY <1>6, TimeStep
<1>7. CASE UNCHANGED vars
  BY <1>7 DEF vars, tables, history, Inductive, Types, TypeOK, CookiesAreTheirs, Theirs,
              IdentityLasts, FinishedIsOver, Waiting
<1> QED
  BY <1>1, <1>2, <1>3, <1>4, <1>5, <1>6, <1>7 DEF Next

\* So it holds throughout.
LEMMA Invariance == Spec => []Inductive
BY InitInductive, NextInductive, PTL DEF Spec

---------------------------------------------------------------------------
(* What follows from it *)

\* There are never more flows in progress than the limit, and each is known to
\* have been started: the check of Start and what follows it are one step.
THEOREM SessionsTypeCorrect == Spec => []TypeOK
<1>1. Inductive => TypeOK
  BY DEF Inductive, Types
<1> QED
  BY <1>1, Invariance, PTL

\* Whomever the server takes a browser for signed in at it, whatever order its
\* requests were handled and its responses arrived in: every cookie in the jar
\* or on the way is one the browser came by itself.
THEOREM BrowsersActAsThemselves == Spec => []ActsAsItself
<1>1. Inductive => ActsAsItself
  BY DEF Inductive, Types, TypeOK, CookiesAreTheirs, Theirs, ActsAsItself, Accepted, Jar
<1> QED
  BY <1>1, Invariance, PTL

\* A returning subject keeps their user and nobody else ever gets it: what an
\* identity is looked up by is the provider and the subject, and a user made for
\* one, or for a name, was nobody's before.
THEOREM IdentitiesKeepTheirUser == Spec => []OneUserPerIdentity
<1>1. ASSUME IdentityLasts
      PROVE  OneUserPerIdentity
  <2> SUFFICES ASSUME NEW x \in signedIn, NEW y \in signedIn
               PROVE  /\ x[1] = y[1] /\ x[1] # None => x[2] = y[2]
                      /\ x[1] # y[1] => x[2] # y[2]
    BY DEF OneUserPerIdentity
  <2>1. x[1] \in Identities \cup {None} /\ y[1] \in Identities \cup {None}
    BY <1>1 DEF IdentityLasts
  <2>2. \A k \in Identities : x[1] = k <=> identity[k] = x[2]
    BY <1>1 DEF IdentityLasts
  <2>3. \A k \in Identities : y[1] = k <=> identity[k] = y[2]
    BY <1>1 DEF IdentityLasts
  <2>4. x[1] \in Identities => /\ x[2] = identity[x[1]]
                               /\ y[1] = x[1] <=> identity[x[1]] = y[2]
    BY <2>2, <2>3
  <2>5. y[1] \in Identities => /\ y[2] = identity[y[1]]
                               /\ x[1] = y[1] <=> identity[y[1]] = x[2]
    BY <2>2, <2>3
  <2> QED
    BY <2>1, <2>4, <2>5
<1>2. Inductive => OneUserPerIdentity
  BY <1>1 DEF Inductive
<1> QED
  BY <1>2, Invariance, PTL

\* A flow signs in once: it is taken out before anything else, and its state is
\* never used again.
THEOREM FlowsSignInOnce == Spec => []FlowsFinishOnce
<1>1. Inductive => FlowsFinishOnce
  BY DEF Inductive, FinishedIsOver, FlowsFinishOnce
<1> QED
  BY <1>1, Invariance, PTL
=============================================================================
