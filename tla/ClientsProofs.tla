---------------------------- MODULE ClientsProofs ----------------------------
(***************************************************************************)
(* For any merchants, tenants, payments and bounds: what browsers are      *)
(* shown is theirs, whichever answers come last.                           *)
(***************************************************************************)
EXTENDS MCClients, FiniteSetTheorems, SequenceTheorems, TLAPS

(* The dashboard's session.                                                *)

\* An operation that will install a session read it whole: the token with its owner.
ReadsAreOwned ==
  \A task \in tasks : task.op \in {"authChange", "signIn"} =>
    task.read.token \in Session!Token /\ task.read = Session!Owned(task.read.token)

SessionInv ==
  /\ state \in [at : Session!Session, loading : BOOLEAN] /\ storage \in Session!Session
  /\ supabase \in Session!Account \cup {Session!None} /\ valid \subseteq Session!Token
  /\ tasks \subseteq Session!Task
  /\ ReadsAreOwned

LEMMA OwnedIsSession ==
  ASSUME NEW token \in Session!Token \cup {Session!NoToken}
  PROVE  /\ Session!Owned(token) \in Session!Session
         /\ Session!Owned(token).token = token
BY DEF Session!Owned, Session!Token, Session!NoToken, Session!Session, Session!Account, Session!None

LEMMA SessionInit == Session!Init => SessionInv
BY DEF Session!Init, SessionInv, ReadsAreOwned, Session!Session, Session!NoSession, Session!Task,
       Session!Token, Session!NoToken, Session!Account, Session!None

\* A change of the token that the property allows.
OwnerComes ==
  state'.at.token # state.at.token =>
    state'.at \in {Session!NoSession, Session!Owned(state'.at.token)}

\* Whatever is stored and shown at once is nobody's session or a token's with its owner.
LEMMA InstallFacts ==
  ASSUME SessionInv, NEW s \in Session!Session,
         s = Session!NoSession \/ s = Session!Owned(s.token),
         Session!saveToStorage(s), Session!setState(s)
  PROVE  /\ state' \in [at : Session!Session, loading : BOOLEAN] /\ storage' \in Session!Session
         /\ OwnerComes
BY DEF Session!saveToStorage, Session!setState, OwnerComes

LEMMA NobodyIsSession == Session!NoSession \in Session!Session
BY DEF Session!NoSession, Session!Session, Session!NoToken

\* An answer that ends an operation leaves the others as they were.
LEMMA EndsFacts ==
  ASSUME SessionInv, NEW task, NEW op, Session!Ends(task, op)
  PROVE  /\ task \in Session!Task /\ task.op = op
         /\ task.read \in Session!Session
         /\ tasks' \subseteq Session!Task /\ ReadsAreOwned'
         /\ op \in {"authChange", "signIn"} =>
              task.read.token \in Session!Token /\ task.read = Session!Owned(task.read.token)
BY DEF SessionInv, Session!Ends, ReadsAreOwned, Session!Task

\* An operation begins with what it read.
LEMMA AwaitFacts ==
  ASSUME SessionInv, NEW op \in {"authChange", "signIn", "refresh", "switch", "api"},
         NEW read \in Session!Session, Session!Await(op, read),
         op \in {"authChange", "signIn"} =>
           read.token \in Session!Token /\ read = Session!Owned(read.token)
  PROVE  tasks' \subseteq Session!Task /\ ReadsAreOwned'
BY DEF SessionInv, Session!Await, ReadsAreOwned, Session!Task

\* The operations that begin, and the page's mounting.
LEMMA SessionBegins ==
  ASSUME SessionInv,
         \/ Session!reload \/ Session!onAuthStateChange \/ Session!refresh
         \/ Session!switchEnvironment \/ Session!api
         \/ \E a \in Session!Account : Session!signIn(a)
  PROVE  SessionInv' /\ OwnerComes
<1>1. CASE Session!reload
  BY <1>1, NobodyIsSession DEF Session!reload, Session!mount, SessionInv, ReadsAreOwned, OwnerComes,
     Session!Task, Session!NoSession
<1>2. CASE Session!onAuthStateChange
  <2> DEFINE token == [owner |-> supabase, by |-> "supabase"]
  <2>1. token \in Session!Token
    BY <1>2 DEF Session!onAuthStateChange, SessionInv, Session!Token
  <2>2. Session!Await("authChange", Session!Owned(token))
    BY <1>2 DEF Session!onAuthStateChange
  <2> HIDE DEF token
  <2>3. tasks' \subseteq Session!Task /\ ReadsAreOwned'
    BY <2>1, <2>2, OwnedIsSession, AwaitFacts
  <2> QED
    BY <1>2, <2>3 DEF Session!onAuthStateChange, SessionInv, OwnerComes
<1>3. CASE Session!refresh \/ Session!switchEnvironment \/ Session!api
  <2>1. state.at \in Session!Session /\ storage \in Session!Session
    BY DEF SessionInv
  <2>2. tasks' \subseteq Session!Task /\ ReadsAreOwned'
    BY <1>3, <2>1, AwaitFacts DEF Session!refresh, Session!switchEnvironment, Session!api
  <2> QED
    BY <1>3, <2>2 DEF Session!refresh, Session!switchEnvironment, Session!api, SessionInv, OwnerComes
<1>4. CASE \E a \in Session!Account : Session!signIn(a)
  <2>1. PICK a \in Session!Account : Session!signIn(a)
    BY <1>4
  <2> DEFINE token == [owner |-> a, by |-> "ctrl"]
  <2>2. token \in Session!Token
    BY DEF Session!Token
  <2>3. Session!Await("signIn", Session!Owned(token))
    BY <2>1 DEF Session!signIn
  <2> HIDE DEF token
  <2>4. tasks' \subseteq Session!Task /\ ReadsAreOwned'
    BY <2>2, <2>3, OwnedIsSession, AwaitFacts
  <2> QED
    BY <2>1, <2>4 DEF Session!signIn, SessionInv, OwnerComes
<1> QED
  BY <1>1, <1>2, <1>3, <1>4

\* The answers to a sign-in, to a restored session and to a change Supabase reports.
LEMMA SessionInstalls ==
  ASSUME SessionInv, NEW task \in tasks,
         \/ Session!restoreSession(task) \/ Session!restoreFromSupabase(task)
         \/ Session!authStateChanged(task) \/ Session!login(task)
         \/ Session!loginWithSupabase(task) \/ Session!loginAsDemo(task)
         \/ Session!loginFails(task) \/ Session!signup(task)
  PROVE  SessionInv' /\ OwnerComes
<1> USE DEF Session!None
<1>0. task \in Session!Task /\ task.read \in Session!Session
  BY DEF SessionInv, Session!Task
<1>1. CASE Session!restoreSession(task)
  <2>1. PICK me \in Session!fetchMe(task.read.token) :
          \/ /\ me # Session!None /\ tasks' = tasks \ {task}
             /\ Session!saveToStorage(Session!Owned(task.read.token))
             /\ Session!setState(Session!Owned(task.read.token))
          \/ /\ me = Session!None
             /\ tasks' = (tasks \ {task}) \cup {[task EXCEPT !.op = "fallback"]}
             /\ UNCHANGED <<state, storage>>
    BY <1>1 DEF Session!restoreSession
  <2>2. [task EXCEPT !.op = "fallback"] \in Session!Task
        /\ [task EXCEPT !.op = "fallback"].op = "fallback"
    BY <1>0 DEF Session!Task
  <2>3. tasks' \subseteq Session!Task /\ ReadsAreOwned'
    BY <2>1, <2>2 DEF SessionInv, ReadsAreOwned
  <2>4. task.read.token \in Session!Token \cup {Session!NoToken}
    BY <1>0 DEF Session!Session
  <2>5. /\ state' \in [at : Session!Session, loading : BOOLEAN] /\ storage' \in Session!Session
        /\ OwnerComes
    BY <2>1, <2>4, OwnedIsSession, InstallFacts DEF SessionInv, OwnerComes
  <2> QED
    BY <1>1, <2>3, <2>5 DEF Session!restoreSession, SessionInv
<1>2. CASE Session!restoreFromSupabase(task)
  <2> DEFINE token == [owner |-> supabase, by |-> "supabase"]
             s == IF supabase = Session!None THEN Session!NoSession ELSE Session!Owned(token)
  <2>1. Session!Ends(task, "fallback") /\ Session!saveToStorage(s) /\ Session!setState(s)
    BY <1>2 DEF Session!restoreFromSupabase
  <2>2. supabase # Session!None => token \in Session!Token
    BY DEF SessionInv, Session!Token
  <2> HIDE DEF token
  <2>3. s \in Session!Session /\ (s = Session!NoSession \/ s = Session!Owned(s.token))
    BY <2>2, OwnedIsSession, NobodyIsSession
  <2> HIDE DEF s
  <2> QED
    BY <1>2, <2>1, <2>3, EndsFacts, InstallFacts DEF Session!restoreFromSupabase, SessionInv
<1>3. CASE Session!authStateChanged(task)
  BY <1>0, <1>3, EndsFacts, InstallFacts DEF Session!authStateChanged, SessionInv
<1>4. CASE Session!login(task)
  <2>1. Session!Ends(task, "signIn")
    BY <1>4 DEF Session!login
  <2>2. task.read.token \in Session!Token /\ task.read = Session!Owned(task.read.token)
    BY <2>1, EndsFacts
  <2>3. state' \in [at : Session!Session, loading : BOOLEAN] /\ storage' \in Session!Session /\ OwnerComes
    BY <1>0, <1>4, <2>2, InstallFacts DEF Session!login
  <2>4. supabase' \in Session!Account \cup {Session!None}
    BY <1>0, <1>4 DEF Session!login, SessionInv, Session!Session
  <2>5. valid' \subseteq Session!Token
    BY <1>4, <2>2 DEF Session!login, SessionInv
  <2> QED
    BY <1>4, <2>1, <2>3, <2>4, <2>5, EndsFacts DEF SessionInv
<1>5. CASE Session!loginWithSupabase(task)
  <2> DEFINE token == [owner |-> task.read.user, by |-> "supabase"]
  <2>1. /\ Session!Ends(task, "signIn") /\ Session!saveToStorage(Session!Owned(token))
        /\ Session!setState(Session!Owned(token)) /\ supabase' = task.read.user
        /\ UNCHANGED valid
    BY <1>5 DEF Session!loginWithSupabase
  <2>2. task.read.user \in Session!Account
    <3>1. task.read.token \in Session!Token /\ task.read = Session!Owned(task.read.token)
      BY <2>1, EndsFacts
    <3>2. task.read.token.owner \in Session!Account
      BY <3>1 DEF Session!Token, Session!Account
    <3> QED
      BY <3>1, <3>2 DEF Session!Owned
  <2>3. token \in Session!Token
    BY <2>2 DEF Session!Token
  <2> HIDE DEF token
  <2> QED
    BY <2>1, <2>2, <2>3, OwnedIsSession, EndsFacts, InstallFacts DEF SessionInv
<1>6. CASE Session!loginAsDemo(task)
  <2> DEFINE token == [owner |-> Demo, by |-> "browser"]
  <2>1. /\ Session!Ends(task, "signIn") /\ Session!saveToStorage(Session!Owned(token))
        /\ Session!setState(Session!Owned(token)) /\ UNCHANGED <<supabase, valid>>
    BY <1>6 DEF Session!loginAsDemo
  <2>2. token \in Session!Token
    BY DEF Session!Token
  <2> HIDE DEF token
  <2> QED
    BY <2>1, <2>2, OwnedIsSession, EndsFacts, InstallFacts DEF SessionInv
<1>7. CASE Session!loginFails(task) \/ Session!signup(task)
  BY <1>0, <1>7, EndsFacts DEF Session!loginFails, Session!signup, SessionInv, OwnerComes, Session!Session
<1> QED
  BY <1>1, <1>2, <1>3, <1>4, <1>5, <1>6, <1>7

\* The answers to operations of a user who is signed in, and what the server forgets.
LEMMA SessionAnswers ==
  ASSUME SessionInv,
         \/ \E task \in tasks : \/ Session!refreshed(task) \/ Session!environmentSwitched(task)
                                \/ Session!apiAnswered(task)
         \/ Session!logout \/ \E token \in valid : Session!tokenExpires(token)
  PROVE  SessionInv' /\ OwnerComes
<1>1. CASE \E task \in tasks : Session!refreshed(task)
  <2>1. PICK task \in tasks : Session!refreshed(task)
    BY <1>1
  <2>2. PICK me \in Session!fetchMe(task.read.token) :
          \/ /\ me # Session!None /\ Session!saveToStorage(Session!Owned(task.read.token))
             /\ state' = [state EXCEPT !.at.user = me, !.at.tenant = me]
          \/ me = Session!None /\ UNCHANGED <<state, storage>>
    BY <2>1 DEF Session!refreshed
  <2>3. task.read \in Session!Session /\ task.read.token \in Session!Token \cup {Session!NoToken}
    BY DEF SessionInv, Session!Task, Session!Session
  <2>4. me # Session!None => me \in Session!Account
    BY DEF Session!fetchMe, SessionInv, Session!Token, Session!Account
  <2>5. state.at \in Session!Session
    BY DEF SessionInv
  <2>6. state' \in [at : Session!Session, loading : BOOLEAN] /\ state'.at.token = state.at.token
    <3> DEFINE one == [state.at EXCEPT !.user = me]
               two == [one EXCEPT !.tenant = me]
    <3>1. CASE me # Session!None
      <4>1. one \in Session!Session /\ one.token = state.at.token
        BY <2>4, <2>5, <3>1 DEF Session!Session
      <4> HIDE DEF one
      <4>2. two \in Session!Session /\ two.token = state.at.token
        BY <2>4, <3>1, <4>1 DEF Session!Session
      <4>3. [state EXCEPT !.at = one] \in [at : Session!Session, loading : BOOLEAN]
            /\ [state EXCEPT !.at = one].at = one
        BY <4>1 DEF SessionInv
      <4>4. state' = [[state EXCEPT !.at = one] EXCEPT !.at = two]
        BY <2>2, <3>1, <4>3 DEF one
      <4> HIDE DEF two
      <4> QED
        BY <4>2, <4>3, <4>4
    <3>2. CASE me = Session!None
      BY <2>2, <3>2 DEF SessionInv
    <3> QED
      BY <3>1, <3>2
  <2>7. storage' \in Session!Session
    BY <2>2, <2>3, OwnedIsSession DEF SessionInv, Session!saveToStorage
  <2> QED
    BY <2>1, <2>6, <2>7, EndsFacts DEF Session!refreshed, SessionInv, OwnerComes
<1>2. CASE \E task \in tasks : Session!environmentSwitched(task)
  <2>1. PICK task \in tasks : Session!environmentSwitched(task)
    BY <1>2
  <2>2. task.read \in Session!Session /\ task.read.tenant \in Session!Account \cup {Session!None}
    BY DEF SessionInv, Session!Task, Session!Session
  <2>3. state' \in [at : Session!Session, loading : BOOLEAN] /\ state'.at.token = state.at.token
    BY <2>1, <2>2 DEF Session!environmentSwitched, SessionInv, Session!Session
  <2> QED
    BY <2>1, <2>2, <2>3, EndsFacts
       DEF Session!environmentSwitched, Session!saveToStorage, SessionInv, OwnerComes
<1>3. CASE \E task \in tasks : Session!apiAnswered(task)
  <2>1. PICK task \in tasks : Session!apiAnswered(task)
    BY <1>3
  <2> DEFINE other == [owner |-> supabase, by |-> "supabase"]
  <2>2. supabase # Session!None => other \in Session!Token
    BY DEF SessionInv, Session!Token
  <2> HIDE DEF other
  <2>3. \/ /\ tasks' = tasks \ {task} /\ UNCHANGED state
           /\ \/ UNCHANGED storage
              \/ supabase # Session!None /\ storage' = [storage EXCEPT !.token = other]
        \/ /\ storage' = Session!NoSession
           /\ state' = [at |-> Session!NoSession, loading |-> TRUE]
           /\ tasks' = {[op |-> "fallback", read |-> Session!NoSession]}
    BY <2>1 DEF Session!apiAnswered, other
  <2>4. UNCHANGED <<supabase, valid>>
    BY <2>1 DEF Session!apiAnswered
  <2>5. CASE /\ tasks' = tasks \ {task} /\ UNCHANGED state
             /\ \/ UNCHANGED storage
                \/ supabase # Session!None /\ storage' = [storage EXCEPT !.token = other]
    <3>1. storage' \in Session!Session
      BY <2>2, <2>5 DEF SessionInv, Session!Session
    <3> QED
      BY <2>4, <2>5, <3>1 DEF SessionInv, ReadsAreOwned, OwnerComes
  <2>6. CASE /\ storage' = Session!NoSession
             /\ state' = [at |-> Session!NoSession, loading |-> TRUE]
             /\ tasks' = {[op |-> "fallback", read |-> Session!NoSession]}
    BY <2>4, <2>6, NobodyIsSession DEF SessionInv, ReadsAreOwned, OwnerComes, Session!Task
  <2> QED
    BY <2>3, <2>5, <2>6
<1>4. CASE Session!logout
  <2>1. supabase' \in Session!Account \cup {Session!None} /\ valid' \subseteq Session!Token
    BY <1>4 DEF Session!logout, SessionInv
  <2> QED
    BY <1>4, <2>1, NobodyIsSession, InstallFacts DEF Session!logout, SessionInv, ReadsAreOwned
<1>5. CASE \E token \in valid : Session!tokenExpires(token)
  BY <1>5 DEF Session!tokenExpires, SessionInv, ReadsAreOwned, OwnerComes
<1> QED
  BY <1>1, <1>2, <1>3, <1>4, <1>5

LEMMA SessionStep ==
  ASSUME SessionInv, [Session!Next]_sessionVars PROVE SessionInv' /\ OwnerComes
<1>1. CASE Session!Next
  BY <1>1, SessionBegins, SessionInstalls, SessionAnswers DEF Session!Next
<1>2. CASE UNCHANGED sessionVars
  BY <1>2 DEF sessionVars, SessionInv, ReadsAreOwned, OwnerComes
<1> QED
  BY <1>1, <1>2

\* The dashboard's new token comes with its owner and the owner's tenant, for any
\* merchants, any number of overlapping operations and of reloads (auth.tsx).
THEOREM SessionTakesTheOwner == ClientsSpec => TokenComesWithItsOwner
<1> DEFINE Inv == part = "session" => SessionInv
           Step == [OwnerComes]_sessionVars
<1>1. ClientsInit => Inv
  BY SessionInit DEF ClientsInit
<1>2. Inv /\ [ClientsNext]_all => Inv' /\ Step
  <2> SUFFICES ASSUME Inv, [ClientsNext]_all PROVE Inv' /\ Step
    OBVIOUS
  <2>1. CASE part = "session" /\ Session!Next /\ UNCHANGED part
    BY <2>1, SessionStep
  <2>2. CASE part # "session" /\ UNCHANGED <<part, sessionVars>>
    BY <2>2
  <2>3. CASE UNCHANGED all
    BY <2>3, SessionStep DEF all
  <2> QED
    BY <2>1, <2>2, <2>3 DEF ClientsNext
<1>3. Step => [state'.at.token # state.at.token =>
                 state'.at \in {Session!NoSession, Session!Owned(state'.at.token)}]_Session!sessionVars
  BY DEF OwnerComes, sessionVars, Session!sessionVars
<1> HIDE DEF Inv, Step
<1> QED
  BY <1>1, <1>2, <1>3, PTL DEF ClientsSpec, TokenComesWithItsOwner, Session!TokenComesWithItsOwner

-----------------------------------------------------------------------------
(* The shop's page.                                                        *)

\* A report carries a link only as an answer, and then the one recorded for its payment;
\* what is executed has its opportunity.
AnswersAreTrue ==
  \A r \in reports :
    /\ r.link # Shop!None => r.link = r.of /\ r.of \in linked
    /\ r.at = "executing" => r.of \in known

\* The gateway took in hand what has an opportunity.
TakenIsKnown == \A p \in Payment : taken[p] = IF p \in known THEN 1 ELSE 0

ShopInv == Shop!TypeOK /\ AnswersAreTrue /\ TakenIsKnown /\ Shop!ShownLinkIsItsOwn

LEMMA ShopInit == Shop!Init => ShopInv
<1> SUFFICES ASSUME Shop!Init PROVE ShopInv
  OBVIOUS
<1>1. Shop!Idle \in 0..Shop!Idle /\ 0 \in 0..MaxFailures
  BY ShopAssumption DEF Shop!Idle
<1>2. /\ sdk \in [loaded : BOOLEAN, wrapped : BOOLEAN, looking : BOOLEAN, isConnected : BOOLEAN]
      /\ razorpay \in BOOLEAN /\ modal \in {"closed", "wrapped", "plain"}
  BY DEF Shop!Init
<1>3. /\ page \in [status : {"IDLE", "PROCESSING", "READY"}, opp : Payment \cup {Shop!None},
                   link : Payment \cup {Shop!None, Shop!DemoLink}, simulating : BOOLEAN]
      /\ reports \subseteq Shop!Report /\ polls \in [Payment -> 0..Shop!Idle]
  BY <1>1 DEF Shop!Init
<1>4. Shop!TypeOK
  BY <1>1, <1>2, <1>3 DEF Shop!Init, Shop!TypeOK
<1> QED
  BY <1>4, ShopAssumption
     DEF Shop!Init, ShopInv, AnswersAreTrue, TakenIsKnown, Shop!ShownLinkIsItsOwn

\* What the page and the script do without an answer of the gateway.
LEMMA ShopScripts ==
  ASSUME ShopInv,
         \/ Shop!scriptLoads \/ Shop!razorpayLoads \/ Shop!checkInterval \/ Shop!sendPing
         \/ Shop!getWebAppConnections \/ Shop!launchRazorpayCheckout \/ Shop!modalCloses
  PROVE  ShopInv'
<1>1. UNCHANGED <<page, reports, polls, known, linked, taken>>
  BY DEF Shop!scriptLoads, Shop!razorpayLoads, Shop!checkInterval, Shop!sendPing,
         Shop!getWebAppConnections, Shop!launchRazorpayCheckout, Shop!modalCloses
<1>2. /\ sdk' \in [loaded : BOOLEAN, wrapped : BOOLEAN, looking : BOOLEAN, isConnected : BOOLEAN]
      /\ razorpay' \in BOOLEAN /\ modal' \in {"closed", "wrapped", "plain"}
      /\ app' \in {"unknown", "ONLINE", "IDLE", "OFFLINE"} /\ failures' \in 0..MaxFailures
  <2> USE DEF ShopInv, Shop!TypeOK
  <2>1. CASE Shop!scriptLoads \/ Shop!checkInterval
    <3>1. PICK l \in BOOLEAN, w \in BOOLEAN, k \in BOOLEAN :
            sdk' = [sdk EXCEPT !.loaded = l, !.wrapped = w, !.looking = k]
      <4>1. Shop!wrapRazorpay = [sdk EXCEPT !.loaded = TRUE, !.wrapped = TRUE, !.looking = FALSE]
        BY DEF Shop!wrapRazorpay
      <4>2. [sdk EXCEPT !.loaded = TRUE, !.looking = TRUE]
              = [sdk EXCEPT !.loaded = TRUE, !.wrapped = sdk.wrapped, !.looking = TRUE]
        OBVIOUS
      <4>3. [sdk EXCEPT !.looking = FALSE]
              = [sdk EXCEPT !.loaded = sdk.loaded, !.wrapped = sdk.wrapped, !.looking = FALSE]
        OBVIOUS
      <4>4. sdk.loaded \in BOOLEAN /\ sdk.wrapped \in BOOLEAN
        OBVIOUS
      <4> QED
        BY <2>1, <4>1, <4>2, <4>3, <4>4 DEF Shop!scriptLoads, Shop!checkInterval
    <3> QED
      BY <2>1, <3>1 DEF Shop!scriptLoads, Shop!checkInterval
  <2>2. CASE Shop!sendPing
    <3>1. sdk' \in [loaded : BOOLEAN, wrapped : BOOLEAN, looking : BOOLEAN, isConnected : BOOLEAN]
      BY <2>2 DEF Shop!sendPing
    <3>2. app' \in {"unknown", "ONLINE", "IDLE", "OFFLINE"} /\ failures' \in 0..MaxFailures
      BY <2>2, ShopAssumption
         DEF Shop!sendPing, Shop!ping, Shop!upsertWebAppConnection, Shop!Fails
    <3> QED
      BY <2>2, <3>1, <3>2 DEF Shop!sendPing
  <2>3. CASE \/ Shop!razorpayLoads \/ Shop!getWebAppConnections
             \/ Shop!launchRazorpayCheckout \/ Shop!modalCloses
    BY <2>3 DEF Shop!razorpayLoads, Shop!getWebAppConnections, Shop!launchRazorpayCheckout,
       Shop!modalCloses
  <2> QED
    BY <2>1, <2>2, <2>3
<1> QED
  BY <1>1, <1>2 DEF ShopInv, Shop!TypeOK, AnswersAreTrue, TakenIsKnown, Shop!ShownLinkIsItsOwn

\* A payment fails, or is made to: what the page shows of an earlier one goes.
LEMMA ShopFailures ==
  ASSUME ShopInv, NEW p \in Payment, Shop!paymentFailed(p) \/ Shop!simulatePaymentFailure(p)
  PROVE  ShopInv'
<1>1. /\ page' \in [status : {"PROCESSING"}, opp : {Shop!None}, link : {Shop!None},
                    simulating : BOOLEAN]
  BY DEF ShopInv, Shop!TypeOK, Shop!paymentFailed, Shop!simulatePaymentFailure, Shop!Processing
<1>2. \A r \in reports' : r \in reports \/ (r \in Shop!Report /\ r.link = Shop!None
                                            /\ r.at \in {"sent", "refused"})
  BY DEF Shop!paymentFailed, Shop!simulatePaymentFailure, Shop!reportPaymentFailure, Shop!Report,
         Shop!Reporter, Shop!Listeners
<1>3. UNCHANGED <<sdk, razorpay, modal, polls, known, linked, taken, app, failures>>
  BY DEF Shop!paymentFailed, Shop!simulatePaymentFailure
<1> QED
  BY <1>1, <1>2, <1>3, ShopAssumption
     DEF ShopInv, Shop!TypeOK, AnswersAreTrue, TakenIsKnown, Shop!ShownLinkIsItsOwn

\* The page asks for a link, and a sweep makes one.
LEMMA ShopPolls ==
  ASSUME ShopInv, NEW p \in Payment, Shop!pollOpportunityStatus(p) \/ Shop!sweepExecutes(p)
  PROVE  ShopInv'
<1>1. CASE Shop!pollOpportunityStatus(p)
  <2>1. polls' \in [Payment -> 0..Shop!Idle] /\ failures' \in 0..MaxFailures
    BY <1>1, ShopAssumption
       DEF ShopInv, Shop!TypeOK, Shop!pollOpportunityStatus, Shop!Fails, Shop!Idle
  <2>2. \/ UNCHANGED page
        \/ p \in linked /\ page' = [page EXCEPT !.status = "READY", !.opp = p, !.link = p]
    BY <1>1 DEF Shop!pollOpportunityStatus, Shop!opportunityLink
  <2>3. page' \in [status : {"IDLE", "PROCESSING", "READY"}, opp : Payment \cup {Shop!None},
                   link : Payment \cup {Shop!None, Shop!DemoLink}, simulating : BOOLEAN]
    BY <2>2 DEF ShopInv, Shop!TypeOK
  <2>4. Shop!ShownLinkIsItsOwn'
    BY <1>1, <2>2 DEF ShopInv, Shop!TypeOK, Shop!ShownLinkIsItsOwn, Shop!pollOpportunityStatus
  <2> QED
    BY <1>1, <2>1, <2>3, <2>4
       DEF Shop!pollOpportunityStatus, ShopInv, Shop!TypeOK, AnswersAreTrue, TakenIsKnown
<1>2. CASE Shop!sweepExecutes(p)
  BY <1>2 DEF Shop!sweepExecutes, ShopInv, Shop!TypeOK, AnswersAreTrue, TakenIsKnown,
     Shop!ShownLinkIsItsOwn
<1> QED
  BY <1>1, <1>2

\* The page hears of an answer, a refusal or a call that failed.
LEMMA ShopHears ==
  ASSUME ShopInv, NEW r \in reports, Shop!answered(r) \/ Shop!refused(r) \/ Shop!unanswered(r)
  PROVE  ShopInv'
<1>1. r \in Shop!Report
  BY DEF ShopInv, Shop!TypeOK
<1>2. reports' \subseteq reports
      /\ UNCHANGED <<sdk, razorpay, modal, known, linked, taken, app>>
  BY DEF Shop!answered, Shop!refused, Shop!unanswered
<1>3. /\ page' \in [status : {"IDLE", "PROCESSING", "READY"}, opp : Payment \cup {Shop!None},
                    link : Payment \cup {Shop!None, Shop!DemoLink}, simulating : BOOLEAN]
      /\ polls' \in [Payment -> 0..Shop!Idle] /\ failures' \in 0..MaxFailures
      /\ Shop!ShownLinkIsItsOwn'
  <2>1. CASE Shop!answered(r)
    <3>1. page' \in [status : {"READY"}, opp : {r.of}, link : {r.link}, simulating : BOOLEAN]
      BY <2>1 DEF Shop!answered, Shop!handleIntercepted, ShopInv, Shop!TypeOK
    <3>2. polls' \in [Payment -> 0..Shop!Idle]
      BY <1>1, <2>1, ShopAssumption
         DEF Shop!answered, ShopInv, Shop!TypeOK, Shop!Idle, Shop!Report
    <3>3. r.of \in Payment /\ r.link \in Payment \cup {Shop!None}
      BY <1>1 DEF Shop!Report
    <3>4. r.link \in Payment => r.link = r.of /\ r.link \in linked
      BY ShopAssumption DEF ShopInv, AnswersAreTrue
    <3> QED
      BY <1>2, <2>1, <3>1, <3>2, <3>3, <3>4
         DEF Shop!answered, ShopInv, Shop!TypeOK, Shop!ShownLinkIsItsOwn
  <2>2. CASE Shop!refused(r) \/ Shop!unanswered(r)
    <3>1. UNCHANGED polls /\ failures' \in 0..MaxFailures
      BY <2>2, ShopAssumption
         DEF Shop!refused, Shop!unanswered, Shop!simulatedWebhook, Shop!Fails, ShopInv, Shop!TypeOK
    <3>2. \/ page' = page
          \/ page' = [page EXCEPT !.simulating = FALSE]
          \/ page' = [page EXCEPT !.simulating = FALSE, !.status = "READY",
                                  !.opp = Shop!None, !.link = Shop!DemoLink]
      BY <2>2 DEF Shop!refused, Shop!unanswered, Shop!simulatedWebhook
    <3> QED
      BY <1>2, <3>1, <3>2, ShopAssumption DEF ShopInv, Shop!TypeOK, Shop!ShownLinkIsItsOwn
  <2> QED
    BY <2>1, <2>2
<1> QED
  BY <1>2, <1>3 DEF ShopInv, Shop!TypeOK, AnswersAreTrue, TakenIsKnown

\* What the gateway does with a report.
LEMMA ShopGateway ==
  ASSUME ShopInv, NEW r \in reports,
         Shop!postEvent(r) \/ Shop!rejectEvent(r) \/ Shop!executed(r) \/ Shop!callFails(r)
  PROVE  ShopInv'
<1>1. r \in Shop!Report /\ r.of \in Payment
  BY DEF ShopInv, Shop!TypeOK, Shop!Report
<1>2. UNCHANGED <<sdk, razorpay, modal, page, polls>>
  BY DEF Shop!postEvent, Shop!rejectEvent, Shop!executed, Shop!callFails
<1>3. /\ app' \in {"unknown", "ONLINE", "IDLE", "OFFLINE"} /\ failures' \in 0..MaxFailures
  BY ShopAssumption DEF Shop!postEvent, Shop!rejectEvent, Shop!executed, Shop!callFails,
     Shop!upsertWebAppConnection, Shop!Fails, ShopInv, Shop!TypeOK
<1>4. /\ known \subseteq known' /\ known' \subseteq Payment
      /\ linked \subseteq linked' /\ linked' \subseteq known'
  BY <1>1 DEF Shop!postEvent, Shop!rejectEvent, Shop!executed, Shop!callFails, ShopInv,
     Shop!TypeOK, AnswersAreTrue
<1>5. PICK at \in {"executing", "answered", "refused", "lost"}, link \in {Shop!None, r.of} :
        /\ reports' = (reports \ {r}) \cup {[r EXCEPT !.at = at, !.link = link]}
        /\ link # Shop!None => r.of \in linked'
        /\ at = "executing" => r.of \in known'
  BY DEF Shop!postEvent, Shop!rejectEvent, Shop!executed, Shop!callFails, Shop!Becomes
<1>6. /\ [r EXCEPT !.at = at, !.link = link] \in Shop!Report
      /\ [r EXCEPT !.at = at, !.link = link].at = at /\ [r EXCEPT !.at = at, !.link = link].link = link
      /\ [r EXCEPT !.at = at, !.link = link].of = r.of
  BY <1>1 DEF Shop!Report
<1>7. reports' \subseteq Shop!Report /\ AnswersAreTrue'
  BY <1>4, <1>5, <1>6 DEF ShopInv, Shop!TypeOK, AnswersAreTrue
<1>8. taken' \in [Payment -> 0..2] /\ TakenIsKnown'
  <2>1. CASE Shop!postEvent(r) /\ ~Shop!deduplicated(r.of)
    BY <1>1, <2>1
       DEF Shop!postEvent, Shop!deduplicated, ShopInv, Shop!TypeOK, TakenIsKnown
  <2>2. CASE ~(Shop!postEvent(r) /\ ~Shop!deduplicated(r.of))
    BY <2>2 DEF Shop!postEvent, Shop!rejectEvent, Shop!executed, Shop!callFails, ShopInv,
       Shop!TypeOK, TakenIsKnown
  <2> QED
    BY <2>1, <2>2
<1> QED
  BY <1>2, <1>3, <1>4, <1>7, <1>8 DEF ShopInv, Shop!TypeOK, Shop!ShownLinkIsItsOwn

LEMMA ShopStep ==
  ASSUME ShopInv, [Shop!Next]_pageVars PROVE ShopInv'
<1>1. CASE Shop!Next
  BY <1>1, ShopScripts, ShopFailures, ShopPolls, ShopHears, ShopGateway DEF Shop!Next
<1>2. CASE UNCHANGED pageVars
  BY <1>2 DEF pageVars, ShopInv, Shop!TypeOK, AnswersAreTrue, TakenIsKnown, Shop!ShownLinkIsItsOwn
<1> QED
  BY <1>1, <1>2

\* The link the page shows is the one recorded for the opportunity it names, and a
\* failure reported twice is taken in hand once, for any payments and any number of
\* polls and of failing calls (demo-store/page.tsx, events.ts).
THEOREM ShopShowsItsOwn == ClientsSpec => []CheckoutIsHonest
<1> DEFINE Inv == part = "shop" => ShopInv
<1>1. ClientsInit => Inv
  BY ShopInit DEF ClientsInit
<1>2. Inv /\ [ClientsNext]_all => Inv'
  BY ShopStep DEF ClientsNext, all, pageVars
<1>3. Inv => CheckoutIsHonest
  <2> SUFFICES ASSUME ShopInv PROVE Shop!FailureIsTakenOnce
    BY DEF CheckoutIsHonest, ShopInv
  <2> QED
    BY DEF ShopInv, TakenIsKnown, Shop!FailureIsTakenOnce
<1> HIDE DEF Inv
<1> QED
  BY <1>1, <1>2, <1>3, PTL DEF ClientsSpec

-----------------------------------------------------------------------------
(* The live streams.                                                       *)

\* The map's entry is the Set the tenant's registered streams are in: a stream is in no
\* Set before it is registered, in the current one afterwards, and leaves it only when
\* its response has been closed.
OneSet ==
  \A c \in Live!Conn :
    /\ stream[c].st # "registered" =>
         stream[c].set = 0 /\ ~stream[c].member /\ stream[c].heard = {} /\ stream[c].due = {}
    /\ stream[c].st = "unused" => ~stream[c].here /\ ~stream[c].closed
    /\ stream[c].here => ~stream[c].closed
    /\ stream[c].st = "registered" /\ ~stream[c].closed => stream[c].member
    /\ stream[c].member => stream[c].set # 0 /\ stream[c].set = tenantClients[stream[c].tenant]

LiveInv == Live!TypeOK /\ OneSet /\ Live!StreamsHear /\ Live!ClientHoldsOneStream

LEMMA LiveInit == Live!Init => LiveInv
<1> SUFFICES ASSUME Live!Init PROVE LiveInv
  OBVIOUS
<1>1. (CHOOSE t \in Tenant : TRUE) \in Tenant /\ 0 \in 0..MaxConn /\ 0 \in 0..Quiet
  BY LiveAssumption
<1>2. Live!TypeOK
  <2>1. \A c \in Live!Conn : stream[c] \in Live!Streams
    BY <1>1 DEF Live!Init, Live!Streams
  <2> QED
    BY <1>1, <2>1 DEF Live!Init, Live!TypeOK, Live!NoConn
<1>3. OneSet /\ Live!StreamsHear
  BY DEF Live!Init, OneSet, Live!StreamsHear
<1>4. Live!ClientHoldsOneStream
  BY DEF Live!Init, Live!ClientHoldsOneStream
<1> QED
  BY <1>2, <1>3, <1>4 DEF LiveInv

LEMMA SameCardinality == \A S : Live!Cardinality(S) = Cardinality(S)
BY DEF Live!Cardinality, Cardinality, Live!IsFiniteSet, IsFiniteSet

\* The number of a new Set is within the bound: the stream that asks for it is in none.
LEMMA NewSetIsBounded ==
  ASSUME LiveInv, NEW c \in Live!Conn, stream[c].st # "registered", NEW t \in Tenant
  PROVE  Live!newSet(t) \in 1..MaxConn
<1> DEFINE D == {d \in Live!Conn : stream[d].tenant = t /\ stream[d].set > 0}
<1>1. IsFiniteSet(1..MaxConn) /\ Cardinality(1..MaxConn) = MaxConn
  BY LiveAssumption, FS_Interval
<1>2. c \notin D /\ D \subseteq (1..MaxConn) \ {c} /\ c \in 1..MaxConn
  BY DEF LiveInv, OneSet, Live!Conn
<1>3. IsFiniteSet((1..MaxConn) \ {c}) /\ Cardinality((1..MaxConn) \ {c}) = MaxConn - 1
  BY <1>1, <1>2, FS_RemoveElement
<1>4. Cardinality(D) <= MaxConn - 1 /\ IsFiniteSet(D)
  BY <1>2, <1>3, FS_Subset
<1>5. Cardinality(D) \in Nat
  BY <1>4, FS_CardinalityType
<1> QED
  <2>1. Live!newSet(t) = 1 + Cardinality(D)
    BY SameCardinality DEF Live!newSet
  <2> HIDE DEF D
  <2> QED
    BY <1>4, <1>5, <2>1, LiveAssumption

\* A stream is opened: it is in no Set and has heard nothing.
LEMMA OpenedFacts ==
  ASSUME LiveInv, NEW c \in Live!Conn, stream[c].st = "unused", NEW t \in Tenant,
         NEW who \in {"client", "other"}
  PROVE  LET s == Live!opened(c, t, who) IN
         /\ s \in [Live!Conn -> Live!Streams]
         /\ \A d \in Live!Conn \ {c} : s[d] = stream[d]
         /\ s[c].st = "authenticating" /\ s[c].here /\ s[c].by = who /\ s[c].tenant = t
         /\ s[c].set = 0 /\ ~s[c].member /\ s[c].heard = {} /\ s[c].due = {} /\ ~s[c].closed
<1> DEFINE new == [stream[c] EXCEPT !.st = "authenticating", !.tenant = t, !.by = who, !.here = TRUE]
<1>1. stream[c] \in Live!Streams /\ stream \in [Live!Conn -> Live!Streams]
  BY DEF LiveInv, Live!TypeOK
<1>2. /\ new \in Live!Streams
      /\ new.st = "authenticating" /\ new.here /\ new.by = who /\ new.tenant = t
      /\ new.set = stream[c].set /\ new.member = stream[c].member
      /\ new.heard = stream[c].heard /\ new.due = stream[c].due /\ new.closed = stream[c].closed
  BY <1>1 DEF Live!Streams
<1>3. Live!opened(c, t, who) = [stream EXCEPT ![c] = new]
  BY DEF Live!opened
<1> HIDE DEF new
<1>4. /\ stream[c].set = 0 /\ ~stream[c].member /\ stream[c].heard = {} /\ stream[c].due = {}
      /\ ~stream[c].closed
  BY DEF LiveInv, OneSet
<1> QED
  BY <1>1, <1>2, <1>3, <1>4

\* The client gives its stream up: nothing of the streams changes but that the browser
\* no longer reads that one.
LEMMA CleanupFacts ==
  ASSUME LiveInv
  PROVE  LET s == Live!cleanupSource(stream) IN
         /\ s \in [Live!Conn -> Live!Streams]
         /\ \A d \in Live!Conn \ {sse.source} : s[d] = stream[d]
         /\ sse.source # Live!NoConn =>
              /\ s[sse.source].st = stream[sse.source].st /\ ~s[sse.source].here
              /\ s[sse.source].tenant = stream[sse.source].tenant
              /\ s[sse.source].by = stream[sse.source].by
              /\ s[sse.source].closed = stream[sse.source].closed
              /\ s[sse.source].set = stream[sse.source].set
              /\ s[sse.source].member = stream[sse.source].member
              /\ s[sse.source].heard = stream[sse.source].heard
              /\ s[sse.source].due = stream[sse.source].due
<1>1. stream \in [Live!Conn -> Live!Streams] /\ sse.source \in Live!Conn \cup {Live!NoConn}
  BY DEF LiveInv, Live!TypeOK
<1>2. CASE sse.source = Live!NoConn
  BY <1>1, <1>2 DEF Live!cleanupSource
<1>3. CASE sse.source # Live!NoConn
  <2>1. stream[sse.source] \in Live!Streams
    BY <1>1, <1>3
  <2>2. /\ [stream[sse.source] EXCEPT !.here = FALSE] \in Live!Streams
    BY <2>1 DEF Live!Streams
  <2>3. Live!cleanupSource(stream) =
          [stream EXCEPT ![sse.source] = [stream[sse.source] EXCEPT !.here = FALSE]]
    BY <1>3 DEF Live!cleanupSource
  <2> QED
    BY <1>1, <1>3, <2>1, <2>2, <2>3 DEF Live!Streams
<1> QED
  BY <1>2, <1>3

\* Another browser's stream comes, or goes without a word.
LEMMA OtherBrowserInv ==
  ASSUME LiveInv, NEW c \in Live!Conn,
         Live!browserLeaves(c) \/ \E t \in Tenant : Live!otherBrowser(c, t)
  PROVE  LiveInv'
<1>1. CASE Live!browserLeaves(c)
  <2>1. stream[c] \in Live!Streams /\ stream \in [Live!Conn -> Live!Streams]
    BY DEF LiveInv, Live!TypeOK
  <2>2. [stream[c] EXCEPT !.here = FALSE] \in Live!Streams
    BY <2>1 DEF Live!Streams
  <2>3. stream' = [stream EXCEPT ![c] = [stream[c] EXCEPT !.here = FALSE]]
        /\ UNCHANGED <<tenantClients, sse, notices>>
    BY <1>1 DEF Live!browserLeaves
  <2>4. /\ stream' \in [Live!Conn -> Live!Streams]
        /\ \A d \in Live!Conn : /\ stream'[d].st = stream[d].st /\ stream'[d].tenant = stream[d].tenant
                                /\ stream'[d].by = stream[d].by /\ stream'[d].closed = stream[d].closed
                                /\ stream'[d].set = stream[d].set /\ stream'[d].member = stream[d].member
                                /\ stream'[d].heard = stream[d].heard /\ stream'[d].due = stream[d].due
                                /\ stream'[d].here => stream[d].here
    BY <2>1, <2>2, <2>3 DEF Live!Streams
  <2>5. Live!TypeOK' /\ Live!ClientHoldsOneStream'
    BY <2>3, <2>4 DEF LiveInv, Live!TypeOK, Live!ClientHoldsOneStream
  <2>6. OneSet' /\ Live!StreamsHear'
    BY <2>3, <2>4 DEF LiveInv, OneSet, Live!StreamsHear
  <2> QED
    BY <2>5, <2>6 DEF LiveInv
<1>2. CASE \E t \in Tenant : Live!otherBrowser(c, t)
  <2>1. PICK t \in Tenant : Live!otherBrowser(c, t)
    BY <1>2
  <2>2. stream[c].st = "unused" /\ stream' = Live!opened(c, t, "other")
        /\ UNCHANGED <<tenantClients, sse, notices>>
    BY <2>1 DEF Live!otherBrowser, Live!unused
  <2>3. /\ stream' \in [Live!Conn -> Live!Streams]
        /\ \A d \in Live!Conn \ {c} : stream'[d] = stream[d]
        /\ stream'[c].st = "authenticating" /\ stream'[c].by = "other"
        /\ stream'[c].set = 0 /\ ~stream'[c].member /\ stream'[c].heard = {}
        /\ stream'[c].due = {} /\ ~stream'[c].closed
    BY <2>2, OpenedFacts
  <2>4. Live!TypeOK' /\ Live!ClientHoldsOneStream'
    BY <2>2, <2>3 DEF LiveInv, Live!TypeOK, Live!ClientHoldsOneStream
  <2>5. OneSet'
    <3> SUFFICES ASSUME NEW d \in Live!Conn PROVE OneSet!(d)'
      BY DEF OneSet
    <3> QED
      BY <2>2, <2>3 DEF LiveInv, OneSet
  <2>6. Live!StreamsHear'
    <3> SUFFICES ASSUME NEW d \in Live!Conn PROVE Live!StreamsHear!(d)'
      BY DEF Live!StreamsHear
    <3>1. CASE d = c
      BY <2>3, <3>1
    <3>2. CASE d # c
      BY <2>2, <2>3, <3>2 DEF LiveInv, Live!StreamsHear
    <3> QED
      BY <3>1, <3>2
  <2> QED
    BY <2>4, <2>5, <2>6 DEF LiveInv
<1> QED
  BY <1>1, <1>2

\* A response joins the tenant's Set: the one the map has, or a new one when none of the
\* tenant's streams is in any.
LEMMA RegisterInv ==
  ASSUME LiveInv, NEW c \in Live!Conn, Live!registerClient(c)
  PROVE  LiveInv'
<1> DEFINE t == stream[c].tenant
           g == IF tenantClients[t] # 0 THEN tenantClients[t] ELSE Live!newSet(t)
           new == [stream[c] EXCEPT !.st = "registered", !.set = g, !.member = TRUE]
<1>1. /\ stream[c] \in Live!Streams /\ stream \in [Live!Conn -> Live!Streams] /\ t \in Tenant
      /\ tenantClients \in [Tenant -> 0..MaxConn]
  BY DEF LiveInv, Live!TypeOK, Live!Streams
<1>2. stream[c].st = "authenticating" /\ UNCHANGED notices
  BY DEF Live!registerClient
<1>3. g \in 0..MaxConn /\ g # 0
  BY <1>1, <1>2, NewSetIsBounded, LiveAssumption
<1>4. tenantClients' = [tenantClients EXCEPT ![t] = g]
  BY DEF Live!registerClient
<1>5. stream' = [stream EXCEPT ![c] = new]
  BY <1>1 DEF Live!registerClient
<1>6. sse' = IF sse.source = c /\ stream[c].here
               THEN [sse EXCEPT !.state = "CONNECTED", !.heartbeatTimer = TRUE, !.quiet = 0]
               ELSE sse
  BY DEF Live!registerClient
<1>7. tenantClients[t] # 0 => g = tenantClients[t]
  OBVIOUS
<1> HIDE DEF g
<1>8. /\ new \in Live!Streams /\ new.st = "registered" /\ new.set = g /\ new.member
      /\ new.tenant = t /\ new.by = stream[c].by /\ new.here = stream[c].here
      /\ new.closed = stream[c].closed /\ new.heard = stream[c].heard /\ new.due = stream[c].due
  BY <1>1, <1>3 DEF Live!Streams
<1> HIDE DEF new
<1>9. /\ stream' \in [Live!Conn -> Live!Streams] /\ stream'[c] = new
      /\ \A d \in Live!Conn \ {c} : stream'[d] = stream[d]
  BY <1>1, <1>5, <1>8
<1>10. /\ sse' \in [state : {"DISCONNECTED", "CONNECTING", "CONNECTED", "RECONNECTING"},
                    source : Live!Conn \cup {Live!NoConn}, reconnectTimer : BOOLEAN,
                    heartbeatTimer : BOOLEAN, quiet : 0..Quiet]
       /\ sse'.source = sse.source /\ sse'.reconnectTimer = sse.reconnectTimer
       /\ \/ UNCHANGED sse
          \/ sse.source = c /\ sse'.state = "CONNECTED" /\ sse'.heartbeatTimer
  <2>1. 0 \in 0..Quiet
    BY LiveAssumption
  <2>2. CASE sse.source = c /\ stream[c].here
    <3>1. sse' = [sse EXCEPT !.state = "CONNECTED", !.heartbeatTimer = TRUE, !.quiet = 0]
      BY <1>6, <2>2
    <3> QED
      BY <2>1, <2>2, <3>1 DEF LiveInv, Live!TypeOK
  <2>3. CASE ~(sse.source = c /\ stream[c].here)
    BY <1>6, <2>3 DEF LiveInv, Live!TypeOK
  <2> QED
    BY <2>2, <2>3
<1>11. /\ tenantClients' \in [Tenant -> 0..MaxConn] /\ tenantClients'[t] = g
       /\ \A u \in Tenant \ {t} : tenantClients'[u] = tenantClients[u]
  BY <1>1, <1>3, <1>4
<1>12. Live!TypeOK'
  BY <1>2, <1>9, <1>10, <1>11 DEF LiveInv, Live!TypeOK
<1>13. OneSet'
  <2> SUFFICES ASSUME NEW d \in Live!Conn
               PROVE  OneSet!(d)'
    BY DEF OneSet
  <2>1. stream[d] \in Live!Streams /\ stream[d].tenant \in Tenant
    BY <1>1 DEF Live!Streams
  <2>2. CASE d = c
    BY <1>2, <1>3, <1>8, <1>9, <1>11, <2>2 DEF LiveInv, OneSet
  <2>3. CASE d # c
    BY <1>7, <1>9, <1>11, <2>1, <2>3 DEF LiveInv, OneSet
  <2> QED
    BY <2>2, <2>3
<1>14. Live!StreamsHear'
  BY <1>2, <1>8, <1>9 DEF LiveInv, Live!StreamsHear
<1>15. Live!ClientHoldsOneStream'
  <2>1. c # Live!NoConn
    BY DEF Live!Conn, Live!NoConn
  <2> QED
    BY <1>8, <1>9, <1>10, <2>1 DEF LiveInv, Live!ClientHoldsOneStream
<1> QED
  BY <1>12, <1>13, <1>14, <1>15 DEF LiveInv

\* A response is closed: the Set its cleanup captured is the one the map has, so the
\* entry goes with the last stream of the tenant and not before.
LEMMA OnCloseInv ==
  ASSUME LiveInv, NEW c \in Live!Conn, Live!onClose(c)
  PROVE  LiveInv'
<1> DEFINE t == stream[c].tenant
           stays == stream[c].member /\ stream[c].st # "registered"
           new == [stream[c] EXCEPT !.closed = TRUE, !.member = stays]
<1>1. /\ stream[c] \in Live!Streams /\ stream \in [Live!Conn -> Live!Streams] /\ t \in Tenant
      /\ tenantClients \in [Tenant -> 0..MaxConn]
  BY DEF LiveInv, Live!TypeOK, Live!Streams
<1>2. /\ stream[c].st \in {"authenticating", "registered"} /\ ~stream[c].here /\ ~stream[c].closed
      /\ stream' = [stream EXCEPT ![c] = new] /\ UNCHANGED <<sse, notices>>
  BY <1>1 DEF Live!onClose
<1>3. ~stays
  BY DEF LiveInv, OneSet
<1>4. stays \in BOOLEAN
  OBVIOUS
<1> HIDE DEF stays
<1>5. /\ new \in Live!Streams /\ new.st = stream[c].st /\ new.set = stream[c].set /\ ~new.member
      /\ new.tenant = t /\ new.by = stream[c].by /\ ~new.here /\ new.closed
      /\ new.heard = stream[c].heard /\ new.due = stream[c].due
  BY <1>1, <1>2, <1>3, <1>4 DEF Live!Streams
<1> HIDE DEF new
<1>6. /\ stream' \in [Live!Conn -> Live!Streams] /\ stream'[c] = new
      /\ \A d \in Live!Conn \ {c} : stream'[d] = stream[d]
  BY <1>1, <1>2, <1>5
<1>7. \/ UNCHANGED tenantClients
      \/ /\ tenantClients' = [tenantClients EXCEPT ![t] = 0]
         /\ stream[c].st = "registered" /\ Live!ofSet(t, stream[c].set, stream) \ {c} = {}
  BY DEF Live!onClose, Live!cleanup
<1>8. tenantClients' \in [Tenant -> 0..MaxConn]
  BY <1>1, <1>7, LiveAssumption
<1>9. Live!TypeOK'
  BY <1>2, <1>6, <1>8 DEF LiveInv, Live!TypeOK
<1>10. OneSet'
  <2> SUFFICES ASSUME NEW d \in Live!Conn
               PROVE  OneSet!(d)'
    BY DEF OneSet
  <2>1. stream[d] \in Live!Streams /\ stream[d].tenant \in Tenant
    BY <1>1 DEF Live!Streams
  <2>2. CASE d = c
    BY <1>2, <1>5, <1>6, <2>2 DEF LiveInv, OneSet
  <2>3. CASE d # c /\ UNCHANGED tenantClients
    BY <1>6, <2>3 DEF LiveInv, OneSet
  <2>4. CASE d # c /\ ~UNCHANGED tenantClients
    <3>1. stream[c].member /\ stream[c].set = tenantClients[t]
      BY <1>2, <1>7, <2>4 DEF LiveInv, OneSet
    <3>2. stream[d].member => stream[d].tenant # t
      BY <1>7, <2>4, <3>1 DEF LiveInv, OneSet, Live!ofSet
    <3> QED
      BY <1>1, <1>6, <1>7, <2>1, <2>4, <3>2 DEF LiveInv, OneSet
  <2> QED
    BY <2>2, <2>3, <2>4
<1>11. Live!StreamsHear' /\ Live!ClientHoldsOneStream'
  BY <1>2, <1>5, <1>6 DEF LiveInv, Live!StreamsHear, Live!ClientHoldsOneStream
<1> QED
  BY <1>9, <1>10, <1>11 DEF LiveInv

SseState == [state : {"DISCONNECTED", "CONNECTING", "CONNECTED", "RECONNECTING"},
             source : Live!Conn \cup {Live!NoConn}, reconnectTimer : BOOLEAN,
             heartbeatTimer : BOOLEAN, quiet : 0..Quiet]

\* A message goes to the tenant's Set, and every stream of the tenant that is still read
\* is in it.
LEMMA BroadcastInv ==
  ASSUME LiveInv, NEW n \in Notice, NEW t \in Tenant, Live!broadcastToTenant(n, t)
  PROVE  LiveInv'
<1> DEFINE to == Live!ofSet(t, tenantClients[t], stream)
           heard(c) == IF c \in to /\ stream[c].here THEN stream[c].heard \cup {n} ELSE stream[c].heard
           due(c) == IF stream[c].st = "registered" /\ stream[c].tenant = t /\ stream[c].here
                       THEN stream[c].due \cup {n} ELSE stream[c].due
<1>1. stream \in [Live!Conn -> Live!Streams] /\ \A c \in Live!Conn : stream[c] \in Live!Streams
  BY DEF LiveInv, Live!TypeOK
<1>2. /\ notices[n].st = "none" /\ UNCHANGED tenantClients
      /\ notices' = [notices EXCEPT ![n] = [st |-> "unread", tenant |-> t]]
      /\ sse' = IF sse.source \in to THEN [sse EXCEPT !.quiet = 0] ELSE sse
      /\ stream' = [c \in Live!Conn |-> [stream[c] EXCEPT !.heard = heard(c), !.due = due(c)]]
  BY DEF Live!broadcastToTenant, Live!insertNotification
<1>3. \A c \in Live!Conn : (c \in to /\ stream[c].here)
                             <=> (stream[c].st = "registered" /\ stream[c].tenant = t /\ stream[c].here)
  BY DEF Live!ofSet, LiveInv, OneSet
<1>4. \A c \in Live!Conn : heard(c) = due(c)
  BY <1>3 DEF LiveInv, Live!StreamsHear
<1>5. \A c \in Live!Conn : heard(c) \subseteq Notice /\ due(c) \subseteq Notice
                           /\ heard(c) \subseteq stream[c].heard \cup {n}
                           /\ (heard(c) # stream[c].heard => stream[c].tenant = t)
                           /\ (stream[c].st # "registered" => heard(c) = stream[c].heard)
  BY <1>1, <1>3, <1>4 DEF Live!Streams
<1> HIDE DEF heard, due, to
<1>6. \A c \in Live!Conn :
        /\ stream'[c] \in Live!Streams
        /\ stream'[c].st = stream[c].st /\ stream'[c].tenant = stream[c].tenant
        /\ stream'[c].by = stream[c].by /\ stream'[c].closed = stream[c].closed
        /\ stream'[c].set = stream[c].set /\ stream'[c].member = stream[c].member
        /\ stream'[c].here = stream[c].here
        /\ stream'[c].heard = heard(c) /\ stream'[c].due = due(c)
  <2> SUFFICES ASSUME NEW c \in Live!Conn
               PROVE  LET r == [stream[c] EXCEPT !.heard = heard(c), !.due = due(c)] IN
                      /\ r \in Live!Streams
                      /\ r.st = stream[c].st /\ r.tenant = stream[c].tenant
                      /\ r.by = stream[c].by /\ r.closed = stream[c].closed
                      /\ r.set = stream[c].set /\ r.member = stream[c].member
                      /\ r.here = stream[c].here
                      /\ r.heard = heard(c) /\ r.due = due(c)
    BY <1>2
  <2> QED
    BY <1>1, <1>5 DEF Live!Streams
<1>7. stream' \in [Live!Conn -> Live!Streams]
  BY <1>2, <1>6
<1>8. /\ sse' \in SseState
      /\ sse'.source = sse.source /\ sse'.reconnectTimer = sse.reconnectTimer
      /\ sse'.state = sse.state /\ sse'.heartbeatTimer = sse.heartbeatTimer
  <2>1. 0 \in 0..Quiet
    BY LiveAssumption
  <2>2. sse \in SseState
    BY DEF SseState, LiveInv, Live!TypeOK
  <2>3. CASE sse' = [sse EXCEPT !.quiet = 0]
    BY <2>1, <2>2, <2>3 DEF SseState
  <2> QED
    BY <1>2, <2>2, <2>3
<1>9. notices' \in [Notice -> [st : {"none", "unread", "read"}, tenant : Tenant]]
      /\ notices'[n].st = "unread" /\ notices'[n].tenant = t
      /\ \A m \in Notice \ {n} : notices'[m] = notices[m]
  BY <1>2 DEF LiveInv, Live!TypeOK
<1>10. Live!TypeOK'
  BY <1>2, <1>7, <1>8, <1>9 DEF LiveInv, Live!TypeOK, SseState
<1>11. OneSet'
  <2> SUFFICES ASSUME NEW d \in Live!Conn PROVE OneSet!(d)'
    BY DEF OneSet
  <2>1. UNCHANGED tenantClients
    BY <1>2
  <2>2. OneSet!(d)
    BY DEF LiveInv, OneSet
  <2>3. stream[d].st # "registered" => stream'[d].heard = {} /\ stream'[d].due = {}
    BY <1>4, <1>5, <1>6, <2>2
  <2> QED
    BY <1>6, <2>1, <2>2, <2>3
<1>12. Live!StreamsHear'
  <2> SUFFICES ASSUME NEW d \in Live!Conn PROVE Live!StreamsHear!(d)'
    BY DEF Live!StreamsHear
  <2>1. stream'[d].heard = stream'[d].due /\ stream'[d].tenant = stream[d].tenant
    BY <1>4, <1>6
  <2>2. ASSUME NEW m \in stream'[d].heard
        PROVE  notices'[m].st # "none" /\ notices'[m].tenant = stream[d].tenant
    <3>1. m \in heard(d) /\ m \in Notice
      BY <1>5, <1>6
    <3>2. CASE m = n
      <4>1. heard(d) # stream[d].heard
        BY <1>2, <3>1, <3>2 DEF LiveInv, Live!StreamsHear
      <4> QED
        BY <1>5, <1>9, <3>2, <4>1
    <3>3. CASE m # n
      BY <1>5, <1>9, <3>1, <3>3 DEF LiveInv, Live!StreamsHear
    <3> QED
      BY <3>2, <3>3
  <2> QED
    BY <2>1, <2>2
<1>13. Live!ClientHoldsOneStream'
  BY <1>6, <1>8 DEF LiveInv, Live!ClientHoldsOneStream
<1> QED
  BY <1>10, <1>11, <1>12, <1>13 DEF LiveInv

\* Reading notifications leaves every row stored, and its tenant's.
LEMMA NoticesInv ==
  ASSUME LiveInv, NEW t \in Tenant,
         \/ \E n \in Notice : Live!markNotificationAsRead(n, t)
         \/ Live!markAllNotificationsAsRead(t)
  PROVE  LiveInv'
<1>1. UNCHANGED <<tenantClients, stream, sse>>
  BY DEF Live!markNotificationAsRead, Live!markAllNotificationsAsRead
<1>2. /\ notices' \in [Notice -> [st : {"none", "unread", "read"}, tenant : Tenant]]
      /\ \A m \in Notice : /\ notices'[m].tenant = notices[m].tenant
                           /\ notices'[m].st = "none" => notices[m].st = "none"
  BY DEF Live!markNotificationAsRead, Live!markAllNotificationsAsRead, LiveInv, Live!TypeOK
<1>3. \A c \in Live!Conn : stream[c].heard \subseteq Notice
  BY DEF LiveInv, Live!TypeOK, Live!Streams
<1>4. Live!StreamsHear'
  BY <1>1, <1>2, <1>3 DEF LiveInv, Live!StreamsHear
<1>5. Live!TypeOK'
  BY <1>1, <1>2 DEF LiveInv, Live!TypeOK
<1>6. OneSet' /\ Live!ClientHoldsOneStream'
  BY <1>1 DEF LiveInv, OneSet, Live!ClientHoldsOneStream
<1> QED
  BY <1>4, <1>5, <1>6 DEF LiveInv

\* The client connects only when it holds no stream.
LEMMA ConnectInv ==
  ASSUME LiveInv, NEW t \in Tenant, Live!connect(t) PROVE LiveInv'
<1>1. PICK c \in Live!Conn :
        /\ Live!unused(c)
        /\ stream' = Live!cleanupSource(Live!opened(c, t, "client"))
        /\ sse' = [state |-> "CONNECTING", source |-> c, reconnectTimer |-> FALSE,
                   heartbeatTimer |-> FALSE, quiet |-> sse.quiet]
  BY DEF Live!connect
<1>2. sse.source = Live!NoConn /\ UNCHANGED <<tenantClients, notices>>
  BY DEF Live!connect, LiveInv, Live!ClientHoldsOneStream
<1>3. stream' = Live!opened(c, t, "client") /\ stream[c].st = "unused"
  BY <1>1, <1>2 DEF Live!cleanupSource, Live!unused
<1>4. /\ stream' \in [Live!Conn -> Live!Streams]
      /\ \A d \in Live!Conn \ {c} : stream'[d] = stream[d]
      /\ stream'[c].st = "authenticating"
      /\ stream'[c].set = 0 /\ ~stream'[c].member /\ stream'[c].heard = {}
      /\ stream'[c].due = {} /\ ~stream'[c].closed
  BY <1>3, OpenedFacts
<1>5. sse' \in SseState
  BY <1>1 DEF SseState, LiveInv, Live!TypeOK
<1>6. Live!TypeOK'
  BY <1>2, <1>4, <1>5 DEF LiveInv, Live!TypeOK, SseState
<1>7. OneSet'
  <2> SUFFICES ASSUME NEW d \in Live!Conn PROVE OneSet!(d)'
    BY DEF OneSet
  <2> QED
    BY <1>2, <1>4 DEF LiveInv, OneSet
<1>8. Live!StreamsHear'
  <2> SUFFICES ASSUME NEW d \in Live!Conn PROVE Live!StreamsHear!(d)'
    BY DEF Live!StreamsHear
  <2>1. CASE d = c
    BY <1>4, <2>1
  <2>2. CASE d # c
    BY <1>2, <1>4, <2>2 DEF LiveInv, Live!StreamsHear
  <2> QED
    BY <2>1, <2>2
<1>9. Live!ClientHoldsOneStream'
  <2>1. c # Live!NoConn /\ \A d \in Live!Conn : d # Live!NoConn
    BY DEF Live!Conn, Live!NoConn
  <2>2. \A d \in Live!Conn : stream'[d].by = "client" /\ stream'[d].here => d = c
    BY <1>2, <1>4, <2>1 DEF LiveInv, Live!ClientHoldsOneStream
  <2> QED
    BY <1>1, <2>1, <2>2 DEF Live!ClientHoldsOneStream
<1> QED
  BY <1>6, <1>7, <1>8, <1>9 DEF LiveInv

\* A stream the client gives up is closed, whether or not the route refused it.
LEMMA GivesUpInv ==
  ASSUME LiveInv, UNCHANGED <<tenantClients, notices>>, sse' \in SseState,
         sse'.source = Live!NoConn, sse'.state \in {"DISCONNECTED", "RECONNECTING"},
         ~sse'.heartbeatTimer, sse'.reconnectTimer <=> sse'.state = "RECONNECTING",
         \/ stream' = Live!cleanupSource(stream)
         \/ /\ sse.source # Live!NoConn /\ stream[sse.source].st = "authenticating"
            /\ stream' = [Live!cleanupSource(stream) EXCEPT ![sse.source].st = "refused"]
  PROVE  LiveInv'
<1> DEFINE s == Live!cleanupSource(stream)
           c == sse.source
<1>1. /\ s \in [Live!Conn -> Live!Streams]
      /\ \A d \in Live!Conn \ {c} : s[d] = stream[d]
      /\ c # Live!NoConn =>
           /\ s[c].st = stream[c].st /\ ~s[c].here
           /\ s[c].tenant = stream[c].tenant
           /\ s[c].by = stream[c].by /\ s[c].closed = stream[c].closed
           /\ s[c].set = stream[c].set /\ s[c].member = stream[c].member
           /\ s[c].heard = stream[c].heard /\ s[c].due = stream[c].due
  BY CleanupFacts
<1> HIDE DEF s
<1>2. c \in Live!Conn \cup {Live!NoConn} /\ Live!NoConn \notin Live!Conn
  BY DEF LiveInv, Live!TypeOK, Live!Conn, Live!NoConn
<1>3. \/ stream' = s
      \/ /\ c # Live!NoConn /\ stream[c].st = "authenticating"
         /\ stream' = [s EXCEPT ![c] = [s[c] EXCEPT !.st = "refused"]]
  BY <1>1, <1>2 DEF s
<1>4. /\ stream' \in [Live!Conn -> Live!Streams]
      /\ \A d \in Live!Conn \ {c} : stream'[d] = stream[d]
      /\ c # Live!NoConn =>
           /\ \/ stream'[c].st = stream[c].st
              \/ stream[c].st = "authenticating" /\ stream'[c].st = "refused"
           /\ ~stream'[c].here /\ stream'[c].tenant = stream[c].tenant
           /\ stream'[c].by = stream[c].by /\ stream'[c].closed = stream[c].closed
           /\ stream'[c].set = stream[c].set /\ stream'[c].member = stream[c].member
           /\ stream'[c].heard = stream[c].heard /\ stream'[c].due = stream[c].due
  <2>1. CASE stream' = s
    BY <1>1, <1>2, <2>1
  <2>2. CASE /\ c # Live!NoConn /\ stream[c].st = "authenticating"
             /\ stream' = [s EXCEPT ![c] = [s[c] EXCEPT !.st = "refused"]]
    <3>1. s[c] \in Live!Streams /\ c \in Live!Conn
      BY <1>1, <1>2, <2>2
    <3>2. LET r == [s[c] EXCEPT !.st = "refused"] IN
          /\ r \in Live!Streams /\ r.st = "refused" /\ r.here = s[c].here /\ r.tenant = s[c].tenant
          /\ r.by = s[c].by /\ r.closed = s[c].closed /\ r.set = s[c].set
          /\ r.member = s[c].member /\ r.heard = s[c].heard /\ r.due = s[c].due
      BY <3>1 DEF Live!Streams
    <3> QED
      BY <1>1, <2>2, <3>1, <3>2
  <2> QED
    BY <1>3, <2>1, <2>2
<1>5. Live!TypeOK'
  BY <1>4 DEF LiveInv, Live!TypeOK, SseState
<1>6. OneSet'
  <2> SUFFICES ASSUME NEW d \in Live!Conn PROVE OneSet!(d)'
    BY DEF OneSet
  <2>1. CASE d = c
    BY <1>2, <1>4, <2>1 DEF LiveInv, OneSet
  <2>2. CASE d # c
    BY <1>4, <2>2 DEF LiveInv, OneSet
  <2> QED
    BY <2>1, <2>2
<1>7. Live!StreamsHear'
  <2> SUFFICES ASSUME NEW d \in Live!Conn PROVE Live!StreamsHear!(d)'
    BY DEF Live!StreamsHear
  <2>1. CASE d = c
    BY <1>2, <1>4, <2>1 DEF LiveInv, Live!StreamsHear
  <2>2. CASE d # c
    BY <1>4, <2>2 DEF LiveInv, Live!StreamsHear
  <2> QED
    BY <2>1, <2>2
<1>8. Live!ClientHoldsOneStream'
  <2>1. \A d \in Live!Conn : ~(stream'[d].by = "client" /\ stream'[d].here)
    BY <1>2, <1>4 DEF LiveInv, Live!ClientHoldsOneStream
  <2> QED
    BY <2>1 DEF Live!ClientHoldsOneStream
<1> QED
  BY <1>5, <1>6, <1>7, <1>8 DEF LiveInv

\* The client's other steps: the monitor, a stream that breaks, the end.
LEMMA ClientInv ==
  ASSUME LiveInv, Live!handleDisconnect \/ Live!heartbeatMonitor \/ Live!disconnect
  PROVE  LiveInv'
<1> USE DEF SseState
<1>1. sse \in SseState
  BY DEF LiveInv, Live!TypeOK
<1>2. ASSUME Live!reconnecting
      PROVE  /\ sse' \in SseState /\ sse'.source = Live!NoConn /\ sse'.state = "RECONNECTING"
             /\ ~sse'.heartbeatTimer /\ sse'.reconnectTimer
  BY <1>1, <1>2 DEF Live!reconnecting
<1>3. CASE Live!handleDisconnect
  <2>1. Live!reconnecting /\ UNCHANGED <<tenantClients, notices>>
    BY <1>3 DEF Live!handleDisconnect
  <2> QED
    BY <1>2, <1>3, <2>1, GivesUpInv DEF Live!handleDisconnect
<1>4. CASE Live!heartbeatMonitor /\ sse.quiet >= Quiet
  <2>1. /\ Live!reconnecting /\ UNCHANGED <<tenantClients, notices>>
        /\ stream' = Live!cleanupSource(stream)
    BY <1>1, <1>4, LiveAssumption DEF Live!heartbeatMonitor
  <2> QED
    BY <1>2, <2>1, GivesUpInv
<1>5. CASE Live!heartbeatMonitor /\ sse.quiet < Quiet
  <2>1. sse' = [sse EXCEPT !.quiet = sse.quiet + 1] /\ UNCHANGED <<stream, tenantClients, notices>>
    BY <1>5 DEF Live!heartbeatMonitor
  <2>2. sse.quiet + 1 \in 0..Quiet
    BY <1>1, <1>5, LiveAssumption
  <2>3. /\ sse' \in SseState /\ sse'.source = sse.source /\ sse'.state = sse.state
        /\ sse'.reconnectTimer = sse.reconnectTimer /\ sse'.heartbeatTimer = sse.heartbeatTimer
    BY <1>1, <2>1, <2>2
  <2>4. Live!TypeOK'
    BY <2>1, <2>3 DEF LiveInv, Live!TypeOK
  <2> QED
    BY <2>1, <2>3, <2>4 DEF LiveInv, OneSet, Live!StreamsHear, Live!ClientHoldsOneStream
<1>6. CASE Live!disconnect
  <2>1. /\ sse' \in SseState /\ sse'.source = Live!NoConn /\ sse'.state = "DISCONNECTED"
        /\ ~sse'.heartbeatTimer /\ ~sse'.reconnectTimer
    BY <1>1, <1>6 DEF Live!disconnect
  <2> QED
    BY <1>6, <2>1, GivesUpInv DEF Live!disconnect
<1>7. sse.quiet >= Quiet \/ sse.quiet < Quiet
  BY <1>1, LiveAssumption
<1> QED
  BY <1>3, <1>4, <1>5, <1>6, <1>7

LEMMA LiveStep ==
  ASSUME LiveInv, [Live!Next]_realtimeVars PROVE LiveInv'
<1>1. CASE Live!Next
  BY <1>1, OtherBrowserInv, RegisterInv, OnCloseInv, BroadcastInv, NoticesInv, ConnectInv, ClientInv
     DEF Live!Next, Live!reconnectFires
<1>2. CASE UNCHANGED realtimeVars
  BY <1>2 DEF realtimeVars, LiveInv, Live!TypeOK, OneSet, Live!StreamsHear,
     Live!ClientHoldsOneStream
<1> QED
  BY <1>1, <1>2

\* Every live stream a browser still reads hears all that is pushed to its tenant and
\* nothing else, and the client holds one stream at most and always has a way back, for
\* any tenants, notifications and number of streams (broadcaster.ts, sse-client.ts).
THEOREM LiveStreamsHear == ClientsSpec => []StreamsHear
<1> DEFINE Inv == part = "realtime" => LiveInv
<1>1. ClientsInit => Inv
  BY LiveInit DEF ClientsInit
<1>2. Inv /\ [ClientsNext]_all => Inv'
  BY LiveStep DEF ClientsNext, all, realtimeVars
<1>3. Inv => StreamsHear
  BY DEF LiveInv, StreamsHear
<1> HIDE DEF Inv
<1> QED
  BY <1>1, <1>2, <1>3, PTL DEF ClientsSpec

-----------------------------------------------------------------------------
(* The trace streams.                                                      *)

\* The buffer holds the latest events in order.
BufferIsLatest ==
  /\ Len(recentEvents) <= Len(traced)
  /\ \A i \in DOMAIN recentEvents : recentEvents[i] = Len(traced) - Len(recentEvents) + i

\* What an open stream shows, and that nothing of its run is missing.
InRunOrder(got) == \A i, j \in DOMAIN got : i < j => got[i] < got[j]
SentOf(got) == {got[i] : i \in DOMAIN got}
NothingForeign(got, r) == \A e \in SentOf(got) : Trace!Of(e, r)
NoGap(got, r) ==
  \A e \in SentOf(got), n \in Trace!Events : e < n /\ Trace!Of(n, r) => n \in SentOf(got)
HasTheBuffer(got, r) ==
  \A i \in DOMAIN recentEvents :
    Trace!Of(recentEvents[i], r) /\ (r = Trace!All => i > Len(recentEvents) - ReplayLast)
      => recentEvents[i] \in SentOf(got)
Shows(got, r) ==
  InRunOrder(got) /\ NothingForeign(got, r) /\ NoGap(got, r) /\ HasTheBuffer(got, r)

TraceInv ==
  /\ Trace!TypeOK /\ BufferIsLatest
  /\ \A w \in Watcher : watch[w].st = "open" => Shows(watch[w].got, watch[w].run)

LEMMA TraceInit == Trace!Init => TraceInv
<1> SUFFICES ASSUME Trace!Init PROVE TraceInv
  OBVIOUS
<1>1. recentEvents = <<>> /\ traced = <<>> /\ <<>> \in Seq(TraceRun) /\ <<>> \in Seq(Trace!Events)
  BY EmptySeq DEF Trace!Init
<1> QED
  BY <1>1, TraceAssumption DEF Trace!Init, TraceInv, Trace!TypeOK, BufferIsLatest

LEMMA TraceFacts == TraceInv /\ part = "trace" => TraceHasNoGap
BY DEF TraceInv, TraceHasNoGap, Trace!TraceHasNoGap, Shows, InRunOrder, NothingForeign, NoGap,
       HasTheBuffer, SentOf, Trace!Sent

\* A number is appended.
LEMMA NumberAppended ==
  ASSUME NEW n \in Nat, NEW k \in 1..n, NEW s \in Seq(1..n)
  PROVE  /\ Append(s, k) \in Seq(1..n) /\ Append(s, k) # <<>> /\ Len(Append(s, k)) = Len(s) + 1
         /\ \A i \in 1..Len(s) : Append(s, k)[i] = s[i]
         /\ Append(s, k)[Len(s) + 1] = k
BY AppendProperties

\* The log and the buffer after an event.
LEMMA BufferStep ==
  ASSUME TraceInv, NEW r \in TraceRun, Trace!broadcast(r)
  PROVE  /\ traced' \in Seq(TraceRun) /\ Len(traced') = Len(traced) + 1
         /\ traced'[Len(traced')] = r /\ \A e \in Trace!Events : traced'[e] = traced[e]
         /\ Len(traced') <= MaxTraced
         /\ recentEvents' \in Seq(Trace!Events') /\ Len(recentEvents') <= BufferSize
         /\ BufferIsLatest' /\ Len(recentEvents') <= Len(recentEvents) + 1
<1> DEFINE e == Len(traced) + 1
<1> DEFINE b == Append(recentEvents, e)
<1>0. e = Len(traced) + 1
  OBVIOUS
<1>2. /\ traced' = Append(traced, r) /\ Len(traced) < MaxTraced
      /\ recentEvents' = IF Len(b) > BufferSize THEN Tail(b) ELSE b
  BY DEF Trace!broadcast
<1> HIDE DEF e
<1>1. /\ traced \in Seq(TraceRun) /\ recentEvents \in Seq(Trace!Events) /\ Len(traced) \in Nat
      /\ Trace!Events = 1..Len(traced) /\ Len(recentEvents) \in Nat
      /\ Len(recentEvents) <= BufferSize
  BY LenProperties DEF TraceInv, Trace!TypeOK, Trace!Events
<1>3. /\ traced' \in Seq(TraceRun) /\ Len(traced') = e /\ traced'[e] = r
      /\ \A n \in Trace!Events : traced'[n] = traced[n]
  BY <1>0, <1>1, <1>2, AppendProperties
<1>4. Trace!Events' = 1..e
  BY <1>3, LenProperties DEF Trace!Events
<1>5. recentEvents \in Seq(1..e) /\ e \in 1..e
  <2>1. Trace!Events \subseteq 1..e
    BY <1>0, <1>1
  <2> QED
    BY <1>0, <1>1, <2>1, SeqMonotonic
<1>6. /\ b \in Seq(1..e) /\ b # <<>> /\ Len(b) = Len(recentEvents) + 1
      /\ \A i \in 1..Len(recentEvents) : b[i] = recentEvents[i]
      /\ b[Len(recentEvents) + 1] = e
  BY <1>0, <1>1, <1>5, NumberAppended
<1>7. \A i \in 1..Len(b) : b[i] = e - Len(b) + i
  <2>1. \A i \in 1..Len(recentEvents) : recentEvents[i] = Len(traced) - Len(recentEvents) + i
    BY <1>1, LenProperties DEF TraceInv, BufferIsLatest
  <2> SUFFICES ASSUME NEW i \in 1..Len(b) PROVE b[i] = e - Len(b) + i
    OBVIOUS
  <2>2. i \in 1..Len(recentEvents) \/ i = Len(recentEvents) + 1
    BY <1>1, <1>6
  <2> HIDE DEF b
  <2> QED
    BY <1>0, <1>1, <1>6, <2>1, <2>2
<1>8. Len(recentEvents) <= Len(traced)
  BY DEF TraceInv, BufferIsLatest
<1> HIDE DEF b
<1>9. CASE Len(b) > BufferSize
  <2>1. /\ recentEvents' \in Seq(1..e) /\ Len(recentEvents') = Len(b) - 1
        /\ \A i \in 1..Len(recentEvents') : recentEvents'[i] = b[i + 1]
    BY <1>2, <1>6, <1>9, HeadTailProperties
  <2>2. DOMAIN recentEvents' = 1..Len(recentEvents')
    BY <2>1, LenProperties
  <2>3. \A i \in DOMAIN recentEvents' : recentEvents'[i] = Len(traced') - Len(recentEvents') + i
    BY <1>0, <1>1, <1>3, <1>6, <1>7, <2>1, <2>2
  <2> QED
    <3>1. Len(recentEvents') <= BufferSize /\ Len(recentEvents') <= Len(traced')
      BY <1>0, <1>1, <1>3, <1>6, <1>8, <2>1, TraceAssumption
    <3>2. BufferIsLatest'
      BY <2>3, <3>1 DEF BufferIsLatest
    <3>3. recentEvents' \in Seq(Trace!Events') /\ Len(recentEvents') <= Len(recentEvents) + 1
      BY <1>1, <1>4, <1>6, <2>1
    <3>4. Len(traced') <= MaxTraced
      BY <1>0, <1>1, <1>2, <1>3, TraceAssumption
    <3> QED
      BY <1>0, <1>3, <3>1, <3>2, <3>3, <3>4
<1>10. CASE ~(Len(b) > BufferSize)
  <2>1. recentEvents' = b
    BY <1>2, <1>10
  <2>2. DOMAIN b = 1..Len(b)
    BY <1>6, LenProperties
  <2> QED
    <3>1. Len(recentEvents') <= BufferSize /\ Len(recentEvents') <= Len(traced')
      BY <1>0, <1>1, <1>3, <1>6, <1>8, <1>10, <2>1, TraceAssumption
    <3>2. \A i \in DOMAIN recentEvents' : recentEvents'[i] = Len(traced') - Len(recentEvents') + i
      BY <1>3, <1>7, <2>1, <2>2
    <3>3. BufferIsLatest'
      BY <3>1, <3>2 DEF BufferIsLatest
    <3>4. recentEvents' \in Seq(Trace!Events') /\ Len(recentEvents') <= Len(recentEvents) + 1
      BY <1>1, <1>4, <1>6, <2>1
    <3>5. Len(traced') <= MaxTraced
      BY <1>0, <1>1, <1>2, <1>3, TraceAssumption
    <3> QED
      BY <1>0, <1>3, <3>1, <3>3, <3>4, <3>5
<1> QED
  BY <1>9, <1>10

\* What the buffer holds after an event is the event or was there before.
LEMMA BufferKeeps ==
  ASSUME TraceInv, NEW r \in TraceRun, Trace!broadcast(r), NEW i \in DOMAIN recentEvents'
  PROVE  \/ recentEvents'[i] = Len(traced) + 1
         \/ \E j \in DOMAIN recentEvents :
              /\ recentEvents[j] = recentEvents'[i] /\ recentEvents[j] \in Trace!Events
              /\ i > Len(recentEvents') - ReplayLast => j > Len(recentEvents) - ReplayLast
<1> DEFINE L == Len(traced)
           n == Len(recentEvents)
           m == Len(recentEvents')
           j == i + n - m + 1
<1>1. /\ L \in Nat /\ n \in Nat /\ m \in Nat /\ n <= L /\ m <= n + 1 /\ Len(traced') = L + 1
      /\ DOMAIN recentEvents = 1..n /\ DOMAIN recentEvents' = 1..m
      /\ \A k \in 1..n : recentEvents[k] \in Trace!Events
  <2>1. recentEvents \in Seq(Trace!Events) /\ traced \in Seq(TraceRun) /\ n <= L
    BY DEF TraceInv, Trace!TypeOK, BufferIsLatest
  <2>2. recentEvents' \in Seq(Trace!Events')
    BY BufferStep
  <2> QED
    BY <2>1, <2>2, BufferStep, LenProperties, ElementOfSeq
<1>2. i \in 1..m /\ recentEvents'[i] = L + 1 - m + i
  BY <1>1, BufferStep DEF BufferIsLatest
<1>3. \A k \in 1..n : recentEvents[k] = L - n + k
  BY <1>1 DEF TraceInv, BufferIsLatest
<1> HIDE DEF L, n, m
<1>4. i = m \/ j \in 1..n
  BY <1>1, <1>2
<1>5. CASE i = m
  BY <1>1, <1>2, <1>5 DEF L
<1>6. CASE j \in 1..n
  <2>1. recentEvents[j] = recentEvents'[i]
    BY <1>1, <1>2, <1>3, <1>6
  <2>2. i > m - ReplayLast => j > n - ReplayLast
    BY <1>1, <1>2, <1>6, TraceAssumption
  <2> QED
    BY <1>1, <1>6, <2>1, <2>2 DEF n, m
<1> QED
  BY <1>4, <1>5, <1>6

\* The events there were are of the runs they were of, and the new one is of its own.
LEMMA RunsStay ==
  ASSUME TraceInv, NEW r \in TraceRun, Trace!broadcast(r), NEW e, e = Len(traced) + 1, NEW q
  PROVE  /\ e \in Nat /\ Trace!Events = 1..(e - 1) /\ Trace!Events' = 1..e
         /\ \A n \in Trace!Events : Trace!Of(n, q)' <=> Trace!Of(n, q)
         /\ Trace!Of(e, q)' <=> q \in {r, Trace!All}
<1>1. traced \in Seq(TraceRun) /\ traced' \in Seq(TraceRun) /\ Len(traced') = Len(traced) + 1
  BY BufferStep DEF TraceInv, Trace!TypeOK
<1>2. /\ Len(traced) \in Nat /\ DOMAIN traced = 1..Len(traced)
      /\ DOMAIN traced' = 1..(Len(traced) + 1)
  BY <1>1, LenProperties
<1>3. /\ traced'[Len(traced) + 1] = r
      /\ \A n \in DOMAIN traced : traced'[n] = traced[n]
  BY <1>1, BufferStep DEF Trace!Events
<1>4. \A n \in Trace!Events : Trace!Of(n, q)' <=> Trace!Of(n, q)
  BY <1>3 DEF Trace!Events, Trace!Of
<1>5. Trace!Of(e, q)' <=> q \in {r, Trace!All}
  BY <1>3 DEF Trace!Of
<1> QED
  BY <1>2, <1>4, <1>5 DEF Trace!Events

\* An event of another run changes nothing for a stream.
LEMMA ForeignEvent ==
  ASSUME TraceInv, NEW r \in TraceRun, Trace!broadcast(r), NEW q \in TraceRun,
         q # r, NEW got \in Seq(Trace!Events), Shows(got, q)
  PROVE  /\ NothingForeign(got, q)' /\ NoGap(got, q)' /\ HasTheBuffer(got, q)'
<1>1. SentOf(got) \subseteq Trace!Events
  BY LenProperties, ElementOfSeq DEF SentOf
<1> DEFINE e == Len(traced) + 1
<1>2. e = Len(traced) + 1
  OBVIOUS
<1> HIDE DEF e
<1>3. /\ e \in Nat /\ Trace!Events = 1..(e - 1) /\ Trace!Events' = 1..e
      /\ \A n \in Trace!Events : Trace!Of(n, q)' <=> Trace!Of(n, q)
      /\ ~(\E n \in {e} : Trace!Of(n, q)')
  BY <1>2, RunsStay, TraceAssumption
<1>4. NothingForeign(got, q)'
  <2>1. \A n \in SentOf(got) : Trace!Of(n, q)'
    BY <1>1, <1>3 DEF Shows, NothingForeign
  <2> QED
    BY <2>1 DEF NothingForeign, SentOf
<1>5. NoGap(got, q)'
  <2>1. ASSUME NEW k \in SentOf(got), NEW n \in Trace!Events', k < n, Trace!Of(n, q)'
        PROVE  n \in SentOf(got)
    BY <1>1, <1>3, <2>1 DEF Shows, NoGap
  <2> QED
    BY <2>1 DEF NoGap, SentOf
<1>6. HasTheBuffer(got, q)'
  <2>1. ASSUME NEW i \in DOMAIN recentEvents', Trace!Of(recentEvents[i], q)',
               q = Trace!All => i > Len(recentEvents') - ReplayLast
        PROVE  recentEvents'[i] \in SentOf(got)
    BY <1>2, <1>3, <2>1, BufferKeeps DEF Shows, HasTheBuffer
  <2> QED
    BY <2>1 DEF HasTheBuffer, SentOf
<1> QED
  BY <1>4, <1>5, <1>6

\* An event of its own run is the next a stream shows.
LEMMA OwnEvent ==
  ASSUME TraceInv, NEW r \in TraceRun, Trace!broadcast(r), NEW q \in {r, Trace!All},
         NEW got \in Seq(Trace!Events), Shows(got, q),
         NEW e, e = Len(traced) + 1, NEW more, more = Append(got, e)
  PROVE  /\ more \in Seq(Trace!Events') /\ InRunOrder(more)
         /\ NothingForeign(more, q)' /\ NoGap(more, q)' /\ HasTheBuffer(more, q)'
<1>1. Trace!Of(e, q)'
  BY RunsStay
<1>2. /\ Trace!Events' = 1..e /\ Trace!Events = 1..(e - 1) /\ e \in Nat
      /\ \A n \in Trace!Events : Trace!Of(n, q)' <=> Trace!Of(n, q)
  BY RunsStay
<1>3. got \in Seq(1..e) /\ e \in 1..e
  <2>1. Trace!Events \subseteq 1..e /\ e \in 1..e
    BY <1>2, LenProperties DEF TraceInv, Trace!TypeOK
  <2> QED
    BY <2>1, SeqMonotonic
<1>4. /\ more \in Seq(1..e) /\ Len(more) = Len(got) + 1 /\ more[Len(got) + 1] = e
      /\ \A i \in 1..Len(got) : more[i] = got[i]
  BY <1>2, <1>3, NumberAppended
<1>5. /\ Len(got) \in Nat /\ DOMAIN got = 1..Len(got) /\ DOMAIN more = 1..(Len(got) + 1)
      /\ \A i \in 1..Len(got) : got[i] \in Trace!Events
  BY <1>3, <1>4, LenProperties, ElementOfSeq
<1>6. SentOf(more) = SentOf(got) \cup {e} /\ SentOf(got) \subseteq Trace!Events
  BY <1>4, <1>5 DEF SentOf
<1>7. InRunOrder(more)
  <2>1. \A i, j \in 1..Len(got) : i < j => more[i] < more[j]
    BY <1>4, <1>5 DEF Shows, InRunOrder
  <2>2. \A i \in 1..Len(got) : more[i] < e
    BY <1>2, <1>4, <1>5
  <2> QED
    BY <1>4, <1>5, <2>1, <2>2 DEF InRunOrder
<1>8. NothingForeign(more, q)'
  <2>1. \A n \in SentOf(got) : Trace!Of(n, q)'
    BY <1>2, <1>6 DEF Shows, NothingForeign
  <2>2. \A n \in SentOf(more) : Trace!Of(n, q)'
    BY <1>1, <1>6, <2>1
  <2> QED
    BY <2>2 DEF NothingForeign, SentOf
<1>9. NoGap(more, q)'
  <2>1. ASSUME NEW k \in SentOf(more), NEW n \in Trace!Events', k < n, Trace!Of(n, q)'
        PROVE  n \in SentOf(more)
    <3>1. CASE n = e
      BY <1>6, <3>1
    <3>2. CASE n # e
      <4>1. n \in Trace!Events /\ k \in SentOf(got) /\ Trace!Of(n, q)
        BY <1>2, <1>6, <2>1, <3>2
      <4> QED
        BY <1>6, <2>1, <4>1 DEF Shows, NoGap
    <3> QED
      BY <3>1, <3>2
  <2> QED
    BY <2>1 DEF NoGap, SentOf
<1>10. HasTheBuffer(more, q)'
  <2>1. ASSUME NEW i \in DOMAIN recentEvents', Trace!Of(recentEvents[i], q)',
               q = Trace!All => i > Len(recentEvents') - ReplayLast
        PROVE  recentEvents'[i] \in SentOf(more)
    <3>1. CASE recentEvents'[i] = e
      BY <1>6, <3>1
    <3>2. ASSUME NEW j \in DOMAIN recentEvents, recentEvents[j] = recentEvents'[i],
                 recentEvents[j] \in Trace!Events,
                 i > Len(recentEvents') - ReplayLast => j > Len(recentEvents) - ReplayLast
          PROVE  recentEvents'[i] \in SentOf(more)
      <4>1. Trace!Of(recentEvents[j], q)
        BY <1>2, <2>1, <3>2
      <4> QED
        BY <1>6, <2>1, <3>2, <4>1 DEF Shows, HasTheBuffer
    <3> QED
      BY <3>1, <3>2, BufferKeeps
  <2> QED
    BY <2>1 DEF HasTheBuffer, SentOf
<1> QED
  BY <1>2, <1>4, <1>7, <1>8, <1>9, <1>10

LEMMA TraceBroadcastInv ==
  ASSUME TraceInv, NEW r \in TraceRun, Trace!broadcast(r) PROVE TraceInv'
<1> DEFINE e == Len(traced) + 1
<1>1. e = Len(traced) + 1 /\ Len(traced) \in Nat
  BY LenProperties DEF TraceInv, Trace!TypeOK
<1>2. watch' = [w \in Watcher |-> IF watch[w].st = "open" /\ watch[w].run \in {r, Trace!All}
                                    THEN [watch[w] EXCEPT !.got = Append(@, e)] ELSE watch[w]]
  BY DEF Trace!broadcast
<1> HIDE DEF e
<1>3. Trace!Events \subseteq Trace!Events'
  BY <1>1, RunsStay
<1>4. Seq(Trace!Events) \subseteq Seq(Trace!Events')
  BY <1>3, SeqMonotonic
<1>5. ASSUME NEW w \in Watcher
      PROVE  /\ watch'[w] \in [st : {"unused", "open", "closed"}, run : TraceRun \cup {Trace!All},
                               got : Seq(Trace!Events')]
             /\ watch'[w].st = "open" => Shows(watch[w].got, watch[w].run)'
  <2>1. /\ watch[w] \in [st : {"unused", "open", "closed"}, run : TraceRun \cup {Trace!All},
                         got : Seq(Trace!Events)]
        /\ watch[w].st = "open" => Shows(watch[w].got, watch[w].run)
    BY DEF TraceInv, Trace!TypeOK
  <2>2. PICK got, q : got = watch[w].got /\ q = watch[w].run
    OBVIOUS
  <2>3. CASE watch[w].st = "open" /\ q \in {r, Trace!All}
    <3>1. PICK more : more = Append(got, e)
      OBVIOUS
    <3>2. /\ more \in Seq(Trace!Events') /\ InRunOrder(more)
          /\ NothingForeign(more, q)' /\ NoGap(more, q)' /\ HasTheBuffer(more, q)'
      BY <1>1, <2>1, <2>2, <2>3, <3>1, OwnEvent
    <3>3. watch'[w] = [watch[w] EXCEPT !.got = more]
      BY <1>2, <2>2, <2>3, <3>1
    <3>4. /\ watch'[w].got = more /\ watch'[w].run = q /\ watch'[w].st = watch[w].st
          /\ watch'[w] \in [st : {"unused", "open", "closed"}, run : TraceRun \cup {Trace!All},
                            got : Seq(Trace!Events')]
      BY <2>1, <2>2, <3>2, <3>3
    <3>5. Shows(more, q)'
      BY <3>2 DEF Shows, InRunOrder
    <3>6. Shows(watch[w].got, watch[w].run)'
      BY <3>4, <3>5 DEF Shows, InRunOrder, NothingForeign, NoGap, HasTheBuffer, SentOf
    <3> QED
      BY <3>4, <3>6
  <2>4. CASE ~(watch[w].st = "open" /\ q \in {r, Trace!All})
    <3>1. watch'[w] = watch[w]
      BY <1>2, <2>2, <2>4
    <3>2. watch[w].st = "open" => Shows(got, q)'
      <4> SUFFICES ASSUME watch[w].st = "open" PROVE Shows(got, q)'
        OBVIOUS
      <4>1. q \in TraceRun /\ q # r /\ got \in Seq(Trace!Events) /\ Shows(got, q)
        BY <2>1, <2>2, <2>4
      <4>2. NothingForeign(got, q)' /\ NoGap(got, q)' /\ HasTheBuffer(got, q)' /\ InRunOrder(got)
        BY <4>1, ForeignEvent DEF Shows
      <4> QED
        BY <4>2 DEF Shows, InRunOrder
    <3>3. watch[w].st = "open" => Shows(watch[w].got, watch[w].run)'
      BY <2>2, <3>1, <3>2 DEF Shows, InRunOrder, NothingForeign, NoGap, HasTheBuffer, SentOf
    <3>4. watch'[w] \in [st : {"unused", "open", "closed"}, run : TraceRun \cup {Trace!All},
                         got : Seq(Trace!Events')]
      BY <1>4, <2>1, <3>1
    <3> QED
      BY <3>1, <3>3, <3>4
  <2> QED
    BY <2>3, <2>4
<1>6. Trace!TypeOK'
  BY <1>2, <1>5, BufferStep DEF Trace!TypeOK
<1> QED
  BY <1>5, <1>6, BufferStep DEF TraceInv

\* What a new listener is sent shows it its run, or the end of all of them.
LEMMA ReplayShows ==
  ASSUME TraceInv, NEW r \in TraceRun \cup {Trace!All}, NEW got \in Trace!InOrder(Trace!replayed(r))
  PROVE  got \in Seq(Trace!Events) /\ Shows(got, r)
<1> DEFINE E == Trace!replayed(r)
<1>1. /\ recentEvents \in Seq(Trace!Events) /\ traced \in Seq(TraceRun)
      /\ Len(recentEvents) <= Len(traced)
      /\ \A i \in DOMAIN recentEvents : recentEvents[i] = Len(traced) - Len(recentEvents) + i
  BY DEF TraceInv, Trace!TypeOK, BufferIsLatest
<1>2. /\ Len(recentEvents) \in Nat /\ DOMAIN recentEvents = 1..Len(recentEvents)
      /\ Len(traced) \in Nat /\ Trace!Events = 1..Len(traced)
      /\ \A i \in DOMAIN recentEvents : recentEvents[i] \in Trace!Events
  BY <1>1, LenProperties, ElementOfSeq DEF Trace!Events
<1>3. E \subseteq Trace!Events
  BY <1>2 DEF Trace!replayed
<1>4. Trace!Cardinality(E) \in Nat
  <2>1. IsFiniteSet(Trace!Events)
    BY <1>2, FS_Interval
  <2>2. IsFiniteSet(E)
    BY <1>3, <2>1, FS_Subset
  <2>3. Trace!Cardinality(E) = Cardinality(E)
    BY DEF Trace!Cardinality, Cardinality, Trace!IsFiniteSet, IsFiniteSet
  <2> QED
    BY <2>2, <2>3, FS_CardinalityType
<1>5. /\ got \in [1..Trace!Cardinality(E) -> E]
      /\ InRunOrder(got) /\ \A e \in E : \E i \in DOMAIN got : got[i] = e
  BY DEF Trace!InOrder, InRunOrder
<1> HIDE DEF E
<1>6. got \in Seq(Trace!Events) /\ SentOf(got) = E
  BY <1>3, <1>4, <1>5 DEF SentOf
<1>7. \A i \in DOMAIN recentEvents :
        recentEvents[i] \in E <=> IF r = Trace!All THEN i > Len(recentEvents) - ReplayLast
                                  ELSE Trace!Of(recentEvents[i], r)
  BY <1>1, <1>2 DEF E, Trace!replayed
<1>8. \A e \in E : \E i \in DOMAIN recentEvents : e = recentEvents[i]
  BY DEF E, Trace!replayed
<1>9. NothingForeign(got, r)
  BY <1>6, <1>7, <1>8 DEF NothingForeign, Trace!Of
<1>10. HasTheBuffer(got, r)
  BY <1>6, <1>7 DEF HasTheBuffer
<1>11. NoGap(got, r)
  <2> SUFFICES ASSUME NEW e \in E, NEW n \in Trace!Events, e < n, Trace!Of(n, r) PROVE n \in E
    BY <1>6 DEF NoGap
  <2>1. PICK i \in DOMAIN recentEvents : e = recentEvents[i]
    BY <1>8
  <2> DEFINE j == n - Len(traced) + Len(recentEvents)
  <2>2. j \in DOMAIN recentEvents /\ j > i /\ recentEvents[j] = n
    <3>1. i \in 1..Len(recentEvents) /\ e = Len(traced) - Len(recentEvents) + i
      BY <1>1, <1>2, <2>1
    <3>2. n \in Nat /\ n <= Len(traced) /\ e < n
      BY <1>2
    <3>3. j \in 1..Len(recentEvents) /\ j > i /\ Len(traced) - Len(recentEvents) + j = n
      BY <1>2, <3>1, <3>2
    <3> HIDE DEF j
    <3> QED
      BY <1>1, <1>2, <3>3
  <2>3. r = Trace!All => i > Len(recentEvents) - ReplayLast
    BY <1>7, <2>1
  <2> HIDE DEF j
  <2> QED
    BY <1>2, <1>7, <2>2, <2>3, TraceAssumption
<1> QED
  BY <1>5, <1>6, <1>9, <1>10, <1>11 DEF Shows

LEMMA TraceStep == TraceInv /\ Trace!Next => TraceInv'
<1> SUFFICES ASSUME TraceInv, Trace!Next PROVE TraceInv'
  OBVIOUS
<1>1. ASSUME NEW w \in Watcher, NEW r \in TraceRun \cup {Trace!All}, Trace!subscribe(w, r)
      PROVE  TraceInv'
  <2>1. PICK got \in Trace!InOrder(Trace!replayed(r)) :
          watch' = [watch EXCEPT ![w] = [st |-> "open", run |-> r, got |-> got]]
    BY <1>1 DEF Trace!subscribe
  <2>2. UNCHANGED <<recentEvents, traced>>
    BY <1>1 DEF Trace!subscribe
  <2>3. got \in Seq(Trace!Events) /\ Shows(got, r)
    BY ReplayShows
  <2>4. Trace!TypeOK'
    BY <2>1, <2>2, <2>3 DEF TraceInv, Trace!TypeOK, Trace!Events
  <2>5. ASSUME NEW v \in Watcher, watch'[v].st = "open" PROVE Shows(watch'[v].got, watch'[v].run)
    BY <2>1, <2>3, <2>5 DEF TraceInv, Trace!TypeOK
  <2>6. \A v \in Watcher : watch'[v].st = "open" => Shows(watch[v].got, watch[v].run)'
    BY <2>2, <2>5 DEF Shows, InRunOrder, NothingForeign, NoGap, HasTheBuffer, SentOf, Trace!Of,
       Trace!Events
  <2> QED
    BY <2>2, <2>4, <2>6 DEF TraceInv, BufferIsLatest
<1>2. ASSUME NEW w \in Watcher, Trace!unsubscribe(w) PROVE TraceInv'
  <2>1. /\ watch' = [watch EXCEPT ![w].st = "closed"] /\ UNCHANGED <<recentEvents, traced>>
    BY <1>2 DEF Trace!unsubscribe
  <2>2. Trace!TypeOK'
    BY <2>1 DEF TraceInv, Trace!TypeOK, Trace!Events
  <2>3. ASSUME NEW v \in Watcher, watch'[v].st = "open" PROVE Shows(watch'[v].got, watch'[v].run)
    BY <2>1, <2>3 DEF TraceInv, Trace!TypeOK
  <2>4. \A v \in Watcher : watch'[v].st = "open" => Shows(watch[v].got, watch[v].run)'
    BY <2>1, <2>3 DEF Shows, InRunOrder, NothingForeign, NoGap, HasTheBuffer, SentOf, Trace!Of,
       Trace!Events
  <2> QED
    BY <2>1, <2>2, <2>4 DEF TraceInv, BufferIsLatest
<1> QED
  BY <1>1, <1>2, TraceBroadcastInv DEF Trace!Next

\* Every trace stream, for any runs, watchers and sizes of the buffer: what it shows is of
\* its run, in order, and complete from the first event on and as far as the buffer
\* reaches back, whatever has fallen out of the buffer (trace_stream.ts).
THEOREM TracesHaveNoGap == ClientsSpec => []TraceHasNoGap
<1> DEFINE Inv == part = "trace" => TraceInv
<1>1. ClientsInit => Inv
  BY TraceInit DEF ClientsInit
<1>2. Inv /\ [ClientsNext]_all => Inv'
  <2> SUFFICES ASSUME TraceInv, part = "trace", [ClientsNext]_all PROVE TraceInv'
    BY DEF ClientsNext, all
  <2>1. CASE Trace!Next
    BY <2>1, TraceStep
  <2>2. CASE UNCHANGED traceVars
    BY <2>2 DEF traceVars, TraceInv, Trace!TypeOK, Trace!Events, BufferIsLatest, Shows, InRunOrder,
       NothingForeign, NoGap, HasTheBuffer, SentOf, Trace!Of
  <2> QED
    BY <2>1, <2>2 DEF ClientsNext, all, traceVars
<1>3. Inv => TraceHasNoGap
  BY TraceFacts DEF TraceHasNoGap
<1> HIDE DEF Inv
<1> QED
  BY <1>1, <1>2, <1>3, PTL DEF ClientsSpec
=============================================================================
