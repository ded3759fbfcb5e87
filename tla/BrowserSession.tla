---------------------------- MODULE BrowserSession ----------------------------
(***************************************************************************)
(* Who the dashboard takes its user for: the state of the React provider,  *)
(* the copy of it in the browser's storage, which outlives the page, and   *)
(* the session the Supabase client keeps on its own.  Each operation of    *)
(* the provider awaits the server with what it read before, and any number *)
(* of them overlap.                                                        *)
(***************************************************************************)
EXTENDS Naturals, FiniteSets

CONSTANTS
  Merchant,   \* merchants that sign in
  Demo,       \* the demo merchant
  MaxTasks,   \* bound on operations that overlap
  MaxReloads  \* bound on reloads of the page

Account == Merchant \cup {Demo}
None == "none"

\* A session of the server, one of Supabase, or the demo token made up in the browser.
Token == [owner : Account, by : {"ctrl", "supabase"}] \cup {[owner |-> Demo, by |-> "browser"]}
NoToken == [owner |-> None, by |-> None]

VARIABLES
  state,     \* the provider's token, user and tenant, and whether it is loading
  storage,   \* the token, user and tenant in localStorage
  supabase,  \* whose session the Supabase client holds
  tasks,     \* operations that await an answer, with what they read
  valid,     \* the tokens the server accepts
  reloads

sessionVars == <<state, storage, supabase, tasks, valid, reloads>>

Session == [token : Token \cup {NoToken}, user : Account \cup {None}, tenant : Account \cup {None}]
NoSession == [token |-> NoToken, user |-> None, tenant |-> None]
Owned(token) == [token |-> token, user |-> token.owner, tenant |-> token.owner]

Task == [op : {"restore", "fallback", "authChange", "signIn", "refresh", "switch", "api"},
         read : Session]

TypeOK ==
  /\ state \in [at : Session, loading : BOOLEAN] /\ storage \in Session
  /\ supabase \in Account \cup {None} /\ valid \subseteq Token
  /\ tasks \subseteq Task /\ Cardinality(tasks) <= MaxTasks /\ reloads \in 0..MaxReloads

Await(op, read) ==
  /\ Cardinality(tasks) < MaxTasks
  /\ tasks' = tasks \cup {[op |-> op, read |-> read]}

Ends(task, op) == task \in tasks /\ task.op = op /\ tasks' = tasks \ {task}

-----------------------------------------------------------------------------
saveToStorage(session) == storage' = session
setState(session) == state' = [at |-> session, loading |-> FALSE]

\* What the server says of a token; a call that fails is an answer that says nothing.
fetchMe(token) == IF token \in valid THEN {token.owner, None} ELSE {None}

\* The provider mounts: nothing of the page before is left but the storage.
mount ==
  /\ state' = [at |-> NoSession, loading |-> TRUE]
  /\ tasks' = {[op |-> IF storage.token = NoToken THEN "fallback" ELSE "restore",
                read |-> storage]}

reload ==
  /\ reloads < MaxReloads /\ reloads' = reloads + 1
  /\ mount /\ UNCHANGED <<storage, supabase, valid>>

\* Mutant: the stored user is taken with the stored token.
restoreStored(task) ==
  /\ task \in tasks /\ task.op = "restore"
  /\ \E me \in fetchMe(task.read.token) :
       \/ /\ me # None /\ tasks' = tasks \ {task}
          /\ saveToStorage(task.read) /\ setState(task.read)
       \/ /\ me = None /\ tasks' = (tasks \ {task}) \cup {[task EXCEPT !.op = "fallback"]}
          /\ UNCHANGED <<state, storage>>
  /\ UNCHANGED <<supabase, valid, reloads>>

\* The stored token, if the server knows it; else Supabase is asked.
restoreSession(task) ==
  /\ task \in tasks /\ task.op = "restore"
  /\ \E me \in fetchMe(task.read.token) :
       \/ /\ me # None /\ tasks' = tasks \ {task}
          /\ saveToStorage(Owned(task.read.token)) /\ setState(Owned(task.read.token))
       \/ /\ me = None /\ tasks' = (tasks \ {task}) \cup {[task EXCEPT !.op = "fallback"]}
          /\ UNCHANGED <<state, storage>>
  /\ UNCHANGED <<supabase, valid, reloads>>

\* A session of Supabase is taken even if the server does not know it.
restoreFromSupabase(task) ==
  /\ Ends(task, "fallback")
  /\ LET session == IF supabase = None THEN NoSession
                    ELSE Owned([owner |-> supabase, by |-> "supabase"]) IN
     saveToStorage(session) /\ setState(session)
  /\ UNCHANGED <<supabase, valid, reloads>>

\* Supabase reports a session: signed in, restored or its token renewed.
onAuthStateChange ==
  /\ supabase # None
  /\ Await("authChange", Owned([owner |-> supabase, by |-> "supabase"]))
  /\ UNCHANGED <<state, storage, supabase, valid, reloads>>

authStateChanged(task) ==
  /\ Ends(task, "authChange")
  /\ saveToStorage(task.read) /\ setState(task.read)
  /\ UNCHANGED <<supabase, valid, reloads>>

-----------------------------------------------------------------------------
(* Signing in and out.                                                     *)

\* login, signup or verifyOtp of a merchant, or loginAsDemo.
signIn(account) ==
  /\ Await("signIn", Owned([owner |-> account, by |-> "ctrl"]))
  /\ UNCHANGED <<state, storage, supabase, valid, reloads>>

\* The server issues the session; login and signup also sign in with Supabase, and do
\* not wait for it.
login(task) ==
  /\ Ends(task, "signIn")
  /\ valid' = valid \cup {task.read.token}
  /\ saveToStorage(task.read) /\ setState(task.read)
  /\ supabase' \in {supabase, task.read.user}
  /\ UNCHANGED reloads

\* The server refuses the password that Supabase accepts.
loginWithSupabase(task) ==
  /\ Ends(task, "signIn") /\ task.read.user # Demo
  /\ supabase' = task.read.user
  /\ LET session == Owned([owner |-> task.read.user, by |-> "supabase"]) IN
     saveToStorage(session) /\ setState(session)
  /\ UNCHANGED <<valid, reloads>>

\* Nobody answers the demo login: the browser makes a token up.
loginAsDemo(task) ==
  /\ Ends(task, "signIn") /\ task.read.user = Demo
  /\ LET session == Owned([owner |-> Demo, by |-> "browser"]) IN
     saveToStorage(session) /\ setState(session)
  /\ UNCHANGED <<supabase, valid, reloads>>

loginFails(task) ==
  /\ Ends(task, "signIn")
  /\ UNCHANGED <<state, storage, supabase, valid, reloads>>

\* The server registers the merchant and answers without a session: only Supabase
\* signs the merchant in.
signup(task) ==
  /\ Ends(task, "signIn") /\ task.read.user # Demo
  /\ supabase' = task.read.user
  /\ UNCHANGED <<state, storage, valid, reloads>>

\* Neither sign-out is waited for, and either may fail.
logout ==
  /\ state.at # NoSession
  /\ saveToStorage(NoSession) /\ setState(NoSession)
  /\ supabase' \in {supabase, None}
  /\ valid' \in {valid, valid \ {state.at.token}}
  /\ UNCHANGED <<tasks, reloads>>

-----------------------------------------------------------------------------
(* Operations of a user who is signed in.                                  *)

refresh ==
  /\ state.at.token # NoToken /\ Await("refresh", state.at)
  /\ UNCHANGED <<state, storage, supabase, valid, reloads>>

\* The user and the tenant are put beside whatever token the state holds by now.
refreshed(task) ==
  /\ Ends(task, "refresh")
  /\ \E me \in fetchMe(task.read.token) :
       \/ /\ me # None /\ saveToStorage(Owned(task.read.token))
          /\ state' = [state EXCEPT !.at.user = me, !.at.tenant = me]
       \/ me = None /\ UNCHANGED <<state, storage>>
  /\ UNCHANGED <<supabase, valid, reloads>>

switchEnvironment ==
  /\ state.at.tenant # None /\ Await("switch", state.at)
  /\ UNCHANGED <<state, storage, supabase, valid, reloads>>

\* The answer, and whether there is one, make no difference.
environmentSwitched(task) ==
  /\ Ends(task, "switch")
  /\ saveToStorage(task.read) /\ state' = [state EXCEPT !.at.tenant = task.read.tenant]
  /\ UNCHANGED <<supabase, valid, reloads>>

api ==
  /\ Await("api", storage)
  /\ UNCHANGED <<state, storage, supabase, valid, reloads>>

\* 401: one more try with Supabase's token, which replaces the stored one and only it.
\* If that is refused too the storage is cleared and the page goes to the login, unless
\* it is there.
apiAnswered(task) ==
  LET other == [owner |-> supabase, by |-> "supabase"]
      recovers == supabase # None /\ other # task.read.token
      refused == task.read.token \notin valid /\ ~(recovers /\ other \in valid) IN
  /\ task \in tasks /\ task.op = "api"
  /\ \/ /\ task.read.token \in valid /\ tasks' = tasks \ {task}
        /\ UNCHANGED <<state, storage, reloads>>
     \/ /\ task.read.token \notin valid /\ tasks' = tasks \ {task}
        /\ storage' = IF recovers THEN [storage EXCEPT !.token = other] ELSE storage
        /\ UNCHANGED <<state, reloads>>
     \/ /\ refused /\ reloads < MaxReloads /\ reloads' = reloads + 1
        /\ storage' = NoSession
        /\ state' = [at |-> NoSession, loading |-> TRUE]
        /\ tasks' = {[op |-> "fallback", read |-> NoSession]}
  /\ UNCHANGED <<supabase, valid>>

\* Sessions expire; the server accepts tokens of Supabase if it is set up for them.
tokenExpires(token) ==
  /\ token \in valid /\ valid' = valid \ {token}
  /\ UNCHANGED <<state, storage, supabase, tasks, reloads>>

-----------------------------------------------------------------------------
Init ==
  /\ state = [at |-> NoSession, loading |-> TRUE] /\ storage = NoSession
  /\ supabase = None /\ reloads = 0
  /\ tasks = {[op |-> "fallback", read |-> NoSession]}
  /\ valid \in {{}, {[owner |-> a, by |-> "supabase"] : a \in Merchant}}

Next ==
  \/ reload \/ onAuthStateChange \/ logout \/ refresh \/ switchEnvironment \/ api
  \/ \E a \in Account : signIn(a)
  \/ \E token \in valid : tokenExpires(token)
  \/ \E task \in tasks :
       \/ restoreSession(task) \/ restoreFromSupabase(task) \/ authStateChanged(task)
       \/ login(task) \/ loginWithSupabase(task) \/ loginAsDemo(task) \/ loginFails(task) \/ signup(task)
       \/ refreshed(task) \/ environmentSwitched(task) \/ apiAnswered(task)

Spec == Init /\ [][Next]_sessionVars

-----------------------------------------------------------------------------
\* Whatever overlaps, the dashboard takes a new token up together with its owner and the
\* owner's tenant: the merchant shown is never left over from the storage of an earlier
\* session, not even after a call to the API has changed the stored token alone
\* (auth.tsx 103-156, 194-251, 311-368, 389-434, 626-637).
TokenComesWithItsOwner ==
  [][state'.at.token # state.at.token => state'.at \in {NoSession, Owned(state'.at.token)}]_sessionVars
====
