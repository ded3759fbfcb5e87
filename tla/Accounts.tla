-------------------------------- MODULE Accounts --------------------------------
(***************************************************************************)
(* Merchant accounts and dashboard sessions: one-time codes, sign-up, the  *)
(* demo account three handlers seed, and sessions.  Requests interleave at *)
(* every await; the only transaction is the one that inserts an account.   *)
(* A session token whose row is not found counts as valid, so what deletes *)
(* rows (a REPLACE of the user they belong to) matters.                    *)
(***************************************************************************)
EXTENDS Naturals, FiniteSets

CONSTANTS
  Requests,     \* bound on the requests
  Mailbox,      \* merchants' mailboxes
  Address,      \* the addresses people type: [box, capital]
  OtpTries      \* wrong codes before a mailbox is locked (5 in the code)

VARIABLES
  tenants, users, memberships, sessions,   \* the tables
  settings,   \* the default tenant's environment and capacity_limit
  codes,      \* auth_otps: per mailbox the request that issued the code
  failed,     \* the cached number of wrong codes, per mailbox
  req         \* per request: how far it is, and its local variables

vars == <<tenants, users, memberships, sessions, settings, codes, failed, req>>
tables == <<tenants, users, memberships, sessions>>
otpVars == <<codes, failed>>

\* Requests are numbered as they arrive; one that creates a row names it.
Request == 1..Requests
Demo == 0                            \* usr_demo_merchant
DefaultTenant == 0                   \* tenant_system_default
Outsider == Requests + 1             \* a user known to Supabase Auth only
DemoBox == {"demo", "merchant"}      \* demo@ctrl.app, merchant@ctrl.app
Box == Mailbox \cup DemoBox

\* An address is a mailbox as it was typed; only some handlers lower-case it.
lower(e) == [e EXCEPT !.capital = FALSE]
DemoAddress == [box |-> "demo", capital |-> FALSE]

UserId == Request \cup {Demo, Outsider}
TenantId == Request \cup {DefaultTenant, Outsider}
NoCode == [by |-> 0, expired |-> FALSE]
Idle == [at |-> "idle", call |-> "none", email |-> DemoAddress, user |-> Demo,
         tenant |-> DefaultTenant, seen |-> 0, token |-> 0]

TypeOK ==
  /\ tenants \subseteq TenantId
  /\ users \subseteq [id : UserId, email : [box : Box, capital : BOOLEAN]]
  /\ memberships \subseteq (UserId \X TenantId)
  /\ sessions \subseteq [id : Request, user : UserId, tenant : TenantId,
                         state : {"live", "revoked", "expired"}]
  /\ settings \in [environment : {"test", "live"}, capacity_limit : 1..100]
  /\ codes \in [Box -> [by : Request \cup {0}, expired : BOOLEAN]]
  /\ failed \in [Box -> 0..OtpTries]
  /\ \A r \in Request : /\ req[r].user \in UserId /\ req[r].tenant \in TenantId
                        /\ req[r].seen \in 0..OtpTries

arrives(r) == req[r].at = "idle" /\ \A q \in 1..(r - 1) : req[q].at # "idle"
goesTo(r, l) == req' = [req EXCEPT ![r].at = l]
begins(r, call, e, l) ==
  /\ arrives(r)
  /\ req' = [req EXCEPT ![r].at = l, ![r].call = call, ![r].email = e]

\* A handler answers 500 when a database call fails; what it did stays.
answer500(r) ==
  /\ req[r].at \notin {"idle", "ok", "refused", "failed"}
  /\ goesTo(r, "failed") /\ UNCHANGED <<tables, settings, otpVars>>

-----------------------------------------------------------------------------
(* One-time codes.                                                         *)

sendOtp(r, e) ==
  /\ begins(r, "sendOtp", lower(e), "ok")
  /\ codes' = [codes EXCEPT ![e.box] = [by |-> r, expired |-> FALSE]]
  /\ UNCHANGED <<tables, settings, failed>>

\* Reads the count of wrong codes; the fixed code of the demo mailbox skips
\* the comparison outside production.
verifyOtp(r, e) ==
  /\ arrives(r)
  /\ \E l \in IF failed[e.box] >= OtpTries THEN {"refused"}
              ELSE {"checking"} \cup (IF e.box = "demo" THEN {"lookup"} ELSE {}) :
       req' = [req EXCEPT ![r].at = l, ![r].call = "verifyOtp", ![r].email = lower(e),
                          ![r].seen = failed[e.box]]
  /\ UNCHANGED <<tables, settings, otpVars>>

\* Compares with the row; `right' is whether the code typed in is the row's.
compareOtp(r, right) ==
  LET row == codes[req[r].email.box] IN
  /\ req[r].at = "checking"
  /\ goesTo(r, CASE row = NoCode -> "refused"
                 [] row # NoCode /\ row.expired -> "purge"
                 [] row # NoCode /\ ~row.expired -> IF right THEN "matched" ELSE "missed")
  /\ UNCHANGED <<tables, settings, otpVars>>

\* Counts a wrong code, from the count read at the start.
countFailure(r) ==
  /\ req[r].at = "missed"
  /\ failed' = [failed EXCEPT ![req[r].email.box] = req[r].seen + 1]
  /\ goesTo(r, "refused") /\ UNCHANGED <<tables, settings, codes>>

clearFailures(r) ==
  /\ req[r].at = "matched"
  /\ failed' = [failed EXCEPT ![req[r].email.box] = 0]
  /\ goesTo(r, "consume") /\ UNCHANGED <<tables, settings, codes>>

\* Deletes by mailbox, whatever code is there by now.
deleteOtp(r) ==
  /\ req[r].at \in {"purge", "consume"}
  /\ codes' = [codes EXCEPT ![req[r].email.box] = NoCode]
  /\ goesTo(r, IF req[r].at = "purge" THEN "refused" ELSE "lookup")
  /\ UNCHANGED <<tables, settings, failed>>

-----------------------------------------------------------------------------
(* Accounts.                                                               *)

\* The users of an address as the join with memberships finds them.
joined(e) == {um \in users \X memberships : um[1].email = e /\ um[1].id = um[2][1]}

\* Goes on to a session for an account that was found.
signInAs(r, call, e, um) ==
  req' = [req EXCEPT ![r].at = "session", ![r].call = call, ![r].email = e,
                     ![r].user = um[1].id, ![r].tenant = um[2][2]]

lookup(r) ==
  /\ req[r].at = "lookup"
  /\ \/ \E um \in joined(req[r].email) : signInAs(r, "verifyOtp", req[r].email, um)
     \/ joined(req[r].email) = {} /\ goesTo(r, "onboard")
  /\ UNCHANGED <<tables, settings, otpVars>>

\* Checks for a duplicate of the address as typed; a weak password is refused.
signup(r, e, strong) ==
  /\ begins(r, "signup", e, IF strong /\ {u \in users : u.email = e} = {}
                            THEN "onboard" ELSE "refused")
  /\ UNCHANGED <<tables, settings, otpVars>>

\* Mutant: no transaction, so the tenant inserted first stays.
insertPiecemeal(r) ==
  IF \E u \in users : u.email = req[r].email
  THEN goesTo(r, "failed") /\ tenants' = tenants \cup {r} /\ UNCHANGED <<users, memberships>>
  ELSE /\ tenants' = tenants \cup {r}
       /\ users' = users \cup {[id |-> r, email |-> req[r].email]}
       /\ memberships' = memberships \cup {<<r, r>>}
       /\ req' = [req EXCEPT ![r].at = "session", ![r].user = r, ![r].tenant = r]

\* The three inserts of a new account: the address must be new, or the
\* transaction is rolled back and the handler answers 500.
insertAccount(r) ==
  IF \E u \in users : u.email = req[r].email
  THEN goesTo(r, "failed") /\ UNCHANGED <<tenants, users, memberships>>
  ELSE /\ tenants' = tenants \cup {r}
       /\ users' = users \cup {[id |-> r, email |-> req[r].email]}
       /\ memberships' = memberships \cup {<<r, r>>}
       /\ req' = [req EXCEPT ![r].at = "session", ![r].user = r, ![r].tenant = r]

onboard(r) ==
  /\ req[r].at = "onboard" /\ req[r].call = "verifyOtp"
  /\ insertAccount(r) /\ UNCHANGED <<sessions, settings, otpVars>>

createMerchant(r) ==
  /\ req[r].at = "onboard" /\ req[r].call = "signup"
  /\ insertAccount(r) /\ UNCHANGED <<sessions, settings, otpVars>>

\* `right' is whether the password verifies, or is one the demo accounts take.
login(r, e, right) ==
  /\ arrives(r)
  /\ \/ \E um \in joined(e) : right /\ signInAs(r, "login", e, um)
     \/ joined(e) = {} /\ right /\ e.box \in DemoBox /\ begins(r, "login", e, "seed")
     \/ ~right /\ begins(r, "login", e, "refused")
     \/ joined(e) = {} /\ e.box \notin DemoBox /\ begins(r, "login", e, "refused")
  /\ UNCHANGED <<tables, settings, otpVars>>

handleDemoLogin(r) ==
  /\ arrives(r)
  /\ \/ \E um \in joined(DemoAddress) : signInAs(r, "demo", DemoAddress, um)
     \/ joined(DemoAddress) = {} /\ begins(r, "demo", DemoAddress, "seed")
  /\ UNCHANGED <<tables, settings, otpVars>>

\* INSERT OR IGNORE of a user: nothing when the id or the address is taken.
ignoreUser(u) ==
  users' = IF \E w \in users : w.id = u.id \/ w.email = u.email THEN users
           ELSE users \cup {u}

\* INSERT OR REPLACE of a user: rows with that id or address are deleted, and
\* with them their memberships and sessions (ON DELETE CASCADE).
replaceUser(u) ==
  LET gone == {w \in users : w.id = u.id \/ w.email = u.email}
      ids == {w.id : w \in gone} IN
  /\ users' = (users \ gone) \cup {u}
  /\ memberships' = {m \in memberships : m[1] \notin ids}
  /\ sessions' = {s \in sessions : s.user \notin ids}

\* The seeding of login and handleDemoLogin: three statements, no transaction.
seedDemo(r) ==
  /\ \/ /\ req[r].at = "seed" /\ tenants' = tenants \cup {DefaultTenant}
        /\ goesTo(r, "seedUser") /\ UNCHANGED <<users, memberships, sessions>>
     \/ /\ req[r].at = "seedUser" /\ replaceUser([id |-> Demo, email |-> req[r].email])
        /\ goesTo(r, "seedMember") /\ UNCHANGED tenants
     \/ /\ req[r].at = "seedMember"
        /\ memberships' = memberships \cup {<<Demo, DefaultTenant>>}
        /\ req' = [req EXCEPT ![r].at = "session", ![r].user = Demo,
                              ![r].tenant = DefaultTenant]
        /\ UNCHANGED <<tenants, users, sessions>>
  /\ UNCHANGED <<settings, otpVars>>

\* The first demo-login handler: three inserts that ignore conflicts.
demoLogin(r) ==
  /\ \/ /\ begins(r, "demo", DemoAddress, "demoUser")
        /\ tenants' = tenants \cup {DefaultTenant} /\ UNCHANGED <<users, memberships>>
     \/ /\ req[r].at = "demoUser" /\ ignoreUser([id |-> Demo, email |-> DemoAddress])
        /\ goesTo(r, "demoMember") /\ UNCHANGED <<tenants, memberships>>
     \/ /\ req[r].at = "demoMember"
        /\ memberships' = memberships \cup
             {m \in {<<Demo, DefaultTenant>>} : \E u \in users : u.id = Demo}
        /\ req' = [req EXCEPT ![r].at = "session", ![r].user = Demo,
                              ![r].tenant = DefaultTenant]
        /\ UNCHANGED <<tenants, users>>
  /\ UNCHANGED <<sessions, settings, otpVars>>

-----------------------------------------------------------------------------
(* Sessions.                                                               *)

\* createSession first makes sure that tenant and user exist.
ensureParents(r) ==
  /\ req[r].at = "session"
  /\ tenants' = tenants \cup {req[r].tenant}
  /\ ignoreUser([id |-> req[r].user, email |-> req[r].email])
  /\ goesTo(r, "insert")
  /\ UNCHANGED <<memberships, sessions, settings, otpVars>>

\* The session row needs its user (a foreign key); then the token is given out.
createSession(r) ==
  /\ req[r].at = "insert"
  /\ IF \E u \in users : u.id = req[r].user
     THEN /\ sessions' = sessions \cup {[id |-> r, user |-> req[r].user,
                                         tenant |-> req[r].tenant, state |-> "live"]}
          /\ goesTo(r, "ok")
     ELSE goesTo(r, "failed") /\ UNCHANGED sessions
  /\ UNCHANGED <<tenants, users, memberships, settings, otpVars>>

\* Tokens given out: the request whose answer held one names it.
Tokens == {q \in Request : req[q].at = "ok"
                             /\ req[q].call \in {"verifyOtp", "signup", "login", "demo", "refresh"}}

validateSession(t) == \A s \in sessions : s.id = t => s.state = "live"

\* The middleware of the routes below; the context comes out of the token.
authenticateTenant(r, t, call) ==
  /\ arrives(r)
  /\ req' = [req EXCEPT ![r].at = IF validateSession(t) THEN call ELSE "refused",
                        ![r].call = call, ![r].email = req[t].email, ![r].user = req[t].user,
                        ![r].tenant = req[t].tenant, ![r].token = t]
  /\ UNCHANGED <<tables, settings, otpVars>>

\* A token of Supabase Auth, for a mailbox this service may not know.
verifySupabaseToken(r, b) ==
  /\ arrives(r)
  /\ req' = [req EXCEPT ![r].at = "refresh", ![r].call = "refresh",
                        ![r].email = [box |-> b, capital |-> FALSE],
                        ![r].user = Outsider, ![r].tenant = Outsider]
  /\ UNCHANGED <<tables, settings, otpVars>>

\* Mutant: the row of a session that ends is deleted.
deleted(t) == {s \in sessions : s.id # t}

revoked(t) == {IF s.id = t /\ s.state # "revoked" THEN [s EXCEPT !.state = "revoked"] ELSE s :
                 s \in sessions}

revokeSessionByToken(t) == sessions' = revoked(t)

\* Revokes the old token, then creates a session like a sign-in does.
refresh(r) ==
  /\ req[r].at = "refresh" /\ revokeSessionByToken(req[r].token)
  /\ goesTo(r, "session")
  /\ UNCHANGED <<tenants, users, memberships, settings, otpVars>>

logout(r) ==
  /\ req[r].at = "logout" /\ revokeSessionByToken(req[r].token)
  /\ goesTo(r, "ok")
  /\ UNCHANGED <<tenants, users, memberships, settings, otpVars>>

clampCapacity(n) == IF n < 1 THEN 1 ELSE IF n > 100 THEN 100 ELSE n

\* Of the tenants only the shared default one has settings here.
updateTenant(r, n) ==
  /\ req[r].at = "tenant" /\ goesTo(r, "ok")
  /\ settings' = IF req[r].tenant # DefaultTenant THEN settings
                 ELSE [settings EXCEPT !.capacity_limit = clampCapacity(n)]
  /\ UNCHANGED <<tables, otpVars>>

switchEnvironment(r, env) ==
  /\ req[r].at = "environment" /\ goesTo(r, "ok")
  /\ settings' = IF req[r].tenant # DefaultTenant THEN settings
                 ELSE [settings EXCEPT !.environment = env]
  /\ UNCHANGED <<tables, otpVars>>

\* Time: a code is good for ten minutes, a session for thirty, and the
\* count of wrong codes is forgotten after ten.
expire ==
  /\ \/ \E b \in Box : /\ codes[b] # NoCode /\ ~codes[b].expired
                       /\ codes' = [codes EXCEPT ![b].expired = TRUE]
                       /\ UNCHANGED <<sessions, failed>>
     \/ \E b \in Box : /\ failed[b] > 0 /\ failed' = [failed EXCEPT ![b] = 0]
                       /\ UNCHANGED <<sessions, codes>>
     \/ \E s \in sessions : /\ s.state = "live"
                            /\ sessions' = (sessions \ {s}) \cup {[s EXCEPT !.state = "expired"]}
                            /\ UNCHANGED otpVars
  /\ UNCHANGED <<tenants, users, memberships, settings, req>>

-----------------------------------------------------------------------------
Init ==
  /\ tenants = {} /\ users = {} /\ memberships = {} /\ sessions = {}
  /\ settings = [environment |-> "test", capacity_limit |-> 5]
  /\ codes = [b \in Box |-> NoCode] /\ failed = [b \in Box |-> 0]
  /\ req = [r \in Request |-> Idle]

Next ==
  \/ \E r \in Request :
       \/ \E e \in Address : \/ sendOtp(r, e) \/ verifyOtp(r, e)
                             \/ \E b \in BOOLEAN : signup(r, e, b) \/ login(r, e, b)
       \/ handleDemoLogin(r) \/ demoLogin(r)
       \/ \E b \in BOOLEAN : compareOtp(r, b)
       \/ countFailure(r) \/ clearFailures(r) \/ deleteOtp(r) \/ lookup(r)
       \/ onboard(r) \/ createMerchant(r) \/ seedDemo(r)
       \/ ensureParents(r) \/ createSession(r)
       \/ \E t \in Tokens, call \in {"refresh", "logout", "tenant", "environment"} :
            authenticateTenant(r, t, call)
       \/ \E b \in Mailbox : verifySupabaseToken(r, b)
       \/ refresh(r) \/ logout(r) \/ answer500(r)
       \/ \E n \in {0, 7, 101} : updateTenant(r, n)
       \/ \E env \in {"test", "live"} : switchEnvironment(r, env)
  \/ expire

Spec == Init /\ [][Next]_vars

-----------------------------------------------------------------------------
isMember(u) == \E m \in memberships : m[1] = u.id /\ m[2] \in tenants

\* An account is there whole or not at all (auth.ts 165-181, 391-407): when
\* sign-ups and first sign-ins for one address race, a merchant's tenant has
\* an owner that can sign in, and an address that was told it has an account
\* finds it again.
AccountsAreWhole ==
  /\ \A r \in tenants \cap Request : req[r].email.box \in Mailbox =>
       \E u \in users : <<u.id, r>> \in memberships
  /\ \A r \in Request :
       /\ req[r].at = "ok" /\ req[r].call \in {"verifyOtp", "signup"}
       /\ req[r].email.box \in Mailbox
       => \E u \in users : u.email = req[r].email /\ isMember(u)

\* Once a merchant's log-out was answered, its token is refused, though a
\* token with no row at all is accepted (session_auth.ts 156-176): no other
\* handler takes a merchant's session rows away.
LoggedOutIsRefused ==
  \A r \in Request :
    /\ req[r].at = "ok" /\ req[r].call = "logout" /\ req[r].email.box \in Mailbox
    => ~validateSession(req[r].token)
====
