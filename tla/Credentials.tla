------------------------------ MODULE Credentials ------------------------------
(***************************************************************************)
(* A merchant's provider credential and API keys.  Both live in the local  *)
(* database and, as far as Supabase answered, in Supabase, from which a    *)
(* local database that was lost is filled again row by row.  The provider  *)
(* client made from the credential is pooled for fifteen minutes; storing  *)
(* a new credential takes the pooled client out.                           *)
(***************************************************************************)
EXTENDS Naturals, FiniteSets

CONSTANTS
  Registration,   \* requests that store a credential
  Reader,         \* activities that ask the pool for a client
  Key,            \* API keys
  MaxOutages,     \* bound on failed Supabase calls
  MaxLosses       \* bound on losses of the local database

VARIABLES
  cred,       \* the credential: its version locally and in Supabase, 0 if none
  pool,       \* the pooled client: the version it was made from, and whether
              \* a registration went on meanwhile or Supabase did not answer
  reg,        \* per registration: how far it is, and its version
  reader,     \* per reader: how far it is, what it read, and whether in doubt
  key,        \* per API key: its local row, its Supabase row
  storeBroken, outages, losses,
  newest,     \* the version stored last
  setBack,    \* the local database was lost while Supabase was behind
  saved,      \* keys Supabase has had
  turnedAway  \* keys refused although Supabase answered

vars == <<cred, pool, reg, reader, key, storeBroken, outages, losses, newest, setBack,
          saved, turnedAway>>

credVars == <<cred, pool, reg, reader, newest, setBack>>
keyVars == <<key, saved, turnedAway>>

Version == 0..Cardinality(Registration)
IdleReader == [at |-> "idle", v |-> 0, doubtful |-> FALSE, pools |-> FALSE]
NoClient == [v |-> 0, doubtful |-> FALSE, here |-> FALSE]

TypeOK ==
  /\ cred \in [local : Version, remote : Version]
  /\ pool \in [v : Version, doubtful : BOOLEAN, here : BOOLEAN]
  /\ reg \in [Registration -> [at : {"new", "saving", "invalidating", "done"}, v : Version]]
  /\ reader \in [Reader -> [at : {"idle", "fetching", "hydrating", "building"},
                            v : Version, doubtful : BOOLEAN, pools : BOOLEAN]]
  /\ key \in [Key -> [local : {"none", "live", "misnamed", "revoked"},
                      remote : {"none", "ACTIVE", "REVOKED"}]]
  /\ storeBroken \in BOOLEAN /\ outages \in 0..MaxOutages /\ losses \in 0..MaxLosses
  /\ newest \in Version /\ setBack \in BOOLEAN
  /\ saved \subseteq Key /\ turnedAway \subseteq Key

-----------------------------------------------------------------------------
(* Supabase: with the store circuit open nothing is asked; a call that     *)
(* fails opens it for ten seconds.                                         *)

tripStoreCircuit ==
  /\ ~storeBroken /\ outages < MaxOutages
  /\ storeBroken' = TRUE /\ outages' = outages + 1 /\ UNCHANGED losses

Answers == ~storeBroken /\ UNCHANGED <<storeBroken, outages, losses>>
Skipped == storeBroken /\ UNCHANGED <<storeBroken, outages, losses>>

circuitCloses ==
  /\ storeBroken /\ storeBroken' = FALSE
  /\ UNCHANGED <<outages, losses, credVars, keyVars>>

-----------------------------------------------------------------------------
(* The credential.                                                         *)

\* Every reader under way at this moment may hold what is now out of date.
Racing == [g \in Reader |-> [reader[g] EXCEPT !.doubtful = @ \/ reader[g].at # "idle"]]

\* storeTenantCredential, the local half.
storeTenantCredential(i) ==
  /\ reg[i].at = "new"
  /\ newest' = newest + 1
  /\ cred' = [cred EXCEPT !.local = newest']
  /\ reg' = [reg EXCEPT ![i] = [at |-> "saving", v |-> newest']]
  /\ reader' = Racing
  /\ UNCHANGED <<pool, setBack, storeBroken, outages, losses, keyVars>>

\* SupabaseStore.saveCredential: saved, failed or skipped, the registration goes on.
saveCredential(i) ==
  /\ reg[i].at = "saving"
  /\ reg' = [reg EXCEPT ![i].at = "invalidating"]
  /\ \/ Answers /\ cred' = [cred EXCEPT !.remote = reg[i].v]
     \/ (tripStoreCircuit \/ Skipped) /\ UNCHANGED cred
  /\ UNCHANGED <<pool, reader, newest, setBack, keyVars>>

\* Mutant: the pooled client stays.
keepPooled == UNCHANGED pool

\* RazorpayClientPool.invalidate
invalidate == pool' = NoClient

registerConnection(i) ==
  /\ reg[i].at = "invalidating"
  /\ invalidate
  /\ reg' = [reg EXCEPT ![i].at = "done"]
  /\ UNCHANGED <<cred, reader, newest, setBack, storeBroken, outages, losses, keyVars>>

\* The credential is read, to be pooled or not.
read(g, pools) ==
  /\ reader[g].at = "idle"
  /\ reader' = [reader EXCEPT ![g] =
       [at |-> IF cred.local = 0 THEN "fetching" ELSE "building",
        v |-> cred.local, pools |-> pools,
        doubtful |-> \E i \in Registration : reg[i].at \in {"saving", "invalidating"}]]
  /\ UNCHANGED <<cred, pool, reg, newest, setBack, storeBroken, outages, losses, keyVars>>

\* A pooled client is handed out as it is.
getClient(g) == ~pool.here /\ read(g, TRUE)

verifyConnection(g) == read(g, FALSE)
getWebhookSecrets(g) == read(g, FALSE)
listTenantCredentials(g) == read(g, FALSE)

\* getTenantCredential found no local row: SupabaseStore.fetchCredential.
fetchCredential(g) ==
  /\ reader[g].at = "fetching"
  /\ \/ Answers
        /\ reader' = [reader EXCEPT ![g].v = cred.remote,
                                    ![g].at = IF cred.remote = 0 THEN "building" ELSE "hydrating"]
     \/ (tripStoreCircuit \/ Skipped)
        /\ reader' = [reader EXCEPT ![g].at = "building", ![g].doubtful = TRUE]
  /\ UNCHANGED <<cred, pool, reg, newest, setBack, keyVars>>

\* INSERT OR REPLACE: whatever was stored locally in the meantime is replaced.
getTenantCredential(g) ==
  /\ reader[g].at = "hydrating"
  /\ cred' = [cred EXCEPT !.local = reader[g].v]
  /\ reader' = [reader EXCEPT ![g].at = "building"]
  /\ setBack' = (setBack \/ reader[g].v # newest)
  /\ UNCHANGED <<pool, reg, newest, storeBroken, outages, losses, keyVars>>

\* The client is made, from the environment's key when there is no credential.
poolClient(g) ==
  /\ reader[g].at = "building"
  /\ pool' = IF reader[g].pools
             THEN [v |-> reader[g].v, doubtful |-> reader[g].doubtful, here |-> TRUE] ELSE pool
  /\ reader' = [reader EXCEPT ![g] = IdleReader]
  /\ UNCHANGED <<cred, reg, newest, setBack, storeBroken, outages, losses, keyVars>>

\* Fifteen minutes passed, or a hundred other tenants' clients pushed it out.
expireClient ==
  /\ pool.here /\ pool' = NoClient
  /\ UNCHANGED <<cred, reg, reader, newest, setBack, storeBroken, outages, losses, keyVars>>

\* deleteTenantCredential: the local row only.
deleteTenantCredential ==
  /\ cred.local # 0 /\ cred' = [cred EXCEPT !.local = 0]
  /\ reader' = Racing /\ setBack' = TRUE
  /\ UNCHANGED <<pool, reg, newest, storeBroken, outages, losses, keyVars>>

-----------------------------------------------------------------------------
(* API keys.                                                               *)

createApiKey(k) ==
  /\ key[k] = [local |-> "none", remote |-> "none"] /\ k \notin saved
  /\ \/ Answers /\ saved' = saved \cup {k}
        /\ key' = [key EXCEPT ![k] = [local |-> "live", remote |-> "ACTIVE"]]
     \/ (tripStoreCircuit \/ Skipped) /\ key' = [key EXCEPT ![k].local = "live"]
        /\ UNCHANGED saved
  /\ UNCHANGED <<turnedAway, credVars>>

\* Mutant: the rows of Supabase are not asked for.
localOnly(k) ==
  /\ key[k].local # "live"
  /\ turnedAway' = IF key[k].local = "none" THEN turnedAway \cup {k} ELSE turnedAway
  /\ UNCHANGED <<key, storeBroken, outages, losses>>

\* A key the local database does not know: asked for by its hash while it is ACTIVE,
\* and written back under its right name.
fetchApiKeyByHash(k) ==
  /\ key[k].local \in {"none", "misnamed"}
  /\ \/ Answers /\ IF key[k].remote = "ACTIVE"
                   THEN key' = [key EXCEPT ![k].local = "live"] /\ UNCHANGED turnedAway
                   ELSE turnedAway' = turnedAway \cup {k} /\ UNCHANGED key
     \/ (tripStoreCircuit \/ Skipped) /\ UNCHANGED <<key, turnedAway>>

authenticateKey(k) ==
  /\ key[k] # [local |-> "none", remote |-> "none"]
  /\ fetchApiKeyByHash(k)
  /\ UNCHANGED <<saved, credVars>>

\* listApiKeys fills an empty local table from Supabase: a made-up key_id, and no
\* revoked_at.
listApiKeys ==
  /\ \A k \in Key : key[k].local = "none"
  /\ Answers
  /\ key' = [k \in Key |-> IF key[k].remote = "none" THEN key[k]
                           ELSE [key[k] EXCEPT !.local = "misnamed"]]
  /\ UNCHANGED <<saved, turnedAway, credVars>>

\* revokeApiKey(tenant, identifier): locally by id or key_id, in Supabase by id only.
revokeApiKey(k, byId) ==
  /\ key[k].local \in {"live", "misnamed"}
  /\ \/ Answers /\ key' = [key EXCEPT ![k].local = "revoked",
                             ![k].remote = IF byId /\ @ = "ACTIVE" THEN "REVOKED" ELSE @]
     \/ (tripStoreCircuit \/ Skipped) /\ key' = [key EXCEPT ![k].local = "revoked"]
  /\ UNCHANGED <<saved, turnedAway, credVars>>

-----------------------------------------------------------------------------

\* The local database, a file of the container, is gone after a redeployment.
loseLocalDatabase ==
  /\ losses < MaxLosses /\ losses' = losses + 1
  /\ cred' = [cred EXCEPT !.local = 0]
  /\ setBack' = (setBack \/ cred.remote # newest)
  /\ key' = [k \in Key |-> [key[k] EXCEPT !.local = "none"]]
  /\ pool' = NoClient /\ storeBroken' = FALSE
  /\ reg' = [i \in Registration |->
       [reg[i] EXCEPT !.at = IF @ = "new" THEN "new" ELSE "done"]]
  /\ reader' = [g \in Reader |-> IdleReader]
  /\ UNCHANGED <<outages, newest, saved, turnedAway>>

Init ==
  /\ cred = [local |-> 0, remote |-> 0] /\ pool = NoClient
  /\ reg = [i \in Registration |-> [at |-> "new", v |-> 0]]
  /\ reader = [g \in Reader |-> IdleReader]
  /\ key = [k \in Key |-> [local |-> "none", remote |-> "none"]]
  /\ storeBroken = FALSE /\ outages = 0 /\ losses = 0
  /\ newest = 0 /\ setBack = FALSE /\ saved = {} /\ turnedAway = {}

Next ==
  \/ circuitCloses \/ loseLocalDatabase \/ expireClient \/ deleteTenantCredential \/ listApiKeys
  \/ \E i \in Registration : storeTenantCredential(i) \/ saveCredential(i) \/ registerConnection(i)
  \/ \E g \in Reader : \/ getClient(g) \/ verifyConnection(g) \/ getWebhookSecrets(g)
                      \/ listTenantCredentials(g) \/ fetchCredential(g)
                      \/ getTenantCredential(g) \/ poolClient(g)
  \/ \E k \in Key : createApiKey(k) \/ authenticateKey(k)
  \/ \E k \in Key, byId \in BOOLEAN : revokeApiKey(k, byId)

Spec == Init /\ [][Next]_vars

-----------------------------------------------------------------------------
(* Properties.                                                             *)

\* A pooled client is made from the credential stored last, or its replacement is
\* still to be invalidated, or it was read while a registration went on or without
\* Supabase, or the local row had been set back to an older one that Supabase held.
PooledIsCurrent ==
  pool.here /\ pool.v # newest =>
    pool.doubtful \/ setBack \/ \E i \in Registration : reg[i].at \in {"saving", "invalidating"}

\* A key that reached Supabase and was not revoked there is never turned away while
\* Supabase answers, whatever became of the local database.
SavedKeyIsAccepted ==
  \A k \in turnedAway : k \in saved => key[k].remote = "REVOKED"
=============================================================================
