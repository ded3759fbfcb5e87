----------------------------- MODULE MCServices -----------------------------
(* The services around the pipeline, one part at a time: the mirror in     *)
(* Supabase, credentials and API keys, accounts and sessions, the state    *)
(* audit, the agents' memory.                                              *)
EXTENDS Naturals, FiniteSets

CONSTANTS
  Opp, Run, Written, MaxCalls, MaxFaults,
  Registration, Reader, Key, MaxOutages, MaxLosses,
  Requests, Mailbox, Address, OtpTries,
  Audited, MaxFetchFailures, MaxPayments,
  Topic, MaxMemories, MaxClock, FetchLimit, RecallLimit, TopK

VARIABLES
  part,
  row, run, copy, calls, sync, broken, faults, unsent, orphaned,
  cred, pool, reg, reader, key, storeBroken, outages, losses, newest, setBack, saved, turnedAway,
  tenants, users, memberships, sessions, settings, codes, failed, req,
  local, link, mission, script, seen, fetchFailures, payments,
  memories, documents, clock

Mirror == INSTANCE RecordMirror
Keys == INSTANCE Credentials
Merchants == INSTANCE Accounts
Audit == INSTANCE StateAudit
Memory == INSTANCE AgentMemory

ASSUME AuditAssumption == MaxFetchFailures \in Nat /\ MaxPayments \in Nat
ASSUME MirrorAssumption == MaxCalls \in Nat /\ MaxFaults \in Nat /\ Written \subseteq Mirror!Status
ASSUME KeysAssumption ==
  IsFiniteSet(Registration) /\ MaxOutages \in Nat /\ MaxLosses \in Nat
ASSUME AccountsAssumption ==
  /\ Requests \in Nat /\ OtpTries \in Nat \ {0}
  /\ Address \subseteq [box : Merchants!Box, capital : BOOLEAN]
  /\ Mailbox \cap Merchants!DemoBox = {}

ASSUME MemoryAssumption ==
  /\ MaxMemories \in Nat /\ MaxClock \in Nat /\ RecallLimit \in Nat /\ FetchLimit \in Nat
  /\ TopK \in Nat

\* One mailbox, typed with and without a capital, and the demo address.
Typed == [box : Mailbox, capital : BOOLEAN] \cup [box : {"demo"}, capital : {FALSE}]

mirrorVars == <<row, run, copy, calls, sync, broken, faults, unsent, orphaned>>
keyVars == <<cred, pool, reg, reader, key, storeBroken, outages, losses, newest, setBack, saved,
             turnedAway>>
accountVars == <<tenants, users, memberships, sessions, settings, codes, failed, req>>
auditVars == <<local, link, mission, script, seen, fetchFailures, payments>>
memoryVars == <<memories, documents, clock>>
all == <<part, mirrorVars, keyVars, accountVars, auditVars, memoryVars>>

\* A part that is not the one of the behaviour has no state.
NoMirror ==
  /\ row = 0 /\ run = 0 /\ copy = 0 /\ calls = 0 /\ sync = 0 /\ broken = 0 /\ faults = 0
  /\ unsent = 0 /\ orphaned = 0
NoKeys ==
  /\ cred = 0 /\ pool = 0 /\ reg = 0 /\ reader = 0 /\ key = 0 /\ storeBroken = 0 /\ outages = 0
  /\ losses = 0 /\ newest = 0 /\ setBack = 0 /\ saved = 0 /\ turnedAway = 0
NoAccounts ==
  /\ tenants = 0 /\ users = 0 /\ memberships = 0 /\ sessions = 0 /\ settings = 0 /\ codes = 0
  /\ failed = 0 /\ req = 0
NoAudit ==
  /\ local = 0 /\ link = 0 /\ mission = 0 /\ script = 0 /\ seen = 0 /\ fetchFailures = 0
  /\ payments = 0
NoMemory == memories = 0 /\ documents = 0 /\ clock = 0

ServicesInit ==
  /\ part \in {"mirror", "keys", "accounts", "audit", "memory"}
  /\ IF part = "mirror" THEN Mirror!Init ELSE NoMirror
  /\ IF part = "keys" THEN Keys!Init ELSE NoKeys
  /\ IF part = "accounts" THEN Merchants!Init ELSE NoAccounts
  /\ IF part = "audit" THEN Audit!Init ELSE NoAudit
  /\ IF part = "memory" THEN Memory!Init ELSE NoMemory
ServicesNext ==
  \/ /\ part = "mirror" /\ Mirror!Next
     /\ UNCHANGED <<part, keyVars, accountVars, auditVars, memoryVars>>
  \/ /\ part = "keys" /\ Keys!Next
     /\ UNCHANGED <<part, mirrorVars, accountVars, auditVars, memoryVars>>
  \/ /\ part = "accounts" /\ Merchants!Next
     /\ UNCHANGED <<part, mirrorVars, keyVars, auditVars, memoryVars>>
  \/ /\ part = "audit" /\ Audit!Next
     /\ UNCHANGED <<part, mirrorVars, keyVars, accountVars, memoryVars>>
  \/ /\ part = "memory" /\ Memory!Next
     /\ UNCHANGED <<part, mirrorVars, keyVars, accountVars, auditVars>>
ServicesSpec == ServicesInit /\ [][ServicesNext]_all

\* Supabase refuses a child only after a copy of its opportunity failed or was
\* skipped: the unordered calls of the mirror never overtake the parent.
ParentGoesFirst == part = "mirror" => Mirror!TypeOK /\ Mirror!ParentGoesFirst

\* A pooled client is made from the credential stored last, apart from the windows
\* the code leaves open; a key that reached Supabase is accepted while it answers.
CredentialsHold ==
  part = "keys" => Keys!TypeOK /\ Keys!PooledIsCurrent /\ Keys!SavedKeyIsAccepted

\* Accounts are there whole or not at all, however sign-ups race, and a merchant's
\* token is refused once its log-out was answered.
AccountsHold ==
  part = "accounts" =>
    Merchants!TypeOK /\ Merchants!AccountsAreWhole /\ Merchants!LoggedOutIsRefused

\* After a repair an opportunity is inconsistent only if its link could not be
\* fetched or has changed since, and no recovery was made up.
RepairSettles == part = "audit" => Audit!TypeOK /\ Audit!RepairSettles

\* What was recalled for a moment that has passed stays the same.
RecallIsSettled == Memory!RecallIsSettled
=============================================================================
