----------------------------- MODULE MCClients -----------------------------
(* What browsers see, one part at a time: live streams, trace streams, the *)
(* shop's page with the checkout script, the dashboard's session.          *)
EXTENDS Naturals

CONSTANTS
  MaxConn, Tenant, Notice, Quiet,
  Watcher, TraceRun, MaxTraced, BufferSize, ReplayLast,
  Payment, PollTries, MaxFailures,
  Merchant, Demo, MaxTasks, MaxReloads

VARIABLES
  part,
  tenantClients, stream, sse, notices,
  recentEvents, traced, watch,
  sdk, razorpay, modal, page, reports, polls, known, linked, taken, app, failures,
  state, storage, supabase, tasks, valid, reloads

Live == INSTANCE Realtime
Trace == INSTANCE TraceStream
Shop == INSTANCE Checkout
Session == INSTANCE BrowserSession

ASSUME ShopAssumption ==
  /\ PollTries \in Nat /\ MaxFailures \in Nat
  /\ Shop!None \notin Payment /\ Shop!DemoLink \notin Payment
ASSUME TraceAssumption ==
  /\ MaxTraced \in Nat /\ BufferSize \in Nat /\ ReplayLast \in Nat /\ Trace!All \notin TraceRun
ASSUME LiveAssumption == MaxConn \in Nat /\ Quiet \in Nat /\ Tenant # {}

realtimeVars == <<tenantClients, stream, sse, notices>>
traceVars == <<recentEvents, traced, watch>>
pageVars == <<sdk, razorpay, modal, page, reports, polls, known, linked, taken, app, failures>>
sessionVars == <<state, storage, supabase, tasks, valid, reloads>>
all == <<part, realtimeVars, traceVars, pageVars, sessionVars>>

\* A part that is not the one of the behaviour has no state.
NoStreams == tenantClients = 0 /\ stream = 0 /\ sse = 0 /\ notices = 0
NoTraces == recentEvents = 0 /\ traced = 0 /\ watch = 0
NoShop ==
  /\ sdk = 0 /\ razorpay = 0 /\ modal = 0 /\ page = 0 /\ reports = 0 /\ polls = 0 /\ known = 0
  /\ linked = 0 /\ taken = 0 /\ app = 0 /\ failures = 0
NoSession ==
  /\ state = [at |-> [token |-> 0], loading |-> FALSE] /\ storage = 0 /\ supabase = 0 /\ tasks = 0
  /\ valid = 0 /\ reloads = 0

ClientsInit ==
  /\ part \in {"realtime", "trace", "shop", "session"}
  /\ IF part = "realtime" THEN Live!Init ELSE NoStreams
  /\ IF part = "trace" THEN Trace!Init ELSE NoTraces
  /\ IF part = "shop" THEN Shop!Init ELSE NoShop
  /\ IF part = "session" THEN Session!Init ELSE NoSession
ClientsNext ==
  \/ part = "realtime" /\ Live!Next /\ UNCHANGED <<part, traceVars, pageVars, sessionVars>>
  \/ part = "trace" /\ Trace!Next /\ UNCHANGED <<part, realtimeVars, pageVars, sessionVars>>
  \/ part = "shop" /\ Shop!Next /\ UNCHANGED <<part, realtimeVars, traceVars, sessionVars>>
  \/ part = "session" /\ Session!Next /\ UNCHANGED <<part, realtimeVars, traceVars, pageVars>>
ClientsSpec == ClientsInit /\ [][ClientsNext]_all

\* Every stream a browser still reads hears all that is pushed to its tenant and
\* nothing else, and the client holds one stream at most and always has a way back.
StreamsHear ==
  part = "realtime" => Live!TypeOK /\ Live!StreamsHear /\ Live!ClientHoldsOneStream

\* A trace stream shows its run without a gap, a repetition or a foreign event.
TraceHasNoGap == part = "trace" => Trace!TypeOK /\ Trace!TraceHasNoGap

\* Whichever answers of two failures come last, the page shows the link recorded for
\* the opportunity it names, and a failure reported twice is taken in hand once.
CheckoutIsHonest ==
  part = "shop" => Shop!TypeOK /\ Shop!ShownLinkIsItsOwn /\ Shop!FailureIsTakenOnce

\* The dashboard takes a new token up together with its owner and the owner's tenant.
TokenComesWithItsOwner == Session!TokenComesWithItsOwner
=============================================================================
