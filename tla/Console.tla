------------------------------- MODULE Console -------------------------------
(***************************************************************************)
(* The operator's browser: the dashboard page, which polls a summary and   *)
(* the opportunity table and posts the operator's actions, the layout's    *)
(* notification bell, which polls the inbox, and the test ground, which    *)
(* runs a simulated checkout through the whole pipeline.  The server is    *)
(* their routes.  Requests overlap: an interval fires whether or not the   *)
(* request before it has been answered, and answers come in any order.     *)
(***************************************************************************)
EXTENDS Lifecycle, FiniteSets

CONSTANTS
  Real,        \* opportunities of real payments, in execution at the start
  Simulated,   \* opportunities the test ground may create
  Poll,        \* reads of one interval that may be under way at once
  MaxClicks,   \* clicks of the operator, and calls of POST /authority/kill-switch
  MaxFailures  \* requests lost on the network, or their answers

VARIABLES
  switch,    \* isGlobalKillSwitchActive
  rows,      \* recovery_opportunities: status, why the payment failed, has a link
  inbox,     \* the notifications table: how many, and how many unread
  handler,   \* where simulate-scenario is, per opportunity
  table,     \* what the dashboard shows: summary and opportunities
  bell,      \* what the layout shows
  loads,     \* calls of loadDashboardData
  fetches,   \* calls of fetchNotifications, and the call of markAllRead
  marking,   \* an answer of mark-all-read is awaited
  act,       \* the dashboard's action under way
  ground,    \* the test ground: its flags and simulationResult
  budget     \* clicks and failures so far

consoleVars == <<switch, rows, inbox, handler, table, bell, loads, fetches,
                 marking, act, ground, budget>>
server  == <<switch, rows, inbox, handler>>
browser == <<table, bell, loads, fetches, marking, act, ground>>

None == "none"
Rows == Real \cup Simulated
Kind == {"real", "soft", "capacity_bind", "hard", "holdout"}
NoRow == [status |-> None, kind |-> "soft", link |-> FALSE]

Count(field) == budget' = [budget EXCEPT ![field] = @ + 1]
Click == budget.clicks < MaxClicks /\ Count("clicks")
Fails == budget.failures < MaxFailures /\ Count("failures")

TypeOK ==
  /\ switch \in BOOLEAN
  /\ rows \in [Rows -> [status : Status \cup {None}, kind : Kind, link : BOOLEAN]]
  /\ inbox \in [unread : 0..2 * MaxClicks, all : 0..2 * MaxClicks]
  /\ handler \in [Simulated -> {"idle", "executing", "answering"}]
  /\ act.at \in {"idle", "post", "reload"} /\ ground.simulating \in Simulated \cup {None}
  /\ DOMAIN loads = Poll \cup {"act"} /\ DOMAIN fetches = Poll /\ marking \in BOOLEAN
  /\ budget \in [clicks : 0..MaxClicks, failures : 0..MaxFailures]

insertNotification == inbox' = [unread |-> inbox.unread + 1, all |-> inbox.all + 1]

-----------------------------------------------------------------------------
(* The server's routes.                                                    *)

\* GET /dashboard/summary: the switch, and what counts as recovered money.
summary == [kill |-> switch,
            recovered |-> {o \in Rows : rows[o].kind = "real" /\ rows[o].status = "recovered"}]

\* GET /opportunities
opportunities == [o \in Rows |-> [status |-> rows[o].status, link |-> rows[o].link]]

\* POST /authority/kill-switch, from the API or another operator's tool.
setKillSwitch ==
  /\ Click
  /\ switch' = ~switch
  /\ UNCHANGED <<rows, inbox, handler, table, bell, loads, fetches, marking, act, ground>>

\* What a market run gives a candidate: capacity is 0 only for a simulated bind.
marketDecision(kind, cap) ==
  IF kind \in {"hard", "holdout"} THEN "ABSTAIN" ELSE IF cap = 0 THEN "WAIT" ELSE "ACT"
marketStatus ==
  [d \in {"ACT", "WAIT", "ABSTAIN"} |->
     CASE d = "ACT" -> "allocated" [] d = "WAIT" -> "deferred" [] d = "ABSTAIN" -> "abstained"]

\* POST /market/run with capacity 5.
runMarket ==
  rows' = [o \in Rows |->
             IF rows[o].status \in {"pending", "scored", "deferred"}
             THEN [rows[o] EXCEPT !.status =
                     updateStatus(@, marketStatus[marketDecision(rows[o].kind, 5)])]
             ELSE rows[o]]

\* POST /playground/reconcile-link: whatever the opportunity is, a ledger row
\* that says recovered (the ledger is not read here), a notification, and the
\* status if the table of transitions lets it.
reconcileLink(o) ==
  /\ rows' = [rows EXCEPT ![o].status = updateStatus(@, "recovered")]
  /\ insertNotification

\* How the payment of a scenario failed; 5 % of all ids are in the holdout.
failure ==
  [soft_funds |-> {"soft", "holdout"}, soft_timeout |-> {"soft", "holdout"},
   hard_stolen |-> {"hard"}, capacity_bind |-> {"capacity_bind", "holdout"}]

\* POST /playground/simulate-scenario.  Stages 1 to 4: ingest, score, market.
capacity(kind) == IF kind = "capacity_bind" THEN 0 ELSE 5
ranked(kind) ==
  LET scored == updateStatus("pending", "scored")
  IN  updateStatus(scored, marketStatus[marketDecision(kind, capacity(kind))])

\* Stage 5, and stage 6 up to executeOpportunity's first await.
simulateScenario(o, kind) ==
  LET verdict == RuleVerdict(switch, kind = "hard", 1, FALSE, marketDecision(kind, capacity(kind)))
  IN  /\ rows' = [rows EXCEPT ![o] =
                    [status |-> updateStatus(ranked(kind), suggestedStatus[verdict]),
                     kind |-> kind, link |-> FALSE]]
      /\ handler' = [handler EXCEPT ![o] =
                       IF verdict = "AUTHORIZED" THEN "executing" ELSE "answering"]

\* The executor records the link, real or simulated; then the mail goes out.
linkRecorded(o) ==
  /\ handler[o] = "executing"
  /\ rows' = [rows EXCEPT ![o] = [@ EXCEPT !.status = updateStatus(@, "executing"),
                                           !.link = TRUE]]
  /\ insertNotification
  /\ handler' = [handler EXCEPT ![o] = "answering"]
  /\ UNCHANGED <<switch, browser, budget>>

\* What the answer tells of the run: the opportunity, and its link if it got one.
answer(o) == [opportunity_id |-> o, link_url |-> rows[o].link]

\* The customer pays the real link and the reconciler books it.
customerPays(o) ==
  /\ rows[o].status = "executing"
  /\ rows' = [rows EXCEPT ![o].status = "recovered"]
  /\ UNCHANGED <<switch, inbox, handler, browser, budget>>

-----------------------------------------------------------------------------
(* Dashboard: loadDashboardData.                                           *)

\* What has been answered so far: a set with the answer, or none.
NoLoad == [summary |-> {}, rows |-> {}]

\* Mutant: the page reads its data when it opens and after an action only.
loadedOnce(s) ==
  /\ s = "act" => act.at = "reload"
  /\ s = "act" \/ table = {}
  /\ \/ loads[s].summary = {} /\ loads' = [loads EXCEPT ![s].summary = {summary}]
     \/ loads[s].rows = {} /\ loads' = [loads EXCEPT ![s].rows = {opportunities}]
  /\ UNCHANGED <<server, table, bell, fetches, marking, act, ground, budget>>

\* The interval fires at any time, an action reloads.  The two requests of a
\* load are handled in either order, at different moments.
loadHandled(s) ==
  /\ s = "act" => act.at = "reload"
  /\ \/ loads[s].summary = {} /\ loads' = [loads EXCEPT ![s].summary = {summary}]
     \/ loads[s].rows = {} /\ loads' = [loads EXCEPT ![s].rows = {opportunities}]
  /\ UNCHANGED <<server, table, bell, fetches, marking, act, ground, budget>>

Idle == [at |-> "idle", kind |-> None, opp |-> None]
Ended(s) == IF s = "act" THEN Idle ELSE act

\* Promise.all: both answers are in, the page shows them.
loadDashboardData(s) ==
  /\ loads[s].summary # {} /\ loads[s].rows # {}
  /\ table' = [summary : loads[s].summary, rows : loads[s].rows]
  /\ loads' = [loads EXCEPT ![s] = NoLoad]
  /\ act' = Ended(s)
  /\ UNCHANGED <<server, bell, fetches, marking, ground, budget>>

\* One request fails: the page keeps what it shows.
loadFails(s) ==
  /\ (IF s = "act" THEN act.at = "reload" ELSE loads[s] # NoLoad) /\ Fails
  /\ loads' = [loads EXCEPT ![s] = NoLoad]
  /\ act' = Ended(s)
  /\ UNCHANGED <<server, table, bell, fetches, marking, ground>>

-----------------------------------------------------------------------------
(* Dashboard: the operator's actions.  The buttons are disabled while one  *)
(* is under way (actionLoading).                                           *)

Posts(kind, o) ==
  /\ act.at = "idle" /\ Click
  /\ act' = [at |-> "post", kind |-> kind, opp |-> o]
  /\ UNCHANGED <<server, table, bell, loads, fetches, marking, ground>>

handleToggleKillSwitch == Posts(IF \E t \in table : t.summary.kill THEN "resume" ELSE "stop", None)
handleRunSweep == Posts("sweep", None)
handleSimulateSettlement(o) ==
  /\ \E t \in table : t.rows[o].status = "executing"
  /\ Posts("settle", o)

\* The server answers the post and the page reloads.  POST /v1/market/kill-switch
\* is not a route: the answer is 404 and the page only shows an alert.
actionHandled ==
  /\ act.at = "post"
  /\ \/ /\ act.kind \in {"stop", "resume"}
        /\ act' = Idle
        /\ UNCHANGED <<rows, inbox>>
     \/ /\ act.kind = "sweep" /\ runMarket
        /\ act' = [act EXCEPT !.at = "reload"]
        /\ UNCHANGED inbox
     \/ /\ act.kind = "settle" /\ reconcileLink(act.opp)
        /\ act' = [act EXCEPT !.at = "reload"]
  /\ UNCHANGED <<switch, handler, table, bell, loads, fetches, marking, ground, budget>>

\* The request, or its answer, is lost: an alert, and the buttons come back.
actionFails ==
  /\ act.at = "post" /\ Fails
  /\ act' = Idle
  /\ \/ UNCHANGED server
     \/ act.kind = "sweep" /\ runMarket /\ UNCHANGED <<switch, inbox, handler>>
     \/ act.kind = "settle" /\ reconcileLink(act.opp) /\ UNCHANGED <<switch, handler>>
  /\ UNCHANGED <<table, bell, loads, fetches, marking, ground>>

-----------------------------------------------------------------------------
(* The notification bell.                                                  *)

\* GET /notifications, when the interval fires.
getNotifications(s) ==
  /\ fetches[s] = {}
  /\ fetches' = [fetches EXCEPT ![s] = {inbox}]
  /\ UNCHANGED <<server, table, bell, loads, marking, act, ground, budget>>

\* The answer is shown, or lost.
fetchNotifications(s) ==
  /\ fetches[s] # {}
  /\ fetches' = [fetches EXCEPT ![s] = {}]
  /\ \/ bell' \in fetches[s] /\ UNCHANGED budget
     \/ bell' = bell /\ Fails
  /\ UNCHANGED <<server, table, loads, marking, act, ground>>

\* POST /notifications/mark-all-read
markAllNotificationsAsRead ==
  /\ ~marking /\ bell.unread > 0 /\ Click
  /\ inbox' = [inbox EXCEPT !.unread = 0]
  /\ marking' = TRUE
  /\ UNCHANGED <<switch, rows, handler, table, bell, loads, fetches, act, ground>>

\* The answer marks what the layout shows by then; a failure changes nothing.
markAllRead ==
  /\ marking /\ marking' = FALSE
  /\ \/ bell' = [bell EXCEPT !.unread = 0] /\ UNCHANGED budget
     \/ bell' = bell /\ Fails
  /\ UNCHANGED <<server, table, loads, fetches, act, ground>>

-----------------------------------------------------------------------------
(* The test ground.                                                        *)

\* The visitor starts a checkout; the server runs it to the first await.
handleSimulateCheckout(o, scenario) ==
  /\ ground.simulating = None /\ rows[o] = NoRow /\ Click
  /\ ground' = [ground EXCEPT !.simulating = o]
  /\ \E kind \in failure[scenario] : simulateScenario(o, kind)
  /\ UNCHANGED <<switch, inbox, table, bell, loads, fetches, marking, act>>

\* The answer, or its loss: an alert, and the button comes back.
simulationAnswered(o) ==
  /\ handler[o] = "answering" /\ ground.simulating = o
  /\ handler' = [handler EXCEPT ![o] = "idle"]
  /\ \/ /\ ground' = [ground EXCEPT !.simulating = None, !.recovered = FALSE,
                                    !.result = answer(o).opportunity_id,
                                    !.link = answer(o).link_url]
        /\ UNCHANGED budget
     \/ ground' = [ground EXCEPT !.simulating = None] /\ Fails
  /\ UNCHANGED <<switch, rows, inbox, table, bell, loads, fetches, marking, act>>

\* The settlement of the result shown.  The answer marks whatever result is
\* shown when it comes.
handleSettlePayment ==
  /\ ground.result # None /\ ground.link /\ ~ground.recovered
  /\ ground.settling = None /\ Click
  /\ ground' = [ground EXCEPT !.settling = ground.result]
  /\ UNCHANGED <<server, table, bell, loads, fetches, marking, act>>

settlementAnswered ==
  /\ ground.settling # None
  /\ \/ /\ reconcileLink(ground.settling)
        /\ \/ ground' = [ground EXCEPT !.settling = None, !.recovered = TRUE] /\ UNCHANGED budget
           \/ ground' = [ground EXCEPT !.settling = None] /\ Fails
     \/ /\ ground' = [ground EXCEPT !.settling = None] /\ Fails
        /\ UNCHANGED <<rows, inbox>>
  /\ UNCHANGED <<switch, handler, table, bell, loads, fetches, marking, act>>

-----------------------------------------------------------------------------
Init ==
  /\ switch = FALSE
  /\ rows = [o \in Rows |->
               IF o \in Real THEN [status |-> "executing", kind |-> "real", link |-> TRUE]
               ELSE NoRow]
  /\ inbox = [unread |-> 0, all |-> 0] /\ bell = [unread |-> 0, all |-> 0]
  /\ handler = [o \in Simulated |-> "idle"]
  /\ table = {} /\ loads = [s \in Poll \cup {"act"} |-> NoLoad]
  /\ fetches = [s \in Poll |-> {}] /\ marking = FALSE
  /\ act = Idle
  /\ ground = [simulating |-> None, settling |-> None, result |-> None, link |-> FALSE,
               recovered |-> FALSE]
  /\ budget = [clicks |-> 0, failures |-> 0]

Next ==
  \/ setKillSwitch \/ handleToggleKillSwitch \/ handleRunSweep \/ actionHandled \/ actionFails
  \/ markAllRead \/ markAllNotificationsAsRead
  \/ handleSettlePayment \/ settlementAnswered
  \/ \E o \in Real : customerPays(o)
  \/ \E o \in Rows : handleSimulateSettlement(o)
  \/ \E o \in Simulated :
       \/ linkRecorded(o) \/ simulationAnswered(o)
       \/ \E scenario \in DOMAIN failure : handleSimulateCheckout(o, scenario)
  \/ \E s \in Poll : getNotifications(s) \/ fetchNotifications(s)
  \/ \E s \in Poll \cup {"act"} : loadHandled(s) \/ loadDashboardData(s) \/ loadFails(s)

\* The intervals go on firing, and every request is handled and answered or
\* fails: a browser reports a connection that breaks.
Fairness ==
  /\ \A s \in Poll : WF_consoleVars(getNotifications(s)) /\ WF_consoleVars(fetchNotifications(s))
  /\ \A s \in Poll \cup {"act"} : /\ WF_consoleVars(loadHandled(s))
                                  /\ WF_consoleVars(loadDashboardData(s))
  /\ WF_consoleVars(actionHandled) /\ WF_consoleVars(settlementAnswered)
  /\ WF_consoleVars(markAllRead)
  /\ \A o \in Simulated : WF_consoleVars(linkRecorded(o)) /\ WF_consoleVars(simulationAnswered(o))

Spec == Init /\ [][Next]_consoleVars /\ Fairness

-----------------------------------------------------------------------------
\* When the operators stop clicking, the pages come to rest on the truth: the
\* dashboard shows the server's switch and statuses and the bell its inbox,
\* though polls overtake each other and an old answer may be the last to come,
\* and no button is left disabled (dashboard/page.tsx loadDashboardData and its
\* interval, layout.tsx fetchNotifications, the finally blocks).
ConsoleSettles ==
  <>[](/\ table = {[summary |-> summary, rows |-> opportunities]} /\ bell = inbox
       /\ act.at = "idle" /\ ground.simulating = None /\ ground.settling = None)
=============================================================================
