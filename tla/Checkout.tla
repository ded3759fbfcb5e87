------------------------------- MODULE Checkout -------------------------------
(***************************************************************************)
(* A shop's checkout page with CTRL's script on it: the script wraps the   *)
(* provider's checkout and reports every payment that fails, the page      *)
(* reports it as well, and both read the gateway's answer.  The gateway    *)
(* takes a failure once and may answer with a payment link; a page that    *)
(* got none asks for it a number of times.  Answers overtake each other.   *)
(***************************************************************************)
EXTENDS Naturals, FiniteSets

CONSTANTS
  Payment,     \* payments that fail in this page
  PollTries,   \* how often the page asks for a link (ten in the code)
  MaxFailures  \* bound on calls that fail or are refused

VARIABLES
  sdk,       \* the script: loaded, wrapped around the checkout, looking for it, connected
  razorpay,  \* the provider's checkout script is there
  modal,     \* the open checkout: "closed", or whether the script is wrapped around it
  page,      \* what the page shows
  reports,   \* reports of failures under way
  polls,     \* per payment: calls of pollOpportunityStatus made; Idle when none is due
  known,     \* payments that have an opportunity
  linked,    \* payments whose execution record has a link
  taken,     \* how often the gateway took a payment's failure in hand
  app,       \* the shop as the dashboard lists it
  failures

checkoutVars == <<sdk, razorpay, modal, page, reports, polls, known, linked, taken, app, failures>>

None == "none"
DemoLink == "plink_demo"
Idle == PollTries + 1
Reporter == {"script", "page", "simulation"}

Report == [of : Payment, by : Reporter, at : {"sent", "executing", "answered", "refused", "lost"},
           link : Payment \cup {None}]

TypeOK ==
  /\ sdk \in [loaded : BOOLEAN, wrapped : BOOLEAN, looking : BOOLEAN, isConnected : BOOLEAN]
  /\ razorpay \in BOOLEAN /\ modal \in {"closed", "wrapped", "plain"}
  /\ page \in [status : {"IDLE", "PROCESSING", "READY"}, opp : Payment \cup {None},
               link : Payment \cup {None, DemoLink}, simulating : BOOLEAN]
  /\ reports \subseteq Report /\ polls \in [Payment -> 0..Idle]
  /\ known \subseteq Payment /\ linked \subseteq known /\ taken \in [Payment -> 0..2]
  /\ app \in {"unknown", "ONLINE", "IDLE", "OFFLINE"} /\ failures \in 0..MaxFailures

Fails == failures < MaxFailures /\ failures' = failures + 1

Unused(p) == p \notin known /\ polls[p] = Idle /\ \A r \in reports : r.of # p

-----------------------------------------------------------------------------
(* The script.                                                             *)

wrapRazorpay == [sdk EXCEPT !.loaded = TRUE, !.wrapped = TRUE, !.looking = FALSE]

\* A second copy of the script stops at __CTRL_INITIALIZED__.
scriptLoads ==
  /\ ~sdk.loaded
  /\ sdk' = IF razorpay THEN wrapRazorpay
            ELSE [sdk EXCEPT !.loaded = TRUE, !.looking = TRUE]
  /\ UNCHANGED <<razorpay, modal, page, reports, polls, known, linked, taken, app, failures>>

razorpayLoads ==
  /\ ~razorpay /\ razorpay' = TRUE
  /\ UNCHANGED <<sdk, modal, page, reports, polls, known, linked, taken, app, failures>>

\* The 200 ms timer finds the checkout, or is cleared after a minute.
checkInterval ==
  /\ sdk.looking
  /\ \/ razorpay /\ sdk' = wrapRazorpay
     \/ ~razorpay /\ sdk' = [sdk EXCEPT !.looking = FALSE]
  /\ UNCHANGED <<razorpay, modal, page, reports, polls, known, linked, taken, app, failures>>

\* upsertWebAppConnection, on the ping and on an event.
upsertWebAppConnection == app' = "ONLINE"

\* A ping the schema rejects is taken all the same, from its headers.
ping == upsertWebAppConnection

sendPing ==
  /\ sdk.loaded
  /\ \/ sdk' = [sdk EXCEPT !.isConnected = TRUE] /\ ping /\ UNCHANGED failures
     \/ Fails /\ UNCHANGED <<sdk, app>>
  /\ UNCHANGED <<razorpay, modal, page, reports, polls, known, linked, taken>>

\* Without a ping for 90 and for 300 seconds.
getWebAppConnections ==
  /\ \/ app = "ONLINE" /\ app' = "IDLE"
     \/ app = "IDLE" /\ app' = "OFFLINE"
  /\ UNCHANGED <<sdk, razorpay, modal, page, reports, polls, known, linked, taken, failures>>

reportPaymentFailure(p, by) == [of |-> p, by |-> by, at |-> "sent", link |-> None]

-----------------------------------------------------------------------------
(* The page.                                                               *)

launchRazorpayCheckout ==
  /\ razorpay /\ modal = "closed"
  /\ modal' = IF sdk.wrapped THEN "wrapped" ELSE "plain"
  /\ UNCHANGED <<sdk, razorpay, page, reports, polls, known, linked, taken, app, failures>>

\* Dismissed, or paid: the report of a payment that never failed matches no opportunity.
modalCloses ==
  /\ modal # "closed" /\ modal' = "closed"
  /\ app' = IF modal = "wrapped" THEN "ONLINE" ELSE app
  /\ UNCHANGED <<sdk, razorpay, page, reports, polls, known, linked, taken, failures>>

Processing == [page EXCEPT !.status = "PROCESSING", !.opp = None, !.link = None]

Listeners == {by \in {"script", "page"} : IF by = "script" THEN modal = "wrapped" ELSE sdk.loaded}

\* Both listeners of payment.failed run: the script's first, if it is wrapped around
\* this checkout.  A page without the script goes no further.  The checkout stays open.
paymentFailed(p) ==
  /\ modal # "closed" /\ Unused(p)
  /\ page' = Processing
  /\ reports' = reports \cup {reportPaymentFailure(p, by) : by \in Listeners}
  /\ UNCHANGED <<sdk, razorpay, modal, polls, known, linked, taken, app, failures>>

\* simulatePaymentFailure's last resort: the simulated webhook is not signed, so it
\* answers 400, and the page asks for an opportunity it made the name of up.
simulatedWebhook ==
  \/ page' = [page EXCEPT !.simulating = FALSE] /\ UNCHANGED failures
  \/ Fails /\ page' = [page EXCEPT !.simulating = FALSE, !.status = "READY",
                                   !.opp = None, !.link = DemoLink]

\* Without the script it goes to the last resort at once.
simulatePaymentFailure(p) ==
  /\ ~page.simulating /\ Unused(p)
  /\ page' = [Processing EXCEPT !.simulating = TRUE]
  /\ reports' = reports \cup {[reportPaymentFailure(p, "simulation") EXCEPT
                               !.at = IF sdk.loaded THEN @ ELSE "refused"]}
  /\ UNCHANGED <<sdk, razorpay, modal, polls, known, linked, taken, app, failures>>

\* Mutant: the page keeps the link it shows when the answer brings none.
handleInterceptedKeeping(p, link) ==
  [page EXCEPT !.status = "READY", !.opp = p, !.link = IF link = None THEN @ ELSE link]

\* The script tells the page of every answer the gateway does not refuse.
handleIntercepted(p, link) ==
  [page EXCEPT !.status = "READY", !.opp = p, !.link = link]

\* An answer that names the opportunity and no link starts the polling.
answered(r) ==
  /\ r \in reports /\ r.at = "answered"
  /\ reports' = reports \ {r}
  /\ page' = [handleIntercepted(r.of, r.link) EXCEPT
                !.simulating = IF r.by = "simulation" THEN FALSE ELSE @]
  /\ polls' = IF r.by # "script" /\ r.link = None THEN [polls EXCEPT ![r.of] = 0] ELSE polls
  /\ UNCHANGED <<sdk, razorpay, modal, known, linked, taken, app, failures>>

\* A refusal names no opportunity; only the simulation goes on.
refused(r) ==
  /\ r \in reports /\ r.at = "refused"
  /\ reports' = reports \ {r}
  /\ IF r.by = "simulation" THEN simulatedWebhook ELSE UNCHANGED <<page, failures>>
  /\ UNCHANGED <<sdk, razorpay, modal, polls, known, linked, taken, app>>

\* The call itself fails: the simulation shows a link that leads nowhere.
unanswered(r) ==
  /\ r \in reports /\ r.at = "lost"
  /\ reports' = reports \ {r}
  /\ page' = IF r.by = "simulation"
             THEN [page EXCEPT !.simulating = FALSE, !.status = "READY", !.opp = None, !.link = DemoLink]
             ELSE page
  /\ UNCHANGED <<sdk, razorpay, modal, polls, known, linked, taken, app, failures>>

\* GET /v1/events/opportunity/:id: the link of the execution record, if any.
opportunityLink(p) == IF p \in linked THEN p ELSE None

pollOpportunityStatus(p) ==
  /\ polls[p] < PollTries
  /\ \/ /\ opportunityLink(p) # None
        /\ page' = [page EXCEPT !.status = "READY", !.opp = p, !.link = opportunityLink(p)]
        /\ polls' = [polls EXCEPT ![p] = Idle] /\ UNCHANGED failures
     \/ /\ opportunityLink(p) = None /\ UNCHANGED <<page, failures>>
        /\ polls' = [polls EXCEPT ![p] = @ + 1]
     \/ Fails /\ polls' = [polls EXCEPT ![p] = @ + 1] /\ UNCHANGED page
  /\ UNCHANGED <<sdk, razorpay, modal, reports, known, linked, taken, app>>

-----------------------------------------------------------------------------
(* The gateway: POST /v1/events and the executor behind it.                *)

Becomes(r, at, link) == reports' = (reports \ {r}) \cup {[r EXCEPT !.at = at, !.link = link]}

\* Mutant: a failure is looked up before its report is authenticated.
seenBefore(p) == \E r \in reports : r.of = p /\ r.at = "answered"

deduplicated(p) == p \in known

\* From the look-up to the insert nothing is awaited.
postEvent(r) ==
  /\ r \in reports /\ r.at = "sent"
  /\ upsertWebAppConnection
  /\ \/ /\ deduplicated(r.of) /\ Becomes(r, "answered", None) /\ UNCHANGED <<known, taken>>
     \/ /\ ~deduplicated(r.of)
        /\ known' = known \cup {r.of} /\ taken' = [taken EXCEPT ![r.of] = @ + 1]
        /\ Becomes(r, "executing", None)
  /\ UNCHANGED <<sdk, razorpay, modal, page, polls, linked, failures>>

\* Another tenant's event, or one the schema rejects; the shop is registered all the same.
rejectEvent(r) ==
  /\ r \in reports /\ r.at = "sent" /\ Fails
  /\ upsertWebAppConnection /\ Becomes(r, "refused", None)
  /\ UNCHANGED <<sdk, razorpay, modal, page, polls, known, linked, taken>>

\* The authority's verdict and the executor: 201, with the link or without one.
executed(r) ==
  /\ r \in reports /\ r.at = "executing"
  /\ \/ linked' = linked \cup {r.of} /\ Becomes(r, "answered", r.of)
     \/ linked' = linked /\ Becomes(r, "answered", None)
  /\ UNCHANGED <<sdk, razorpay, modal, page, polls, known, taken, app, failures>>

\* The gateway holds the opportunity; a later sweep makes its link.
sweepExecutes(p) ==
  /\ p \in known \ linked /\ \A r \in reports : r.of = p => r.at # "executing"
  /\ linked' = linked \cup {p}
  /\ UNCHANGED <<sdk, razorpay, modal, page, reports, polls, known, taken, app, failures>>

\* The connection breaks on the way to the gateway or back; what it does goes on.
callFails(r) ==
  /\ r \in reports /\ r.at \in {"sent", "executing", "answered"} /\ Fails
  /\ Becomes(r, "lost", None)
  /\ UNCHANGED <<sdk, razorpay, modal, page, polls, known, linked, taken, app>>

-----------------------------------------------------------------------------
Init ==
  /\ sdk = [loaded |-> FALSE, wrapped |-> FALSE, looking |-> FALSE, isConnected |-> FALSE]
  /\ razorpay = FALSE /\ modal = "closed"
  /\ page = [status |-> "IDLE", opp |-> None, link |-> None, simulating |-> FALSE]
  /\ reports = {} /\ polls = [p \in Payment |-> Idle]
  /\ known = {} /\ linked = {} /\ taken = [p \in Payment |-> 0]
  /\ app = "unknown" /\ failures = 0

Next ==
  \/ scriptLoads \/ razorpayLoads \/ checkInterval \/ sendPing \/ getWebAppConnections
  \/ launchRazorpayCheckout \/ modalCloses
  \/ \E p \in Payment : \/ paymentFailed(p) \/ simulatePaymentFailure(p)
                        \/ pollOpportunityStatus(p) \/ sweepExecutes(p)
  \/ \E r \in reports : \/ answered(r) \/ refused(r) \/ unanswered(r)
                        \/ postEvent(r) \/ rejectEvent(r) \/ executed(r) \/ callFails(r)

Spec == Init /\ [][Next]_checkoutVars

-----------------------------------------------------------------------------
\* The customer never pays another order's link: whichever of the answers, events
\* and polls of two failures come last, the link the page shows is the one recorded
\* for the opportunity it names (demo-store/page.tsx 92-101, 129-134, 231-243).
ShownLinkIsItsOwn ==
  page.link \in Payment => page.link = page.opp /\ page.link \in linked

\* A failure that the script and the page both report is taken in hand once, so that
\* one link is made for it (events.ts 228-289).
FailureIsTakenOnce == \A p \in Payment : taken[p] <= 1
====
