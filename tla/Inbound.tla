------------------------------- MODULE Inbound -------------------------------
(***************************************************************************)
(* How payment events get in: the provider's webhooks, the events route    *)
(* that shops and connectors post to, and the queue of webhook deliveries  *)
(* with its retries, its dead letters and the operators who replay them.   *)
(*                                                                         *)
(* The code between two awaits is one step.  A handler awaits while a      *)
(* webhook is validated and while an opportunity is reconciled; the rest,  *)
(* the look-up of a known event and the insert that follows it included,   *)
(* is synchronous.  The queue has an engine in the server and one in the   *)
(* worker process, each with an isProcessing flag of its own.              *)
(***************************************************************************)
EXTENDS Integers

CONSTANTS
  Payment,      \* payments, whose ids the opportunities take
  Delivery,     \* rows of webhook_delivery_queue, numbered as they are enqueued
  kindOf,       \* what a delivery carries: failed, or bad (unparsable)
  payOf,        \* the payment it is about
  eventOf,      \* its event id
  Request,      \* HTTP requests under way at once
  max_attempts, \* tries before the dead letter
  MaxOps        \* replays, requeues and crashes

Engine == {"server", "worker"}
Replay == "replay" \* an operator's replay, in the server process
Actor == Request \cup Engine \cup {Replay}
None == "none"
Event == {"other"} \cup {eventOf[d] : d \in Delivery} \* no delivery has other's id

VARIABLES
  opp,   \* the opportunity of a payment: its status, or none
  evt,   \* its razorpay_event_id
  row,   \* a delivery's status, attempts and whether its next_retry_at has passed
  batch, \* an engine's copies of the due rows it has not come to yet
  job,   \* what an actor awaits
  ops,   \* interventions so far
  crashed

rows == <<row, batch>>
vars == <<opp, evt, rows, job, ops, crashed>>

OppStatus == {None, "pending", "executing", "recovered", "not_recovered"}
RowStatus == {None, "PENDING", "PROCESSING", "DELIVERED", "FAILED", "DEAD_LETTER"}
Idle == [at |-> "idle"]
Validating == [at : {"validate"}, route : {"razorpay", "simulated"}, event : {"failed", "paid", "closed"},
               pay : Payment]
Copy == [d : Delivery, attempts : Nat]
Reconciling == [at : {"reconcile"}, pay : Payment, snap : OppStatus,
                payload : {"fetch", "paid", "closed"},
                d : Delivery \cup {0}, n : Nat]

TypeOK ==
  /\ opp \in [Payment -> OppStatus]
  /\ evt \in [Payment -> Event \cup {None}]
  /\ row \in [Delivery -> [status : RowStatus, attempts : Nat, due : BOOLEAN]]
  /\ batch \in [Engine -> SUBSET Copy]
  /\ job \in [Actor -> {Idle} \cup Validating \cup Reconciling]
  /\ ops \in 0..MaxOps /\ crashed \in BOOLEAN

Init ==
  /\ opp = [p \in Payment |-> None] /\ evt = [p \in Payment |-> None]
  /\ row = [d \in Delivery |-> [status |-> None, attempts |-> 0, due |-> TRUE]]
  /\ batch = [e \in Engine |-> {}]
  /\ job = [x \in Actor |-> Idle]
  /\ ops = 0 /\ crashed = FALSE

-----------------------------------------------------------------------------
(* Opportunities.                                                          *)

known(p, e) == opp[p] # None /\ evt[p] = e

\* The upsert overwrites the status and the event id of a row that exists.
insertOpportunity(p, e) ==
  /\ opp' = [opp EXCEPT ![p] = "pending"]
  /\ evt' = [evt EXCEPT ![p] = e]

\* What reconcileOpportunity may make of the status it read before it waited:
\* the payload came with the webhook, or the provider is asked for it.
Reconciled(snap, payload) ==
  LET target == [paid   |-> "recovered",
                 closed |-> "not_recovered",
                 open   |-> IF snap = "pending" THEN "executing" ELSE snap]
  IN  IF payload = "fetch" THEN {target[t] : t \in DOMAIN target} ELSE {target[payload]}

BeginReconcile(x, p, payload, d, n) ==
  job' = [job EXCEPT ![x] = [at |-> "reconcile", pay |-> p, snap |-> opp[p],
                             payload |-> payload, d |-> d, n |-> n]]

-----------------------------------------------------------------------------
(* Webhooks of the provider.                                               *)

\* Secrets are read and the request is validated, all of it behind awaits.
\* Razorpay repeats a webhook it got no answer to; the simulation's own webhook
\* knows no closed links.
receiveWebhook(h) ==
  /\ job[h] = Idle
  /\ \E v \in Validating :
       /\ v.route = "simulated" => v.event # "closed"
       /\ job' = [job EXCEPT ![h] = v]
  /\ UNCHANGED <<opp, evt, rows, ops, crashed>>

\* Too large, from elsewhere, too old, without a signature or with a wrong one.
validateWebhookRejects(h) ==
  /\ job[h].at = "validate"
  /\ job' = [job EXCEPT ![h] = Idle]
  /\ UNCHANGED <<opp, evt, rows, ops, crashed>>

\* Mutant: the payment's own id is not looked up.
ingestFailedByEventOnly(p) == insertOpportunity(p, "other")

\* A failed payment is looked up by its event, which no queued delivery shares,
\* and then by its own id.
ingestFailed(p) ==
  IF opp[p] # None THEN UNCHANGED <<opp, evt>> ELSE insertOpportunity(p, "other")

\* payment.failed
handlePaymentFailed(h) ==
  /\ job[h].event = "failed"
  /\ ingestFailed(job[h].pay)
  /\ job' = [job EXCEPT ![h] = Idle]

\* payment_link.paid, and expired or cancelled: the payload is the provider's word.
handlePaymentLink(h) ==
  /\ job[h].event # "failed"
  /\ IF opp[job[h].pay] = None THEN job' = [job EXCEPT ![h] = Idle]
     ELSE BeginReconcile(h, job[h].pay, job[h].event, 0, 0)
  /\ UNCHANGED <<opp, evt>>

handleRazorpayWebhook(h) ==
  /\ job[h].at = "validate" /\ job[h].route = "razorpay"
  /\ handlePaymentFailed(h) \/ handlePaymentLink(h)
  /\ UNCHANGED <<rows, ops, crashed>>

handleSimulatedWebhook(h) ==
  /\ job[h].at = "validate" /\ job[h].route = "simulated"
  /\ handlePaymentFailed(h) \/ handlePaymentLink(h)
  /\ UNCHANGED <<rows, ops, crashed>>

-----------------------------------------------------------------------------
(* Events posted by shops: the script in the page sends each one once,     *)
(* with an event id of its own and nobody waiting; a connector gives up    *)
(* after its timeout, whatever became of the request, and may repeat it.   *)
(* So an event may come at any time, any number of times or never.         *)

\* An event of another tenant, an invalid one or a known one changes nothing.
postFailedEvent(h) ==
  /\ job[h] = Idle
  /\ \E p \in Payment : ingestFailed(p)
  /\ UNCHANGED <<job, rows, ops, crashed>>

\* Paid or captured: the provider is asked.
postPaidEvent(h) ==
  /\ job[h] = Idle
  /\ \E p \in Payment : opp[p] # None /\ BeginReconcile(h, p, "fetch", 0, 0)
  /\ UNCHANGED <<opp, evt, rows, ops, crashed>>

-----------------------------------------------------------------------------
(* The delivery queue.                                                     *)

enqueue ==
  /\ \E d \in Delivery :
       /\ row[d].status = None /\ \A c \in Delivery : c < d => row[c].status # None
       /\ row' = [row EXCEPT ![d].status = "PENDING"]
  /\ UNCHANGED <<opp, evt, batch, job, ops, crashed>>

updateWebhookDeliveryStatus(d, status, n, due) ==
  row' = [row EXCEPT ![d] = [status |-> status, attempts |-> n, due |-> due]]

\* Mutant: the failure is not written down.
failedUnrecorded(d, n) == updateWebhookDeliveryStatus(d, "PROCESSING", n, TRUE)

\* The catch block: n is counted from the copy that was processed.
failed(d, n) ==
  IF n >= max_attempts
  THEN updateWebhookDeliveryStatus(d, "DEAD_LETTER", n, TRUE)
  ELSE updateWebhookDeliveryStatus(d, "FAILED", n, FALSE)

\* Actor x processes a copy of d that counts n - 1 attempts.
processDelivery(x, d, n) ==
  LET p == payOf[d]
  IN  \/ /\ kindOf[d] = "bad"
         /\ failed(d, n)
         /\ UNCHANGED <<opp, evt, job>>
      \/ /\ kindOf[d] = "failed"
         /\ IF known(p, eventOf[d]) THEN UNCHANGED <<opp, evt>>
            ELSE insertOpportunity(p, eventOf[d])
         /\ updateWebhookDeliveryStatus(d, "DELIVERED", n, TRUE)
         /\ UNCHANGED job
      \/ /\ kindOf[d] = "paid" /\ opp[p] = None
         /\ updateWebhookDeliveryStatus(d, "DELIVERED", n, TRUE)
         /\ UNCHANGED <<opp, evt, job>>
      \/ /\ kindOf[d] = "paid" /\ opp[p] # None
         /\ updateWebhookDeliveryStatus(d, "PROCESSING", n, TRUE)
         /\ BeginReconcile(x, p, "fetch", d, n)
         /\ UNCHANGED <<opp, evt>>

\* A reconciliation is over: it wrote its target, it left everything alone
\* (recovered when read, no link yet, no answer from the provider), or it threw.
finish(x) ==
  /\ job[x].at = "reconcile"
  /\ job' = [job EXCEPT ![x] = Idle]
  /\ LET j == job[x]
     IN  \/ /\ j.snap # "recovered"
            /\ \E s \in Reconciled(j.snap, j.payload) : opp' = [opp EXCEPT ![j.pay] = s]
            /\ IF j.d = 0 THEN UNCHANGED row
               ELSE updateWebhookDeliveryStatus(j.d, "DELIVERED", j.n, TRUE)
         \/ /\ UNCHANGED opp
            /\ IF j.d = 0 THEN UNCHANGED row
               ELSE updateWebhookDeliveryStatus(j.d, "DELIVERED", j.n, TRUE)
         \/ /\ UNCHANGED opp
            /\ IF j.d = 0 THEN UNCHANGED row ELSE failed(j.d, j.n)
  /\ UNCHANGED <<evt, batch, ops, crashed>>

\* Mutant: only rows that were never tried are due.
DueOnce(r) == {d \in Delivery : r[d].status = "PENDING" /\ r[d].due}

\* getDueWebhookRetries
Due(r) == {d \in Delivery : r[d].status \in {"PENDING", "FAILED"} /\ r[d].due}

\* The copies an engine that was idle works through, in the order of created_at.
Copies(r) == {[d |-> d, attempts |-> r[d].attempts] : d \in Due(r)}
isProcessing(e) == batch[e] # {} \/ job[e] # Idle

\* The interval of the worker.
processDueRetries ==
  /\ ~isProcessing("worker") /\ Due(row) # {}
  /\ batch' = [batch EXCEPT !["worker"] = Copies(row)]
  /\ UNCHANGED <<opp, evt, row, job, ops, crashed>>

\* The retry-all route: failed rows begin afresh and the server's engine runs
\* once, unless it is running.
requeueDeadLetterWebhooks ==
  /\ ops < MaxOps /\ ops' = ops + 1
  /\ row' = [d \in Delivery |->
              IF row[d].status \in {"DEAD_LETTER", "FAILED"}
              THEN [status |-> "PENDING", attempts |-> 0, due |-> TRUE] ELSE row[d]]
  /\ batch' = IF isProcessing("server") THEN batch
              ELSE [batch EXCEPT !["server"] = Copies(row')]
  /\ UNCHANGED <<opp, evt, job, crashed>>

processNext(e) ==
  /\ job[e] = Idle
  /\ \E c \in batch[e] :
       /\ \A b \in batch[e] : c.d <= b.d
       /\ processDelivery(e, c.d, c.attempts + 1)
       /\ batch' = [batch EXCEPT ![e] = @ \ {c}]
  /\ UNCHANGED <<ops, crashed>>

\* No look at the status: a row that is being processed is processed again.
replayWebhook ==
  /\ job[Replay] = Idle
  /\ ops < MaxOps /\ ops' = ops + 1
  /\ \E d \in Delivery : /\ row[d].status # None
                         /\ processDelivery(Replay, d, row[d].attempts + 1)
  /\ UNCHANGED <<batch, crashed>>

\* next_retry_at passes.
retryDue ==
  /\ \E d \in Delivery : row[d].status = "FAILED" /\ ~row[d].due
                      /\ row' = [row EXCEPT ![d].due = TRUE]
  /\ UNCHANGED <<opp, evt, batch, job, ops, crashed>>

\* A process dies and comes back with nothing in its memory.
crash(e) ==
  /\ ops < MaxOps /\ ops' = ops + 1
  /\ crashed' = TRUE
  /\ batch' = [batch EXCEPT ![e] = {}]
  /\ job' = [x \in Actor |-> IF x = e \/ (e = "server" /\ x # "worker") THEN Idle ELSE job[x]]
  /\ UNCHANGED <<opp, evt, row>>

Next ==
  \/ enqueue
  \/ processDueRetries \/ requeueDeadLetterWebhooks \/ replayWebhook \/ retryDue
  \/ \E h \in Request : 
       \/ receiveWebhook(h) \/ validateWebhookRejects(h)
       \/ handleRazorpayWebhook(h) \/ handleSimulatedWebhook(h)
       \/ postFailedEvent(h) \/ postPaidEvent(h)
  \/ \E e \in Engine : processNext(e) \/ crash(e)
  \/ \E x \in Actor : finish(x)

Spec == Init /\ [][Next]_vars

\* The worker's interval, its loop over the copies, answers and time-outs of
\* the provider, and the clock.
Fairness ==
  /\ WF_vars(processDueRetries) /\ WF_vars(processNext("worker"))
  /\ WF_vars(processNext("server"))
  /\ \A x \in Actor : WF_vars(finish(x))
  /\ WF_vars(retryDue)
FairSpec == Spec /\ Fairness

-----------------------------------------------------------------------------
(* Properties.                                                             *)

\* A payment that was ingested is put back to pending by nothing but a queued
\* delivery under an event id that is not the one its row holds: repeated
\* webhooks, events of shops and replays of the delivery that created it do not.
Reopened(p) == opp[p] \notin {None, "pending"} /\ opp'[p] = "pending"
ReopenedOnlyByAnotherDelivery ==
  [][\A p \in Payment : Reopened(p) =>
       \E d \in Delivery : /\ payOf[d] = p /\ kindOf[d] = "failed"
                           /\ row'[d].status = "DELIVERED" /\ evt[p] # eventOf[d]]_vars

\* A row shown as PROCESSING is in somebody's hands, even when the worker, a
\* replay and retry-all take it at the same time; only after a process died may
\* it be left behind, and then nothing but a replay picks it up again.
ProcessingIsInHand ==
  \A d \in Delivery : row[d].status = "PROCESSING" /\ ~crashed
    => \E x \in Actor : job[x].at = "reconcile" /\ job[x].d = d

\* Every delivery that is enqueued is delivered or becomes a dead letter,
\* whatever fails on the way, unless a process died in the middle of it.
Settled(d) == row[d].status \in {"DELIVERED", "DEAD_LETTER"}
DeliverySettles ==
  \A d \in Delivery : row[d].status # None
    ~> (Settled(d) \/ (row[d].status = "PROCESSING" /\ crashed))
=============================================================================
