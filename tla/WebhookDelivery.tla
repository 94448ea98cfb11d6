-------------------------- MODULE WebhookDelivery ---------------------------
(***************************************************************************)
(* The queue webhook of internal/handler/webhook.go in the server of       *)
(* ServerLifecycle.  With the qstash driver a job is not taken by a worker *)
(* but delivered to the server as a request under /internal/jobs/; QStash, *)
(* which is external, delivers it again until it has heard a 2xx.  The     *)
(* requests whose path is internal are the deliveries of one job.  An      *)
(* answer may never be heard: the server's write_timeout or QStash's own   *)
(* has passed, or the process has died; the job may be running still.      *)
(***************************************************************************)
EXTENDS ServerLifecycle

VARIABLES
    job,     \* Request -> how far HandleQueueWebhook is with the job
    heard    \* Request -> what QStash has heard of the delivery

deliveryVars == <<job, heard>>
webhookVars  == <<serverVars, deliveryVars>>

IsDelivery(r) == path[r] = "internal"

WebhookInit ==
    /\ ServerInit
    /\ job   = [r \in Request |-> "none"]
    /\ heard = [r \in Request |-> "none"]

Put(r, state) == job' = [job EXCEPT ![r] = state]

----------------------------------------------------------------------------

\* QStash makes one attempt at a time, and none after a 2xx.  Which request
\* stands for the next attempt makes no difference.
NextAttempt == CHOOSE r \in Request : IsDelivery(r) /\ heard[r] = "none"

Deliver(r) ==
    /\ heard[r] = "none" /\ r = NextAttempt
    /\ \A q \in Request : heard[q] \notin {"waiting", "ok"}
    /\ Enter(r, Anonymous)
    /\ heard' = [heard EXCEPT ![r] = "waiting"]
    /\ UNCHANGED <<processVars, job>>

\* 404: the driver is not qstash, or nobody has registered the kind; 400: no
\* kind, no body, or another kind in it; 401: no signing key, or a signature
\* that is not the one of this URL and body.
RefuseDelivery(r) ==
    /\ up /\ handler[r] = "running" /\ job[r] = "none"
    /\ Send(r, "error")
    /\ Put(r, "refused")
    /\ UNCHANGED <<up, path, who, conn, handler, logged, processVars, heard>>

\* The type assertion on the queue.
WebhookEnabled == cfg["queue_driver"] = "qstash"

\* qq.Dispatch calls the pipeline's handler.
DispatchJob(r) ==
    /\ up /\ handler[r] = "running" /\ job[r] = "none"
    /\ WebhookEnabled
    /\ Put(r, "running")
    /\ UNCHANGED <<vars, processVars, heard>>

\* Slips: an error of Dispatch is logged and forgotten; the test of err is
\* the wrong way round; the outcome itself is written.
Verdict_Forgotten(outcome) == "ok"
Verdict_Swapped(outcome)   == IF outcome = "done" THEN "error" ELSE "ok"
Verdict_Raw(outcome)       == outcome

\* 204, or 404 and 500.
Verdict(outcome) == IF outcome = "done" THEN "ok" ELSE "error"

JobEnds(r, outcome) ==
    /\ up /\ handler[r] = "running" /\ job[r] = "running"
    /\ Put(r, outcome)
    /\ Send(r, Verdict(outcome))
    /\ UNCHANGED <<up, path, who, conn, handler, logged, processVars, heard>>

\* HandleQueueWebhook returns after it has written its answer.
Finish(r) ==
    /\ job[r] \in {"refused", "done", "failed"}
    /\ HandlerReturns(r)
    /\ UNCHANGED <<processVars, deliveryVars>>

\* The job's own panic included: Recovery is below it on this goroutine.
DeliveryPanics(r) ==
    /\ HandlerPanics(r)
    /\ IF job[r] = "running" THEN Put(r, "failed") ELSE UNCHANGED job
    /\ UNCHANGED <<processVars, heard>>

\* The answer arrives, or it does not and QStash stops waiting.
Hear(r) ==
    /\ heard[r] = "waiting" /\ conn[r] = "finished"
    /\ heard' = [heard EXCEPT ![r] = sent[r]]
    /\ UNCHANGED <<serverVars, job>>

HearNothing(r) ==
    /\ heard[r] = "waiting"
    /\ heard' = [heard EXCEPT ![r] = "nothing"]
    /\ UNCHANGED <<serverVars, job>>

----------------------------------------------------------------------------

DeliveryStep(r) ==
    \/ Deliver(r)
    \/ (Gate(r) \/ Unwind(r)) /\ UNCHANGED <<processVars, deliveryVars>>
    \/ RefuseDelivery(r) \/ DispatchJob(r)
    \/ \E outcome \in {"done", "failed"} : JobEnds(r, outcome)
    \/ Finish(r) \/ DeliveryPanics(r)
    \/ Hear(r) \/ HearNothing(r)

WebhookNext ==
    \/ Process /\ UNCHANGED deliveryVars
    \/ \E r \in Request :
         \/ ~IsDelivery(r) /\ RequestStep(r) /\ UNCHANGED deliveryVars
         \/ IsDelivery(r) /\ DeliveryStep(r)

WebhookSpec == WebhookInit /\ [][WebhookNext]_webhookVars

\* The fairness of ServerLifecycle; nothing is asked of QStash.
WebhookFairness ==
    /\ WF_webhookVars(Run /\ UNCHANGED deliveryVars)
    /\ WF_webhookVars(Quit /\ UNCHANGED deliveryVars)
    /\ \A r \in Request :
         WF_webhookVars(Turn(r) /\ UNCHANGED <<processVars, deliveryVars>>)

----------------------------------------------------------------------------

\* Every variable holds a value of its type, and a delivery is under way only
\* between its arrival and its end.
WebhookTypeOK ==
    /\ job   \in [Request -> {"none", "refused", "running", "done", "failed"}]
    /\ heard \in [Request -> {"none", "waiting", "ok", "error", "nothing"}]
    /\ \A r \in Request : job[r] # "none" => IsDelivery(r) /\ heard[r] # "none"

\* What QStash has heard is what became of the job, whatever else happened to
\* the process: a job it forgets has been done, and one that was done is not
\* delivered again because of an answer, only because of one that was lost.
HeardIsTrue ==
    \A r \in Request : /\ heard[r] = "ok" => job[r] = "done"
                       /\ heard[r] = "error" => job[r] # "done"

\* The job runs twice, or twice at once, only after an answer was lost.
RunsAgainForAReason ==
    \A r, q \in Request :
        r # q /\ job[r] \in {"running", "done"} /\ job[q] \in {"running", "done"} =>
            "nothing" \in {heard[r], heard[q]}

=============================================================================
