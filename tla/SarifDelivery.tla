---------------------------- MODULE SarifDelivery ----------------------------
(***************************************************************************)
(* Push feedback: generation and delivery of Sarif logs.  process_gen_sarif*)
(* of workflow_agent.py hands a feedback message about a finished scan to  *)
(* PushFeedbackService.execute_sarif_generation, which generates the log   *)
(* and starts one task per configured destination.  An HttpDeliveryAgent   *)
(* posts with retries, an AmqpDeliveryAgent publishes once.  The message   *)
(* is acknowledged when every task has ended.  requests.post is called     *)
(* without a timeout: a destination that takes the connection and never    *)
(* answers leaves its task hanging until the agent is gone.                *)
(***************************************************************************)
EXTENDS Integers, FiniteSets

CONSTANTS
    Scans,      \* scans with a feedback message
    Http,       \* destinations configured in via-http-post
    Amqp,       \* destinations configured in via-amqp
    Retries,    \* delivery-retries
    MaxFaults   \* bound: lost agents and failures to generate the log

ASSUME DeliveryAssumption ==
    /\ Http \cap Amqp = {}
    /\ Retries \in Int
    /\ MaxFaults \in Nat

VARIABLES
    mail,       \* where the feedback message of each scan is
    task,       \* state of the delivery of each scan to each destination
    remaining,  \* "remaining" of HttpDeliveryAgent.__post
    posts,      \* history: requests sent to the destination
    received,   \* history: requests the destination accepted
    passes,     \* history: how often the message was given to a handler
    aborted,    \* history: messages acknowledged without any delivery
    faults      \* history: number of faults so far

delivery == <<task, remaining, posts, received>>

vars == <<mail, delivery, passes, aborted, faults>>

Destinations == Http \cup Amqp

Places == {"none", "queued", "generating", "delivering", "gone"}

TaskStates == {"none", "trying", "delivered", "failed", "hung"}

\* A task that asyncio.wait waits for.
Unfinished == {"trying", "hung"}

\* max(self.__retries, 0)
Budget == IF Retries > 0 THEN Retries ELSE 0

Init ==
    /\ mail = [s \in Scans |-> "none"]
    /\ task = [s \in Scans |-> [d \in Destinations |-> "none"]]
    /\ remaining = [s \in Scans |-> [d \in Destinations |-> 0]]
    /\ posts = [s \in Scans |-> [d \in Destinations |-> 0]]
    /\ received = [s \in Scans |-> [d \in Destinations |-> 0]]
    /\ passes = [s \in Scans |-> 0]
    /\ aborted = {}
    /\ faults = 0

Fault ==
    /\ faults < MaxFaults
    /\ faults' = faults + 1

-----------------------------------------------------------------------------
(* The feedback message.                                                   *)

\* feedback_start or feedback_error publishes the message.
Publish(s) ==
    /\ mail[s] = "none"
    /\ mail' = [mail EXCEPT ![s] = "queued"]
    /\ UNCHANGED <<delivery, passes, aborted, faults>>

Receive(s) ==
    /\ mail[s] = "queued"
    /\ mail' = [mail EXCEPT ![s] = "generating"]
    /\ passes' = [passes EXCEPT ![s] = @ + 1]
    /\ UNCHANGED <<delivery, aborted, faults>>

\* The Sarif log is generated, or the message is about an error and has its
\* content already: a task is created for each destination.
StartDelivery(s) ==
    /\ mail[s] = "generating"
    /\ mail' = [mail EXCEPT ![s] = "delivering"]
    /\ task' = [task EXCEPT ![s] = [d \in Destinations |-> "trying"]]
    /\ remaining' = [remaining EXCEPT ![s] = [d \in Destinations |-> Budget]]
    /\ UNCHANGED <<posts, received, passes, aborted, faults>>

\* A CxOneException requeues the message.
GenerateRefused(s) ==
    /\ mail[s] = "generating"
    /\ Fault
    /\ mail' = [mail EXCEPT ![s] = "queued"]
    /\ UNCHANGED <<delivery, passes, aborted>>

\* Any other exception acknowledges it without a delivery.
GenerateFails(s) ==
    /\ mail[s] = "generating"
    /\ Fault
    /\ mail' = [mail EXCEPT ![s] = "gone"]
    /\ aborted' = aborted \cup {s}
    /\ UNCHANGED <<delivery, passes>>

\* Mutant: asyncio.wait returns when the first task has ended.
AcknowledgeFirst(s) ==
    /\ mail[s] = "delivering"
    /\ \E d \in Destinations : task[s][d] \notin Unfinished
    /\ mail' = [mail EXCEPT ![s] = "gone"]
    /\ UNCHANGED <<delivery, passes, aborted, faults>>

\* Mutant: the message is acknowledged only after a success.
AcknowledgeDelivered(s) ==
    /\ mail[s] = "delivering"
    /\ \A d \in Destinations : task[s][d] = "delivered"
    /\ mail' = [mail EXCEPT ![s] = "gone"]
    /\ UNCHANGED <<delivery, passes, aborted, faults>>

\* asyncio.wait returns when every task has ended, however it ended.
Acknowledge(s) ==
    /\ mail[s] = "delivering"
    /\ \A d \in Destinations : task[s][d] \notin Unfinished
    /\ mail' = [mail EXCEPT ![s] = "gone"]
    /\ UNCHANGED <<delivery, passes, aborted, faults>>

\* The agent dies: its tasks die with it and the message is delivered again.
AgentLost(s) ==
    /\ mail[s] \in {"generating", "delivering"}
    /\ Fault
    /\ mail' = [mail EXCEPT ![s] = "queued"]
    /\ task' = [task EXCEPT ![s] = [d \in Destinations |-> "none"]]
    /\ remaining' = [remaining EXCEPT ![s] = [d \in Destinations |-> 0]]
    /\ UNCHANGED <<posts, received, passes, aborted>>

-----------------------------------------------------------------------------
(* HttpDeliveryAgent.__post and AmqpDeliveryAgent.__publish_message.       *)

Attempt(s, d) ==
    /\ mail[s] = "delivering"
    /\ task[s][d] = "trying"
    /\ posts' = [posts EXCEPT ![s][d] = @ + 1]
    /\ UNCHANGED <<mail, passes, aborted, faults>>

Accepted(s, d) == received' = [received EXCEPT ![s][d] = @ + 1]

End(s, d, result) ==
    /\ task' = [task EXCEPT ![s][d] = result]
    /\ remaining' = [remaining EXCEPT ![s][d] = 0]

\* The destination takes the log.
Deliver(s, d) ==
    /\ Attempt(s, d)
    /\ Accepted(s, d)
    /\ End(s, d, "delivered")

\* Mutant: the last retry is followed by one more.
PostRejectedOnceMore(s, d) ==
    /\ d \in Http
    /\ Attempt(s, d)
    /\ UNCHANGED received
    /\ \/ /\ remaining[s][d] - 1 < -1
          /\ End(s, d, "failed")
       \/ /\ remaining[s][d] - 1 >= -1
          /\ remaining' = [remaining EXCEPT ![s][d] = @ - 1]
          /\ UNCHANGED task

\* The response is not ok: the loop goes on while "remaining" is not negative.
PostRejected(s, d) ==
    /\ d \in Http
    /\ Attempt(s, d)
    /\ UNCHANGED received
    /\ \/ /\ remaining[s][d] - 1 < 0
          /\ End(s, d, "failed")
       \/ /\ remaining[s][d] - 1 >= 0
          /\ remaining' = [remaining EXCEPT ![s][d] = @ - 1]
          /\ UNCHANGED task

\* The request raises: it is logged and not retried.  The destination may have
\* taken the log before the connection broke.  An AMQP publish the broker
\* returns ends the same way.
DeliveryRaises(s, d) ==
    /\ Attempt(s, d)
    /\ Accepted(s, d) \/ UNCHANGED received
    /\ End(s, d, "failed")

\* The destination never answers; it may have taken the log.
PostHangs(s, d) ==
    /\ d \in Http
    /\ Attempt(s, d)
    /\ Accepted(s, d) \/ UNCHANGED received
    /\ End(s, d, "hung")

-----------------------------------------------------------------------------
TaskStep(s, d) == Deliver(s, d) \/ PostRejected(s, d) \/ DeliveryRaises(s, d)

HandlerStep(s) == Receive(s) \/ StartDelivery(s) \/ Acknowledge(s)

Next ==
    \E s \in Scans :
        \/ Publish(s)
        \/ HandlerStep(s)
        \/ GenerateRefused(s)
        \/ GenerateFails(s)
        \/ AgentLost(s)
        \/ \E d \in Destinations : TaskStep(s, d) \/ PostHangs(s, d)

Spec == Init /\ [][Next]_vars

\* The queue is consumed and the event loop runs the handler and its tasks.  A
\* request ends in a response or in an exception, or it hangs for good.
FairSpec ==
    /\ Spec
    /\ \A s \in Scans : WF_vars(HandlerStep(s))
    /\ \A s \in Scans, d \in Destinations : WF_vars(TaskStep(s, d))

-----------------------------------------------------------------------------
(* Properties.                                                             *)

TypeOK ==
    /\ mail \in [Scans -> Places]
    /\ task \in [Scans -> [Destinations -> TaskStates]]
    /\ remaining \in [Scans -> [Destinations -> 0..Budget]]
    /\ posts \in [Scans -> [Destinations -> Nat]]
    /\ received \in [Scans -> [Destinations -> Nat]]
    /\ passes \in [Scans -> Nat]
    /\ aborted \in SUBSET Scans
    /\ faults \in 0..MaxFaults

\* A destination is not flooded: each time the message is given to a handler it
\* gets at most one request it accepts and at most delivery-retries + 1 requests
\* (one, over AMQP) in all, and a task that is still trying has the rest of
\* that budget left.
DeliveryBudget ==
    \A s \in Scans, d \in Destinations :
        LET perPass == IF d \in Http THEN Budget + 1 ELSE 1
            left == IF task[s][d] # "trying" THEN 0
                    ELSE IF d \in Http THEN remaining[s][d] + 1 ELSE 1
        IN  /\ received[s][d] <= passes[s]
            /\ posts[s][d] + left <= passes[s] * perPass

\* The feedback message leaves the queue only when every destination has had
\* its delivery tried: a destination that fails or is slow takes nothing from
\* the others, although the results of the tasks are never looked at.
NoDestinationSkipped ==
    \A s \in Scans :
        mail[s] = "gone" /\ s \notin aborted =>
            \A d \in Destinations :
                /\ posts[s][d] >= 1
                /\ task[s][d] \in {"delivered", "failed"}
                /\ task[s][d] = "delivered" => received[s][d] >= 1

\* Every feedback message is acknowledged in the end, whatever the destinations
\* answer, unless one of them does not answer at all: then the message stays
\* with its handler, and the prefetch slot with it.
DeliveryEnds ==
    \A s \in Scans :
        mail[s] = "queued"
            ~> (mail[s] = "gone" \/ \E d \in Http : task[s][d] = "hung")
=============================================================================
