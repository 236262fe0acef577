----------------------------- MODULE ScanPolling -----------------------------
(***************************************************************************)
(* The scan-monitoring loop of CxOneFlow.  An orchestrator that has        *)
(* started a Checkmarx One scan publishes an await message; the message    *)
(* soaks in the "Awaited Scans" queue until its TTL runs out, is           *)
(* dead-lettered to "Polling Scans", and is consumed by process_poll of    *)
(* workflow_agent.py, whose handler is                                     *)
(* ScanPollingService.execute_poll_scan_workflow.  The handler either      *)
(* republishes the message with a longer TTL or publishes feedback.        *)
(*                                                                         *)
(* A message is a pair <<s, k>>: the scan it is about and the copy.  More  *)
(* than one copy about a scan exists only after a redelivery.  loc[s][k]   *)
(* is the queue the copy is in or the await point at which its handler     *)
(* stands; a copy held by a handler is unacknowledged, so the broker       *)
(* redelivers it when the consumer is lost.  The agents connect with       *)
(* connect_robust: a handler whose channel is lost lives on.  It is then   *)
(* stale: the broker has queued its message again, and the handler's       *)
(* acknowledgement reaches nobody, but what it publishes takes effect.     *)
(***************************************************************************)
EXTENDS Integers, FiniteSets

CONSTANTS
    Scans,        \* scans the orchestrators may start
    Copy,         \* identities for the messages about one scan
    Workflow,     \* Workflow[s]: the workflow the scan was started for
    Prefetch,     \* unacknowledged messages the polling consumers may hold
    Interval,     \* poll-interval-seconds
    Backoff,      \* poll-backoff-multiplier
    MaxInterval,  \* poll-max-interval-seconds
    MaxFaults     \* bound: faults of the broker, the network or an agent

Services == {"pr", "push"}

Outcomes == {"completed", "failure", "policy", "unspecified"}

ASSUME WorkflowAssumption == Workflow \in [Scans -> Services]

ASSUME IntervalAssumption ==
    /\ Interval \in Nat
    /\ MaxInterval \in Nat
    /\ Backoff \in Nat \ {0}
    /\ MaxFaults \in Nat

\* "push": feedback.push is enabled; "timeout": scan-timeout-hours is not 0.
Configurations == [push: BOOLEAN, timeout: BOOLEAN]

VARIABLES
    config,      \* the configuration, which does not change
    scanState,   \* state of the scan in Checkmarx One
    breakBuild,  \* its policy evaluation asks to break the build
    swayed,      \* history: scans whose evaluation changed after their end
    phase,       \* progress of the orchestrator that started the scan
    overdue,     \* scans whose drop_by time has passed
    loc,         \* where each copy of the poll message is
    ttl,         \* the expiration each copy was published with
    stale,       \* copies whose handler has outlived its channel
    sent,        \* feedback messages enqueued per service and outcome
    stops,       \* history: why a copy was discarded without feedback
    ambiguous,   \* history: scans with a redelivery, or an exception, after a
                 \* publish took effect, or with a publish by a stale handler
    faults       \* history: number of faults so far

monitor == <<loc, ttl, stale, sent, stops, ambiguous, faults>>

environment == <<config, scanState, breakBuild, swayed, phase, overdue>>

vars == <<environment, monitor>>

ScanStates == {"none", "executing", "successful", "failed"}

Phases == {"idle", "submitted", "awaited", "unmonitored"}

\* "free" copies do not exist; the last seven are the await points of a handler.
Locations == {"free", "await", "polling", "received", "loading", "deciding",
              "breaking", "reported", "requeue", "republished"}

Held == Locations \ {"free", "await", "polling"}

\* A copy that still has to be answered by feedback or by a republished copy.
Pending == {"await", "polling", "received", "loading", "deciding", "breaking",
            "requeue"}

\* A copy whose handler has published and is about to acknowledge.
Answered == {"reported", "republished"}

Reasons == {"expired", "response", "lost"}

Finished(s) == scanState[s] \in {"successful", "failed"}

\* The broker knows of these copies: a stale handler has none.
PendingCopies(s) == {k \in Copy \ stale[s] : loc[s][k] \in Pending}

\* The identity a new copy gets: any free one would do, and one is enough.
Fresh(s) ==
    {n \in Copy : loc[s][n] = "free" /\ n = CHOOSE m \in Copy : loc[s][m] = "free"}

Reported(s) == \E p \in Services \X Outcomes : sent[s][p] > 0

Minimum(a, b) == IF a <= b THEN a ELSE b

\* Mutant: the cap of the backoff is forgotten.
NextTTLUncapped(t) == t * Backoff

\* min(original-expiration * backoff, max_interval)
NextTTL(t) == Minimum(t * Backoff, MaxInterval)

Init ==
    /\ config \in Configurations
    /\ scanState = [s \in Scans |-> "none"]
    /\ breakBuild = [s \in Scans |-> FALSE]
    /\ swayed = {}
    /\ phase = [s \in Scans |-> "idle"]
    /\ overdue = {}
    /\ loc = [s \in Scans |-> [k \in Copy |-> "free"]]
    /\ ttl = [s \in Scans |-> [k \in Copy |-> 0]]
    /\ stale = [s \in Scans |-> {}]
    /\ sent = [s \in Scans |-> [p \in Services \X Outcomes |-> 0]]
    /\ stops = [s \in Scans |-> {}]
    /\ ambiguous = {}
    /\ faults = 0

-----------------------------------------------------------------------------
(* What the handler does to its message and what its steps have in common. *)

\* msg.ack(), or msg.nack(requeue=False) on a queue without a dead-letter
\* exchange: the broker forgets the copy.  For a stale handler both raise, and
\* it is only the handler that is gone.
Discard(s, k) ==
    /\ loc' = [loc EXCEPT ![s][k] = "free"]
    /\ ttl' = [ttl EXCEPT ![s][k] = 0]
    /\ stale' = [stale EXCEPT ![s] = @ \ {k}]

Move(s, k, l) ==
    /\ loc' = [loc EXCEPT ![s][k] = l]
    /\ UNCHANGED <<ttl, stale>>

\* The copy is given up, unless it is in other hands already.
Stop(s, k, reason) ==
    stops' = IF k \in stale[s] THEN stops ELSE [stops EXCEPT ![s] = @ \cup {reason}]

\* A publish of the handler of copy k took effect.
Publishes(s, k) ==
    ambiguous' = IF k \in stale[s] THEN ambiguous \cup {s} ELSE ambiguous

Fault ==
    /\ faults < MaxFaults
    /\ faults' = faults + 1

\* handle_completed_scan and handle_awaited_scan_error publish only for the
\* messages of the service's own workflow.
Handles(svc, s) == svc = Workflow[s]

\* Mutant: the policy evaluation is not consulted.
OutcomeIgnoringPolicy(successful, first, second) ==
    IF successful THEN "completed" ELSE "failure"

\* The four-way branch on the scan and on its policy evaluation; break_build is
\* awaited once for each of the two conditions that mention it.
Outcome(successful, first, second) ==
    CASE successful /\ ~first -> "completed"
      [] ~successful -> "failure"
      [] successful /\ first /\ second -> "policy"
      [] OTHER -> "unspecified"

\* The first read of a handler at "breaking" said that the build breaks.
OutcomeOf(s, k) ==
    Outcome(scanState[s] = "successful",
            loc[s][k] = "breaking" \/ breakBuild[s],
            breakBuild[s])

\* Every service of the poller is asked to publish the outcome.
WithFeedback(s, k) ==
    [sent EXCEPT ![s] =
        [p \in Services \X Outcomes |->
            IF Handles(p[1], s) /\ p[2] = OutcomeOf(s, k)
            THEN sent[s][p] + 1
            ELSE sent[s][p]]]

-----------------------------------------------------------------------------
(* The orchestrator and Checkmarx One.                                     *)

\* An orchestrator creates the scan in Checkmarx One.
Submit(s) ==
    /\ phase[s] = "idle"
    /\ phase' = [phase EXCEPT ![s] = "submitted"]
    /\ scanState' = [scanState EXCEPT ![s] = "executing"]
    /\ UNCHANGED <<config, breakBuild, swayed, overdue, monitor>>

\* start_sarif_feedback does nothing while the push workflow is disabled.
StartDisabled(s) ==
    /\ phase[s] = "submitted"
    /\ Workflow[s] = "push" /\ ~config.push
    /\ phase' = [phase EXCEPT ![s] = "unmonitored"]
    /\ UNCHANGED <<config, scanState, breakBuild, swayed, overdue, monitor>>

\* workflow_start publishes the await message with the initial interval as
\* its TTL.  The result of _publish is dropped: a publish the broker does not
\* accept leaves the scan without a poll message.
WorkflowStart(s, k) ==
    /\ phase[s] = "submitted"
    /\ Workflow[s] = "pr" \/ config.push
    /\ loc[s][k] = "free"
    /\ phase' = [phase EXCEPT ![s] = "awaited"]
    /\ \/ /\ loc' = [loc EXCEPT ![s][k] = "await"]
          /\ ttl' = [ttl EXCEPT ![s][k] = Interval]
          /\ UNCHANGED <<stops, faults>>
       \/ /\ Fault
          /\ Stop(s, k, "lost")
          /\ UNCHANGED <<loc, ttl>>
    /\ UNCHANGED <<config, scanState, breakBuild, swayed, overdue, stale, sent,
                   ambiguous>>

\* The scan ends in Checkmarx One and its policies are evaluated.  The
\* evaluation of a scan that failed is never read.
FinishScan(s) ==
    /\ scanState[s] = "executing"
    /\ \E result \in {"successful", "failed"}, b \in BOOLEAN :
          /\ b => result = "successful"
          /\ scanState' = [scanState EXCEPT ![s] = result]
          /\ breakBuild' = [breakBuild EXCEPT ![s] = b]
    /\ UNCHANGED <<config, swayed, phase, overdue, monitor>>

\* The evaluation comes late, or changes once more (bound: one change).
EvaluateAgain(s) ==
    /\ scanState[s] = "successful"
    /\ s \notin swayed
    /\ breakBuild' = [breakBuild EXCEPT ![s] = ~@]
    /\ swayed' = swayed \cup {s}
    /\ UNCHANGED <<config, scanState, phase, overdue, monitor>>

\* The drop_by time computed when the await message was made passes.
PassDeadline(s) ==
    /\ config.timeout
    /\ phase[s] = "awaited"
    /\ s \notin overdue
    /\ overdue' = overdue \cup {s}
    /\ UNCHANGED <<config, scanState, breakBuild, swayed, phase, monitor>>

-----------------------------------------------------------------------------
(* The broker.                                                             *)

\* The TTL of an awaited copy runs out: the dead-letter exchange routes it to
\* the polling queue.
Expire(s, k) ==
    /\ loc[s][k] = "await"
    /\ Move(s, k, "polling")
    /\ UNCHANGED <<environment, sent, stops, ambiguous, faults>>

\* A consumer of the polling queue is given the copy, unless its consumers have
\* as many unacknowledged copies as their prefetch count allows.
Deliver(s, k) ==
    /\ loc[s][k] = "polling"
    /\ Cardinality({c \in Scans \X Copy :
                       loc[c[1]][c[2]] \in Held /\ c[2] \notin stale[c[1]]}) < Prefetch
    /\ Move(s, k, "received")
    /\ UNCHANGED <<environment, sent, stops, ambiguous, faults>>

\* Mutant: messages are acknowledged on delivery, so a dying agent loses them.
ConsumerLostAutoAck(s, k) ==
    /\ loc[s][k] \in Held
    /\ Fault
    /\ Discard(s, k)
    /\ UNCHANGED <<environment, sent, stops, ambiguous>>

\* The agent that runs the handler dies: the copy goes back to the polling
\* queue, also if the handler had already published.  The copies of an agent go
\* back one by one.
ConsumerLost(s, k) ==
    /\ loc[s][k] \in Held
    /\ Fault
    /\ \/ /\ k \in stale[s]
          /\ Discard(s, k)
          /\ UNCHANGED ambiguous
       \/ /\ k \notin stale[s]
          /\ Move(s, k, "polling")
          /\ ambiguous' = IF loc[s][k] \in Answered THEN ambiguous \cup {s}
                          ELSE ambiguous
    /\ UNCHANGED <<environment, sent, stops>>

\* The channel of the delivery is lost and the handler goes on: the broker has
\* the message again, as copy n, with the x-death header of the old delivery.
ChannelLost(s, k, n) ==
    /\ loc[s][k] \in Held /\ k \notin stale[s]
    /\ loc[s][n] = "free"
    /\ Fault
    /\ loc' = [loc EXCEPT ![s][n] = "polling"]
    /\ ttl' = [ttl EXCEPT ![s][n] = ttl[s][k]]
    /\ stale' = [stale EXCEPT ![s] = @ \cup {k}]
    /\ ambiguous' = IF loc[s][k] \in Answered THEN ambiguous \cup {s} ELSE ambiguous
    /\ UNCHANGED <<environment, sent, stops>>

-----------------------------------------------------------------------------
(* process_poll and execute_poll_scan_workflow.                            *)

\* The drop_by time has passed: acknowledge and say nothing.
DropExpired(s, k) ==
    /\ loc[s][k] = "received"
    /\ s \in overdue
    /\ Discard(s, k)
    /\ Stop(s, k, "expired")
    /\ UNCHANGED <<environment, sent, ambiguous, faults>>

\* A channel for publishing is opened.
OpenChannel(s, k) ==
    /\ loc[s][k] = "received"
    /\ s \notin overdue
    /\ Move(s, k, "loading")
    /\ UNCHANGED <<environment, sent, stops, ambiguous, faults>>

\* The lookup of the services or the opening of the channel raises: nothing is
\* left to republish on, and process_poll rejects the copy without requeueing.
OpenChannelFails(s, k) ==
    /\ loc[s][k] = "received"
    /\ Fault
    /\ Discard(s, k)
    /\ Stop(s, k, "lost")
    /\ UNCHANGED <<environment, sent, ambiguous>>

\* Mutant: only a successful scan counts as finished.
LoadInspectorSuccessOnly(s, k) ==
    /\ loc[s][k] = "loading"
    /\ Move(s, k, IF scanState[s] = "successful" THEN "deciding" ELSE "requeue")
    /\ UNCHANGED <<environment, sent, stops, ambiguous, faults>>

\* load_scan_inspector returns the state of the scan.
LoadInspector(s, k) ==
    /\ loc[s][k] = "loading"
    /\ Move(s, k, IF Finished(s) THEN "deciding" ELSE "requeue")
    /\ UNCHANGED <<environment, sent, stops, ambiguous, faults>>

\* load_scan_inspector raises ResponseException: polling stops for good.
LoadRefused(s, k) ==
    /\ loc[s][k] = "loading"
    /\ Fault
    /\ Discard(s, k)
    /\ Stop(s, k, "response")
    /\ UNCHANGED <<environment, sent, ambiguous>>

\* load_scan_inspector raises anything else: the finally clause republishes,
\* and the reject of process_poll then finds the copy acknowledged.
LoadFails(s, k) ==
    /\ loc[s][k] = "loading"
    /\ Fault
    /\ Move(s, k, "requeue")
    /\ UNCHANGED <<environment, sent, stops, ambiguous>>

\* break_build is true when it is first awaited: it is awaited again.
PolicyBroken(s, k) ==
    /\ loc[s][k] = "deciding"
    /\ scanState[s] = "successful" /\ breakBuild[s]
    /\ Move(s, k, "breaking")
    /\ UNCHANGED <<environment, sent, stops, ambiguous, faults>>

\* The handler knows what it will publish.
Decided(s, k) ==
    \/ loc[s][k] = "breaking"
    \/ loc[s][k] = "deciding" /\ ~(scanState[s] = "successful" /\ breakBuild[s])

\* Mutant: requeue_on_finally is not reset after the feedback is published.
ReportAndRequeue(s, k) ==
    /\ Decided(s, k)
    /\ Move(s, k, "requeue")
    /\ sent' = WithFeedback(s, k)
    /\ Publishes(s, k)
    /\ UNCHANGED <<environment, stops, faults>>

\* The outcome is published.  The boolean of _publish is dropped, so the copy
\* is acknowledged next whether or not the broker took the feedback.
Report(s, k) ==
    /\ Decided(s, k)
    /\ Move(s, k, "reported")
    /\ \/ /\ sent' = WithFeedback(s, k)
          /\ Publishes(s, k)
          /\ UNCHANGED <<stops, faults>>
       \/ /\ Fault
          /\ Stop(s, k, "lost")
          /\ UNCHANGED <<sent, ambiguous>>
    /\ UNCHANGED environment

\* Reading the policy or publishing raises; the exception is swallowed and the
\* copy is requeued.  A publish that raises may have reached the broker.
ReportFails(s, k) ==
    /\ loc[s][k] \in {"deciding", "breaking"}
    /\ Fault
    /\ Move(s, k, "requeue")
    /\ \/ /\ Decided(s, k)
          /\ sent' = WithFeedback(s, k)
          /\ ambiguous' = ambiguous \cup {s}
       \/ UNCHANGED <<sent, ambiguous>>
    /\ UNCHANGED <<environment, stops>>

\* The finally clause publishes a new copy with the backed-off TTL.
Republish(s, k, n) ==
    /\ loc[s][k] = "requeue"
    /\ loc[s][n] = "free"
    /\ loc' = [loc EXCEPT ![s][k] = "republished", ![s][n] = "await"]
    /\ ttl' = [ttl EXCEPT ![s][n] = NextTTL(ttl[s][k])]
    /\ Publishes(s, k)
    /\ UNCHANGED <<environment, stale, sent, stops, faults>>

\* Mutant: the old copy is acknowledged although the new one was not taken.
RepublishReturnedAck(s, k) ==
    /\ loc[s][k] = "requeue"
    /\ Fault
    /\ Discard(s, k)
    /\ UNCHANGED <<environment, sent, stops, ambiguous>>

\* The broker does not confirm the new copy: msg.nack() requeues the old one,
\* or raises in a stale handler.
RepublishReturned(s, k) ==
    /\ loc[s][k] = "requeue"
    /\ Fault
    /\ \/ k \in stale[s] /\ Discard(s, k)
       \/ k \notin stale[s] /\ Move(s, k, "polling")
    /\ UNCHANGED <<environment, sent, stops, ambiguous>>

\* The publish raises: process_poll rejects the old copy without requeueing.
\* The new copy may have reached the broker.
RepublishFails(s, k, n) ==
    /\ loc[s][k] = "requeue"
    /\ loc[s][n] = "free"
    /\ Fault
    /\ \/ /\ loc' = [loc EXCEPT ![s][k] = "free", ![s][n] = "await"]
          /\ ttl' = [ttl EXCEPT ![s][k] = 0, ![s][n] = NextTTL(ttl[s][k])]
          /\ stale' = [stale EXCEPT ![s] = @ \ {k}]
          /\ Publishes(s, k)
          /\ UNCHANGED stops
       \/ /\ Discard(s, k)
          /\ Stop(s, k, "lost")
          /\ UNCHANGED ambiguous
    /\ UNCHANGED <<environment, sent>>

\* msg.ack() after feedback, or after a confirmed republish.
Acknowledge(s, k) ==
    /\ loc[s][k] \in Answered
    /\ Discard(s, k)
    /\ UNCHANGED <<environment, sent, stops, ambiguous, faults>>

-----------------------------------------------------------------------------
HandlerStep(s, k) ==
    \/ DropExpired(s, k)
    \/ OpenChannel(s, k)
    \/ LoadInspector(s, k)
    \/ PolicyBroken(s, k)
    \/ Report(s, k)
    \/ \E n \in Fresh(s) : Republish(s, k, n)
    \/ Acknowledge(s, k)

HandlerFault(s, k) ==
    \/ OpenChannelFails(s, k)
    \/ LoadRefused(s, k)
    \/ LoadFails(s, k)
    \/ ReportFails(s, k)
    \/ RepublishReturned(s, k)
    \/ \E n \in Fresh(s) : RepublishFails(s, k, n)

Next ==
    \/ \E s \in Scans :
          \/ Submit(s)
          \/ StartDisabled(s)
          \/ \E k \in Fresh(s) : WorkflowStart(s, k)
          \/ FinishScan(s)
          \/ EvaluateAgain(s)
          \/ PassDeadline(s)
          \/ \E k \in Copy :
                \/ Expire(s, k)
                \/ Deliver(s, k)
                \/ HandlerStep(s, k)
                \/ HandlerFault(s, k)
                \/ ConsumerLost(s, k)
                \/ \E n \in Fresh(s) : ChannelLost(s, k, n)

Spec == Init /\ [][Next]_vars

\* The broker dead-letters and delivers, and the event loop of an agent runs
\* every handler to its end.  Either time runs to the deadline or, with no
\* deadline configured, Checkmarx One ends the scan.
Fairness ==
    /\ \A s \in Scans, k \in Copy :
          WF_vars(Expire(s, k) \/ Deliver(s, k) \/ HandlerStep(s, k))
    /\ \A s \in Scans :
          WF_vars(PassDeadline(s)) /\ WF_vars(~config.timeout /\ FinishScan(s))

FairSpec == Spec /\ Fairness

-----------------------------------------------------------------------------
(* Properties.                                                             *)

TypeOK ==
    /\ config \in Configurations
    /\ scanState \in [Scans -> ScanStates]
    /\ breakBuild \in [Scans -> BOOLEAN]
    /\ swayed \in SUBSET Scans
    /\ phase \in [Scans -> Phases]
    /\ overdue \in SUBSET Scans
    /\ loc \in [Scans -> [Copy -> Locations]]
    /\ ttl \in [Scans -> [Copy -> Nat]]
    /\ stale \in [Scans -> SUBSET Copy]
    /\ sent \in [Scans -> [Services \X Outcomes -> Nat]]
    /\ stops \in [Scans -> SUBSET Reasons]
    /\ ambiguous \in SUBSET Scans
    /\ faults \in 0..MaxFaults

\* Feedback tells the truth about the scan, whatever was redelivered,
\* requeued or lost on the way: execute_poll_scan_workflow publishes only for a
\* scan that has ended, only to the workflow the scan was started for, and as a
\* scan failure only if the scan failed.  Unless the policy evaluation changed
\* after the scan had ended, a scan passes if and only if it succeeded and its
\* policies do not break the build, and the branch for a break_build that is
\* true and then false ("unspecified") is not taken.
FeedbackIsTrue ==
    \A s \in Scans, svc \in Services, o \in Outcomes :
        sent[s][<<svc, o>>] > 0 =>
            /\ svc = Workflow[s]
            /\ Finished(s)
            /\ (o = "failure") <=> (scanState[s] = "failed")
            /\ s \notin swayed =>
                  /\ (o = "completed")
                        <=> (scanState[s] = "successful" /\ ~breakBuild[s])
                  /\ o # "unspecified"

\* Monitoring of a scan does not evaporate: an awaited scan has been reported,
\* or the broker still has a copy of its poll message, queued or delivered, or a
\* copy was given up for a reason execute_poll_scan_workflow or process_poll
\* logs (deadline, refusal by Checkmarx One, a publish or channel that failed).
\* In particular a dying agent, a handler that outlives its channel and an
\* unconfirmed republish lose nothing.
NoSilentLoss ==
    \A s \in Scans :
        phase[s] = "awaited" /\ stops[s] = {} =>
            Reported(s) \/ PendingCopies(s) # {}

\* Feedback is sent at most once, and the poll message does not multiply, as
\* long as no redelivery and no exception followed a publish that took effect
\* and no handler published after its delivery had been taken back: the order
\* "publish, then acknowledge" and handlers that outlive their channel are the
\* only sources of duplicate comments and Sarif deliveries.  A redelivery as
\* such, with the old handler still running, is not one.
AtMostOnce ==
    \A s \in Scans \ ambiguous :
        /\ \A p, q \in Services \X Outcomes :
              sent[s][p] <= 1 /\ (sent[s][p] > 0 /\ sent[s][q] > 0 => p = q)
        /\ \A j, k \in PendingCopies(s) : j = k
        /\ Reported(s) => PendingCopies(s) = {}

\* The delay a poll message is published with stays in range however often it
\* was backed off and from whichever delivery it was republished: never below
\* poll-interval-seconds (or the maximum, if that is the smaller), never above
\* poll-max-interval-seconds (or the initial interval, if that is the larger).
\* It is the expiration that is bounded, not the time between two polls: a
\* redelivered or requeued copy is polled at once, and a copy behind one with a
\* longer expiration waits for that one.
BackoffInRange ==
    \A s \in Scans, k \in Copy :
        loc[s][k] # "free" =>
            /\ Minimum(Interval, MaxInterval) <= ttl[s][k]
            /\ ttl[s][k] <= MaxInterval \/ ttl[s][k] = Interval

\* Monitoring comes to an end: every awaited scan gets to a state in which no
\* copy of its poll message is left in the broker or in a handler, be it stale,
\* and stays there.  A poller that overlooked the end of a scan, or that requeued a
\* message it had answered, would poll forever.
MonitoringEnds ==
    \A s \in Scans :
        phase[s] = "awaited" ~> [](\A k \in Copy : loc[s][k] = "free")

-----------------------------------------------------------------------------
(* The poller implements ScanMonitor.                                      *)

\* The verdicts Checkmarx One has given on the scan so far.
Verdicts(s) ==
    CASE ~Finished(s) -> {}
      [] scanState[s] = "failed" -> {"reject"}
      [] scanState[s] = "successful" /\ s \in swayed -> {"pass", "reject"}
      [] OTHER -> {IF breakBuild[s] THEN "reject" ELSE "pass"}

\* The copies in the broker or in a handler, stale or not.
LiveCopies(s) == {k \in Copy : loc[s][k] # "free"}

\* A scan is watched until its last copy is gone without a report.
WatchOf(s) ==
    IF phase[s] # "awaited" THEN "off"
    ELSE IF ~Reported(s) /\ LiveCopies(s) = {} THEN "ended"
    ELSE "on"

VerdictOf(o) == IF o = "completed" THEN "pass" ELSE "reject"

ReportsOf(s) ==
    {v \in {"pass", "reject"} :
        \E p \in Services \X Outcomes : sent[s][p] > 0 /\ VerdictOf(p[2]) = v}

Monitor ==
    INSTANCE ScanMonitor WITH
        Excuses <- Reasons,
        given <- [s \in Scans |-> Verdicts(s)],
        watch <- [s \in Scans |-> WatchOf(s)],
        reports <- [s \in Scans |-> ReportsOf(s)],
        excuse <- stops

\* The queues, the redeliveries, the handlers that outlive their channel and the
\* finally clause amount to the monitoring of ScanMonitor: only verdicts that
\* Checkmarx One gave are reported, so two different ones only if it gave two; a
\* watch ends unreported only for a recorded reason, and neither a copy of the
\* poll message nor a stale handler outlives the end of the watch to report
\* after all.
ImplementsMonitor == Monitor!Spec
=============================================================================
