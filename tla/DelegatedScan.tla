---------------------------- MODULE DelegatedScan ----------------------------
(***************************************************************************)
(* Delegation of a scan to a resolver agent.  An orchestrator publishes a  *)
(* request to the queue of the project's resolver tag.  A scan agent       *)
(* (ResolverRunnerAgent) clones, runs the resolver, creates the Checkmarx  *)
(* One scan and publishes a result.  A request nobody took in time is dead *)
(* lettered to ResolverTimeoutAgent, which submits it again or publishes a *)
(* failure.  ResolverResultsAgent acts on the results: it starts the       *)
(* monitoring of the scan or shows the failure on the pull request.        *)
(*                                                                         *)
(* A request message is a copy k of request r; a result message is known   *)
(* by the number of the scan it reports, 0 for a failure without a scan.   *)
(* An agent of the model is one running handler of a scan agent (prefetch  *)
(* 1); it may outlive its delivery when the broker's acknowledgement       *)
(* timeout takes the message back.                                         *)
(***************************************************************************)
EXTENDS Integers, FiniteSets

CONSTANTS
    Requests,     \* delegated scan requests
    PullRequests, \* the requests made by the PR workflow; the others are pushes
    Agents,       \* handlers of the scan agents that serve the tag
    Verifies,     \* agents whose public key matches the server's private key
    Able,         \* agents whose runner has a resolver to execute
    Copy,         \* identities for the messages of one request
    ScanRetries,  \* scan-retries
    MaxScans,     \* bound: scans made for one request
    MaxFaults     \* bound: faults of the broker, the network or an agent

ASSUME DelegationAssumption ==
    /\ PullRequests \subseteq Requests
    /\ Verifies \subseteq Agents
    /\ Able \subseteq Agents
    /\ ScanRetries \in Int
    /\ MaxScans \in Nat
    /\ MaxFaults \in Nat

VARIABLES
    phase,      \* what became of the request in __orchestrate_scan
    loc,        \* where each copy of the request message is
    retries,    \* the x-remaining-retries header of each copy
    worker,     \* the handler each agent is running
    scans,      \* number of scans created in Checkmarx One for the request
    ended,      \* which of those scans have ended
    inbox,      \* result messages not yet acted upon
    acted,      \* result messages acted upon and not yet acknowledged
    answered,   \* history: the results somebody acted upon
    watched,    \* scans whose feedback workflow was started
    published,  \* history: how often the request was published
    gaveUp,     \* history: requests ResolverTimeoutAgent failed
    lost,       \* history: requests with a message dropped after a logged error
    ambiguous,  \* history: requests with a redelivery, or a call that raised
                \* although it took effect
    faults      \* history: number of faults so far

broker == <<loc, retries, published>>

outcome == <<inbox, acted, answered, watched>>

checkmarx == <<scans, ended>>

history == <<gaveUp, lost, ambiguous, faults>>

vars == <<phase, broker, worker, checkmarx, outcome, history>>

Phases == {"idle", "delegated", "cloned", "raised"}

Locations == {"free", "queued", "held", "expired", "rejected", "judged"}

Stages == {"received", "working", "submitted", "refusing", "failing", "settled",
           "rejecting", "wedged"}

Results == 0..MaxScans

Failure == 0

Idle == [at |-> "idle"]

Busy == [at: Stages, r: Requests, k: Copy, holds: BOOLEAN, scan: Results]

\* The number of times a request is published before the timeout is final.
Attempts == IF ScanRetries > 1 THEN ScanRetries ELSE 1

WorksOn(a, r) == worker[a] # Idle /\ worker[a].r = r

Init ==
    /\ phase = [r \in Requests |-> "idle"]
    /\ loc = [r \in Requests |-> [k \in Copy |-> "free"]]
    /\ retries = [r \in Requests |-> [k \in Copy |-> 0]]
    /\ worker = [a \in Agents |-> Idle]
    /\ scans = [r \in Requests |-> 0]
    /\ ended = [r \in Requests |-> {}]
    /\ inbox = [r \in Requests |-> [x \in Results |-> 0]]
    /\ acted = [r \in Requests |-> [x \in Results |-> 0]]
    /\ answered = [r \in Requests |-> {}]
    /\ watched = [r \in Requests |-> {}]
    /\ published = [r \in Requests |-> 0]
    /\ gaveUp = {}
    /\ lost = {}
    /\ ambiguous = {}
    /\ faults = 0

-----------------------------------------------------------------------------
(* Effects the steps have in common.                                       *)

Fault ==
    /\ faults < MaxFaults
    /\ faults' = faults + 1

AtLeastZero(n) == IF n > 0 THEN n ELSE 0

\* delegated_scan_resubmit took effect: a copy with a retry count is queued.
Enqueue(r, n, count) ==
    /\ loc[r][n] = "free"
    /\ loc' = [loc EXCEPT ![r][n] = "queued"]
    /\ retries' = [retries EXCEPT ![r][n] = AtLeastZero(count)]
    /\ published' = [published EXCEPT ![r] = @ + 1]

\* deliver_delegated_scan_outcome took effect.
Result(r, x) == inbox' = [inbox EXCEPT ![r][x] = @ + 1]

Settle(a, stage) == worker' = [worker EXCEPT ![a].at = stage]

Lose(r) == lost' = lost \cup {r}

Doubt(r) == ambiguous' = ambiguous \cup {r}

\* The broker's side of the end of agent a's delivery.
GiveBack(a, l) ==
    IF worker[a].holds
    THEN /\ loc' = [loc EXCEPT ![worker[a].r][worker[a].k] = l]
         /\ retries' = IF l = "free"
                       THEN [retries EXCEPT ![worker[a].r][worker[a].k] = 0]
                       ELSE retries
    ELSE UNCHANGED <<loc, retries>>

-----------------------------------------------------------------------------
(* The orchestrator: __orchestrate_scan and request_resolver_scan.         *)

\* The request is confirmed by the broker: the scan is DELEGATED.
RequestScan(r, k) ==
    /\ phase[r] = "idle"
    /\ phase' = [phase EXCEPT ![r] = "delegated"]
    /\ Enqueue(r, k, ScanRetries)
    /\ UNCHANGED <<worker, checkmarx, outcome, history>>

\* The broker does not take the request, or the tag is unknown: the
\* orchestrator clones and scans itself.
RequestReturned(r) ==
    /\ phase[r] = "idle"
    /\ Fault
    /\ phase' = [phase EXCEPT ![r] = "cloned"]
    /\ UNCHANGED <<broker, worker, checkmarx, outcome, gaveUp, lost, ambiguous>>

\* The publish raises; the event is abandoned, but the request may be queued.
RequestRaises(r, k) ==
    /\ phase[r] = "idle"
    /\ Fault
    /\ phase' = [phase EXCEPT ![r] = "raised"]
    /\ Enqueue(r, k, ScanRetries) \/ UNCHANGED broker
    /\ UNCHANGED <<worker, checkmarx, outcome, gaveUp, lost, ambiguous>>

-----------------------------------------------------------------------------
(* The broker and Checkmarx One.                                           *)

\* Mutant: the queue of the tag has no dead-letter exchange.
ExpireDropped(r, k) ==
    /\ loc[r][k] = "queued"
    /\ loc' = [loc EXCEPT ![r][k] = "free"]
    /\ UNCHANGED <<phase, retries, published, worker, checkmarx, outcome, history>>

\* No agent took the copy within scan-timeout: it is dead-lettered.
Expire(r, k) ==
    /\ loc[r][k] = "queued"
    /\ loc' = [loc EXCEPT ![r][k] = "expired"]
    /\ UNCHANGED <<phase, retries, published, worker, checkmarx, outcome, history>>

Deliver(a, r, k) ==
    /\ loc[r][k] = "queued"
    /\ worker[a] = Idle
    /\ loc' = [loc EXCEPT ![r][k] = "held"]
    /\ worker' = [worker EXCEPT ![a] =
          [at |-> "received", r |-> r, k |-> k, holds |-> TRUE, scan |-> Failure]]
    /\ UNCHANGED <<phase, retries, published, checkmarx, outcome, history>>

FinishScan(r, x) ==
    /\ x \in 1..scans[r] \ ended[r]
    /\ ended' = [ended EXCEPT ![r] = @ \cup {x}]
    /\ UNCHANGED <<phase, broker, worker, scans, outcome, history>>

\* A scan agent dies: its unacknowledged copy is queued again.
AgentLost(a) ==
    /\ worker[a] # Idle
    /\ Fault
    /\ GiveBack(a, "queued")
    /\ Doubt(worker[a].r)
    /\ worker' = [worker EXCEPT ![a] = Idle]
    /\ UNCHANGED <<phase, published, checkmarx, outcome, gaveUp, lost>>

\* The acknowledgement timeout of the broker closes the channel of a handler
\* that is still running: the copy is queued again and the handler goes on.
AckTimeout(a) ==
    /\ worker[a] # Idle
    /\ worker[a].holds /\ worker[a].at # "wedged"
    /\ Fault
    /\ GiveBack(a, "queued")
    /\ Doubt(worker[a].r)
    /\ worker' = [worker EXCEPT ![a].holds = FALSE]
    /\ UNCHANGED <<phase, published, checkmarx, outcome, gaveUp, lost>>

\* The same timeout ends the wait for a handler that died of an exception
\* raised in its except clause.
ReleaseWedged(a) ==
    /\ worker[a].at = "wedged"
    /\ GiveBack(a, "queued")
    /\ Doubt(worker[a].r)
    /\ worker' = [worker EXCEPT ![a] = Idle]
    /\ UNCHANGED <<phase, published, checkmarx, outcome, gaveUp, lost, faults>>

-----------------------------------------------------------------------------
(* ResolverRunnerAgent.__call__                                            *)

\* The executor cannot be made; "workflow" is unbound in the except clause, so
\* the handler dies without a response and without an acknowledgement.
ExecutorFails(a) ==
    /\ worker[a].at = "received"
    /\ Fault
    /\ Settle(a, "wedged")
    /\ UNCHANGED <<phase, broker, checkmarx, outcome, gaveUp, lost, ambiguous>>

\* A message with a signature that does not verify is acknowledged without a
\* response; a runner that cannot run answers with a failure.
Examine(a) ==
    /\ worker[a].at = "received"
    /\ \/ /\ a \notin Verifies
          /\ Settle(a, "settled")
          /\ Lose(worker[a].r)
       \/ /\ a \in Verifies
          /\ Settle(a, IF a \in Able THEN "working" ELSE "refusing")
          /\ UNCHANGED lost
    /\ UNCHANGED <<phase, broker, checkmarx, outcome, gaveUp, ambiguous, faults>>

\* Clone, resolve and exec_local_scan: the scan is created, also after a
\* resolver that failed.
SubmitScan(a) ==
    /\ worker[a].at = "working"
    /\ LET r == worker[a].r IN
        /\ scans[r] < MaxScans
        /\ scans' = [scans EXCEPT ![r] = @ + 1]
        /\ worker' = [worker EXCEPT ![a].at = "submitted", ![a].scan = scans[r] + 1]
    /\ UNCHANGED <<phase, broker, ended, outcome, history>>

\* One of those raises; execute_scan may have created the scan nevertheless.
WorkFails(a) ==
    /\ worker[a].at = "working"
    /\ Fault
    /\ Settle(a, "failing")
    /\ \/ UNCHANGED <<scans, ambiguous>>
       \/ /\ scans[worker[a].r] < MaxScans
          /\ scans' = [scans EXCEPT ![worker[a].r] = @ + 1]
          /\ Doubt(worker[a].r)
    /\ UNCHANGED <<phase, broker, ended, outcome, gaveUp, lost>>

\* Mutant: the result is published while the message is still to be rejected.
DeliverResultThenReject(a) ==
    /\ worker[a].at = "submitted"
    /\ Settle(a, "failing")
    /\ Result(worker[a].r, worker[a].scan)
    /\ UNCHANGED <<phase, broker, checkmarx, acted, answered, watched, history>>

\* The result is published; what the broker says to it is not looked at.
DeliverResult(a) ==
    /\ worker[a].at = "submitted"
    /\ Settle(a, "settled")
    /\ \/ /\ Result(worker[a].r, worker[a].scan)
          /\ UNCHANGED <<lost, faults>>
       \/ /\ Fault
          /\ Lose(worker[a].r)
          /\ UNCHANGED inbox
    /\ UNCHANGED <<phase, broker, checkmarx, acted, answered, watched, gaveUp,
                   ambiguous>>

\* The publish, or the removal of the clone after it, raises.
DeliverRaises(a) ==
    /\ worker[a].at = "submitted"
    /\ Fault
    /\ Settle(a, "failing")
    /\ \/ /\ Result(worker[a].r, worker[a].scan)
          /\ Doubt(worker[a].r)
       \/ UNCHANGED <<inbox, ambiguous>>
    /\ UNCHANGED <<phase, broker, checkmarx, acted, answered, watched, gaveUp, lost>>

\* __send_failure_response: the failure names no scan, whatever was submitted.
RespondFailure(a) ==
    /\ worker[a].at \in {"refusing", "failing"}
    /\ Settle(a, IF worker[a].at = "refusing" THEN "settled" ELSE "rejecting")
    /\ \/ /\ Result(worker[a].r, Failure)
          /\ UNCHANGED <<lost, faults>>
       \/ /\ Fault
          /\ Lose(worker[a].r)
          /\ UNCHANGED inbox
    /\ UNCHANGED <<phase, broker, checkmarx, acted, answered, watched, gaveUp,
                   ambiguous>>

\* It raises: in the try block it is tried again from the except clause, in
\* the except clause the handler dies without an acknowledgement.
RespondRaises(a) ==
    /\ worker[a].at \in {"refusing", "failing"}
    /\ Fault
    /\ Settle(a, IF worker[a].at = "refusing" THEN "failing" ELSE "wedged")
    /\ \/ /\ Result(worker[a].r, Failure)
          /\ Doubt(worker[a].r)
       \/ UNCHANGED <<inbox, ambiguous>>
    /\ UNCHANGED <<phase, broker, checkmarx, acted, answered, watched, gaveUp, lost>>

\* msg.ack(), or msg.nack(requeue=False), which dead-letters the copy as
\* rejected.  Neither reaches a broker that took the delivery back.
Acknowledge(a) ==
    /\ worker[a].at \in {"settled", "rejecting"}
    /\ GiveBack(a, IF worker[a].at = "settled" THEN "free" ELSE "rejected")
    /\ worker' = [worker EXCEPT ![a] = Idle]
    /\ UNCHANGED <<phase, published, checkmarx, outcome, history>>

-----------------------------------------------------------------------------
(* ResolverTimeoutAgent and handle_resolver_scan_timeout.                  *)

\* Mutant: the retry count is not lowered.
ResubmitCountUnchanged(r, k) == retries[r][k]

\* get_delegated_scan_resubmit_count
ResubmitCount(r, k) == retries[r][k] - 1

\* A retry is left: the request is published again, then the timed-out copy is
\* acknowledged, also if the broker did not take the new one.
Resubmit(r, k, n) ==
    /\ loc[r][k] = "expired"
    /\ ResubmitCount(r, k) > 0
    /\ \/ /\ loc[r][n] = "free"
          /\ loc' = [loc EXCEPT ![r][k] = "judged", ![r][n] = "queued"]
          /\ retries' = [retries EXCEPT ![r][n] = AtLeastZero(ResubmitCount(r, k))]
          /\ published' = [published EXCEPT ![r] = @ + 1]
          /\ UNCHANGED <<lost, faults>>
       \/ /\ n = k
          /\ Fault
          /\ loc' = [loc EXCEPT ![r][k] = "judged"]
          /\ Lose(r)
          /\ UNCHANGED <<retries, published>>
    /\ UNCHANGED <<phase, worker, checkmarx, outcome, gaveUp, ambiguous>>

\* No retry is left: a failure without a scan is the result.
GiveUp(r, k) ==
    /\ loc[r][k] = "expired"
    /\ ResubmitCount(r, k) <= 0
    /\ loc' = [loc EXCEPT ![r][k] = "judged"]
    /\ gaveUp' = gaveUp \cup {r}
    /\ \/ /\ Result(r, Failure)
          /\ UNCHANGED <<lost, faults>>
       \/ /\ Fault
          /\ Lose(r)
          /\ UNCHANGED inbox
    /\ UNCHANGED <<phase, retries, published, worker, checkmarx, acted, answered,
                   watched, ambiguous>>

\* Whatever the agent publishes for a timed-out copy raises: the copy is
\* rejected and its queue has no dead-letter exchange.  If the publish took
\* effect nevertheless, the state is the one Resubmit or GiveUp leads to once
\* the copy is forgotten.
TimeoutRaises(r, k) ==
    /\ loc[r][k] = "expired"
    /\ Fault
    /\ loc' = [loc EXCEPT ![r][k] = "free"]
    /\ retries' = [retries EXCEPT ![r][k] = 0]
    /\ Lose(r)
    /\ UNCHANGED <<phase, published, worker, checkmarx, outcome, gaveUp, ambiguous>>

\* Mutant: a copy that did not expire is left unacknowledged.
ForgetJudgedOnly(r, k) ==
    /\ loc[r][k] = "judged"
    /\ loc' = [loc EXCEPT ![r][k] = "free"]
    /\ retries' = [retries EXCEPT ![r][k] = 0]
    /\ UNCHANGED <<phase, published, worker, checkmarx, outcome, history>>

\* A copy that was rejected and did not expire has been answered already; a
\* judged copy is acknowledged.
ForgetCopy(r, k) ==
    /\ loc[r][k] \in {"rejected", "judged"}
    /\ loc' = [loc EXCEPT ![r][k] = "free"]
    /\ retries' = [retries EXCEPT ![r][k] = 0]
    /\ UNCHANGED <<phase, published, worker, checkmarx, outcome, history>>

\* ResolverTimeoutAgent dies between its publish and the acknowledgement.
TimeoutAgentLost(r, k) ==
    /\ loc[r][k] = "judged"
    /\ Fault
    /\ loc' = [loc EXCEPT ![r][k] = "expired"]
    /\ Doubt(r)
    /\ UNCHANGED <<phase, retries, published, worker, checkmarx, outcome, gaveUp,
                   lost>>

-----------------------------------------------------------------------------
(* ResolverResultsAgent.__call__                                           *)

\* Mutant: the test for an executing scan is made for pull requests, too.
StartsExecuting(r, x) == {x} \ ({Failure} \cup ended[r])

\* The scans a result makes the agent start the feedback workflow for: a
\* pull-request scan always, a push scan only while it is executing.
Starts(r, x) ==
    {x} \ (IF r \in PullRequests THEN {Failure} ELSE {Failure} \cup ended[r])

\* The result is acted upon: start_pr_workflow or start_sarif_feedback for a
\* scan, exec_pr_prescan_failure for the failure of a pull request.
Act(r, x) ==
    /\ inbox[r][x] > 0
    /\ inbox' = [inbox EXCEPT ![r][x] = @ - 1]
    /\ acted' = [acted EXCEPT ![r][x] = @ + 1]
    /\ answered' = [answered EXCEPT ![r] = @ \cup {x}]
    /\ watched' = [watched EXCEPT ![r] = @ \cup Starts(r, x)]
    /\ UNCHANGED <<phase, broker, worker, checkmarx, history>>

\* An exception, before or after the effect: the result is dropped.
ActFails(r, x) ==
    /\ inbox[r][x] > 0
    /\ Fault
    /\ inbox' = [inbox EXCEPT ![r][x] = @ - 1]
    /\ \/ /\ answered' = [answered EXCEPT ![r] = @ \cup {x}]
          /\ watched' = [watched EXCEPT ![r] = @ \cup Starts(r, x)]
       \/ UNCHANGED <<answered, watched>>
    /\ Lose(r)
    /\ UNCHANGED <<phase, broker, worker, checkmarx, acted, gaveUp, ambiguous>>

AckResult(r, x) ==
    /\ acted[r][x] > 0
    /\ acted' = [acted EXCEPT ![r][x] = @ - 1]
    /\ UNCHANGED <<phase, broker, worker, checkmarx, inbox, answered, watched,
                   history>>

\* The agent dies before the acknowledgement: the result is delivered again.
ResultsAgentLost(r, x) ==
    /\ acted[r][x] > 0
    /\ Fault
    /\ acted' = [acted EXCEPT ![r][x] = @ - 1]
    /\ inbox' = [inbox EXCEPT ![r][x] = @ + 1]
    /\ Doubt(r)
    /\ UNCHANGED <<phase, broker, worker, checkmarx, answered, watched, gaveUp, lost>>

-----------------------------------------------------------------------------
RunnerStep(a) ==
    \/ Examine(a)
    \/ SubmitScan(a)
    \/ DeliverResult(a)
    \/ RespondFailure(a)
    \/ Acknowledge(a)
    \/ ReleaseWedged(a)

RunnerFault(a) ==
    \/ ExecutorFails(a)
    \/ WorkFails(a)
    \/ DeliverRaises(a)
    \/ RespondRaises(a)
    \/ AgentLost(a)
    \/ AckTimeout(a)

TimeoutStep(r, k) ==
    \/ \E n \in Copy : Resubmit(r, k, n)
    \/ GiveUp(r, k)
    \/ ForgetCopy(r, k)

Next ==
    \/ \E r \in Requests :
          \/ RequestReturned(r)
          \/ \E k \in Copy :
                \/ RequestScan(r, k)
                \/ RequestRaises(r, k)
                \/ Expire(r, k)
                \/ TimeoutStep(r, k)
                \/ TimeoutRaises(r, k)
                \/ TimeoutAgentLost(r, k)
                \/ \E a \in Agents : Deliver(a, r, k)
          \/ \E x \in 1..MaxScans : FinishScan(r, x)
          \/ \E x \in Results :
                \/ Act(r, x)
                \/ ActFails(r, x)
                \/ AckResult(r, x)
                \/ ResultsAgentLost(r, x)
    \/ \E a \in Agents : RunnerStep(a) \/ RunnerFault(a)

Spec == Init /\ [][Next]_vars

\* The broker expires what nobody takes and times out what nobody acknowledges;
\* the event loops run every handler to its end.  Nothing makes an agent take a
\* request: there may be none that listens.
Fairness ==
    /\ \A r \in Requests, k \in Copy :
          WF_vars(Expire(r, k) \/ TimeoutStep(r, k))
    /\ \A a \in Agents : WF_vars(RunnerStep(a))
    /\ \A r \in Requests, x \in Results : WF_vars(Act(r, x)) /\ WF_vars(AckResult(r, x))

FairSpec == Spec /\ Fairness

-----------------------------------------------------------------------------
(* Properties.                                                             *)

TypeOK ==
    /\ phase \in [Requests -> Phases]
    /\ loc \in [Requests -> [Copy -> Locations]]
    /\ retries \in [Requests -> [Copy -> Nat]]
    /\ worker \in [Agents -> Busy \cup {Idle}]
    /\ scans \in [Requests -> Results]
    /\ ended \in [Requests -> SUBSET (1..MaxScans)]
    /\ inbox \in [Requests -> [Results -> Nat]]
    /\ acted \in [Requests -> [Results -> Nat]]
    /\ answered \in [Requests -> SUBSET Results]
    /\ watched \in [Requests -> SUBSET (1..MaxScans)]
    /\ published \in [Requests -> Nat]
    /\ gaveUp \in SUBSET Requests
    /\ lost \in SUBSET Requests
    /\ ambiguous \in SUBSET Requests
    /\ faults \in 0..MaxFaults

\* The copies somebody still has to take or to judge.
LiveCopies(r) == {k \in Copy : loc[r][k] \in {"queued", "held", "expired"}}

\* The handlers that have not yet published what they have to say about r.
Working(r) ==
    {a \in Agents : WorksOn(a, r) /\ worker[a].at \notin {"settled", "rejecting"}}

\* The results that exist or existed for r.
Known(r) == {x \in Results : inbox[r][x] > 0 \/ x \in answered[r]}

\* A delegated scan is not forgotten: its request is queued or timed out, or an
\* agent is at work on it, or a result is on its way or was acted upon, unless
\* one of the agents logged that it dropped a message.  Neither a dying agent
\* nor an acknowledgement timeout nor the want of an agent loses the request.
NoSilentLoss ==
    \A r \in Requests :
        phase[r] = "delegated" /\ r \notin lost =>
            \/ \E k \in Copy : loc[r][k] \in {"queued", "expired"}
            \/ Working(r) # {}
            \/ Known(r) # {}

\* Without a redelivery, and without a call that raised after it took effect, a
\* delegated scan has one outcome: ResolverRunnerAgent creates at most one scan,
\* and the pull request is not told of a failure next to the scan's own
\* feedback, nor twice of either.
OneOutcome ==
    \A r \in Requests \ ambiguous :
        /\ scans[r] <= 1
        /\ \A x \in Known(r) : inbox[r][x] + acted[r][x] <= 1
        /\ \A x, y \in Known(r) : x = y
        /\ Known(r) # {} => Working(r) = {}

\* The publishes the manual allows for: the initial request and scan-retries
\* retries after it.
Allowed == 1 + AtLeastZero(ScanRetries)

\* The retry header is a budget that redelivery alone can exceed: the request is
\* published no more often than the manual allows, and
\* handle_resolver_scan_timeout fails it only when no other copy of it is left
\* that an agent could still take.
RetryBudget ==
    \A r \in Requests \ ambiguous :
        /\ published[r] <= Allowed
        /\ r \in gaveUp => LiveCopies(r) = {}

\* What manual/operation/yaml/resolver.tex says of scan-retries: "The number of
\* times a request for a delegated scan will be retried after the initial
\* request", and "If the number of retries exceeds this amount, the scan will be
\* returned in a failed state".  get_delegated_scan_resubmit_count lowers the
\* count before it is compared with zero, so one retry fewer is made.
RetriesAsDocumented ==
    \A r \in Requests \ (ambiguous \cup lost) :
        r \in gaveUp => published[r] = Allowed

Settled(r) ==
    /\ \A k \in Copy : loc[r][k] = "free"
    /\ \A a \in Agents : ~WorksOn(a, r)
    /\ \A x \in Results : inbox[r][x] = 0 /\ acted[r][x] = 0

\* Delegation comes to an end, even if no agent serves the tag: the timeouts
\* use up the retries, every handler ends, and every result is dealt with.
DelegationEnds ==
    \A r \in Requests : phase[r] = "delegated" ~> []Settled(r)

\* Once the request of a pull request is settled, the scan that an agent made
\* for it is monitored, also if it ended before its result was acted upon, or the
\* request was answered as failed because its result could not be delivered.
\* Nothing of the kind holds of a push: ResolverResultsAgent does not start the
\* Sarif delivery of a scan that has ended by then.
PullRequestsWatched ==
    \A r \in PullRequests \ (lost \cup ambiguous) : Settled(r) =>
        \A x \in 1..scans[r] : x \in watched[r] \/ Failure \in answered[r]
=============================================================================
