------------------------------ MODULE CheckRuns ------------------------------
(***************************************************************************)
(* Decoration of a pull request through GitHub check runs.  The notices    *)
(* and the feedback about the scans of one head commit travel through      *)
(* separate queues, each with its own consumer of workflow_agent.py, so    *)
(* they are handled in any order.  PRFeedbackService hands them to         *)
(* GHServiceChecks, which looks up a check run of the commit by its status *)
(* and then changes it: the lookup and the change are two requests to      *)
(* GitHub, between which other handlers run.                               *)
(*                                                                         *)
(* A message is a pair <<kind, s>> of a kind and the scan it is about.     *)
(* The failure of a prescan is not a message of its own: it is handled by  *)
(* ResolverResultsAgent, through the same two requests.  The PR feedback   *)
(* workflow is enabled.                                                    *)
(***************************************************************************)
EXTENDS Integers, Sequences, FiniteSets

CONSTANTS
    Scans,      \* scan workflows started for the head commit
    Delegated,  \* those whose scan is delegated to a resolver agent
    MaxRuns,    \* bound: check runs of the commit
    MaxFaults   \* bound: failed requests and lost agents

ASSUME ChecksAssumption ==
    /\ IsFiniteSet(Scans) /\ Delegated \subseteq Scans
    /\ MaxRuns \in Nat
    /\ MaxFaults \in Nat

VARIABLES
    stage,    \* how far the workflow of each scan has come
    verdict,  \* the feedback published for each scan
    at,       \* where each message is
    target,   \* the check run each handler found, 0 for none
    runs,     \* the check runs of the commit, oldest first
    spoilt,   \* history: a race or a fault has spoilt the decoration
    faults    \* history: number of faults so far

vars == <<stage, verdict, at, target, runs, spoilt, faults>>

Stages == {"idle", "delegated", "started", "reported", "aborted"}

Verdicts == {"none", "success", "failure"}

\* The prescan notice, the scan notice, the feedback, the prescan failure.
Kinds == {"pending", "update", "feedback", "abort"}

Messages == Kinds \X Scans

\* "error" is a feedback handler on its way to exec_pr_unrecoverable_error.
Places == {"absent", "queued", "found", "error", "errorFound"}

\* "scan" is the workflow the run speaks of: its external_id or, while it is
\* queued and after a prescan failure, the workflow whose handler wrote it.
Run == [status: {"queued", "in_progress", "completed"},
        conclusion: Verdicts,
        scan: Scans]

Init ==
    /\ stage = [s \in Scans |-> "idle"]
    /\ verdict = [s \in Scans |-> "none"]
    /\ at = [m \in Messages |-> "absent"]
    /\ target = [m \in Messages |-> 0]
    /\ runs = <<>>
    /\ spoilt = FALSE
    /\ faults = 0

-----------------------------------------------------------------------------
(* The workflow of a scan publishes.                                       *)

\* start_delegated_pr_scan_workflow publishes the prescan notice.
Delegate(s) ==
    /\ stage[s] = "idle"
    /\ s \in Delegated
    /\ stage' = [stage EXCEPT ![s] = "delegated"]
    /\ at' = [at EXCEPT ![<<"pending", s>>] = "queued"]
    /\ UNCHANGED <<verdict, target, runs, spoilt, faults>>

\* start_pr_scan_workflow publishes the await message, then the scan notice.
\* For a delegated scan it runs when the resolver's result is handled.
StartScan(s) ==
    /\ stage[s] = IF s \in Delegated THEN "delegated" ELSE "idle"
    /\ stage' = [stage EXCEPT ![s] = "started"]
    /\ at' = [at EXCEPT ![<<"update", s>>] = "queued"]
    /\ UNCHANGED <<verdict, target, runs, spoilt, faults>>

\* The resolver's result is a failure without a scan.
AbortPrescan(s) ==
    /\ stage[s] = "delegated"
    /\ stage' = [stage EXCEPT ![s] = "aborted"]
    /\ at' = [at EXCEPT ![<<"abort", s>>] = "queued"]
    /\ UNCHANGED <<verdict, target, runs, spoilt, faults>>

\* The poller found the scan finished: handle_completed_scan publishes to the
\* feedback queue, handle_awaited_scan_error to the failure queue.
PublishFeedback(s) ==
    /\ stage[s] = "started"
    /\ stage' = [stage EXCEPT ![s] = "reported"]
    /\ \E v \in {"success", "failure"} : verdict' = [verdict EXCEPT ![s] = v]
    /\ at' = [at EXCEPT ![<<"feedback", s>>] = "queued"]
    /\ UNCHANGED <<target, runs, spoilt, faults>>

-----------------------------------------------------------------------------
(* GitHub, as GHServiceChecks uses it.                                     *)

\* What __find_running_check may return: the runs with the status, of which it
\* takes the last in an order GitHub does not promise; 0 if there is none.
FindRunningCheck(status) ==
    LET found == {i \in DOMAIN runs : runs[i].status = status}
    IN  IF found = {} THEN {0} ELSE found

CreateRun(status, s) ==
    /\ Len(runs) < MaxRuns
    /\ runs' = Append(runs, [status |-> status, conclusion |-> "none", scan |-> s])

\* Mutant: the status is left out of the payload.
UpdateRunKeepsStatus(i, status, conclusion, s) ==
    runs' = [runs EXCEPT ![i].conclusion = conclusion, ![i].scan = s]

UpdateRun(i, status, conclusion, s) ==
    runs' = [runs EXCEPT ![i] =
                [status |-> status, conclusion |-> conclusion, scan |-> s]]

Blame(race) == spoilt' = (spoilt \/ race)

\* The status of the run that was found has changed since.
Overtaken(i, status) == runs[i].status # status

Fault ==
    /\ faults < MaxFaults
    /\ faults' = faults + 1

-----------------------------------------------------------------------------
(* Handlers: process_prescan_pr_annotate, process_pr_annotate,             *)
(* process_pr_feedback, process_pr_feedback_error, ResolverResultsAgent.   *)

\* The message has had its effect and is acknowledged, or the agent dies before
\* the acknowledgement and the broker delivers it again.
Handled(m, race) ==
    \/ /\ at' = [at EXCEPT ![m] = "absent"]
       /\ Blame(race)
       /\ UNCHANGED faults
    \/ /\ Fault
       /\ at' = [at EXCEPT ![m] = "queued"]
       /\ Blame(TRUE)

\* What comes after the prescan notice of s has looked for its run already.
FollowedUp(s) ==
    \/ stage[s] \in {"started", "reported"} /\ at[<<"update", s>>] # "queued"
    \/ stage[s] = "aborted" /\ at[<<"abort", s>>] # "queued"

\* exec_pr_scan_pending_decorate creates a queued run and looks up nothing.
Pending(s) ==
    LET m == <<"pending", s>> IN
    /\ at[m] = "queued"
    /\ CreateRun("queued", s)
    /\ Handled(m, FollowedUp(s))
    /\ UNCHANGED <<stage, verdict, target>>

\* The status a handler looks for.
Seeks(kind) == IF kind \in {"update", "abort"} THEN "queued" ELSE "in_progress"

\* The first request of the other handlers: find a run by its status.  A
\* lookup that GitHub does not authorize is logged and finds nothing.
Find(m) ==
    /\ m[1] # "pending"
    /\ at[m] \in {"queued", "error"}
    /\ at' = [at EXCEPT ![m] = IF @ = "queued" THEN "found" ELSE "errorFound"]
    /\ \/ /\ \E i \in FindRunningCheck(Seeks(m[1])) :
                target' = [target EXCEPT ![m] = i]
          /\ UNCHANGED <<spoilt, faults>>
       \/ /\ Fault
          /\ target' = [target EXCEPT ![m] = 0]
          /\ Blame(TRUE)
    /\ UNCHANGED <<stage, verdict, runs>>

\* Mutant: the queued run is not taken over.
UpdateCreates(s) ==
    LET m == <<"update", s>> IN
    /\ at[m] = "found"
    /\ target' = [target EXCEPT ![m] = 0]
    /\ CreateRun("in_progress", s)
    /\ Handled(m, FALSE)
    /\ UNCHANGED <<stage, verdict>>

\* exec_pr_scan_update_decorate: the queued run that was found becomes the run
\* of this scan; without one a new run is created.
Update(s) ==
    LET m == <<"update", s>> IN
    /\ at[m] = "found"
    /\ target' = [target EXCEPT ![m] = 0]
    /\ \/ /\ target[m] = 0
          /\ CreateRun("in_progress", s)
          /\ Handled(m, FALSE)
       \/ /\ target[m] # 0
          /\ UpdateRun(target[m], "in_progress", "none", s)
          /\ Handled(m, Overtaken(target[m], "queued"))
    /\ UNCHANGED <<stage, verdict>>

\* Mutant: both queues decorate with success.
ConclusionAlwaysSuccess(m) == IF m[1] = "abort" THEN "failure" ELSE "success"

\* What a handler that completes a run writes on it.
Conclusion(m) ==
    IF m[1] = "abort" \/ at[m] = "errorFound" THEN "failure" ELSE verdict[m[2]]

\* exec_pr_scan_success_decorate, exec_pr_scan_failure_decorate,
\* exec_pr_unrecoverable_error and exec_pr_prescan_failure complete the run
\* that was found; without one they log a warning and change nothing.
Complete(m) ==
    /\ m[1] \in {"feedback", "abort"}
    /\ at[m] \in {"found", "errorFound"}
    /\ target' = [target EXCEPT ![m] = 0]
    /\ \/ /\ target[m] = 0
          /\ Handled(m, TRUE)
          /\ UNCHANGED runs
       \/ /\ target[m] # 0
          /\ UpdateRun(target[m], "completed", Conclusion(m), m[2])
          /\ Handled(m, Overtaken(target[m], Seeks(m[1])))
    /\ UNCHANGED <<stage, verdict>>

\* The report cannot be retrieved or a request to GitHub fails.  Feedback goes
\* on to exec_pr_unrecoverable_error; anything else, and an error while the
\* error is shown, rejects the message, whose queue has no dead-letter exchange.
\* A request to GitHub that is not authorized is logged, and the message is
\* acknowledged as if it had had its effect.
HandlerFails(m) ==
    /\ at[m] \in {"queued", "found", "error", "errorFound"}
    /\ Fault
    /\ \/ /\ m[1] = "feedback"
          /\ at[m] \in {"queued", "found"}
          /\ at' = [at EXCEPT ![m] = "error"]
       \/ at' = [at EXCEPT ![m] = "absent"]
    /\ target' = [target EXCEPT ![m] = 0]
    /\ Blame(TRUE)
    /\ UNCHANGED <<stage, verdict, runs>>

\* An agent dies in the middle of a handler: the message is delivered again.
AgentLost(m) ==
    /\ at[m] \in {"found", "error", "errorFound"}
    /\ Fault
    /\ at' = [at EXCEPT ![m] = "queued"]
    /\ target' = [target EXCEPT ![m] = 0]
    /\ Blame(TRUE)
    /\ UNCHANGED <<stage, verdict, runs>>

-----------------------------------------------------------------------------
Handle(m) ==
    \/ m[1] = "pending" /\ Pending(m[2])
    \/ Find(m)
    \/ m[1] = "update" /\ Update(m[2])
    \/ Complete(m)

Next ==
    \/ \E s \in Scans :
          \/ Delegate(s)
          \/ StartScan(s)
          \/ AbortPrescan(s)
          \/ PublishFeedback(s)
    \/ \E m \in Messages :
          \/ Handle(m)
          \/ HandlerFails(m)
          \/ AgentLost(m)

Spec == Init /\ [][Next]_vars

\* Consumers are given the messages of their queues and run to their end.
FairSpec == Spec /\ \A m \in Messages : WF_vars(Handle(m))

-----------------------------------------------------------------------------
(* Properties.                                                             *)

TypeOK ==
    /\ stage \in [Scans -> Stages]
    /\ verdict \in [Scans -> Verdicts]
    /\ at \in [Messages -> Places]
    /\ target \in [Messages -> 0..MaxRuns]
    /\ runs \in Seq(Run) /\ Len(runs) <= MaxRuns
    /\ spoilt \in BOOLEAN
    /\ faults \in 0..MaxFaults

Quiet == \A m \in Messages : at[m] = "absent"

\* A green check is never wrong: whatever order the queues are served in,
\* whichever run a lookup returns and whoever overtakes whom, a check run that
\* says success names a scan that was reported as a success.
GreenIsTrue ==
    \A i \in DOMAIN runs :
        runs[i].conclusion = "success" => verdict[runs[i].scan] = "success"

\* What it takes to leave a pull request with a check run that never completes
\* or a scan that shows nowhere: a notice overtaken by what comes after it, a
\* lookup that finds no run, two handlers that found the same run, or a fault.
\* Without these every workflow that is over has its own completed run.
ChecksConclude ==
    Quiet /\ ~spoilt /\ (\A s \in Scans : stage[s] \in {"idle", "reported", "aborted"}) =>
        /\ \A i \in DOMAIN runs : runs[i].status = "completed"
        /\ \A s \in Scans : stage[s] # "idle" =>
              \E i \in DOMAIN runs : runs[i].scan = s

\* A workflow that is over gets its completed run in the end, unless one of
\* those troubles befalls the commit.
FeedbackShows ==
    \A s \in Scans :
        stage[s] \in {"reported", "aborted"} ~>
            \/ spoilt
            \/ \E i \in DOMAIN runs : runs[i].status = "completed" /\ runs[i].scan = s
=============================================================================
