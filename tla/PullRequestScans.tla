--------------------------- MODULE PullRequestScans ---------------------------
(***************************************************************************)
(* From the events of pull requests to scans and scan tags.  The SCM sends *)
(* webhook events in the order of what happens to a pull request; wsgi.py  *)
(* runs one background task per event, in any worker process, so the tasks *)
(* interleave and overtake each other.  A task dispatches its event        *)
(* through the __workflow_map of the SCM's orchestrator, looks up the      *)
(* scans of the commit, and scans or updates tags.                         *)
(*                                                                         *)
(* An event is known by its number.  The tags pr-target, pr-state and      *)
(* pr-status that a scan carries are those of one event, so the number of  *)
(* that event stands for them.  Commits are numbered too, and two pull     *)
(* requests may have the same head commit.                                 *)
(*                                                                         *)
(* Scans are looked up by the name that the naming module gives the        *)
(* project; they go to the project that load_project_config picks, which   *)
(* may have the default name still.                                        *)
(***************************************************************************)
EXTENDS Integers, Sequences, FiniteSets, FiniteSetsExt

CONSTANTS
    PRs,         \* pull requests of the repository
    Busy,        \* bound: those to which something happens after they are opened
    Setups,      \* the repository's SCM, whether its project has the tag of a
                 \* resolver agent, and how its project is named
    MaxCommits,  \* bound: commits of a pull request
    MaxEvents,   \* bound: webhook events
    MaxFaults    \* bound: tasks, agents and requests that fail

ASSUME PullRequestAssumption ==
    /\ Busy \subseteq PRs
    /\ Setups \subseteq [scm: {"gh", "adoe", "gl", "bbc", "bbdc"},
                         delegates: BOOLEAN,
                         naming: {"none", "dynamic", "legacy"}]
    /\ MaxCommits \in Nat \ {0}
    /\ MaxEvents \in Nat
    /\ MaxFaults \in Nat

VARIABLES
    setup,      \* the one of Setups that the repository has
    pr,         \* the pull requests, as the SCM knows them
    events,     \* the webhook events so far
    task,       \* how far the task of each event has come
    target,     \* the project of the task's delegated scan
    todo,       \* scans whose tags the task still has to update
    scans,      \* the scans in Checkmarx One
    followed,   \* scans whose feedback workflow was started
    updated,    \* history: events whose task got to update tags
    raced,      \* history: commits looked up while another task was scanning
    contested,  \* history: commits with an event before the last was done with
    missed,     \* history: commits with a scan that could not be updated
    overlooked, \* history: commits with a scan in another project than the one
                \* that was asked for
    lost,       \* history: events abandoned after a logged error
    faults      \* history: number of faults so far

history == <<updated, raced, contested, missed, overlooked, lost, faults>>

vars == <<setup, pr, events, task, target, todo, scans, followed, history>>

scm == setup.scm

delegates == setup.delegates

Kinds == {"open", "push", "ready", "draft", "retarget", "review", "close",
          "reopen", "rescan", "cancel"}

States == {"open", "closed", "merged"}

PullRequest == [commit: 0..MaxCommits, state: States, draft: BOOLEAN,
                protected: BOOLEAN]

Names == {"default", "dynamic"}

\* "scan" is the scan a cancel event names, 0 in the other events.
Event == [kind: Kinds, pr: PRs, commit: 1..MaxCommits, state: States,
          draft: BOOLEAN, protected: BOOLEAN, scan: Nat]

\* "project" is the name of the project that the scan belongs to.
Scan == [pr: PRs, commit: 1..MaxCommits, project: Names, by: 1..MaxEvents,
         tags: 1..MaxEvents, status: {"running", "ended", "canceled"}]

Stages == {"none", "lookup", "scan", "delegated", "created", "update",
           "updating", "cancel", "done"}

EventIds == 1..MaxEvents

Keys == PRs \X (1..MaxCommits)

Key(e) == <<events[e].pr, events[e].commit>>

KeyOf(x) == <<scans[x].pr, scans[x].commit>>

Init ==
    /\ setup \in Setups
    /\ pr = [p \in PRs |-> [commit |-> 0, state |-> "closed", draft |-> FALSE,
                            protected |-> FALSE]]
    /\ events = <<>>
    /\ task = [e \in EventIds |-> "none"]
    /\ target = [e \in EventIds |-> "default"]
    /\ todo = [e \in EventIds |-> {}]
    /\ scans = <<>>
    /\ followed = {}
    /\ updated = {}
    /\ raced = {}
    /\ contested = {}
    /\ missed = {}
    /\ overlooked = {}
    /\ lost = {}
    /\ faults = 0

Fault ==
    /\ faults < MaxFaults
    /\ faults' = faults + 1

-----------------------------------------------------------------------------
(* The dispatch tables.                                                    *)

\* The workflow of an event: "scan" without asking, "lookup" first, only
\* "update" the tags, "cancel" a scan, or "none" for an event that is logged
\* as unhandled.
GithubWorkflow(kind) ==
    CASE kind \in {"open", "push", "ready", "reopen", "rescan"} -> "scan"
      [] kind \in {"review", "close", "draft"} -> "update"
      [] kind = "cancel" -> "cancel"
      [] OTHER -> "none"

BitBucketDataCenterWorkflow(kind) ==
    CASE kind \in {"open", "push", "ready", "draft", "retarget"} -> "scan"
      [] kind \in {"review", "close"} -> "update"
      [] OTHER -> "none"

BitBucketCloudWorkflow(kind) ==
    CASE kind \in {"open", "push", "ready", "draft", "retarget"} -> "lookup"
      [] kind \in {"review", "close"} -> "update"
      [] OTHER -> "none"

\* One handler for everything that happens to a pull request.
AzureDevOpsWorkflow(kind) == "lookup"

GitlabWorkflow(kind) == "lookup"

Workflow(kind) ==
    CASE scm = "gh" -> GithubWorkflow(kind)
      [] scm = "adoe" -> AzureDevOpsWorkflow(kind)
      [] scm = "gl" -> GitlabWorkflow(kind)
      [] scm = "bbc" -> BitBucketCloudWorkflow(kind)
      [] scm = "bbdc" -> BitBucketDataCenterWorkflow(kind)

\* Every handler skips drafts, except Github's tag update and cancellation.
SkipsDraft(workflow) == ~(scm = "gh" /\ workflow \in {"update", "cancel"})

\* Only Gitlab looks at the state of a merge request that has no scan, and
\* "merged" is not among its __pr_closed_states.
Scanned(state) == ~(scm = "gl" /\ state = "closed")

\* execute of the orchestrator, which reads nothing but the event: where the
\* task of an event begins.
Dispatch(kind, isDraft) ==
    IF Workflow(kind) = "none" \/ (isDraft /\ SkipsDraft(Workflow(kind)))
    THEN "done"
    ELSE Workflow(kind)

-----------------------------------------------------------------------------
(* The SCM.                                                                *)

Unfinished(k) ==
    {e \in DOMAIN events : task[e] # "done" /\ Key(e) = k}

\* What happens to pull request p is reported as an event about commit c.
Emit(kind, p, c, x, isDraft) ==
    LET e == Len(events) + 1 IN
    /\ e <= MaxEvents
    /\ events' = Append(events,
          [kind |-> kind, pr |-> p, commit |-> c, state |-> pr'[p].state,
           draft |-> isDraft, protected |-> pr'[p].protected, scan |-> x])
    /\ task' = [task EXCEPT ![e] = Dispatch(kind, isDraft)]
    /\ contested' = contested \cup {k \in {<<p, c>>} : Unfinished(k) # {}}
    /\ UNCHANGED <<setup, target, todo, scans, followed, updated, raced, missed,
                   overlooked, lost, faults>>

Report(kind, p) == Emit(kind, p, pr'[p].commit, 0, pr'[p].draft)

OpenPR(p) ==
    /\ pr[p].commit = 0
    /\ \E d, b \in BOOLEAN :
          pr' = [pr EXCEPT ![p] =
                    [commit |-> 1, state |-> "open", draft |-> d, protected |-> b]]
    /\ Report("open", p)

Push(p) ==
    /\ pr[p].state = "open" /\ pr[p].commit < MaxCommits
    /\ pr' = [pr EXCEPT ![p].commit = @ + 1]
    /\ Report("push", p)

SetDraft(p) ==
    /\ pr[p].state = "open"
    /\ pr' = [pr EXCEPT ![p].draft = ~@]
    /\ Report(IF pr[p].draft THEN "ready" ELSE "draft", p)

Retarget(p) ==
    /\ pr[p].state = "open"
    /\ pr' = [pr EXCEPT ![p].protected = ~@]
    /\ Report("retarget", p)

Review(p) ==
    /\ pr[p].state = "open"
    /\ UNCHANGED pr
    /\ Report("review", p)

Close(p) ==
    /\ pr[p].state = "open"
    /\ \E s \in {"closed", "merged"} : pr' = [pr EXCEPT ![p].state = s]
    /\ Report("close", p)

Reopen(p) ==
    /\ scm # "bbc"
    /\ pr[p].commit > 0 /\ pr[p].state = "closed"
    /\ pr' = [pr EXCEPT ![p].state = "open"]
    /\ Report("reopen", p)

\* The buttons of a Github check run, which exists for a monitored scan.
\* The payload of a check run knows nothing of drafts.
CheckAction(x) ==
    /\ scm = "gh"
    /\ x \in followed
    /\ UNCHANGED pr
    /\ \/ Emit("rescan", scans[x].pr, scans[x].commit, 0, FALSE)
       \/ Emit("cancel", scans[x].pr, scans[x].commit, x, FALSE)

\* A scan that is not canceled ends as Completed, Failed or Partial.
FinishScan(x) ==
    /\ scans[x].status = "running"
    /\ scans' = [scans EXCEPT ![x].status = "ended"]
    /\ UNCHANGED <<setup, pr, events, task, target, todo, followed, history>>

-----------------------------------------------------------------------------
(* The project's name.                                                     *)

\* What get_project_name returns: the default name if there is no naming module
\* ("none"), or if it raises.
AsksFor(name) ==
    \/ /\ name = IF setup.naming = "none" THEN "default" ELSE "dynamic"
       /\ UNCHANGED faults
    \/ setup.naming # "none" /\ name = "default" /\ Fault

\* The project that load_project_config picks, given that name.  "dynamic": the
\* repository's project has the dynamic name.  "legacy": it was created under
\* the default name, and update-name is off.
ProjectOf(name) == IF setup.naming = "dynamic" THEN name ELSE "default"

-----------------------------------------------------------------------------
(* The tasks.                                                              *)

orchestrated == <<setup, pr, events>>

Advance(e, stage) == task' = [task EXCEPT ![e] = stage]

ScansOf(k) == {x \in DOMAIN scans : KeyOf(x) = k}

\* Mutant: only the scans whose tags could be updated are looked for.
FindEndedPrScans(k, name) ==
    {x \in ScansOf(k) : scans[x].project = name /\ scans[x].status = "ended"}

\* Mutant: the PR identifier is not qualified.
FindCommitScans(k, name) ==
    {x \in DOMAIN scans : scans[x].commit = k[2] /\ scans[x].project = name}

\* The scans of the commit in any status in the project of that name, qualified
\* by the PR identifier.
FindPrScans(k, name) == {x \in ScansOf(k) : scans[x].project = name}

\* Those that are not seen because of the name.
Elsewhere(k, name) == {x \in ScansOf(k) : scans[x].project # name}

\* The tasks that have decided to scan and have not done so.
Scanning(k) == {e \in DOMAIN events : task[e] \in {"scan", "delegated"} /\ Key(e) = k}

\* find_pr_scans decides between a tag update and a scan.
Lookup(e, name) ==
    /\ task[e] = "lookup"
    /\ AsksFor(name)
    /\ \/ /\ FindPrScans(Key(e), name) # {}
          /\ Advance(e, "update")
          /\ UNCHANGED <<raced, overlooked>>
       \/ /\ FindPrScans(Key(e), name) = {}
          /\ Advance(e, IF Scanned(events[e].state) THEN "scan" ELSE "done")
          /\ raced' = raced \cup {k \in {Key(e)} : Scanning(k) # {}}
          /\ overlooked' = overlooked \cup {k \in {Key(e)} : Elsewhere(k, name) # {}}
    /\ UNCHANGED <<orchestrated, target, todo, scans, followed, updated, contested,
                   missed, lost>>

CreateScan(e, project) ==
    scans' = Append(scans,
        [pr |-> events[e].pr, commit |-> events[e].commit, project |-> project,
         by |-> e, tags |-> e, status |-> "running"])

\* The target is in _get_protected_branches.
Protected(e) == events[e].protected

\* __orchestrate_scan: nothing to do for a target that is not protected.
SkipScan(e) ==
    /\ task[e] = "scan" /\ ~Protected(e)
    /\ Advance(e, "done")
    /\ UNCHANGED <<orchestrated, target, todo, scans, followed, history>>

\* The project is loaded, and the scan is delegated ...
DelegateScan(e, name) ==
    /\ task[e] = "scan" /\ Protected(e) /\ delegates
    /\ AsksFor(name)
    /\ Advance(e, "delegated")
    /\ target' = [target EXCEPT ![e] = ProjectOf(name)]
    /\ UNCHANGED <<orchestrated, todo, scans, followed, updated, raced, contested,
                   missed, overlooked, lost>>

\* ... or created from a clone, also if the broker does not take the request to
\* a resolver agent.
CloneAndScan(e, name) ==
    /\ task[e] = "scan" /\ Protected(e)
    /\ AsksFor(name)
    /\ Advance(e, "created")
    /\ CreateScan(e, ProjectOf(name))
    /\ UNCHANGED <<orchestrated, target, todo, followed, updated, raced, contested,
                   missed, overlooked, lost>>

\* The resolver agent creates the scan of a delegated request.
AgentScan(e) ==
    /\ task[e] = "delegated"
    /\ Advance(e, "created")
    /\ CreateScan(e, target[e])
    /\ UNCHANGED <<orchestrated, target, todo, followed, history>>

\* start_pr_scan_workflow
StartWorkflow(e) ==
    /\ task[e] = "created"
    /\ Advance(e, "done")
    /\ followed' = followed \cup {x \in DOMAIN scans : scans[x].by = e}
    /\ UNCHANGED <<orchestrated, target, todo, scans, history>>

\* Mutant: the PR identifier is not qualified before the update.
UpdatableCommitScans(k, name) ==
    {x \in DOMAIN scans : /\ scans[x].commit = k[2] /\ scans[x].project = name
                          /\ scans[x].status = "ended"}

\* UPDATABLE_SCANS_STATUSES in the project of that name, qualified by the PR
\* identifier.
UpdatableScans(k, name) ==
    {x \in ScansOf(k) : scans[x].project = name /\ scans[x].status = "ended"}

\* A scan of the commit is about to be created, or has not ended.
Unsettled(k) == Scanning(k) # {} \/ \E x \in ScansOf(k) : scans[x].status # "ended"

\* update_scan_pr_tags lists the scans, then updates one after the other.
ListScans(e, name) ==
    /\ task[e] = "update"
    /\ AsksFor(name)
    /\ Advance(e, IF UpdatableScans(Key(e), name) = {} THEN "done" ELSE "updating")
    /\ todo' = [todo EXCEPT ![e] = UpdatableScans(Key(e), name)]
    /\ updated' = updated \cup {e}
    /\ missed' = missed \cup {k \in {Key(e)} : Unsettled(k)}
    /\ overlooked' = overlooked \cup {k \in {Key(e)} : Elsewhere(k, name) # {}}
    /\ UNCHANGED <<orchestrated, target, scans, followed, raced, contested, lost>>

\* A response that is not ok is logged and the next scan follows.
UpdateTags(e, x) ==
    /\ task[e] = "updating"
    /\ x \in todo[e]
    /\ todo' = [todo EXCEPT ![e] = @ \ {x}]
    /\ Advance(e, IF todo[e] = {x} THEN "done" ELSE "updating")
    /\ \/ /\ scans' = [scans EXCEPT ![x].tags = e]
          /\ UNCHANGED <<missed, faults>>
       \/ /\ Fault
          /\ missed' = missed \cup {Key(e)}
          /\ UNCHANGED scans
    /\ UNCHANGED <<orchestrated, target, followed, updated, raced, contested,
                   overlooked, lost>>

\* cancel_scan: Checkmarx One refuses for a scan that is not running.
CancelScan(e) ==
    /\ task[e] = "cancel"
    /\ Advance(e, "done")
    /\ scans' = [scans EXCEPT ![events[e].scan].status =
                    IF @ = "running" THEN "canceled" ELSE @]
    /\ UNCHANGED <<orchestrated, target, todo, followed, history>>

\* A request raises, hangs for ever, a worker or an agent dies, or the payload is
\* refused: the event is abandoned.  A scan that was being created may exist.
TaskFails(e) ==
    /\ task[e] \notin {"none", "done"}
    /\ Fault
    /\ Advance(e, "done")
    /\ todo' = [todo EXCEPT ![e] = {}]
    /\ \/ UNCHANGED scans
       \/ task[e] = "scan" /\ Protected(e) /\ \E n \in Names : CreateScan(e, ProjectOf(n))
       \/ task[e] = "delegated" /\ CreateScan(e, target[e])
    /\ lost' = lost \cup {e}
    /\ missed' = missed \cup {Key(e)}
    /\ UNCHANGED <<orchestrated, target, followed, updated, raced, contested,
                   overlooked>>

-----------------------------------------------------------------------------
TaskStep(e) ==
    \/ \E n \in Names : Lookup(e, n) \/ ListScans(e, n)
    \/ \E n \in Names : DelegateScan(e, n) \/ CloneAndScan(e, n)
    \/ SkipScan(e)
    \/ AgentScan(e)
    \/ StartWorkflow(e)
    \/ \E x \in todo[e] : UpdateTags(e, x)
    \/ CancelScan(e)

Next ==
    \/ \E p \in PRs : OpenPR(p)
    \/ \E p \in Busy :
          \/ Push(p)
          \/ SetDraft(p)
          \/ Retarget(p)
          \/ Review(p)
          \/ Close(p)
          \/ Reopen(p)
    \/ \E x \in DOMAIN scans : CheckAction(x) \/ FinishScan(x)
    \/ \E e \in DOMAIN events : TaskStep(e) \/ TaskFails(e)

Spec == Init /\ [][Next]_vars

\* The event loops run every task to its end, and the resolver agent every
\* request; nothing makes the SCM send an event or a scan end.
FairSpec == Spec /\ \A e \in EventIds : WF_vars(e \in DOMAIN events /\ TaskStep(e))

-----------------------------------------------------------------------------
(* Properties.                                                             *)

TypeOK ==
    /\ setup \in Setups
    /\ pr \in [PRs -> PullRequest]
    /\ events \in Seq(Event)
    /\ task \in [EventIds -> Stages]
    /\ target \in [EventIds -> Names]
    /\ todo \in [EventIds -> SUBSET DOMAIN scans]
    /\ scans \in Seq(Scan)
    /\ followed \in SUBSET DOMAIN scans
    /\ updated \in SUBSET EventIds
    /\ raced \in SUBSET Keys
    /\ contested \in SUBSET Keys
    /\ missed \in SUBSET Keys
    /\ overlooked \in SUBSET Keys
    /\ lost \in SUBSET EventIds
    /\ faults \in 0..MaxFaults

\* An orchestrator that looks up before it scans (Azure DevOps, Gitlab,
\* BitBucket Cloud) does not scan a commit of a pull request twice, however
\* many events report it and whatever became of the first scan.  There are two
\* ways to a duplicate: a lookup between another task's decision to scan and
\* the creation of that scan, a window that lasts until the agent is done when
\* the scan is delegated; and a lookup by another name than that of the project
\* that was scanned, which is every lookup when the project has kept its default
\* name against the naming module.
OneScanPerCommit ==
    scm \in {"adoe", "gl", "bbc"} =>
        \A x, y \in DOMAIN scans :
            x # y /\ KeyOf(x) = KeyOf(y) => KeyOf(x) \in raced \cup overlooked

\* What a scan is tagged with in the end: the last event about its commit that
\* got as far as an update, or the event it was created for.
LastWord(x) ==
    Max({scans[x].by} \cup
        {e \in updated : Key(e) = KeyOf(x) /\ e > scans[x].by})

\* The tags of a scan follow the pull request: when the events about a commit
\* came one at a time, and every scan of the commit had ended when its tags
\* were updated and was in the project that was asked for, each scan carries the
\* state of the last event, and no event about another pull request with the
\* same commit has touched it.
TagsFollow ==
    \A x \in DOMAIN scans :
        KeyOf(x) \notin contested \cup missed \cup overlooked
        /\ Unfinished(KeyOf(x)) = {} =>
            scans[x].tags = LastWord(x)

\* The event asks for a scan of its commit.
AsksForScan(e) ==
    /\ Workflow(events[e].kind) \in {"scan", "lookup"}
    /\ events[e].state = "open" /\ ~events[e].draft /\ events[e].protected

\* Every event that asks for a scan has its commit scanned for this pull request
\* and the scan monitored, whoever overtakes whom, unless a task was abandoned.
\* The lookup may leave the scan to another task, but never to one that will
\* not scan.
CommitsAreScanned ==
    \A e \in EventIds :
        e \in DOMAIN events /\ AsksForScan(e) ~>
            \/ lost # {}
            \/ e \in DOMAIN events /\ \E x \in followed : KeyOf(x) = Key(e)
=============================================================================
