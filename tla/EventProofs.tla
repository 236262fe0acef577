---------------------------- MODULE EventProofs ----------------------------
(***************************************************************************)
(* Proofs about what a worker does with the events it receives:            *)
(* TaskManager, which runs their coroutines, PullRequestScans, which is    *)
(* what the coroutines of the pull-request events do, and ProjectConfig,   *)
(* which loads the project before a scan; for any number of events, pull   *)
(* requests, commits, workers, groups and faults.  The specifications are  *)
(* independent and have no variable in common.                             *)
(*                                                                         *)
(* OneScanPerCommit: for a commit that was not raced there is one task     *)
(* that has decided to scan it, or one scan.  TagsFollow: of a commit      *)
(* whose events came one at a time only the last event is unfinished, and  *)
(* a scan that does not have the tags of the last event is on its list.    *)
(* The properties of ProjectConfig: a load is outdated, or its view of the *)
(* project is exact and what it is about to write has all that is there.   *)
(***************************************************************************)
EXTENDS TaskManager, PullRequestScans, ProjectConfig, SequenceTheorems, TLAPS

-----------------------------------------------------------------------------
(* TaskManager: the inductive invariant.                                   *)

\* The list has the future of t, or the thread that scheduled it still holds
\* the lock and is about to put it there.
Covered(t) ==
    \/ t \in monitored
    \/ t = serving /\ request \in {"scheduled", "added"}

\* No event that was scheduled is overlooked before its callback has run.
EventsCovered ==
    \A t \in Background :
        state[t] \in {"scheduled", "running", "hung"} \/ loop = t => Covered(t)

\* A kickoff request is waited for by the thread that serves it.
RequestsAwaited ==
    \A t \in Foreground :
        state[t] \in {"scheduled", "running", "hung"} =>
            serving = t /\ request = "result"

\* The loop calls back for futures that are done and have the callback.
CallbackPending ==
    loop # NoTask => loop \in callbacks /\ state[loop] = "done"

\* What the serving thread knows about the task it is serving.
ServingKnown ==
    /\ request = "enter" => serving \in Tasks /\ state[serving] = "new"
    /\ request \in {"scheduled", "added"} => serving \in Background
    /\ request = "scheduled" =>
          serving \notin callbacks /\ state[serving] # "new"

CallbacksStarted == \A t \in callbacks : state[t] # "new"

StoppedEmpty == request = "stopped" => monitored = {}

ManagerInv ==
    /\ ManagerTypeOK
    /\ EventsCovered
    /\ RequestsAwaited
    /\ CallbackPending
    /\ ServingKnown
    /\ CallbacksStarted
    /\ StoppedEmpty

-----------------------------------------------------------------------------
\* At first nothing was handed to the loop.
LEMMA ManagerInitially ==
    ASSUME ManagerInit
    PROVE  ManagerInv
BY TasksAssumption
   DEF ManagerInit, ManagerInv, ManagerTypeOK, Places, Tasks, EventsCovered, RequestsAwaited,
       CallbackPending, ServingKnown, CallbacksStarted, StoppedEmpty

\* The steps of in_background keep the future of an event in sight.
LEMMA BackgroundKeeps ==
    ASSUME ManagerInv, Schedule \/ AddDoneCallback \/ AppendFuture
    PROVE  ManagerInv'
<1> USE TasksAssumption
    DEF ManagerInv, ManagerTypeOK, Places, Tasks, EventsCovered, Covered, RequestsAwaited,
        CallbackPending, ServingKnown, CallbacksStarted, StoppedEmpty
<1>1. CASE Schedule
  BY <1>1 DEF Schedule
<1>2. CASE AddDoneCallback
  BY <1>2 DEF AddDoneCallback
<1>3. CASE AppendFuture
  BY <1>3 DEF AppendFuture, Appended
<1> QED BY <1>1, <1>2, <1>3

\* The steps of in_foreground and of wait_for_exit.
LEMMA ForegroundKeeps ==
    ASSUME ManagerInv,
           ScheduleForeground \/ Result \/ CheckMonitored \/ Sleep \/ WorkerExit
    PROVE  ManagerInv'
<1> USE TasksAssumption
    DEF ManagerInv, ManagerTypeOK, Places, Tasks, EventsCovered, Covered, RequestsAwaited,
        CallbackPending, ServingKnown, CallbacksStarted, StoppedEmpty
<1>1. CASE ScheduleForeground
  BY <1>1 DEF ScheduleForeground
<1>2. CASE Result
  BY <1>2 DEF Result
<1>3. CASE CheckMonitored
  BY <1>3 DEF CheckMonitored
<1>4. CASE Sleep
  BY <1>4 DEF Sleep
<1>5. CASE WorkerExit
  BY <1>5 DEF WorkerExit
<1> QED BY <1>1, <1>2, <1>3, <1>4, <1>5

\* The steps of the loop's thread, and the arrival of a request.
LEMMA LoopKeeps ==
    ASSUME ManagerInv,
           Callback \/ \E t \in Tasks : Receive(t) \/ Run(t) \/ Finish(t) \/ Hang(t)
    PROVE  ManagerInv'
<1> USE TasksAssumption
    DEF ManagerInv, ManagerTypeOK, Places, Tasks, EventsCovered, Covered, RequestsAwaited,
        CallbackPending, ServingKnown, CallbacksStarted, StoppedEmpty
<1>1. CASE Callback
  BY <1>1 DEF Callback, Removed
<1>2. ASSUME NEW t \in Tasks, Receive(t) PROVE ManagerInv'
  BY <1>2 DEF Receive
<1>3. ASSUME NEW t \in Tasks, Run(t) PROVE ManagerInv'
  BY <1>3 DEF Run
<1>4. ASSUME NEW t \in Tasks, Finish(t) PROVE ManagerInv'
  <2>1. ManagerTypeOK'
    BY <1>4 DEF Finish
  <2>2. EventsCovered'
    BY <1>4 DEF Finish
  <2>3. RequestsAwaited' /\ CallbackPending'
    BY <1>4 DEF Finish
  <2>4. ServingKnown' /\ CallbacksStarted' /\ StoppedEmpty'
    BY <1>4 DEF Finish
  <2> QED BY <2>1, <2>2, <2>3, <2>4
<1>5. ASSUME NEW t \in Tasks, Hang(t) PROVE ManagerInv'
  BY <1>5 DEF Hang
<1> QED BY <1>1, <1>2, <1>3, <1>4, <1>5

\* Every step keeps the invariant.
LEMMA ManagerStepKeeps ==
    ASSUME ManagerInv, [ManagerNext]_managerVars
    PROVE  ManagerInv'
<1>1. CASE ManagerNext
  BY <1>1, BackgroundKeeps, ForegroundKeeps, LoopKeeps
     DEF ManagerNext, RequestStep, LoopStep
<1>2. CASE UNCHANGED managerVars
  BY <1>2
     DEF managerVars, ManagerInv, ManagerTypeOK, EventsCovered, Covered, RequestsAwaited,
         CallbackPending, ServingKnown, CallbacksStarted, StoppedEmpty
<1> QED BY <1>1, <1>2

\* The invariant holds of every behaviour.
LEMMA ManagerInvHolds == ManagerSpec => []ManagerInv
<1>1. ManagerInit => ManagerInv
  BY ManagerInitially
<1>2. ManagerInv /\ [ManagerNext]_managerVars => ManagerInv'
  BY ManagerStepKeeps
<1> QED BY <1>1, <1>2, PTL DEF ManagerSpec

-----------------------------------------------------------------------------
(* TaskManager: the theorems.                                              *)

\* The variables of the task manager keep their types.
THEOREM ManagerTypeCorrect == ManagerSpec => []ManagerTypeOK
<1>1. ManagerInv => ManagerTypeOK
  BY DEF ManagerInv
<1> QED BY <1>1, ManagerInvHolds, PTL

\* A worker whose wait_for_exit has returned has finished every event that it
\* accepted with in_background and every request of in_foreground, and no
\* callback is outstanding, for any number of them.
THEOREM NothingIsAbandoned == ManagerSpec => []NothingAbandoned
<1>1. ManagerInv => NothingAbandoned
  <2> SUFFICES ASSUME ManagerInv, request = "stopped", NEW t \in Tasks
               PROVE  state[t] \in {"new", "done"} /\ loop # t
    BY DEF NothingAbandoned
  <2>1. CASE t \in Background
    BY <2>1 DEF ManagerInv, ManagerTypeOK, EventsCovered, Covered, StoppedEmpty, Tasks
  <2>2. CASE t \in Foreground
    BY <2>2, TasksAssumption
       DEF ManagerInv, ManagerTypeOK, RequestsAwaited, CallbackPending, Tasks
  <2> QED BY <2>1, <2>2 DEF Tasks
<1> QED BY <1>1, ManagerInvHolds, PTL

-----------------------------------------------------------------------------
(* PullRequestScans: the inductive invariant.                              *)

\* The orchestrators that look for scans before they scan.
Looks == scm \in {"adoe", "gl", "bbc"}

\* The commits of which nothing is known because of the time or the name of a
\* lookup, and those of which nothing is known because of an update.
Doubtful == raced \cup overlooked

Forgiven == missed \cup overlooked

\* Events are numbered within the bound, and an open pull request has a commit.
Numbered ==
    /\ Len(events) <= MaxEvents
    /\ \A p \in PRs : pr[p].state = "open" => pr[p].commit > 0

\* One task, or one scan.
AloneAt(k) ==
    /\ \A e, f \in Scanning(k) : e = f
    /\ Scanning(k) # {} => ScansOf(k) = {}
    /\ \A x, y \in ScansOf(k) : x = y

Alone == Looks => \A k \in Keys : k \notin Doubtful => AloneAt(k)

\* A scan is made for an event about its commit.  A task updates scans of its
\* own commit, and is known to do so.
Related ==
    /\ updated \subseteq DOMAIN events
    /\ \A x \in DOMAIN scans :
          scans[x].by \in DOMAIN events /\ Key(scans[x].by) = KeyOf(x)
    /\ \A e \in DOMAIN events :
          /\ task[e] = "updating" => e \in updated
          /\ \A x \in todo[e] : KeyOf(x) = Key(e)
    /\ \A e \in EventIds : todo[e] # {} => e \in DOMAIN events

\* Of a commit whose events came one at a time only the last is unfinished.
LastOpen ==
    \A k \in Keys : k \notin contested =>
        \A e \in Unfinished(k) : \A f \in DOMAIN events : Key(f) = k => f <= e

\* A scan has the tags of the last event, or will get them.
TaggedAt(x) ==
    \/ scans[x].tags = LastWord(x)
    \/ \E e \in Unfinished(KeyOf(x)) : task[e] = "updating" /\ x \in todo[e]

Tagged ==
    \A x \in DOMAIN scans : KeyOf(x) \notin contested \cup Forgiven => TaggedAt(x)

ScansInv == TypeOK /\ Numbered /\ Alone /\ Related /\ LastOpen /\ Tagged

-----------------------------------------------------------------------------
(* The effects of steps.                                                   *)

\* The event of number e, whose task begins at stage, is about ev's commit.
Emitted(ev, stage) ==
    /\ Len(events) + 1 <= MaxEvents
    /\ events' = Append(events, ev)
    /\ task' = [task EXCEPT ![Len(events) + 1] = stage]
    /\ contested' = contested \cup
          {k \in {<<ev.pr, ev.commit>>} : Unfinished(k) # {}}
    /\ UNCHANGED <<setup, target, todo, scans, followed, updated, raced, missed,
                   overlooked, lost, faults>>

\* Something is reported as an event.
Announces ==
    /\ pr' \in [PRs -> PullRequest]
    /\ \A p \in PRs : pr'[p].state = "open" => pr'[p].commit > 0
    /\ \E ev \in Event, stage \in {"scan", "lookup", "update", "cancel", "done"} :
          Emitted(ev, stage) /\ (Looks => stage # "scan")

\* The dispatch of an orchestrator that looks up first.
LEMMA DispatchStages ==
    ASSUME TypeOK, NEW kind \in Kinds, NEW d \in BOOLEAN
    PROVE  /\ Dispatch(kind, d) \in {"scan", "lookup", "update", "cancel", "done"}
           /\ Looks => Dispatch(kind, d) # "scan"
  <1>1. scm \in {"gh", "adoe", "gl", "bbc", "bbdc"}
    BY PullRequestAssumption DEF TypeOK, scm
  <1>2. CASE scm = "gh"
    <2>1. Workflow(kind) = GithubWorkflow(kind)
      BY <1>2 DEF Workflow
    <2>2. GithubWorkflow(kind) \in {"scan", "update", "cancel", "none"}
      BY DEF GithubWorkflow, Kinds
    <2> QED BY <1>2, <2>1, <2>2 DEF Dispatch, Looks
  <1>3. CASE scm = "bbdc"
    <2>1. Workflow(kind) = BitBucketDataCenterWorkflow(kind)
      BY <1>3 DEF Workflow
    <2>2. BitBucketDataCenterWorkflow(kind) \in {"scan", "update", "none"}
      BY DEF BitBucketDataCenterWorkflow, Kinds
    <2> QED BY <1>3, <2>1, <2>2 DEF Dispatch, Looks
  <1>4. CASE scm = "bbc"
    <2>1. Workflow(kind) = BitBucketCloudWorkflow(kind)
      BY <1>4 DEF Workflow
    <2>2. BitBucketCloudWorkflow(kind) \in {"lookup", "update", "none"}
      BY DEF BitBucketCloudWorkflow, Kinds
    <2> QED BY <1>4, <2>1, <2>2 DEF Dispatch
  <1>5. CASE scm \in {"adoe", "gl"}
    <2>1. Workflow(kind) = "lookup"
      BY <1>5 DEF Workflow, AzureDevOpsWorkflow, GitlabWorkflow
    <2> QED BY <1>5, <2>1 DEF Dispatch
  <1> QED BY <1>1, <1>2, <1>3, <1>4, <1>5

\* An event that is emitted is announced, at the stage dispatch gives it.
LEMMA EmitAnnounces ==
    ASSUME TypeOK, NEW kind \in Kinds, NEW p \in PRs, NEW c \in 1..MaxCommits,
           NEW x \in Nat, NEW d \in BOOLEAN,
           pr' \in [PRs -> PullRequest],
           \A q \in PRs : pr'[q].state = "open" => pr'[q].commit > 0,
           Emit(kind, p, c, x, d)
    PROVE  Announces
  <1> DEFINE ev == [kind |-> kind, pr |-> p, commit |-> c, state |-> pr'[p].state,
                    draft |-> d, protected |-> pr'[p].protected, scan |-> x]
  <1>1. pr'[p].state \in States /\ pr'[p].protected \in BOOLEAN
    BY DEF PullRequest
  <1>2. ev \in Event
    BY <1>1 DEF Event
  <1>3. ev.pr = p /\ ev.commit = c
    OBVIOUS
  <1>4. Emitted(ev, Dispatch(kind, d))
    BY <1>3 DEF Emit, Emitted
  <1> QED BY <1>2, <1>4, DispatchStages DEF Announces

\* A report about a pull request announces an event.
LEMMA ReportAnnounces ==
    ASSUME TypeOK, NEW kind \in Kinds, NEW p \in PRs,
           pr' \in [PRs -> PullRequest], pr'[p].commit > 0,
           \A q \in PRs : pr'[q].state = "open" => pr'[q].commit > 0,
           Report(kind, p)
    PROVE  Announces
  <1>1. pr'[p].commit \in 1..MaxCommits /\ pr'[p].draft \in BOOLEAN
    BY PullRequestAssumption DEF PullRequest
  <1> QED BY <1>1, EmitAnnounces DEF Report

\* A pull request changes, and this is reported.
LEMMA ChangeAnnounces ==
    ASSUME TypeOK, Numbered, NEW p \in PRs, NEW r \in PullRequest, r.commit > 0,
           pr' = [pr EXCEPT ![p] = r], NEW kind \in Kinds, Report(kind, p)
    PROVE  Announces
  <1>1. pr \in [PRs -> PullRequest] /\ \A q \in PRs : pr[q].state = "open" => pr[q].commit > 0
    BY DEF TypeOK, Numbered
  <1>2. pr' \in [PRs -> PullRequest] /\ pr'[p] = r
    BY <1>1
  <1>3. \A q \in PRs : pr'[q].state = "open" => pr'[q].commit > 0
    BY <1>1
  <1> QED BY <1>2, <1>3, ReportAnnounces

\* Everything that happens to a pull request.
LEMMA ScmAnnounces ==
    ASSUME TypeOK, Numbered, NEW p \in PRs,
           \/ OpenPR(p) \/ Push(p) \/ SetDraft(p) \/ Retarget(p) \/ Review(p)
           \/ Close(p) \/ Reopen(p)
    PROVE  Announces
  <1>1. /\ pr[p] \in PullRequest
        /\ pr[p].commit \in 0..MaxCommits
        /\ pr[p].state \in States /\ pr[p].draft \in BOOLEAN
        /\ pr[p].protected \in BOOLEAN
        /\ pr[p].state = "open" => pr[p].commit > 0
        /\ pr \in [PRs -> PullRequest]
    BY DEF TypeOK, Numbered, PullRequest
  <1>2. CASE OpenPR(p)
    <2>1. PICK d \in BOOLEAN, b \in BOOLEAN :
             pr' = [pr EXCEPT ![p] =
                    [commit |-> 1, state |-> "open", draft |-> d, protected |-> b]]
      BY <1>2 DEF OpenPR
    <2> DEFINE r == [commit |-> 1, state |-> "open", draft |-> d, protected |-> b]
    <2>2. r \in PullRequest /\ r.commit > 0 /\ pr' = [pr EXCEPT ![p] = r]
      BY <2>1, PullRequestAssumption DEF PullRequest, States
    <2> HIDE DEF r
    <2> QED BY <1>2, <2>2, ChangeAnnounces DEF OpenPR, Kinds
  <1>3. CASE Push(p)
    <2> DEFINE r == [pr[p] EXCEPT !.commit = pr[p].commit + 1]
    <2>1. r \in PullRequest /\ r.commit > 0
      BY <1>1, <1>3, PullRequestAssumption DEF PullRequest, Push
    <2>2. pr' = [pr EXCEPT ![p] = r]
      BY <1>3 DEF Push
    <2> HIDE DEF r
    <2> QED BY <1>3, <2>1, <2>2, ChangeAnnounces DEF Push, Kinds
  <1>4. CASE SetDraft(p)
    <2> DEFINE r == [pr[p] EXCEPT !.draft = ~pr[p].draft]
               kind == IF pr[p].draft THEN "ready" ELSE "draft"
    <2>1. r \in PullRequest /\ r.commit > 0
      BY <1>1, <1>4 DEF PullRequest, SetDraft
    <2>2. pr' = [pr EXCEPT ![p] = r]
      BY <1>4 DEF SetDraft
    <2>3. kind \in Kinds /\ Report(kind, p)
      BY <1>4 DEF SetDraft, Kinds
    <2> HIDE DEF r, kind
    <2> QED BY <2>1, <2>2, <2>3, ChangeAnnounces
  <1>5. CASE Retarget(p)
    <2> DEFINE r == [pr[p] EXCEPT !.protected = ~pr[p].protected]
    <2>1. r \in PullRequest /\ r.commit > 0
      BY <1>1, <1>5 DEF PullRequest, Retarget
    <2>2. pr' = [pr EXCEPT ![p] = r]
      BY <1>5 DEF Retarget
    <2> HIDE DEF r
    <2> QED BY <1>5, <2>1, <2>2, ChangeAnnounces DEF Retarget, Kinds
  <1>6. CASE Review(p)
    <2>1. pr' = [pr EXCEPT ![p] = pr[p]] /\ pr[p].commit > 0
      BY <1>1, <1>6 DEF Review
    <2> QED BY <1>1, <1>6, <2>1, ChangeAnnounces DEF Review, Kinds
  <1>7. CASE Close(p)
    <2>0. PICK s \in {"closed", "merged"} : pr' = [pr EXCEPT ![p].state = s]
      BY <1>7 DEF Close
    <2> DEFINE r == [pr[p] EXCEPT !.state = s]
    <2>1. r \in PullRequest /\ r.commit > 0
      BY <1>1, <1>7 DEF PullRequest, States, Close
    <2>2. pr' = [pr EXCEPT ![p] = r]
      BY <2>0
    <2> HIDE DEF r
    <2> QED BY <1>7, <2>1, <2>2, ChangeAnnounces DEF Close, Kinds
  <1>8. CASE Reopen(p)
    <2> DEFINE r == [pr[p] EXCEPT !.state = "open"]
    <2>1. r \in PullRequest /\ r.commit > 0
      BY <1>1, <1>8 DEF PullRequest, States, Reopen
    <2>2. pr' = [pr EXCEPT ![p] = r]
      BY <1>8 DEF Reopen
    <2> HIDE DEF r
    <2> QED BY <1>8, <2>1, <2>2, ChangeAnnounces DEF Reopen, Kinds
  <1> QED BY <1>2, <1>3, <1>4, <1>5, <1>6, <1>7, <1>8

\* The parts of a scan's record.
LEMMA ScanType ==
    ASSUME TypeOK, NEW x \in DOMAIN scans
    PROVE  /\ scans[x] \in Scan
           /\ scans[x].pr \in PRs /\ scans[x].commit \in 1..MaxCommits
           /\ scans[x].by \in 1..MaxEvents /\ scans[x].tags \in 1..MaxEvents
           /\ KeyOf(x) \in Keys
           /\ x \in Nat
  <1>1. scans[x] \in Scan
    BY DEF TypeOK
  <1>2. DOMAIN scans = 1..Len(scans) /\ Len(scans) \in Nat
    BY DEF TypeOK
  <1> QED BY <1>1, <1>2 DEF Scan, KeyOf, Keys

\* The parts of an event's record.
LEMMA EventType ==
    ASSUME TypeOK, Numbered, NEW e \in DOMAIN events
    PROVE  /\ events[e] \in Event
           /\ events[e].pr \in PRs /\ events[e].commit \in 1..MaxCommits
           /\ Key(e) \in Keys
           /\ e \in EventIds /\ e \in Nat
  <1>1. events[e] \in Event
    BY DEF TypeOK
  <1>2. DOMAIN events = 1..Len(events) /\ Len(events) \in Nat
    BY DEF TypeOK
  <1> QED BY <1>1, <1>2, PullRequestAssumption DEF Event, Key, Keys, Numbered, EventIds

\* The buttons of a check run.
LEMMA CheckAnnounces ==
    ASSUME TypeOK, Numbered, NEW x \in DOMAIN scans, CheckAction(x)
    PROVE  Announces
  <1>1. pr' \in [PRs -> PullRequest] /\ \A q \in PRs : pr'[q].state = "open" => pr'[q].commit > 0
    BY DEF CheckAction, TypeOK, Numbered
  <1>2. scans[x].pr \in PRs /\ scans[x].commit \in 1..MaxCommits /\ x \in Nat
    BY ScanType
  <1>3. "rescan" \in Kinds /\ "cancel" \in Kinds /\ 0 \in Nat
    BY DEF Kinds
  <1> QED BY <1>1, <1>2, <1>3, EmitAnnounces DEF CheckAction

-----------------------------------------------------------------------------
(* Types.                                                                  *)

\* A new event.
LEMMA AnnounceTypes ==
    ASSUME TypeOK, Numbered, Announces
    PROVE  TypeOK' /\ Numbered'
  <1>1. PICK ev \in Event, stage \in {"scan", "lookup", "update", "cancel", "done"} :
           Emitted(ev, stage)
    BY DEF Announces
  <1>2. events' \in Seq(Event) /\ Len(events') = Len(events) + 1
    BY <1>1, AppendProperties DEF TypeOK, Emitted
  <1>3. task' \in [EventIds -> Stages]
    BY <1>1 DEF Emitted, TypeOK, Stages
  <1>4. <<ev.pr, ev.commit>> \in Keys
    BY DEF Event, Keys
  <1>5. contested' \in SUBSET Keys
    BY <1>1, <1>4 DEF Emitted, TypeOK
  <1>6. /\ pr' \in [PRs -> PullRequest]
        /\ \A p \in PRs : pr'[p].state = "open" => pr'[p].commit > 0
    BY DEF Announces
  <1>7. Len(events') <= MaxEvents
    BY <1>1, <1>2 DEF Emitted
  <1>8. TypeOK'
    BY <1>1, <1>2, <1>3, <1>5, <1>6 DEF Emitted, TypeOK
  <1> QED BY <1>6, <1>7, <1>8 DEF Numbered

\* A fault is counted.
LEMMA FaultType ==
    ASSUME TypeOK, UNCHANGED faults \/ Fault
    PROVE  faults' \in 0..MaxFaults
  BY PullRequestAssumption DEF Fault, TypeOK

\* A scan is created for an event.
LEMMA CreateType ==
    ASSUME TypeOK, Numbered, NEW e \in DOMAIN events, NEW n \in Names, CreateScan(e, n)
    PROVE  /\ scans' \in Seq(Scan)
           /\ DOMAIN scans' = DOMAIN scans \cup {Len(scans) + 1}
           /\ Len(scans) + 1 \notin DOMAIN scans
           /\ \A x \in DOMAIN scans : scans'[x] = scans[x]
           /\ scans'[Len(scans) + 1].by = e
           /\ scans'[Len(scans) + 1].tags = e
           /\ scans'[Len(scans) + 1].pr = events[e].pr
           /\ scans'[Len(scans) + 1].commit = events[e].commit
  <1> DEFINE new == [pr |-> events[e].pr, commit |-> events[e].commit, project |-> n,
                     by |-> e, tags |-> e, status |-> "running"]
  <1>1. new \in Scan
    BY EventType DEF Scan, EventIds
  <1>2. scans \in Seq(Scan) /\ DOMAIN scans = 1..Len(scans) /\ Len(scans) \in Nat
    BY DEF TypeOK
  <1>3. scans' = Append(scans, new)
    BY DEF CreateScan
  <1>4. /\ scans' \in Seq(Scan) /\ Len(scans') = Len(scans) + 1
        /\ \A x \in 1..Len(scans) : scans'[x] = scans[x]
        /\ scans'[Len(scans) + 1] = new
    BY <1>1, <1>2, <1>3, AppendProperties
  <1>5. DOMAIN scans' = 1..(Len(scans) + 1)
    BY <1>4
  <1> QED BY <1>2, <1>4, <1>5

\* What the step of a task leaves as it is, and where it goes.
Goes(e, stage) ==
    /\ task[e] # "done"
    /\ UNCHANGED <<setup, pr, events, contested>>
    /\ task' = [task EXCEPT ![e] = stage]

\* No scan is created, and none changes its tags.
SameScans ==
    /\ DOMAIN scans' = DOMAIN scans
    /\ \A x \in DOMAIN scans :
          /\ scans'[x].pr = scans[x].pr /\ scans'[x].commit = scans[x].commit
          /\ scans'[x].by = scans[x].by /\ scans'[x].tags = scans[x].tags

\* The effects of the steps of a task on what the invariant speaks of.
Finds(e) ==
    /\ task[e] = "lookup"
    /\ \E stage \in {"update", "scan", "done"} :
          /\ Goes(e, stage)
          /\ stage = "scan" =>
                (ScansOf(Key(e)) # {} \/ Scanning(Key(e)) # {} => Key(e) \in Doubtful')
    /\ Doubtful \subseteq Doubtful'
    /\ Forgiven \subseteq Forgiven'
    /\ UNCHANGED <<todo, scans, updated>>

Passes(e) ==
    /\ \E stage \in {"done", "delegated"} :
          /\ Goes(e, stage)
          /\ stage = "delegated" => task[e] = "scan"
    /\ task[e] # "updating"
    /\ SameScans
    /\ UNCHANGED <<todo, updated, raced, missed, overlooked>>

Creates(e) ==
    /\ task[e] \in {"scan", "delegated"}
    /\ \E stage \in {"created", "done"} : Goes(e, stage)
    /\ \E n \in Names : CreateScan(e, n)
    /\ \A f \in EventIds : todo'[f] \subseteq todo[f]
    /\ \A f \in EventIds : f # e => todo'[f] = todo[f]
    /\ Forgiven \subseteq Forgiven'
    /\ UNCHANGED <<updated, raced, overlooked>>

Lists(e) ==
    /\ task[e] = "update"
    /\ \E stage \in {"done", "updating"}, S \in SUBSET ScansOf(Key(e)) :
          /\ Goes(e, stage)
          /\ S # {} => stage = "updating"
          /\ todo' = [todo EXCEPT ![e] = S]
          /\ S # ScansOf(Key(e)) => Key(e) \in Forgiven'
    /\ updated' = updated \cup {e}
    /\ Forgiven \subseteq Forgiven'
    /\ Doubtful \subseteq Doubtful'
    /\ UNCHANGED scans

Tags(e, x) ==
    /\ task[e] = "updating"
    /\ x \in todo[e]
    /\ todo' = [todo EXCEPT ![e] = todo[e] \ {x}]
    /\ Goes(e, IF todo[e] = {x} THEN "done" ELSE "updating")
    /\ \/ scans' = [scans EXCEPT ![x].tags = e] /\ UNCHANGED missed
       \/ UNCHANGED scans /\ missed' = missed \cup {Key(e)}
    /\ UNCHANGED <<updated, raced, overlooked>>

Fails(e) ==
    /\ task[e] # "none"
    /\ Goes(e, "done")
    /\ todo' = [todo EXCEPT ![e] = {}]
    /\ missed' = missed \cup {Key(e)}
    /\ UNCHANGED <<scans, updated, raced, overlooked>>

\* The types after a step of a task: the types of what the step may change.
LEMMA StepTypes ==
    ASSUME TypeOK, Numbered, NEW e \in DOMAIN events,
           NEW stage \in Stages, Goes(e, stage),
           scans' \in Seq(Scan), DOMAIN scans \subseteq DOMAIN scans',
           todo' \in [EventIds -> SUBSET DOMAIN scans'],
           followed' \in SUBSET DOMAIN scans',
           updated' \subseteq updated \cup {e},
           target' \in [EventIds -> Names],
           raced' \subseteq raced \cup {Key(e)},
           overlooked' \subseteq overlooked \cup {Key(e)},
           missed' \subseteq missed \cup {Key(e)},
           lost' \subseteq lost \cup {e},
           UNCHANGED faults \/ Fault
    PROVE  TypeOK' /\ Numbered'
  <1>1. e \in EventIds /\ Key(e) \in Keys
    BY EventType
  <1>2. faults' \in 0..MaxFaults
    BY FaultType
  <1>3. task' \in [EventIds -> Stages]
    BY DEF Goes, TypeOK
  <1>4. updated' \in SUBSET EventIds /\ lost' \in SUBSET EventIds
    BY <1>1 DEF TypeOK
  <1>5. raced' \in SUBSET Keys /\ missed' \in SUBSET Keys /\ overlooked' \in SUBSET Keys
    BY <1>1 DEF TypeOK
  <1>6. TypeOK'
    BY <1>2, <1>3, <1>4, <1>5 DEF TypeOK, Goes
  <1> QED BY <1>6 DEF Numbered, Goes

\* The name that is asked for.
LEMMA AskFault ==
    ASSUME NEW n, AsksFor(n)
    PROVE  UNCHANGED faults \/ Fault
  BY DEF AsksFor

\* What is not found under a name is elsewhere.
LEMMA ScansElsewhere ==
    ASSUME NEW k, NEW n
    PROVE  ScansOf(k) = FindPrScans(k, n) \cup Elsewhere(k, n)
  BY DEF FindPrScans, Elsewhere

\* The lookup.
LEMMA LookupFinds ==
    ASSUME TypeOK, Numbered, NEW e \in DOMAIN events, NEW n, Lookup(e, n)
    PROVE  TypeOK' /\ Numbered' /\ Finds(e)
  <1>1. /\ task[e] = "lookup"
        /\ UNCHANGED <<setup, pr, events, contested, target, todo, scans, followed,
                       updated, missed, lost>>
        /\ UNCHANGED faults \/ Fault
    BY AskFault DEF Lookup, orchestrated
  <1>2. PICK stage \in {"update", "scan", "done"} :
           /\ task' = [task EXCEPT ![e] = stage]
           /\ raced \subseteq raced' /\ raced' \subseteq raced \cup {Key(e)}
           /\ overlooked \subseteq overlooked'
           /\ overlooked' \subseteq overlooked \cup {Key(e)}
           /\ stage = "scan" =>
                /\ ScansOf(Key(e)) # {} => Key(e) \in overlooked'
                /\ Scanning(Key(e)) # {} => Key(e) \in raced'
    <2>1. CASE /\ FindPrScans(Key(e), n) # {} /\ Advance(e, "update")
               /\ UNCHANGED <<raced, overlooked>>
      BY <2>1 DEF Advance
    <2>2. CASE /\ FindPrScans(Key(e), n) = {}
               /\ Advance(e, IF Scanned(events[e].state) THEN "scan" ELSE "done")
               /\ raced' = raced \cup {k \in {Key(e)} : Scanning(k) # {}}
               /\ overlooked' = overlooked \cup {k \in {Key(e)} : Elsewhere(k, n) # {}}
      <3>1. (IF Scanned(events[e].state) THEN "scan" ELSE "done") \in {"scan", "done"}
        OBVIOUS
      <3>2. Scanning(Key(e)) # {} => Key(e) \in raced'
        BY <2>2
      <3>3. raced \subseteq raced' /\ raced' \subseteq raced \cup {Key(e)}
        BY <2>2
      <3>4. ScansOf(Key(e)) # {} => Key(e) \in overlooked'
        BY <2>2, ScansElsewhere
      <3>5. overlooked \subseteq overlooked' /\ overlooked' \subseteq overlooked \cup {Key(e)}
        BY <2>2
      <3> QED BY <2>2, <3>1, <3>2, <3>3, <3>4, <3>5 DEF Advance
    <2> QED BY <2>1, <2>2 DEF Lookup
  <1>3. Goes(e, stage) /\ stage \in Stages
    BY <1>1, <1>2 DEF Goes, Stages
  <1>4. TypeOK' /\ Numbered'
    BY <1>1, <1>2, <1>3, StepTypes DEF TypeOK
  <1>5. Doubtful \subseteq Doubtful' /\ Forgiven \subseteq Forgiven'
    BY <1>1, <1>2 DEF Doubtful, Forgiven
  <1> QED BY <1>1, <1>2, <1>3, <1>4, <1>5 DEF Finds, Doubtful

\* A scan is created: what the steps that do so have in common.
LEMMA ScanCreated ==
    ASSUME TypeOK, Numbered, NEW e \in DOMAIN events, NEW n \in Names,
           task[e] \in {"scan", "delegated"}, Goes(e, "created"), CreateScan(e, n),
           UNCHANGED <<target, todo, followed, updated, raced, missed, overlooked, lost>>,
           UNCHANGED faults \/ Fault
    PROVE  TypeOK' /\ Numbered' /\ Creates(e)
  <1>1. scans' \in Seq(Scan) /\ DOMAIN scans \subseteq DOMAIN scans'
    BY CreateType
  <1>2. /\ todo' \in [EventIds -> SUBSET DOMAIN scans']
        /\ followed' \in SUBSET DOMAIN scans'
        /\ target' \in [EventIds -> Names] /\ "created" \in Stages
    BY <1>1 DEF TypeOK, Stages
  <1>3. TypeOK' /\ Numbered'
    BY <1>1, <1>2, StepTypes
  <1> QED BY <1>3 DEF Creates, Forgiven

\* The project that is picked has a name.
LEMMA ProjectNames ==
    ASSUME NEW n \in Names
    PROVE  ProjectOf(n) \in Names
  BY DEF ProjectOf, Names

\* A target branch that is not protected.
LEMMA SkipPasses ==
    ASSUME TypeOK, Numbered, NEW e \in DOMAIN events, SkipScan(e)
    PROVE  TypeOK' /\ Numbered' /\ Passes(e)
  <1>1. /\ task[e] = "scan" /\ Advance(e, "done")
        /\ UNCHANGED <<setup, pr, events, contested, target, todo, scans, followed, raced,
                       updated, missed, overlooked, lost, faults>>
    BY DEF SkipScan, orchestrated, history
  <1>2. Goes(e, "done") /\ "done" \in Stages
    BY <1>1 DEF Goes, Advance, Stages
  <1>3. TypeOK' /\ Numbered'
    BY <1>1, <1>2, StepTypes DEF TypeOK
  <1> QED BY <1>1, <1>2, <1>3 DEF Passes, SameScans

\* The scan is delegated.
LEMMA DelegatePasses ==
    ASSUME TypeOK, Numbered, NEW e \in DOMAIN events, NEW n \in Names, DelegateScan(e, n)
    PROVE  TypeOK' /\ Numbered' /\ Passes(e)
  <1>1. /\ task[e] = "scan" /\ Advance(e, "delegated")
        /\ target' = [target EXCEPT ![e] = ProjectOf(n)]
        /\ UNCHANGED <<setup, pr, events, contested, todo, scans, followed, raced,
                       updated, missed, overlooked, lost>>
        /\ UNCHANGED faults \/ Fault
    BY AskFault DEF DelegateScan, orchestrated
  <1>2. Goes(e, "delegated") /\ "delegated" \in Stages
    BY <1>1 DEF Goes, Advance, Stages
  <1>3. target' \in [EventIds -> Names]
    BY <1>1, ProjectNames DEF TypeOK
  <1>4. TypeOK' /\ Numbered'
    BY <1>1, <1>2, <1>3, StepTypes DEF TypeOK
  <1> QED BY <1>1, <1>2, <1>4 DEF Passes, SameScans

\* The scan is created from a clone.
LEMMA CloneCreates ==
    ASSUME TypeOK, Numbered, NEW e \in DOMAIN events, NEW n \in Names, CloneAndScan(e, n)
    PROVE  TypeOK' /\ Numbered' /\ Creates(e)
  <1>1. /\ task[e] = "scan" /\ Advance(e, "created") /\ CreateScan(e, ProjectOf(n))
        /\ UNCHANGED <<setup, pr, events, contested>>
        /\ UNCHANGED <<target, todo, followed, updated, raced, missed, overlooked, lost>>
        /\ UNCHANGED faults \/ Fault
    BY AskFault DEF CloneAndScan, orchestrated
  <1>2. Goes(e, "created")
    BY <1>1 DEF Goes, Advance
  <1> QED BY <1>1, <1>2, ProjectNames, ScanCreated

\* The agent's scan.
LEMMA AgentCreates ==
    ASSUME TypeOK, Numbered, NEW e \in DOMAIN events, AgentScan(e)
    PROVE  TypeOK' /\ Numbered' /\ Creates(e)
  <1>1. /\ task[e] = "delegated" /\ Advance(e, "created") /\ CreateScan(e, target[e])
        /\ UNCHANGED <<setup, pr, events, contested>>
        /\ UNCHANGED <<target, todo, followed, updated, raced, missed, overlooked, lost>>
        /\ UNCHANGED faults
    BY DEF AgentScan, orchestrated, history
  <1>2. Goes(e, "created")
    BY <1>1 DEF Goes, Advance
  <1>3. target[e] \in Names
    BY EventType DEF TypeOK
  <1> QED BY <1>1, <1>2, <1>3, ScanCreated

\* start_pr_scan_workflow.
LEMMA StartPasses ==
    ASSUME TypeOK, Numbered, NEW e \in DOMAIN events, StartWorkflow(e)
    PROVE  TypeOK' /\ Numbered' /\ Passes(e)
  <1>1. /\ task[e] = "created" /\ Advance(e, "done")
        /\ followed' = followed \cup {x \in DOMAIN scans : scans[x].by = e}
        /\ UNCHANGED <<setup, pr, events, contested, target, todo, scans, raced,
                       updated, missed, overlooked, lost, faults>>
    BY DEF StartWorkflow, orchestrated, history
  <1>2. Goes(e, "done") /\ "done" \in Stages
    BY <1>1 DEF Goes, Advance, Stages
  <1>3. followed' \in SUBSET DOMAIN scans'
    BY <1>1 DEF TypeOK
  <1>4. TypeOK' /\ Numbered'
    BY <1>1, <1>2, <1>3, StepTypes DEF TypeOK
  <1> QED BY <1>1, <1>2, <1>4 DEF Passes, SameScans

\* Another status for one scan, if it is one.
LEMMA StatusChange ==
    ASSUME TypeOK, NEW x, NEW st \in {"running", "ended", "canceled"},
           scans' = [scans EXCEPT ![x].status = st]
    PROVE  scans' \in Seq(Scan) /\ SameScans
  <1>1. scans \in Seq(Scan) /\ DOMAIN scans = 1..Len(scans) /\ Len(scans) \in Nat
    BY DEF TypeOK
  <1>2. \A y \in 1..Len(scans) : scans[y] \in Scan
    BY <1>1
  <1>3. DOMAIN scans' = 1..Len(scans)
    BY <1>1
  <1>4. ASSUME NEW y \in 1..Len(scans)
        PROVE  scans'[y] = scans[y] \/ scans'[y] = [scans[y] EXCEPT !.status = st]
    BY <1>1
  <1>5. ASSUME NEW y \in 1..Len(scans)
        PROVE  /\ scans'[y] \in Scan
               /\ scans'[y].pr = scans[y].pr /\ scans'[y].commit = scans[y].commit
               /\ scans'[y].by = scans[y].by /\ scans'[y].tags = scans[y].tags
    BY <1>2, <1>4 DEF Scan
  <1>6. scans' = [y \in 1..Len(scans) |-> scans'[y]]
    BY <1>1
  <1>7. scans' \in Seq(Scan)
    <2>1. scans' \in [1..Len(scans) -> Scan]
      BY <1>5, <1>6, Zenon
    <2> QED BY <1>1, <2>1, SeqDef
  <1> QED BY <1>1, <1>3, <1>5, <1>7 DEF SameScans

\* cancel_scan.
LEMMA CancelPasses ==
    ASSUME TypeOK, Numbered, NEW e \in DOMAIN events, CancelScan(e)
    PROVE  TypeOK' /\ Numbered' /\ Passes(e)
  <1>1. /\ task[e] = "cancel" /\ Advance(e, "done")
        /\ UNCHANGED <<setup, pr, events, contested, target, todo, followed, raced,
                       updated, missed, overlooked, lost, faults>>
    BY DEF CancelScan, orchestrated, history
  <1>2. Goes(e, "done") /\ "done" \in Stages
    BY <1>1 DEF Goes, Advance, Stages
  <1> DEFINE x == events[e].scan
             st == IF scans[x].status = "running" THEN "canceled" ELSE scans[x].status
  <1>3. scans' = [scans EXCEPT ![x].status = st]
    BY DEF CancelScan
  <1>4. scans' \in Seq(Scan) /\ SameScans
    <2>1. CASE x \in DOMAIN scans
      <3>1. st \in {"running", "ended", "canceled"}
        BY <2>1, ScanType DEF Scan
      <3> HIDE DEF x, st
      <3> QED BY <1>3, <3>1, StatusChange
    <2>2. CASE x \notin DOMAIN scans
      <3>1. scans' = scans
        BY <1>3, <2>2 DEF TypeOK
      <3> QED BY <3>1 DEF SameScans, TypeOK
    <2> QED BY <2>1, <2>2
  <1>5. TypeOK' /\ Numbered'
    BY <1>1, <1>2, <1>4, StepTypes DEF TypeOK, SameScans
  <1> QED BY <1>1, <1>2, <1>4, <1>5 DEF Passes

\* The list of scans to update: a scan that is not on it has not ended or is in
\* another project.
LEMMA ListLists ==
    ASSUME TypeOK, Numbered, NEW e \in DOMAIN events, NEW n, ListScans(e, n)
    PROVE  TypeOK' /\ Numbered' /\ Lists(e)
  <1> DEFINE S == UpdatableScans(Key(e), n)
             stage == IF S = {} THEN "done" ELSE "updating"
  <1>1. /\ task[e] = "update" /\ task' = [task EXCEPT ![e] = stage]
        /\ todo' = [todo EXCEPT ![e] = S]
        /\ updated' = updated \cup {e}
        /\ missed' = missed \cup {k \in {Key(e)} : Unsettled(k)}
        /\ overlooked' = overlooked \cup {k \in {Key(e)} : Elsewhere(k, n) # {}}
        /\ UNCHANGED <<setup, pr, events, contested, target, scans, followed, raced, lost>>
        /\ UNCHANGED faults \/ Fault
    BY AskFault DEF ListScans, Advance, orchestrated
  <1>2. Goes(e, stage) /\ stage \in Stages /\ stage \in {"done", "updating"}
    BY <1>1 DEF Goes, Stages
  <1>3. S \subseteq ScansOf(Key(e)) /\ S \subseteq DOMAIN scans
    BY DEF UpdatableScans, ScansOf
  <1>4. S # ScansOf(Key(e)) => Unsettled(Key(e)) \/ Elsewhere(Key(e), n) # {}
    BY DEF UpdatableScans, Unsettled, Elsewhere
  <1>5. S # {} => stage = "updating"
    OBVIOUS
  <1> HIDE DEF S, stage
  <1>6. todo' \in [EventIds -> SUBSET DOMAIN scans']
    BY <1>1, <1>3 DEF TypeOK
  <1>7. missed \subseteq missed' /\ missed' \subseteq missed \cup {Key(e)}
    BY <1>1
  <1>8. overlooked \subseteq overlooked' /\ overlooked' \subseteq overlooked \cup {Key(e)}
    BY <1>1
  <1>9. S # ScansOf(Key(e)) => Key(e) \in Forgiven'
    BY <1>1, <1>4 DEF Forgiven
  <1>10. Forgiven \subseteq Forgiven' /\ Doubtful \subseteq Doubtful'
    BY <1>1, <1>7, <1>8 DEF Forgiven, Doubtful
  <1>11. TypeOK' /\ Numbered'
    BY <1>1, <1>2, <1>6, <1>7, <1>8, StepTypes DEF TypeOK
  <1> QED BY <1>1, <1>2, <1>3, <1>5, <1>9, <1>10, <1>11 DEF Lists

\* The update of one scan's tags.
LEMMA TagsChange ==
    ASSUME TypeOK, NEW x \in DOMAIN scans, NEW e \in EventIds,
           scans' = [scans EXCEPT ![x].tags = e]
    PROVE  /\ scans' \in Seq(Scan)
           /\ DOMAIN scans' = DOMAIN scans
           /\ scans'[x].tags = e
           /\ \A y \in DOMAIN scans :
                 /\ scans'[y].pr = scans[y].pr /\ scans'[y].commit = scans[y].commit
                 /\ scans'[y].by = scans[y].by
                 /\ y # x => scans'[y].tags = scans[y].tags
  <1>1. scans \in Seq(Scan) /\ DOMAIN scans = 1..Len(scans) /\ Len(scans) \in Nat
    BY DEF TypeOK
  <1>2. \A y \in 1..Len(scans) : scans[y] \in Scan
    BY <1>1
  <1>3. DOMAIN scans' = 1..Len(scans)
    BY <1>1
  <1>4. /\ scans'[x] = [scans[x] EXCEPT !.tags = e]
        /\ \A y \in 1..Len(scans) : y # x => scans'[y] = scans[y]
    BY <1>1
  <1>5. ASSUME NEW y \in 1..Len(scans)
        PROVE  /\ scans'[y] \in Scan
               /\ scans'[y].pr = scans[y].pr /\ scans'[y].commit = scans[y].commit
               /\ scans'[y].by = scans[y].by
               /\ y # x => scans'[y].tags = scans[y].tags
    BY <1>2, <1>4 DEF Scan, EventIds
  <1>6. scans' = [y \in 1..Len(scans) |-> scans'[y]]
    BY <1>1
  <1>7. scans' \in Seq(Scan)
    <2>1. scans' \in [1..Len(scans) -> Scan]
      BY <1>5, <1>6, Zenon
    <2> QED BY <1>1, <2>1, SeqDef
  <1>8. scans'[x].tags = e
    BY <1>1, <1>2, <1>4 DEF Scan
  <1> QED BY <1>1, <1>3, <1>5, <1>7, <1>8

\* A task gives a scan of its list its own tags, or misses the commit's scan.
LEMMA UpdateTagsTags ==
    ASSUME TypeOK, Numbered, NEW e \in DOMAIN events, NEW x \in todo[e],
           UpdateTags(e, x)
    PROVE  TypeOK' /\ Numbered' /\ Tags(e, x)
  <1> DEFINE stage == IF todo[e] = {x} THEN "done" ELSE "updating"
  <1>1. /\ task[e] = "updating" /\ task' = [task EXCEPT ![e] = stage]
        /\ todo' = [todo EXCEPT ![e] = todo[e] \ {x}]
        /\ \/ scans' = [scans EXCEPT ![x].tags = e] /\ UNCHANGED <<missed, faults>>
           \/ UNCHANGED scans /\ missed' = missed \cup {Key(e)} /\ Fault
        /\ UNCHANGED <<setup, pr, events, contested, target, followed, raced,
                       updated, overlooked, lost>>
    BY DEF UpdateTags, Advance, orchestrated
  <1>2. Goes(e, stage) /\ stage \in Stages
    BY <1>1 DEF Goes, Stages
  <1>3. e \in EventIds /\ x \in DOMAIN scans
    BY EventType DEF TypeOK
  <1>4. scans' \in Seq(Scan) /\ DOMAIN scans' = DOMAIN scans
    BY <1>1, <1>3, TagsChange DEF TypeOK
  <1>5. todo' \in [EventIds -> SUBSET DOMAIN scans']
    BY <1>1, <1>3, <1>4 DEF TypeOK
  <1>6. missed' \subseteq missed \cup {Key(e)} /\ (UNCHANGED faults \/ Fault)
    BY <1>1
  <1>7. followed' \in SUBSET DOMAIN scans' /\ target' \in [EventIds -> Names]
    BY <1>1, <1>4 DEF TypeOK
  <1>8. TypeOK' /\ Numbered'
    <2> HIDE DEF stage
    <2> QED BY <1>1, <1>2, <1>4, <1>5, <1>6, <1>7, StepTypes
  <1> QED BY <1>1, <1>2, <1>8 DEF Tags

\* A task is abandoned.
LEMMA FailsEffect ==
    ASSUME TypeOK, Numbered, NEW e \in DOMAIN events, TaskFails(e)
    PROVE  TypeOK' /\ Numbered' /\ (Fails(e) \/ Creates(e))
  <1>1. /\ task[e] # "none" /\ task[e] # "done" /\ task' = [task EXCEPT ![e] = "done"]
        /\ todo' = [todo EXCEPT ![e] = {}]
        /\ missed' = missed \cup {Key(e)} /\ lost' = lost \cup {e}
        /\ UNCHANGED <<setup, pr, events, contested, target, followed, raced,
                       updated, overlooked>>
        /\ Fault
    BY DEF TaskFails, Advance, orchestrated
  <1>2. Goes(e, "done") /\ "done" \in Stages
    BY <1>1 DEF Goes, Stages
  <1>3. \/ UNCHANGED scans
        \/ task[e] \in {"scan", "delegated"} /\ \E n \in Names : CreateScan(e, n)
    BY ProjectNames, EventType DEF TaskFails, TypeOK
  <1>4. scans' \in Seq(Scan) /\ DOMAIN scans \subseteq DOMAIN scans'
    BY <1>3, CreateType DEF TypeOK
  <1>5. /\ todo' \in [EventIds -> SUBSET DOMAIN scans']
        /\ followed' \in SUBSET DOMAIN scans'
        /\ target' \in [EventIds -> Names]
    BY <1>1, <1>4 DEF TypeOK
  <1>6. TypeOK' /\ Numbered'
    BY <1>1, <1>2, <1>4, <1>5, StepTypes
  <1>7. e \in EventIds
    BY EventType
  <1>8. \A f \in EventIds : todo'[f] \subseteq todo[f] /\ (f # e => todo'[f] = todo[f])
    BY <1>1, <1>7 DEF TypeOK
  <1> QED BY <1>1, <1>2, <1>3, <1>6, <1>8 DEF Fails, Creates, Forgiven

\* A scan ends.
LEMMA FinishEffect ==
    ASSUME TypeOK, Numbered, NEW x \in DOMAIN scans, FinishScan(x)
    PROVE  /\ TypeOK' /\ Numbered' /\ SameScans
           /\ UNCHANGED <<setup, pr, events, task, todo, history>>
  <1>1. scans' \in Seq(Scan) /\ SameScans
    BY StatusChange DEF FinishScan
  <1>2. UNCHANGED <<setup, pr, events, task, target, todo, followed, history>>
    BY DEF FinishScan
  <1>3. TypeOK'
    BY <1>1, <1>2 DEF TypeOK, SameScans, history
  <1> QED BY <1>1, <1>2, <1>3 DEF Numbered

-----------------------------------------------------------------------------
(* One scan for a commit.                                                  *)

\* The other tasks stay where they are.
LEMMA GoesElsewhere ==
    ASSUME TypeOK, Numbered, NEW e \in DOMAIN events, NEW stage, Goes(e, stage)
    PROVE  /\ DOMAIN events' = DOMAIN events
           /\ \A f \in DOMAIN events : Key(f)' = Key(f)
           /\ \A f \in DOMAIN events : f # e => task'[f] = task[f]
           /\ task'[e] = stage
  <1>1. e \in EventIds /\ \A f \in DOMAIN events : f \in EventIds
    BY EventType
  <1> QED BY <1>1 DEF Goes, TypeOK, Key

\* The lookups see the same scans as before.
LEMMA SameFound ==
    ASSUME SameScans
    PROVE  /\ \A x \in DOMAIN scans : KeyOf(x)' = KeyOf(x)
           /\ \A k : ScansOf(k)' = ScansOf(k)
  <1>1. \A x \in DOMAIN scans : KeyOf(x)' = KeyOf(x)
    BY DEF SameScans, KeyOf
  <1> QED BY <1>1 DEF SameScans, ScansOf

\* A scan is created for the commit of e.
LEMMA FoundAfterCreate ==
    ASSUME TypeOK, Numbered, NEW e \in DOMAIN events, NEW p \in Names, CreateScan(e, p),
           UNCHANGED events, NEW n, n = Len(scans) + 1
    PROVE  /\ n \in DOMAIN scans' /\ n \notin DOMAIN scans
           /\ KeyOf(n)' = Key(e)
           /\ \A x \in DOMAIN scans : KeyOf(x)' = KeyOf(x)
           /\ DOMAIN scans' = DOMAIN scans \cup {n}
           /\ \A k : k # Key(e) => ScansOf(k)' = ScansOf(k)
           /\ \A k : k = Key(e) => ScansOf(k)' \subseteq ScansOf(k) \cup {n}
  <1>1. /\ DOMAIN scans' = DOMAIN scans \cup {n} /\ n \notin DOMAIN scans
        /\ \A x \in DOMAIN scans : scans'[x] = scans[x]
        /\ scans'[n].pr = events[e].pr /\ scans'[n].commit = events[e].commit
    BY CreateType
  <1>2. KeyOf(n)' = Key(e) /\ \A x \in DOMAIN scans : KeyOf(x)' = KeyOf(x)
    BY <1>1 DEF KeyOf, Key
  <1>3. \A k : k # Key(e) => ScansOf(k)' = ScansOf(k)
    BY <1>1, <1>2 DEF ScansOf
  <1>4. \A k : k = Key(e) => ScansOf(k)' \subseteq ScansOf(k) \cup {n}
    BY <1>1, <1>2 DEF ScansOf
  <1> QED BY <1>1, <1>2, <1>3, <1>4

\* Nobody starts to scan, and no scan appears.
LEMMA AloneStays ==
    ASSUME Alone, UNCHANGED setup, Doubtful \subseteq Doubtful',
           \A k \in Keys : /\ Scanning(k)' \subseteq Scanning(k)
                           /\ ScansOf(k)' = ScansOf(k)
    PROVE  Alone'
  <1> SUFFICES ASSUME Looks, NEW k \in Keys, k \notin Doubtful'
               PROVE  AloneAt(k)'
    BY DEF Alone, Looks, scm
  <1>1. AloneAt(k)
    BY DEF Alone
  <1> QED BY <1>1 DEF AloneAt

\* A new event is about no other event.
LEMMA EmittedEvents ==
    ASSUME TypeOK, Numbered, NEW ev \in Event, NEW stage, Emitted(ev, stage),
           NEW n, n = Len(events) + 1
    PROVE  /\ n \in EventIds /\ n \notin DOMAIN events /\ n \in Nat
           /\ DOMAIN events' = DOMAIN events \cup {n}
           /\ \A f \in DOMAIN events :
                 Key(f)' = Key(f) /\ task'[f] = task[f] /\ f < n /\ f \in Nat
           /\ Key(n)' = <<ev.pr, ev.commit>> /\ Key(n)' \in Keys
           /\ task'[n] = stage
  <1>1. DOMAIN events = 1..Len(events) /\ Len(events) \in Nat /\ events \in Seq(Event)
    BY DEF TypeOK
  <1>2. /\ Len(events') = n /\ events' \in Seq(Event)
        /\ \A f \in 1..Len(events) : events'[f] = events[f]
        /\ events'[n] = ev
    BY <1>1, AppendProperties DEF Emitted
  <1>3. DOMAIN events' = 1..n
    BY <1>2
  <1>4. n \in EventIds /\ DOMAIN events \subseteq EventIds
    BY <1>1, PullRequestAssumption DEF Emitted, EventIds
  <1>5. \A f \in DOMAIN events : f # n /\ f < n
    BY <1>1
  <1>6. \A f \in DOMAIN events : Key(f)' = Key(f) /\ task'[f] = task[f]
    BY <1>1, <1>2, <1>4, <1>5 DEF Emitted, TypeOK, Key
  <1>7. task'[n] = stage
    BY <1>4 DEF Emitted, TypeOK
  <1>8. Key(n)' = <<ev.pr, ev.commit>> /\ Key(n)' \in Keys
    BY <1>2 DEF Key, Keys, Event
  <1> QED BY <1>1, <1>3, <1>4, <1>5, <1>6, <1>7, <1>8

\* An orchestrator that looks up first does not scan at once.
LEMMA AnnounceAlone ==
    ASSUME TypeOK, Numbered, Announces, Alone
    PROVE  Alone'
  <1>1. PICK ev \in Event, stage \in {"scan", "lookup", "update", "cancel", "done"} :
           Emitted(ev, stage) /\ (Looks => stage # "scan")
    BY DEF Announces
  <1>2. UNCHANGED <<setup, scans, raced, overlooked>>
    BY <1>1 DEF Emitted
  <1> SUFFICES ASSUME Looks
               PROVE  Alone'
    BY <1>2 DEF Alone, Looks, scm
  <1>3. PICK n :
           /\ DOMAIN events' = DOMAIN events \cup {n}
           /\ \A f \in DOMAIN events : Key(f)' = Key(f) /\ task'[f] = task[f]
           /\ task'[n] = stage
    BY <1>1, EmittedEvents
  <1>4. \A k \in Keys : Scanning(k)' \subseteq Scanning(k)
    BY <1>1, <1>3 DEF Scanning
  <1>5. \A k \in Keys : ScansOf(k)' = ScansOf(k)
    BY <1>2 DEF ScansOf, KeyOf
  <1> QED BY <1>2, <1>4, <1>5, AloneStays DEF Doubtful

\* A task that finds no scan is alone for its commit, or the commit is raced.
LEMMA FindsAlone ==
    ASSUME TypeOK, Numbered, NEW e \in DOMAIN events, Finds(e), Alone
    PROVE  Alone'
  <1>1. PICK stage \in {"update", "scan", "done"} :
          /\ Goes(e, stage)
          /\ stage = "scan" =>
                (ScansOf(Key(e)) # {} \/ Scanning(Key(e)) # {} => Key(e) \in Doubtful')
    BY DEF Finds
  <1>2. UNCHANGED <<setup, scans>> /\ Doubtful \subseteq Doubtful'
    BY <1>1 DEF Finds, Goes
  <1>3. \A k \in Keys : ScansOf(k)' = ScansOf(k)
    BY <1>2 DEF ScansOf, KeyOf
  <1>4. \A k \in Keys : Scanning(k)' \subseteq Scanning(k) \cup {e}
    BY <1>1, GoesElsewhere DEF Scanning
  <1>5. \A k \in Keys : k # Key(e) \/ stage # "scan" => Scanning(k)' \subseteq Scanning(k)
    BY <1>1, GoesElsewhere DEF Scanning
  <1> SUFFICES ASSUME Looks, NEW k \in Keys, k \notin Doubtful'
               PROVE  AloneAt(k)'
    BY <1>2 DEF Alone, Looks, scm
  <1>6. AloneAt(k)
    BY <1>2 DEF Alone
  <1>7. CASE k # Key(e) \/ stage # "scan"
    BY <1>3, <1>5, <1>6, <1>7 DEF AloneAt
  <1>8. CASE k = Key(e) /\ stage = "scan"
    <2>1. ScansOf(k) = {} /\ Scanning(k) = {}
      BY <1>1, <1>8
    <2> QED BY <1>3, <1>4, <2>1 DEF AloneAt
  <1> QED BY <1>7, <1>8

\* A task that moves on leaves one task or one scan for every commit.
LEMMA PassesAlone ==
    ASSUME TypeOK, Numbered, NEW e \in DOMAIN events, Passes(e), Alone
    PROVE  Alone'
  <1>1. PICK stage \in {"done", "delegated"} :
          Goes(e, stage) /\ (stage = "delegated" => task[e] = "scan")
    BY DEF Passes
  <1>2. \A k \in Keys : Scanning(k)' \subseteq Scanning(k)
    BY <1>1, GoesElsewhere DEF Scanning
  <1> QED BY <1>1, <1>2, SameFound, AloneStays DEF Passes, Goes, Doubtful

\* The task that was alone for its commit creates its one scan.
LEMMA CreatesAlone ==
    ASSUME TypeOK, Numbered, NEW e \in DOMAIN events, Creates(e), Alone
    PROVE  Alone'
  <1>1. PICK stage \in {"created", "done"} : Goes(e, stage)
    BY DEF Creates
  <1>2. /\ UNCHANGED <<setup, events>> /\ Doubtful' = Doubtful
        /\ task[e] \in {"scan", "delegated"}
        /\ \E p \in Names : CreateScan(e, p)
    BY <1>1 DEF Creates, Goes, Doubtful
  <1>3. \A k \in Keys : Scanning(k)' \subseteq Scanning(k) \ {e}
    BY <1>1, GoesElsewhere DEF Scanning
  <1>4. PICK n :
           /\ \A k : k # Key(e) => ScansOf(k)' = ScansOf(k)
           /\ \A k : k = Key(e) => ScansOf(k)' \subseteq ScansOf(k) \cup {n}
    BY <1>2, FoundAfterCreate
  <1> SUFFICES ASSUME Looks, NEW k \in Keys, k \notin Doubtful'
               PROVE  AloneAt(k)'
    BY <1>2 DEF Alone, Looks, scm
  <1>5. AloneAt(k)
    BY <1>2 DEF Alone
  <1>6. CASE k # Key(e)
    BY <1>3, <1>4, <1>5, <1>6 DEF AloneAt
  <1>7. CASE k = Key(e)
    <2>1. e \in Scanning(k)
      BY <1>2, <1>7 DEF Scanning
    <2>2. ScansOf(k) = {} /\ Scanning(k)' = {}
      BY <1>3, <1>5, <2>1 DEF AloneAt
    <2> QED BY <1>4, <1>7, <2>2 DEF AloneAt
  <1> QED BY <1>6, <1>7

\* The steps that do not scan.
LEMMA OthersAlone ==
    ASSUME TypeOK, Numbered, NEW e \in DOMAIN events, Alone,
           Lists(e) \/ (\E x \in todo[e] : Tags(e, x)) \/ Fails(e)
    PROVE  Alone'
  <1>1. PICK stage \in {"done", "updating"} : Goes(e, stage)
    BY DEF Lists, Tags, Fails
  <1>2. \A k \in Keys : Scanning(k)' \subseteq Scanning(k)
    BY <1>1, GoesElsewhere DEF Scanning
  <1>3. UNCHANGED setup /\ Doubtful \subseteq Doubtful'
    BY <1>1 DEF Lists, Tags, Fails, Goes, Doubtful
  <1>4. \A k : ScansOf(k)' = ScansOf(k)
    <2>1. CASE UNCHANGED scans
      BY <2>1 DEF ScansOf, KeyOf
    <2>2. ASSUME NEW x \in todo[e], scans' = [scans EXCEPT ![x].tags = e]
          PROVE  \A k : ScansOf(k)' = ScansOf(k)
      <3>1. e \in EventIds /\ x \in DOMAIN scans
        BY EventType DEF TypeOK
      <3>2. /\ DOMAIN scans' = DOMAIN scans
            /\ \A y \in DOMAIN scans : KeyOf(y)' = KeyOf(y)
        BY <2>2, <3>1, TagsChange DEF KeyOf
      <3> QED BY <3>2 DEF ScansOf
    <2> QED BY <2>1, <2>2 DEF Lists, Tags, Fails
  <1> QED BY <1>2, <1>3, <1>4, AloneStays

-----------------------------------------------------------------------------
(* The tags of scans.                                                      *)

\* A new event has no scans to update.
LEMMA AnnounceRelated ==
    ASSUME TypeOK, Numbered, Announces, Related
    PROVE  Related'
  <1>1. PICK ev \in Event, stage \in {"scan", "lookup", "update", "cancel", "done"} :
           Emitted(ev, stage)
    BY DEF Announces
  <1>2. PICK n :
           /\ n \in EventIds /\ n \notin DOMAIN events
           /\ DOMAIN events' = DOMAIN events \cup {n}
           /\ \A f \in DOMAIN events : Key(f)' = Key(f) /\ task'[f] = task[f]
           /\ task'[n] = stage
    BY <1>1, EmittedEvents
  <1>3. UNCHANGED <<scans, todo, updated>>
    BY <1>1 DEF Emitted
  <1>4. \A x : KeyOf(x)' = KeyOf(x)
    BY <1>3 DEF KeyOf
  <1>5. todo[n] = {}
    BY <1>2 DEF Related
  <1>6. \A e \in DOMAIN events' :
            /\ task'[e] = "updating" => e \in updated'
            /\ \A x \in todo'[e] : KeyOf(x)' = Key(e)'
    BY <1>1, <1>2, <1>3, <1>4, <1>5 DEF Related
  <1>7. \A x \in DOMAIN scans' :
            scans'[x].by \in DOMAIN events' /\ Key(scans[x].by)' = KeyOf(x)'
    <2> SUFFICES ASSUME NEW x \in DOMAIN scans, NEW b, b = scans[x].by
                 PROVE  b \in DOMAIN events' /\ Key(b)' = KeyOf(x)'
      BY <1>3
    <2>1. b \in DOMAIN events /\ Key(b) = KeyOf(x)
      BY DEF Related
    <2> QED BY <1>2, <1>4, <2>1
  <1> QED BY <1>2, <1>3, <1>6, <1>7 DEF Related

\* Only the last event of a commit is unfinished, or the commit is contested.
LEMMA AnnounceLast ==
    ASSUME TypeOK, Numbered, Announces, LastOpen
    PROVE  LastOpen'
  <1>1. PICK ev \in Event, stage \in {"scan", "lookup", "update", "cancel", "done"} :
           Emitted(ev, stage)
    BY DEF Announces
  <1>2. PICK n :
           /\ n \notin DOMAIN events /\ n \in Nat
           /\ DOMAIN events' = DOMAIN events \cup {n}
           /\ \A f \in DOMAIN events :
                 Key(f)' = Key(f) /\ task'[f] = task[f] /\ f < n /\ f \in Nat
           /\ Key(n)' = <<ev.pr, ev.commit>>
    BY <1>1, EmittedEvents
  <1> SUFFICES ASSUME NEW k \in Keys, k \notin contested', NEW e \in Unfinished(k)',
                      NEW f \in DOMAIN events', Key(f)' = k
               PROVE  f <= e
    BY DEF LastOpen
  <1>3. k \notin contested /\ (k = <<ev.pr, ev.commit>> => Unfinished(k) = {})
    BY <1>1 DEF Emitted
  <1>4. e \in DOMAIN events' /\ task'[e] # "done" /\ Key(e)' = k
    BY DEF Unfinished
  <1>5. CASE k = <<ev.pr, ev.commit>>
    <2>1. e \notin DOMAIN events
      BY <1>2, <1>3, <1>4, <1>5 DEF Unfinished
    <2> QED BY <1>2, <1>4, <2>1
  <1>6. CASE k # <<ev.pr, ev.commit>>
    <2>1. e \in Unfinished(k) /\ f \in DOMAIN events /\ Key(f) = k
      BY <1>2, <1>4, <1>6 DEF Unfinished
    <2> QED BY <1>3, <2>1 DEF LastOpen
  <1> QED BY <1>5, <1>6

\* A task that goes on was unfinished.
LEMMA GoesLast ==
    ASSUME TypeOK, Numbered, NEW e \in DOMAIN events, NEW stage, Goes(e, stage),
           LastOpen
    PROVE  LastOpen'
  <1>1. /\ DOMAIN events' = DOMAIN events
        /\ \A f \in DOMAIN events : Key(f)' = Key(f)
        /\ \A f \in DOMAIN events : f # e => task'[f] = task[f]
    BY GoesElsewhere
  <1>2. task[e] # "done" /\ contested' = contested
    BY DEF Goes
  <1>3. \A k : Unfinished(k)' \subseteq Unfinished(k)
    BY <1>1, <1>2 DEF Unfinished
  <1> QED BY <1>1, <1>2, <1>3 DEF LastOpen

\* The greatest of a set of numbers.
LEMMA MaxIs ==
    ASSUME NEW S, NEW m \in S, S \subseteq Nat, \A y \in S : y <= m
    PROVE  Max(S) = m
  <1>1. \A y \in S : m >= y
    OBVIOUS
  <1>2. \A z \in S : (\A y \in S : z >= y) => z = m
    OBVIOUS
  <1> QED BY <1>1, <1>2 DEF Max

\* The last word on a scan stays the same if the commit is not updated.
LEMMA SameWord ==
    ASSUME NEW x, KeyOf(x)' = KeyOf(x), scans'[x].by = scans[x].by,
           \A f : f \in updated' /\ Key(f)' = KeyOf(x) <=> f \in updated /\ Key(f) = KeyOf(x)
    PROVE  LastWord(x)' = LastWord(x)
  <1>1. {f \in updated' : Key(f)' = KeyOf(x)' /\ f > scans'[x].by}
            = {f \in updated : Key(f) = KeyOf(x) /\ f > scans[x].by}
    OBVIOUS
  <1> QED BY <1>1 DEF LastWord

\* The tags of x are what they should be, or will be.
LEMMA TaggedStays ==
    ASSUME NEW x, TaggedAt(x), LastWord(x)' = LastWord(x), KeyOf(x)' = KeyOf(x),
           scans'[x].tags = scans[x].tags,
           \A f \in Unfinished(KeyOf(x)) : task[f] = "updating" /\ x \in todo[f] =>
              f \in Unfinished(KeyOf(x))' /\ task'[f] = "updating" /\ x \in todo'[f]
    PROVE  TaggedAt(x)'
  BY DEF TaggedAt

\* A new event finds no unfinished one, or its commit is contested.
LEMMA AnnounceTagged ==
    ASSUME TypeOK, Numbered, Announces, Related, Tagged
    PROVE  Tagged'
  <1>1. PICK ev \in Event, stage \in {"scan", "lookup", "update", "cancel", "done"} :
           Emitted(ev, stage)
    BY DEF Announces
  <1>2. PICK n :
           /\ DOMAIN events' = DOMAIN events \cup {n} /\ n \notin DOMAIN events
           /\ \A f \in DOMAIN events : Key(f)' = Key(f) /\ task'[f] = task[f]
    BY <1>1, EmittedEvents
  <1>3. UNCHANGED <<scans, todo, updated, Forgiven>> /\ contested \subseteq contested'
    BY <1>1 DEF Emitted, Forgiven
  <1>4. \A x : KeyOf(x)' = KeyOf(x)
    BY <1>3 DEF KeyOf
  <1> SUFFICES ASSUME NEW x \in DOMAIN scans, KeyOf(x) \notin contested' \cup Forgiven'
               PROVE  TaggedAt(x)'
    BY <1>3, <1>4 DEF Tagged
  <1>5. TaggedAt(x)
    BY <1>3 DEF Tagged
  <1>6. LastWord(x)' = LastWord(x)
    BY <1>2, <1>3, <1>4, SameWord DEF Related
  <1>7. \A f \in Unfinished(KeyOf(x)) : task'[f] = task[f] /\ KeyOf(x)' = KeyOf(x)
    BY <1>2, <1>4 DEF Unfinished
  <1>8. Unfinished(KeyOf(x)) \subseteq Unfinished(KeyOf(x))'
    BY <1>2, <1>4 DEF Unfinished
  <1> QED BY <1>3, <1>4, <1>5, <1>6, <1>7, <1>8, TaggedStays

\* No scan appears, and no task gets more to update.
LEMMA StepRelated ==
    ASSUME TypeOK, Numbered, NEW e \in DOMAIN events, NEW stage, Goes(e, stage),
           Related, stage = "updating" => e \in updated',
           updated \subseteq updated', updated' \subseteq updated \cup {e},
           DOMAIN scans' = DOMAIN scans,
           \A x \in DOMAIN scans :
               KeyOf(x)' = KeyOf(x) /\ scans'[x].by = scans[x].by,
           \A f \in EventIds : todo'[f] \subseteq todo[f]
    PROVE  Related'
  <1>1. /\ DOMAIN events' = DOMAIN events
        /\ \A f \in DOMAIN events : Key(f)' = Key(f)
        /\ \A f \in DOMAIN events : f # e => task'[f] = task[f]
        /\ task'[e] = stage
    BY GoesElsewhere
  <1>2. \A x \in DOMAIN scans' :
            scans'[x].by \in DOMAIN events' /\ Key(scans[x].by)' = KeyOf(x)'
    <2> SUFFICES ASSUME NEW x \in DOMAIN scans, NEW b, b = scans[x].by
                 PROVE  scans'[x].by = b /\ b \in DOMAIN events' /\ Key(b)' = KeyOf(x)'
      OBVIOUS
    <2>1. b \in DOMAIN events /\ Key(b) = KeyOf(x)
      BY DEF Related
    <2> QED BY <1>1, <2>1
  <1>3. \A f \in DOMAIN events' : task'[f] = "updating" => f \in updated'
    BY <1>1 DEF Related
  <1>4. ASSUME NEW f \in DOMAIN events', NEW x \in todo'[f]
        PROVE  KeyOf(x)' = Key(f)'
    <2>1. f \in EventIds /\ x \in todo[f] /\ x \in DOMAIN scans
      BY <1>1, EventType DEF TypeOK
    <2> QED BY <1>1, <2>1 DEF Related
  <1>5. updated' \subseteq DOMAIN events'
    BY <1>1 DEF Related
  <1>6. \A f \in EventIds : todo'[f] # {} => f \in DOMAIN events'
    BY <1>1 DEF Related
  <1> QED BY <1>1, <1>2, <1>3, <1>4, <1>5, <1>6 DEF Related

\* A task that is neither updating nor about to: what is tagged stays tagged.
LEMMA StepTagged ==
    ASSUME TypeOK, Numbered, NEW e \in DOMAIN events, NEW stage, Goes(e, stage),
           task[e] # "updating", UNCHANGED updated, Forgiven \subseteq Forgiven', Tagged,
           NEW x \in DOMAIN scans, KeyOf(x)' = KeyOf(x),
           scans'[x].by = scans[x].by, scans'[x].tags = scans[x].tags,
           \A f \in DOMAIN events : f # e => todo'[f] = todo[f],
           KeyOf(x) \notin contested' \cup Forgiven', Related
    PROVE  TaggedAt(x)'
  <1>1. /\ DOMAIN events' = DOMAIN events
        /\ \A f \in DOMAIN events : Key(f)' = Key(f)
        /\ \A f \in DOMAIN events : f # e => task'[f] = task[f]
        /\ contested' = contested
    BY GoesElsewhere DEF Goes
  <1>2. TaggedAt(x)
    BY <1>1 DEF Tagged
  <1>3. LastWord(x)' = LastWord(x)
    BY <1>1, SameWord DEF Related
  <1>4. \A f \in Unfinished(KeyOf(x)) : task[f] = "updating" /\ x \in todo[f] =>
            f \in Unfinished(KeyOf(x))' /\ task'[f] = "updating" /\ x \in todo'[f]
    BY <1>1 DEF Unfinished
  <1> QED BY <1>2, <1>3, <1>4, TaggedStays

\* A lookup, or a step without effect on scans and their tags.
LEMMA QuietSteps ==
    ASSUME TypeOK, Numbered, Related, LastOpen, Tagged, NEW e \in DOMAIN events,
           Finds(e) \/ Passes(e)
    PROVE  Related' /\ LastOpen' /\ Tagged'
  <1>1. PICK stage \in {"update", "scan", "done", "delegated"} : Goes(e, stage)
    BY DEF Finds, Passes
  <1>2. UNCHANGED <<todo, updated>> /\ Forgiven \subseteq Forgiven' /\ task[e] # "updating"
    BY DEF Finds, Passes, Forgiven
  <1>3. SameScans
    BY DEF Finds, Passes, SameScans
  <1>4. DOMAIN scans' = DOMAIN scans /\ \A x \in DOMAIN scans : KeyOf(x)' = KeyOf(x)
    BY <1>3, SameFound DEF SameScans
  <1>5. Related'
    BY <1>1, <1>2, <1>3, <1>4, StepRelated DEF SameScans
  <1>6. Tagged'
    <2> SUFFICES ASSUME NEW x \in DOMAIN scans, KeyOf(x) \notin contested' \cup Forgiven'
                 PROVE  TaggedAt(x)'
      BY <1>4 DEF Tagged
    <2> QED BY <1>1, <1>2, <1>3, <1>4, StepTagged DEF SameScans
  <1> QED BY <1>1, <1>5, <1>6, GoesLast

\* The scan that is created has the tags of its event, which is the last one of
\* the commit.
LEMMA CreatesTags ==
    ASSUME TypeOK, Numbered, Related, LastOpen, Tagged, NEW e \in DOMAIN events,
           TypeOK', Creates(e)
    PROVE  Related' /\ LastOpen' /\ Tagged'
  <1>1. PICK stage \in {"created", "done"} : Goes(e, stage)
    BY DEF Creates
  <1>2. /\ DOMAIN events' = DOMAIN events
        /\ \A f \in DOMAIN events : Key(f)' = Key(f)
        /\ \A f \in DOMAIN events : f # e => task'[f] = task[f]
        /\ task'[e] = stage /\ contested' = contested /\ UNCHANGED events
    BY <1>1, GoesElsewhere DEF Goes
  <1>3. /\ \E p \in Names : CreateScan(e, p)
        /\ task[e] \in {"scan", "delegated"}
        /\ Forgiven \subseteq Forgiven' /\ UNCHANGED updated
        /\ \A f \in DOMAIN events : todo'[f] \subseteq todo[f]
        /\ \A f \in DOMAIN events : f # e => todo'[f] = todo[f]
    BY EventType DEF Creates
  <1>4. PICK n : n = Len(scans) + 1
    OBVIOUS
  <1>5. /\ DOMAIN scans' = DOMAIN scans \cup {n} /\ n \notin DOMAIN scans
        /\ KeyOf(n)' = Key(e)
        /\ \A x \in DOMAIN scans : KeyOf(x)' = KeyOf(x) /\ scans'[x] = scans[x]
        /\ scans'[n].by = e /\ scans'[n].tags = e
    BY <1>2, <1>3, <1>4, FoundAfterCreate, CreateType
  <1>6. Related'
    <2>1. ASSUME NEW x \in DOMAIN scans', NEW b, b = scans'[x].by
          PROVE  b \in DOMAIN events' /\ Key(b)' = KeyOf(x)'
      <3>1. CASE x = n
        BY <1>2, <1>5, <2>1, <3>1
      <3>2. CASE x \in DOMAIN scans
        <4>1. b \in DOMAIN events /\ Key(b) = KeyOf(x)
          BY <1>5, <2>1, <3>2 DEF Related
        <4> QED BY <1>2, <1>5, <3>2, <4>1
      <3> QED BY <1>5, <2>1, <3>1, <3>2
    <2>2. \A x \in DOMAIN scans' :
              scans'[x].by \in DOMAIN events' /\ Key(scans[x].by)' = KeyOf(x)'
      BY <2>1
    <2>3. \A f \in DOMAIN events' : task'[f] = "updating" => f \in updated'
      BY <1>1, <1>2, <1>3 DEF Related
    <2>4. ASSUME NEW f \in DOMAIN events', NEW x \in todo'[f]
          PROVE  KeyOf(x)' = Key(f)'
      <3>1. f \in EventIds /\ x \in todo[f] /\ x \in DOMAIN scans
        BY <1>2, <1>3, <2>4, EventType DEF TypeOK
      <3> QED BY <1>2, <1>5, <3>1 DEF Related
    <2>5. \A f \in EventIds : todo'[f] # {} => f \in DOMAIN events'
      BY <1>2 DEF Creates, Related, Goes
    <2> QED BY <1>2, <1>3, <2>2, <2>3, <2>4, <2>5 DEF Related
  <1>7. ASSUME KeyOf(n)' \notin contested'
        PROVE  TaggedAt(n)'
    <2>1. Key(e) \in Keys /\ e \in Unfinished(Key(e)) /\ e \in Nat
      BY <1>1, EventType DEF Unfinished, Goes
    <2>2. \A f \in DOMAIN events : Key(f) = Key(e) => f <= e
      BY <1>2, <1>5, <1>7, <2>1 DEF LastOpen
    <2>3. {f \in updated' : Key(f)' = KeyOf(n)' /\ f > e} = {}
      BY <1>2, <1>3, <1>5, <2>1, <2>2, EventType DEF Related
    <2>4. LastWord(n)' = Max({e})
      BY <1>5, <2>3 DEF LastWord
    <2>5. Max({e}) = e
      BY <2>1, MaxIs
    <2> QED BY <1>5, <2>4, <2>5 DEF TaggedAt
  <1>8. Tagged'
    <2> SUFFICES ASSUME NEW x \in DOMAIN scans', KeyOf(x)' \notin contested' \cup Forgiven'
                 PROVE  TaggedAt(x)'
      BY DEF Tagged
    <2>1. CASE x = n
      BY <1>7, <2>1
    <2>2. CASE x \in DOMAIN scans
      BY <1>1, <1>3, <1>5, <2>2, StepTagged
    <2> QED BY <1>5, <2>1, <2>2
  <1> QED BY <1>1, <1>6, <1>8, GoesLast

\* The scans that are listed are all the scans of the commit, or one is missed.
LEMMA ListsTags ==
    ASSUME TypeOK, Numbered, Related, LastOpen, Tagged, NEW e \in DOMAIN events,
           Lists(e)
    PROVE  Related' /\ LastOpen' /\ Tagged'
  <1>1. PICK stage \in {"done", "updating"}, S \in SUBSET ScansOf(Key(e)) :
           /\ Goes(e, stage) /\ (S # {} => stage = "updating")
           /\ todo' = [todo EXCEPT ![e] = S]
           /\ S # ScansOf(Key(e)) => Key(e) \in Forgiven'
    BY DEF Lists
  <1>2. /\ DOMAIN events' = DOMAIN events
        /\ \A f \in DOMAIN events : Key(f)' = Key(f)
        /\ \A f \in DOMAIN events : f # e => task'[f] = task[f]
        /\ task'[e] = stage /\ contested' = contested
    BY <1>1, GoesElsewhere DEF Goes
  <1>3. /\ task[e] = "update" /\ UNCHANGED scans /\ Forgiven \subseteq Forgiven'
        /\ updated' = updated \cup {e}
    BY DEF Lists
  <1>4. \A x : KeyOf(x)' = KeyOf(x)
    BY <1>3 DEF KeyOf
  <1>5. /\ \A f \in EventIds : f # e => todo'[f] = todo[f]
        /\ todo'[e] = S /\ e \in EventIds
    BY <1>1, EventType DEF TypeOK
  <1>6. Related'
    <2>1. \A x \in DOMAIN scans' :
              scans'[x].by \in DOMAIN events' /\ Key(scans[x].by)' = KeyOf(x)'
      <3> SUFFICES ASSUME NEW x \in DOMAIN scans, NEW b, b = scans[x].by
                   PROVE  b \in DOMAIN events' /\ Key(b)' = KeyOf(x)'
        BY <1>3
      <3>1. b \in DOMAIN events /\ Key(b) = KeyOf(x)
        BY DEF Related
      <3> QED BY <1>2, <1>4, <3>1
    <2>2. \A f \in DOMAIN events' : task'[f] = "updating" => f \in updated'
      BY <1>2, <1>3 DEF Related
    <2>3. ASSUME NEW f \in DOMAIN events', NEW x \in todo'[f]
          PROVE  KeyOf(x)' = Key(f)'
      <3>1. CASE f = e
        BY <1>2, <1>4, <1>5, <2>3, <3>1 DEF ScansOf
      <3>2. CASE f # e
        BY <1>2, <1>4, <1>5, <2>3, <3>2, EventType DEF Related
      <3> QED BY <3>1, <3>2
    <2>4. \A f \in EventIds : todo'[f] # {} => f \in DOMAIN events'
      BY <1>2, <1>5 DEF Related
    <2>5. updated' \subseteq DOMAIN events'
      BY <1>2, <1>3 DEF Related
    <2> QED BY <2>1, <2>2, <2>3, <2>4, <2>5 DEF Related
  <1>7. Tagged'
    <2> SUFFICES ASSUME NEW x \in DOMAIN scans, KeyOf(x) \notin contested' \cup Forgiven'
                 PROVE  TaggedAt(x)'
      BY <1>3, <1>4 DEF Tagged
    <2>1. TaggedAt(x)
      BY <1>2, <1>3 DEF Tagged
    <2>2. CASE KeyOf(x) = Key(e)
      <3>1. x \in S
        BY <1>1, <2>2 DEF ScansOf
      <3>2. task'[e] = "updating" /\ x \in todo'[e]
        BY <1>1, <1>2, <1>5, <3>1
      <3>3. e \in Unfinished(KeyOf(x))'
        BY <1>2, <1>4, <2>2, <3>2 DEF Unfinished
      <3> QED BY <3>2, <3>3 DEF TaggedAt
    <2>3. CASE KeyOf(x) # Key(e)
      <3>1. LastWord(x)' = LastWord(x)
        BY <1>2, <1>3, <1>4, <2>3, SameWord DEF Related
      <3>2. \A f \in Unfinished(KeyOf(x)) : task[f] = "updating" /\ x \in todo[f] =>
                f \in Unfinished(KeyOf(x))' /\ task'[f] = "updating" /\ x \in todo'[f]
        BY <1>2, <1>4, <1>5, <2>3, EventType DEF Unfinished
      <3> QED BY <1>3, <1>4, <2>1, <3>1, <3>2, TaggedStays
    <2> QED BY <2>2, <2>3
  <1> QED BY <1>1, <1>6, <1>7, GoesLast

\* The task that updates is that of the last event of the commit.
LEMMA TagsTags ==
    ASSUME TypeOK, Numbered, Related, LastOpen, Tagged, NEW e \in DOMAIN events,
           NEW x \in todo[e], Tags(e, x)
    PROVE  Related' /\ LastOpen' /\ Tagged'
  <1> DEFINE stage == IF todo[e] = {x} THEN "done" ELSE "updating"
  <1>1. Goes(e, stage)
    BY DEF Tags
  <1>2. /\ DOMAIN events' = DOMAIN events
        /\ \A f \in DOMAIN events : Key(f)' = Key(f)
        /\ \A f \in DOMAIN events : f # e => task'[f] = task[f]
        /\ task'[e] = stage /\ contested' = contested
    <2> HIDE DEF stage
    <2> QED BY <1>1, GoesElsewhere DEF Goes
  <1>3. /\ task[e] = "updating" /\ UNCHANGED updated
        /\ e \in EventIds /\ x \in DOMAIN scans
        /\ KeyOf(x) = Key(e) /\ e \in updated
    BY EventType DEF Tags, TypeOK, Related
  <1>4. \A f \in EventIds : todo'[f] = IF f = e THEN todo[e] \ {x} ELSE todo[f]
    BY <1>3 DEF Tags, TypeOK
  <1>5. /\ DOMAIN scans' = DOMAIN scans
        /\ \A y \in DOMAIN scans :
              /\ KeyOf(y)' = KeyOf(y) /\ scans'[y].by = scans[y].by
              /\ y # x => scans'[y].tags = scans[y].tags
        /\ scans'[x].tags = e \/ Key(e) \in Forgiven'
        /\ Forgiven \subseteq Forgiven'
    <2>0. UNCHANGED overlooked
      BY DEF Tags
    <2>1. CASE scans' = [scans EXCEPT ![x].tags = e] /\ UNCHANGED missed
      BY <1>3, <2>0, <2>1, TagsChange DEF KeyOf, Forgiven
    <2>2. CASE UNCHANGED scans /\ missed' = missed \cup {Key(e)}
      BY <2>0, <2>2 DEF KeyOf, Forgiven
    <2> QED BY <2>1, <2>2 DEF Tags
  <1>6. Related'
    <2>1. \A f \in EventIds : todo'[f] \subseteq todo[f]
      BY <1>4
    <2> HIDE DEF stage
    <2> QED BY <1>1, <1>3, <1>5, <2>1, StepRelated
  <1>7. \A y \in DOMAIN scans : LastWord(y)' = LastWord(y)
    BY <1>2, <1>3, <1>5, SameWord DEF Related
  <1>8. ASSUME KeyOf(x) \notin contested' \cup Forgiven'
        PROVE  TaggedAt(x)'
    <2>1. Key(e) \in Keys /\ e \in Unfinished(Key(e)) /\ e \in Nat
      BY <1>3, EventType DEF Unfinished
    <2>2. \A f \in DOMAIN events : Key(f) = Key(e) => f <= e
      BY <1>2, <1>3, <1>8, <2>1 DEF LastOpen
    <2>3. scans[x].by \in DOMAIN events /\ scans[x].by <= e
      BY <1>3, <2>2 DEF Related
    <2> DEFINE S == {scans[x].by} \cup
                    {f \in updated : Key(f) = KeyOf(x) /\ f > scans[x].by}
    <2>4. e \in S /\ S \subseteq Nat /\ \A f \in S : f <= e
      BY <1>3, <2>1, <2>2, <2>3, EventType DEF Related
    <2>5. Max(S) = e
      <3> HIDE DEF S
      <3> QED BY <2>4, MaxIs
    <2>6. LastWord(x)' = e
      BY <1>3, <1>7, <2>5 DEF LastWord
    <2>7. scans'[x].tags = e
      BY <1>3, <1>5, <1>8
    <2> QED BY <2>6, <2>7 DEF TaggedAt
  <1>9. Tagged'
    <2> SUFFICES ASSUME NEW y \in DOMAIN scans, KeyOf(y) \notin contested' \cup Forgiven'
                 PROVE  TaggedAt(y)'
      BY <1>5 DEF Tagged
    <2>1. CASE y = x
      BY <1>8, <2>1
    <2>2. CASE y # x
      <3>1. TaggedAt(y)
        BY <1>2, <1>5 DEF Tagged
      <3>2. ASSUME NEW f \in Unfinished(KeyOf(y)), task[f] = "updating", y \in todo[f]
            PROVE  f \in Unfinished(KeyOf(y))' /\ task'[f] = "updating" /\ y \in todo'[f]
        <4>1. f \in DOMAIN events /\ f \in EventIds /\ Key(f) = KeyOf(y)
          BY <3>2, EventType DEF Unfinished
        <4>2. y \in todo'[f]
          BY <1>4, <2>2, <3>2, <4>1
        <4>3. task'[f] = "updating"
          BY <1>2, <2>2, <3>2, <4>1
        <4> QED BY <1>2, <1>5, <4>1, <4>2, <4>3 DEF Unfinished
      <3> QED BY <1>5, <1>7, <2>2, <3>1, <3>2, TaggedStays
    <2> QED BY <2>1, <2>2
  <1> HIDE DEF stage
  <1> QED BY <1>1, <1>6, <1>9, GoesLast

\* The commit of an abandoned event counts as missed.
LEMMA FailsTags ==
    ASSUME TypeOK, Numbered, Related, LastOpen, Tagged, NEW e \in DOMAIN events,
           Fails(e)
    PROVE  Related' /\ LastOpen' /\ Tagged'
  <1>1. Goes(e, "done")
    BY DEF Fails
  <1>2. /\ DOMAIN events' = DOMAIN events
        /\ \A f \in DOMAIN events : Key(f)' = Key(f)
        /\ \A f \in DOMAIN events : f # e => task'[f] = task[f]
        /\ contested' = contested
    BY <1>1, GoesElsewhere DEF Goes
  <1>3. UNCHANGED <<scans, updated>> /\ Forgiven' = Forgiven \cup {Key(e)}
    BY DEF Fails, Forgiven
  <1>4. \A x : KeyOf(x)' = KeyOf(x)
    BY <1>3 DEF KeyOf
  <1>5. \A f \in EventIds : todo'[f] \subseteq todo[f] /\ (f # e => todo'[f] = todo[f])
    BY EventType DEF Fails, TypeOK
  <1>6. Related'
    BY <1>1, <1>3, <1>4, <1>5, StepRelated
  <1>7. Tagged'
    <2> SUFFICES ASSUME NEW x \in DOMAIN scans, KeyOf(x) \notin contested' \cup Forgiven'
                 PROVE  TaggedAt(x)'
      BY <1>3, <1>4 DEF Tagged
    <2>1. TaggedAt(x) /\ KeyOf(x) # Key(e)
      BY <1>2, <1>3 DEF Tagged
    <2>2. LastWord(x)' = LastWord(x)
      BY <1>2, <1>3, <1>4, SameWord DEF Related
    <2>3. \A f \in Unfinished(KeyOf(x)) : task[f] = "updating" /\ x \in todo[f] =>
              f \in Unfinished(KeyOf(x))' /\ task'[f] = "updating" /\ x \in todo'[f]
      BY <1>2, <1>4, <1>5, <2>1, EventType DEF Unfinished
    <2> QED BY <1>3, <1>4, <2>1, <2>2, <2>3, TaggedStays
  <1> QED BY <1>1, <1>6, <1>7, GoesLast

-----------------------------------------------------------------------------
(* The invariant.                                                          *)

\* The end of a scan changes nothing the invariant speaks of.
LEMMA FinishKeeps ==
    ASSUME ScansInv, NEW x \in DOMAIN scans, FinishScan(x)
    PROVE  ScansInv'
  <1>1. /\ TypeOK' /\ Numbered' /\ SameScans
        /\ UNCHANGED <<setup, events, task, todo, updated, contested, Doubtful, Forgiven>>
    BY FinishEffect DEF ScansInv, history, Doubtful, Forgiven
  <1>2. /\ DOMAIN scans' = DOMAIN scans
        /\ \A y \in DOMAIN scans :
              /\ KeyOf(y)' = KeyOf(y) /\ scans'[y].by = scans[y].by
              /\ scans'[y].tags = scans[y].tags
        /\ \A k : ScansOf(k)' = ScansOf(k)
    BY <1>1, SameFound DEF SameScans
  <1>3. \A f : Key(f)' = Key(f)
    BY <1>1 DEF Key
  <1>4. \A k : Scanning(k)' = Scanning(k) /\ Unfinished(k)' = Unfinished(k)
    BY <1>1, <1>3 DEF Scanning, Unfinished
  <1>5. Alone'
    BY <1>1, <1>2, <1>4, AloneStays DEF ScansInv
  <1>6. Related'
    <2>1. \A y \in DOMAIN scans' :
              scans'[y].by \in DOMAIN events' /\ Key(scans[y].by)' = KeyOf(y)'
      <3> SUFFICES ASSUME NEW y \in DOMAIN scans, NEW b, b = scans[y].by
                   PROVE  b \in DOMAIN events' /\ Key(b)' = KeyOf(y)'
        BY <1>2
      <3>1. b \in DOMAIN events /\ Key(b) = KeyOf(y)
        BY DEF ScansInv, Related
      <3> QED BY <1>1, <1>2, <1>3, <3>1
    <2>2. \A e \in DOMAIN events : \A y \in todo[e] : KeyOf(y)' = Key(e)'
      BY <1>2, <1>3, EventType DEF ScansInv, Related, TypeOK
    <2> QED BY <1>1, <2>1, <2>2 DEF ScansInv, Related
  <1>7. LastOpen'
    BY <1>1, <1>3, <1>4 DEF ScansInv, LastOpen
  <1>8. Tagged'
    <2> SUFFICES ASSUME NEW y \in DOMAIN scans, KeyOf(y) \notin contested \cup Forgiven
                 PROVE  TaggedAt(y)'
      BY <1>1, <1>2 DEF Tagged
    <2>1. TaggedAt(y)
      BY DEF ScansInv, Tagged
    <2>2. LastWord(y)' = LastWord(y)
      BY <1>1, <1>2, <1>3, SameWord
    <2>3. Unfinished(KeyOf(y))' = Unfinished(KeyOf(y))
      BY <1>1, <1>2, <1>3 DEF Unfinished
    <2> QED BY <1>1, <1>2, <2>1, <2>2, <2>3, TaggedStays
  <1> QED BY <1>1, <1>5, <1>6, <1>7, <1>8 DEF ScansInv

\* What happens to pull requests.
LEMMA AnnounceKeeps ==
    ASSUME ScansInv, Announces
    PROVE  ScansInv'
  BY AnnounceTypes, AnnounceAlone, AnnounceRelated, AnnounceLast, AnnounceTagged
     DEF ScansInv

\* What the tasks do.
LEMMA TaskKeeps ==
    ASSUME ScansInv, NEW e \in DOMAIN events, TaskStep(e) \/ TaskFails(e)
    PROVE  ScansInv'
  <1> USE DEF ScansInv
  <1>1. ASSUME NEW n \in Names, Lookup(e, n)
        PROVE  ScansInv'
    BY <1>1, LookupFinds, FindsAlone, QuietSteps
  <1>2. ASSUME NEW n \in Names, DelegateScan(e, n)
        PROVE  ScansInv'
    BY <1>2, DelegatePasses, PassesAlone, QuietSteps
  <1>9. ASSUME NEW n \in Names, CloneAndScan(e, n)
        PROVE  ScansInv'
    BY <1>9, CloneCreates, CreatesAlone, CreatesTags
  <1>10. CASE SkipScan(e)
    BY <1>10, SkipPasses, PassesAlone, QuietSteps
  <1>3. CASE AgentScan(e)
    BY <1>3, AgentCreates, CreatesAlone, CreatesTags
  <1>4. CASE StartWorkflow(e)
    BY <1>4, StartPasses, PassesAlone, QuietSteps
  <1>5. ASSUME NEW n \in Names, ListScans(e, n)
        PROVE  ScansInv'
    BY <1>5, ListLists, OthersAlone, ListsTags
  <1>6. ASSUME NEW x \in todo[e], UpdateTags(e, x)
        PROVE  ScansInv'
    BY <1>6, UpdateTagsTags, OthersAlone, TagsTags
  <1>7. CASE CancelScan(e)
    BY <1>7, CancelPasses, PassesAlone, QuietSteps
  <1>8. CASE TaskFails(e)
    <2>1. TypeOK' /\ Numbered' /\ (Fails(e) \/ Creates(e))
      BY <1>8, FailsEffect
    <2> QED BY <2>1, OthersAlone, FailsTags, CreatesAlone, CreatesTags
  <1> QED BY <1>1, <1>2, <1>3, <1>4, <1>5, <1>6, <1>7, <1>8, <1>9, <1>10 DEF TaskStep

\* Every step.
LEMMA ScansStepKeeps ==
    ASSUME ScansInv, [Next]_vars
    PROVE  ScansInv'
  <1>1. ASSUME NEW p \in PRs,
               \/ OpenPR(p) \/ Push(p) \/ SetDraft(p) \/ Retarget(p) \/ Review(p)
               \/ Close(p) \/ Reopen(p)
        PROVE  ScansInv'
    BY <1>1, ScmAnnounces, AnnounceKeeps DEF ScansInv
  <1>2. ASSUME NEW x \in DOMAIN scans, CheckAction(x)
        PROVE  ScansInv'
    BY <1>2, CheckAnnounces, AnnounceKeeps DEF ScansInv
  <1>3. CASE UNCHANGED vars
    <2>1. /\ UNCHANGED <<setup, pr, events, task, target, todo, scans, followed>>
          /\ UNCHANGED <<updated, raced, contested, missed, overlooked, lost, faults>>
      BY <1>3 DEF vars, history
    <2>2. TypeOK' /\ Numbered'
      BY <2>1 DEF ScansInv, TypeOK, Numbered
    <2>3. Alone' /\ Related'
      BY <2>1 DEF ScansInv, Alone, AloneAt, Looks, scm, Scanning, ScansOf, Doubtful, Key, KeyOf,
                  Related
    <2>4. LastOpen' /\ Tagged'
      BY <2>1 DEF ScansInv, LastOpen, Tagged, TaggedAt, LastWord, Unfinished, Forgiven, Key,
                  KeyOf
    <2> QED BY <2>2, <2>3, <2>4 DEF ScansInv
  <1>4. Busy \subseteq PRs
    BY PullRequestAssumption
  <1> QED BY <1>1, <1>2, <1>3, <1>4, FinishKeeps, TaskKeeps DEF Next

\* At first there are no events and no scans.
LEMMA ScansInitially ==
    ASSUME Init
    PROVE  ScansInv
  <1>1. TypeOK
    <2>1. [commit |-> 0, state |-> "closed", draft |-> FALSE, protected |-> FALSE]
              \in PullRequest
      BY PullRequestAssumption DEF PullRequest, States
    <2>2. <<>> \in Seq(Event) /\ <<>> \in Seq(Scan) /\ DOMAIN <<>> = {}
      OBVIOUS
    <2> QED BY <2>1, <2>2, PullRequestAssumption DEF Init, TypeOK, Stages, Names
  <1>2. DOMAIN events = {} /\ DOMAIN scans = {} /\ Len(events) = 0
    BY DEF Init
  <1>3. Numbered
    BY <1>2, PullRequestAssumption DEF Init, Numbered
  <1>4. Alone
    BY <1>2 DEF Alone, AloneAt, Scanning, ScansOf
  <1>5. Related /\ LastOpen /\ Tagged
    BY <1>2 DEF Init, Related, LastOpen, Tagged, EventIds
  <1> QED BY <1>1, <1>3, <1>4, <1>5 DEF ScansInv

\* The invariant holds of every behaviour.
LEMMA ScansInvHolds == Spec => []ScansInv
  <1>1. Init => ScansInv
    BY ScansInitially
  <1>2. ScansInv /\ [Next]_vars => ScansInv'
    BY ScansStepKeeps
  <1> QED BY <1>1, <1>2, PTL DEF Spec

-----------------------------------------------------------------------------
\* Types: events, tasks and scans stay in their domains, for any number of pull
\* requests, commits, events and faults.
THEOREM ScansTypeCorrect == Spec => []TypeOK
  <1>1. ScansInv => TypeOK
    BY DEF ScansInv
  <1> QED BY <1>1, ScansInvHolds, PTL

\* An orchestrator that looks up before it scans gives a commit of a pull request
\* a second scan only if a lookup fell between another task's decision to scan
\* and its scan, or asked for another project than the one that was scanned, for
\* any number of events and every way to name the project.
THEOREM OneScanForACommit == Spec => []OneScanPerCommit
  <1>1. ScansInv => OneScanPerCommit
    <2> SUFFICES ASSUME ScansInv, Looks, NEW x \in DOMAIN scans, NEW y \in DOMAIN scans,
                        x # y, KeyOf(x) = KeyOf(y), KeyOf(x) \notin raced \cup overlooked
                 PROVE  FALSE
      BY DEF OneScanPerCommit, Looks
    <2>1. KeyOf(x) \in Keys
      BY ScanType DEF ScansInv
    <2>2. AloneAt(KeyOf(x))
      BY <2>1 DEF ScansInv, Alone, Doubtful
    <2> QED BY <2>2 DEF AloneAt, ScansOf
  <1> QED BY <1>1, ScansInvHolds, PTL

\* update_scan_pr_tags keeps the tags of scans up to date: if the events of a
\* commit came one at a time and no scan was missed or in another project, each
\* scan carries the tags of the last event, for any number of events and pull
\* requests.
THEOREM TagsAreFollowed == Spec => []TagsFollow
  <1>1. ScansInv => TagsFollow
    BY DEF ScansInv, TagsFollow, Tagged, TaggedAt, Forgiven
  <1> QED BY <1>1, ScansInvHolds, PTL

-----------------------------------------------------------------------------
(* ProjectConfig: the inductive invariant.                                 *)

\* Groups of the assignment rules.
PathGroup == Paths \X Nat

\* A path has one group at a time; a project is in groups that exist, and has
\* a name of its own.
StoreInv ==
    /\ groups \subseteq PathGroup \cup {<<"own", 0>>}
    /\ \A g, h \in groups : g[1] = h[1] => g = h
    /\ \A w \in Workers : index[w] \subseteq PathGroup
    /\ \A i \in DOMAIN projects : projects[i].groups \subseteq groups
    /\ \A i, k \in DOMAIN projects : projects[i].name = projects[k].name => i = k

\* A load has a project from its lookup on.
Shaped(t) ==
    /\ load[t].at \in {"name", "list", "create"} => load[t].id = 0
    /\ load[t].at \in {"update", "purge"} \/ load[t].retried => load[t].id # 0
    /\ load[t].id # 0 => load[t].id \in DOMAIN projects
    /\ load[t].at \in {"create", "update", "purge"} => load[t].todo = <<>>
    /\ load[t].ids \subseteq PathGroup

\* What a load that is up to date knows about the project p it found.
View(t) == LET p == projects[load[t].id] IN
    /\ \A k \in DOMAIN projects :
          k # load[t].id => projects[k].name # load[t].name
    /\ load[t].orig = p.groups
    /\ load[t].at = "resolve" /\ ~load[t].retried => load[t].json = p
    /\ load[t].at # "resolve" \/ load[t].retried =>
          /\ load[t].json.name = IF config.update_name THEN load[t].name ELSE p.name
          /\ p.tags.team \in {"none", load[t].json.tags.team}
          /\ p.groups \subseteq load[t].json.groups
    /\ load[t].at # "resolve" /\ (load[t].retried \/ config.update_groups) =>
          load[t].json.groups = load[t].orig \cup load[t].ids

\* After a purge nothing in the cache or in the resolved ids is gone.
Fresh(t) ==
    load[t].retried =>
        index[WorkerOf[t]] \subseteq groups /\ load[t].ids \subseteq groups

\* A load that nobody has outdated is right about its project and its groups.
UpToDate(t) == t \in Loaded \ outdated => View(t) /\ Fresh(t)

\* The paths a load has still to resolve.
Pending(t) == {load[t].todo[k] : k \in 1..Len(load[t].todo)}

\* A load that resolved a path has the path's group, or one that is gone.
Covers(t) ==
    /\ t \in Resolving \ (outdated \cup faulted)
    /\ load[t].id = 0 \/ config.update_groups
    /\ load[t].ids \subseteq groups
    => \A g \in groups : g[1] \in Paths \ Pending(t) => g \in load[t].ids

\* A load whose creation was refused because of the name finds the project.
Retries(t) ==
    /\ load[t].at # "name" /\ t \notin misnamed => load[t].name = "dynamic"
    /\ load[t].again /\ t \notin misnamed \cup stale =>
          /\ DOMAIN projects # {}
          /\ load[t].at \in {"resolve", "create"} => load[t].id # 0

\* A load that failed has a reason.
Excused(t) ==
    load[t].at = "failed" => t \in faulted \cup outdated \cup misnamed \cup stale

\* What holds of every load.
LoadInv(t) ==
    Shaped(t) /\ UpToDate(t) /\ Covers(t) /\ Retries(t) /\ Excused(t)

\* As long as the naming module answers: a load without a project knows of no
\* project of the default name, and names change to the dynamic name only.
SingleAt(t) ==
    /\ load[t].at \in {"resolve", "create"} /\ load[t].id = 0 =>
          \A i \in DOMAIN projects : projects[i].name = "dynamic"
    /\ t \in Loaded =>
          IF config.update_name
          THEN load[t].at # "resolve" \/ load[t].retried =>
                  load[t].json.name = "dynamic"
          ELSE load[t].json.name = projects[load[t].id].name

\* One project, as long as no load is misnamed.
Single ==
    misnamed = {} => Len(projects) <= 1 /\ \A t \in Loads : SingleAt(t)

\* The inductive invariant.
ConfigInv ==
    ConfigTypeOK /\ StoreInv /\ (\A t \in Loads : LoadInv(t)) /\ Single

-----------------------------------------------------------------------------
(* ProjectConfig: the effects of steps.                                    *)

\* The paths are no group of someone else.
LEMMA PathFacts == GroupPaths \in Seq(Paths) /\ "own" \notin Paths
  <1>1. GroupPaths \in [1..Len(GroupPaths) -> STRING \ {"own"}] /\ Len(GroupPaths) \in Nat
    BY ProjectConfigAssumption
  <1>2. \A k \in 1..Len(GroupPaths) : GroupPaths[k] \in STRING \ {"own"}
    BY <1>1
  <1>3. "own" \notin Paths
    BY <1>2 DEF Paths
  <1>4. GroupPaths \in [1..Len(GroupPaths) -> Paths]
    BY <1>1, Zenon DEF Paths
  <1> QED BY <1>1, <1>3, <1>4, SeqDef

\* The loads but t stay as they are.
Apart(t) == \A u \in Loads \ {t} : load'[u] = load[u]

\* A load moves on with record r.
LEMMA MoveLoad ==
    ASSUME ConfigTypeOK, NEW t \in Loads, NEW r \in Load,
           load' = [load EXCEPT ![t] = r]
    PROVE  load' \in [Loads -> Load] /\ Apart(t) /\ load'[t] = r
  BY DEF ConfigTypeOK, Apart

\* The record of a load, field by field.
LEMMA LoadFields ==
    ASSUME ConfigTypeOK, NEW t \in Loads
    PROVE  /\ load[t] \in Load
           /\ load[t].at \in {"name", "list", "resolve", "create", "update", "purge",
                              "done", "failed"}
           /\ load[t].name \in {"default", "dynamic"} /\ load[t].again \in BOOLEAN
           /\ load[t].id \in Nat /\ load[t].json \in Project
           /\ load[t].orig \in SUBSET GroupId /\ load[t].todo \in Seq(Paths)
           /\ load[t].ids \in SUBSET GroupId /\ load[t].retried \in BOOLEAN
  BY DEF ConfigTypeOK, Load

\* A load goes elsewhere.
LEMMA GotoEffect ==
    ASSUME ConfigTypeOK, NEW t \in Loads,
           NEW at \in {"list", "create", "purge", "done", "failed"}, Goto(t, at)
    PROVE  /\ load' \in [Loads -> Load] /\ Apart(t)
           /\ load'[t] = [load[t] EXCEPT !.at = at]
  <1> DEFINE r == [load[t] EXCEPT !.at = at]
  <1>1. r \in Load
    BY LoadFields DEF Load
  <1>2. load' = [load EXCEPT ![t] = r]
    BY DEF Goto
  <1> QED BY <1>1, <1>2, MoveLoad

\* A load gets its name, or is misnamed.
LEMMA NameEffect ==
    ASSUME ConfigTypeOK, NEW t \in Loads, Name(t)
    PROVE  /\ load' \in [Loads -> Load] /\ Apart(t)
           /\ load[t].at = "name"
           /\ \/ load'[t] = [load[t] EXCEPT !.at = "list", !.name = "dynamic"]
              \/ load'[t] = [load[t] EXCEPT !.at = "list"] /\ t \in misnamed'
           /\ misnamed \subseteq misnamed' /\ misnamed' \subseteq Loads
           /\ failures' \in 0..MaxFailures
           /\ UNCHANGED <<projects, groups, index, faulted, outdated, stale, edits>>
  <1>1. CASE /\ load' = [load EXCEPT ![t].at = "list", ![t].name = "dynamic"]
             /\ UNCHANGED <<misnamed, failures>>
    <2> DEFINE r == [load[t] EXCEPT !.at = "list", !.name = "dynamic"]
    <2>1. r \in Load
      BY LoadFields DEF Load
    <2>2. load' = [load EXCEPT ![t] = r]
      BY <1>1
    <2>3. load' \in [Loads -> Load] /\ Apart(t) /\ load'[t] = r
      BY <2>1, <2>2, MoveLoad
    <2> QED BY <1>1, <2>3 DEF Name, ConfigTypeOK
  <1>2. CASE /\ failures < MaxFailures /\ failures' = failures + 1
             /\ misnamed' = misnamed \cup {t} /\ Goto(t, "list")
    <2>1. /\ load' \in [Loads -> Load] /\ Apart(t)
          /\ load'[t] = [load[t] EXCEPT !.at = "list"]
      BY <1>2, GotoEffect
    <2> QED BY <1>2, <2>1, ProjectConfigAssumption DEF Name, ConfigTypeOK
  <1> QED BY <1>1, <1>2 DEF Name

\* A failure is recorded.
LEMMA FailureEffect ==
    ASSUME ConfigTypeOK, NEW t \in Loads, Failure(t) \/ NoFailure
    PROVE  /\ faulted \subseteq faulted' /\ faulted' \subseteq Loads
           /\ failures' \in 0..MaxFailures
           /\ Failure(t) => t \in faulted'
  BY ProjectConfigAssumption DEF ConfigTypeOK, Failure, NoFailure

\* The project a lookup takes.
LEMMA PickFacts ==
    ASSUME ConfigTypeOK, NEW name \in {"default", "dynamic"}, Found(name) # {}
    PROVE  /\ Pick(name) \in DOMAIN projects
           /\ projects[Pick(name)].name \in {"default", name}
           /\ \A k \in DOMAIN projects :
                 projects[k].name = name => projects[Pick(name)].name = name
  <1>1. Pick(name) \in Found(name)
    <2>1. CASE \E i \in Found(name) : projects[i].name = name
      BY <2>1 DEF Pick
    <2>2. CASE ~\E i \in Found(name) : projects[i].name = name
      BY <2>2 DEF Pick
    <2> QED BY <2>1, <2>2
  <1>2. (\E i \in Found(name) : projects[i].name = name) =>
           projects[Pick(name)].name = name
    BY DEF Pick
  <1>3. DOMAIN projects = 1..Len(projects)
    BY DEF ConfigTypeOK
  <1> QED BY <1>1, <1>2, <1>3 DEF Found

\* Every project has one of the two names.
LEMMA NothingFound ==
    ASSUME ConfigTypeOK, Found("dynamic") = {}
    PROVE  DOMAIN projects = {}
  <1>1. /\ DOMAIN projects = 1..Len(projects)
        /\ \A i \in DOMAIN projects : projects[i] \in Project
    BY DEF ConfigTypeOK
  <1>2. \A i \in DOMAIN projects : projects[i].name \in {"default", "dynamic"}
    BY <1>1 DEF Project
  <1> QED BY <1>1, <1>2 DEF Found

\* What a lookup found.
Listed(t) ==
    \E id \in Nat, json \in Project, paths \in Seq(Paths) :
        /\ load'[t] = [load[t] EXCEPT !.at = "resolve", !.id = id, !.json = json,
                          !.orig = json.groups, !.ids = {}, !.todo = paths]
        /\ id = 0 => Found(load[t].name) = {}
        /\ id # 0 =>
              /\ id \in DOMAIN projects /\ json = projects[id]
              /\ json.name \in {"default", load[t].name}
              /\ \A k \in DOMAIN projects :
                    projects[k].name = load[t].name => json.name = load[t].name
        /\ id = 0 \/ config.update_groups => paths = GroupPaths

\* A load looks for its project, or fails.
LEMMA ListEffect ==
    ASSUME ConfigTypeOK, NEW t \in Loads, List(t)
    PROVE  /\ load' \in [Loads -> Load] /\ Apart(t)
           /\ load[t].at = "list"
           /\ \/ Listed(t)
              \/ load'[t] = [load[t] EXCEPT !.at = "failed"] /\ t \in faulted'
           /\ faulted \subseteq faulted' /\ faulted' \subseteq Loads
           /\ failures' \in 0..MaxFailures
           /\ UNCHANGED <<projects, groups, index, outdated, misnamed, stale, edits>>
  <1> DEFINE name == load[t].name
             id == IF Found(name) = {} THEN 0 ELSE Pick(name)
             json == IF id = 0 THEN NoProject ELSE projects[id]
             asks == id = 0 \/ config.update_groups
             paths == IF asks THEN GroupPaths ELSE <<>>
             r == [load[t] EXCEPT !.at = "resolve", !.id = id, !.json = json,
                          !.orig = json.groups, !.ids = {}, !.todo = paths]
  <1>1. CASE NoFailure /\ load' = [load EXCEPT
                     ![t].at = "resolve", ![t].id = id, ![t].json = json,
                     ![t].orig = json.groups, ![t].ids = {}, ![t].todo = paths]
    <2>1. name \in {"default", "dynamic"}
      BY LoadFields
    <2>2. Found(name) # {} =>
             /\ Pick(name) \in DOMAIN projects
             /\ projects[Pick(name)].name \in {"default", name}
             /\ \A k \in DOMAIN projects :
                   projects[k].name = name => projects[Pick(name)].name = name
      BY <2>1, PickFacts
    <2>3. \A i \in DOMAIN projects : i \in Nat /\ i # 0 /\ projects[i] \in Project
      BY DEF ConfigTypeOK
    <2>4. id \in Nat /\ (id = 0 <=> Found(name) = {})
      BY <2>2, <2>3
    <2>5. json \in Project /\ json.groups \in SUBSET GroupId
      BY <2>2, <2>3, <2>4 DEF NoProject, Project, Tag
    <2>6. paths \in Seq(Paths)
      BY PathFacts
    <2>7. r \in Load
      <3> HIDE DEF id, json, paths
      <3> QED BY <2>4, <2>5, <2>6, LoadFields DEF Load
    <2>8. load' = [load EXCEPT ![t] = r]
      BY <1>1
    <2>9. load' \in [Loads -> Load] /\ Apart(t) /\ load'[t] = r
      <3> HIDE DEF r
      <3> QED BY <2>7, <2>8, MoveLoad
    <2>10. Listed(t)
      <3>1. id = 0 => Found(name) = {}
        BY <2>4
      <3>2. id # 0 =>
              /\ id \in DOMAIN projects /\ json = projects[id]
              /\ json.name \in {"default", load[t].name}
              /\ \A k \in DOMAIN projects :
                    projects[k].name = load[t].name => json.name = load[t].name
        BY <2>2, <2>4
      <3>3. id = 0 \/ config.update_groups => paths = GroupPaths
        OBVIOUS
      <3> HIDE DEF id, json, paths, name
      <3> QED BY <3>1, <3>2, <3>3, <2>4, <2>5, <2>6, <2>9 DEF Listed, name
    <2> QED BY <1>1, <2>9, <2>10, FailureEffect DEF List
  <1>2. CASE Failure(t) /\ Goto(t, "failed")
    BY <1>2, GotoEffect, FailureEffect DEF List
  <1> QED BY <1>1, <1>2 DEF List
\* One path is resolved, to the ids from the cache or from the service.
Resolves(t) ==
    LET p == Head(load[t].todo)
        w == WorkerOf[t]
    IN  /\ load[t].at = "resolve" /\ load[t].todo # <<>>
        /\ \E ids \in SUBSET GroupId :
              /\ load'[t] = [load[t] EXCEPT !.todo = Tail(load[t].todo),
                                            !.ids = load[t].ids \cup ids]
              /\ \A g \in ids : g[1] = p
              /\ ids \subseteq index[w] \cup groups
              /\ \/ ids # {} /\ ids \subseteq index[w]
                 \/ ids = {g \in groups : g[1] = p}
                 \/ t \in faulted'
        /\ \A v \in Workers : index'[v] \subseteq index[v] \cup {g \in groups : g[1] = p}

\* A load resolves a path and may fill the cache of its worker.
LEMMA ResolveEffect ==
    ASSUME ConfigTypeOK, NEW t \in Loads, ResolvePath(t)
    PROVE  /\ load' \in [Loads -> Load] /\ Apart(t) /\ Resolves(t)
           /\ index' \in [Workers -> SUBSET GroupId]
           /\ faulted \subseteq faulted' /\ faulted' \subseteq Loads
           /\ failures' \in 0..MaxFailures
           /\ UNCHANGED <<projects, groups, outdated, misnamed, stale, edits>>
  <1> DEFINE w == WorkerOf[t]
             p == Head(load[t].todo)
             known(set) == {g \in set : g[1] = p}
             r(ids) == [load[t] EXCEPT !.todo = Tail(load[t].todo),
                                       !.ids = load[t].ids \cup ids]
  <1>1. w \in Workers /\ index[w] \in SUBSET GroupId /\ groups \in SUBSET GroupId
    BY ProjectConfigAssumption DEF ConfigTypeOK
  <1>2. load[t].at = "resolve" /\ load[t].todo # <<>>
    BY DEF ResolvePath
  <1>3. Tail(load[t].todo) \in Seq(Paths)
    BY <1>2, LoadFields, HeadTailProperties
  <1>4. ASSUME NEW ids \in SUBSET GroupId,
               load' = [load EXCEPT ![t].todo = Tail(@), ![t].ids = @ \cup ids]
        PROVE  load' \in [Loads -> Load] /\ Apart(t) /\ load'[t] = r(ids)
    <2>1. r(ids) \in Load
      BY <1>3, LoadFields DEF Load
    <2>2. load' = [load EXCEPT ![t] = r(ids)]
      BY <1>4
    <2> HIDE DEF r
    <2> QED BY <2>1, <2>2, MoveLoad
  <1>5. PICK ids \in SUBSET GroupId :
           /\ load' = [load EXCEPT ![t].todo = Tail(@), ![t].ids = @ \cup ids]
           /\ \/ ids = known(index[w]) /\ ids # {} /\ NoFailure /\ UNCHANGED index
              \/ ids = known(groups) /\ NoFailure
                 /\ index' = [index EXCEPT ![w] = @ \cup known(groups)]
              \/ ids = {} /\ Failure(t) /\ UNCHANGED index
    <2>1. known(index[w]) \in SUBSET GroupId /\ known(groups) \in SUBSET GroupId
      BY <1>1
    <2>2. \/ /\ load' = [load EXCEPT ![t].todo = Tail(@), ![t].ids = @ \cup known(index[w])]
             /\ known(index[w]) # {} /\ NoFailure /\ UNCHANGED index
          \/ /\ load' = [load EXCEPT ![t].todo = Tail(@), ![t].ids = @ \cup known(groups)]
             /\ NoFailure /\ index' = [index EXCEPT ![w] = @ \cup known(groups)]
          \/ /\ load' = [load EXCEPT ![t].todo = Tail(@), ![t].ids = @ \cup {}]
             /\ Failure(t) /\ UNCHANGED index
      BY DEF ResolvePath
    <2> HIDE DEF known
    <2> QED BY <2>1, <2>2
  <1>6. load' \in [Loads -> Load] /\ Apart(t) /\ load'[t] = r(ids)
    BY <1>4, <1>5
  <1>7. /\ index' \in [Workers -> SUBSET GroupId]
        /\ \A v \in Workers : index'[v] \subseteq index[v] \cup known(groups)
    <2>1. CASE UNCHANGED index
      BY <2>1 DEF ConfigTypeOK
    <2>2. CASE index' = [index EXCEPT ![w] = @ \cup known(groups)]
      BY <1>1, <2>2 DEF ConfigTypeOK
    <2> QED BY <1>5, <2>1, <2>2
  <1>8. /\ faulted \subseteq faulted' /\ faulted' \subseteq Loads
        /\ failures' \in 0..MaxFailures /\ (Failure(t) => t \in faulted')
    BY <1>5, FailureEffect
  <1>9. /\ \A g \in ids : g[1] = p
        /\ ids \subseteq index[w] \cup groups
        /\ \/ ids # {} /\ ids \subseteq index[w]
           \/ ids = {g \in groups : g[1] = p}
           \/ t \in faulted'
    BY <1>5, <1>8
  <1>10. Resolves(t)
    BY <1>2, <1>6, <1>7, <1>9 DEF Resolves
  <1> QED BY <1>6, <1>7, <1>8, <1>10 DEF ResolvePath

\* The tags that are written keep what the project has.
LEMMA MergeFacts ==
    ASSUME NEW tags \in [service: Tag, team: Tag]
    PROVE  /\ MergeTags(NewTags(tags), tags) \in [service: Tag, team: Tag]
           /\ tags.team \in {"none", MergeTags(NewTags(tags), tags).team}
  <1> DEFINE m == MergeTags(NewTags(tags), tags)
  <1>1. m = [k \in {"service", "team"} |->
                IF tags[k] # "none" THEN tags[k] ELSE NewTags(tags)[k]]
    BY DEF MergeTags
  <1>2. m.service = IF tags.service # "none" THEN tags.service ELSE NewTags(tags).service
    BY <1>1
  <1>3. m.team = IF tags.team # "none" THEN tags.team ELSE NewTags(tags).team
    BY <1>1
  <1>4. NewTags(tags).service \in Tag /\ NewTags(tags).team \in Tag
    BY DEF NewTags, Tag
  <1>5. m = [service |-> m.service, team |-> m.team]
    BY <1>1
  <1> QED BY <1>2, <1>3, <1>4, <1>5

\* What is written is a project, with the groups of the load if groups are
\* updated.
LEMMA PreparedFacts ==
    ASSUME ConfigTypeOK, NEW t \in Loads
    PROVE  /\ Prepared(t) \in Project
           /\ Prepared(t).name = IF config.update_name THEN load[t].name
                                                       ELSE load[t].json.name
           /\ load[t].json.tags.team \in {"none", Prepared(t).tags.team}
           /\ Prepared(t).groups = IF config.update_groups
                 THEN load[t].orig \cup load[t].ids ELSE load[t].json.groups
  <1> DEFINE json == load[t].json
             tags == MergeTags(NewTags(json.tags), json.tags)
             repo == WithUrl[json.repo]
  <1>1. /\ json.name \in {"default", "dynamic"} /\ json.tags \in [service: Tag, team: Tag]
        /\ json.groups \in SUBSET GroupId /\ repo \in {"none", "url", "repoId", "imported"}
    BY LoadFields DEF Project, WithUrl
  <1>2. tags \in [service: Tag, team: Tag] /\ json.tags.team \in {"none", tags.team}
    BY <1>1, MergeFacts
  <1>3. Prepared(t) =
          [name |-> IF config.update_name THEN load[t].name ELSE json.name,
           tags |-> tags,
           groups |-> IF config.update_groups THEN load[t].orig \cup load[t].ids
                                              ELSE json.groups,
           repo |-> repo]
    BY DEF Prepared, GroupMemberships
  <1> HIDE DEF tags, repo
  <1>4. /\ load[t].name \in {"default", "dynamic"}
        /\ load[t].orig \cup load[t].ids \in SUBSET GroupId
    BY LoadFields
  <1>5. Prepared(t) \in Project
    BY <1>1, <1>2, <1>3, <1>4 DEF Project
  <1> QED BY <1>2, <1>3, <1>5

\* A load that has its groups creates, writes or is done.
Decides(t) ==
    /\ load[t].at = "resolve" /\ load[t].todo = <<>>
    /\ \/ /\ load[t].id = 0
          /\ load'[t] = [load[t] EXCEPT !.at = "create"]
       \/ /\ load[t].id # 0 /\ load[t].retried
          /\ \E json \in Project :
                /\ load'[t] = [load[t] EXCEPT !.at = "update", !.json = json]
                /\ json.name = load[t].json.name /\ json.tags = load[t].json.tags
                /\ json.groups = load[t].orig \cup load[t].ids
       \/ /\ load[t].id # 0 /\ ~load[t].retried
          /\ \E at \in {"update", "done"} :
                /\ load'[t] = [load[t] EXCEPT !.at = at, !.json = Prepared(t)]
                /\ at = "done" => Prepared(t) = load[t].json

\* A load that has resolved its paths decides.
LEMMA DecideEffect ==
    ASSUME ConfigTypeOK, NEW t \in Loads, GroupsResolved(t)
    PROVE  /\ load' \in [Loads -> Load] /\ Apart(t) /\ Decides(t)
           /\ UNCHANGED <<projects, groups, index, faulted, outdated, misnamed, stale,
                          edits, failures>>
  <1>1. /\ load[t].at = "resolve" /\ load[t].todo = <<>>
        /\ UNCHANGED <<projects, groups, index, faulted, outdated, misnamed, stale,
                       edits, failures>>
    BY DEF GroupsResolved, NoFailure
  <1>2. CASE load[t].id = 0 /\ Goto(t, "create")
    BY <1>1, <1>2, GotoEffect DEF Decides
  <1>3. CASE /\ load[t].id # 0 /\ load[t].retried
             /\ load' = [load EXCEPT ![t].at = "update",
                                     ![t].json.groups = GroupMemberships(t)]
    <2> DEFINE json == [load[t].json EXCEPT !.groups = GroupMemberships(t)]
               r == [load[t] EXCEPT !.at = "update", !.json = json]
    <2>1. /\ json \in Project /\ json.name = load[t].json.name
          /\ json.tags = load[t].json.tags /\ json.groups = load[t].orig \cup load[t].ids
      BY LoadFields DEF Project, GroupMemberships
    <2>2. load' = [load EXCEPT ![t] = r]
      BY <1>3
    <2> HIDE DEF json
    <2>3. r \in Load
      BY <2>1, LoadFields DEF Load
    <2>4. load' \in [Loads -> Load] /\ Apart(t) /\ load'[t] = r
      <3> HIDE DEF r
      <3> QED BY <2>2, <2>3, MoveLoad
    <2> QED BY <1>1, <1>3, <2>1, <2>4 DEF Decides
  <1>4. CASE /\ load[t].id # 0 /\ ~load[t].retried
             /\ load' = [load EXCEPT
                         ![t].at = IF ExecUpdate(t) THEN "update" ELSE "done",
                         ![t].json = Prepared(t)]
    <2> DEFINE at == IF ExecUpdate(t) THEN "update" ELSE "done"
               r == [load[t] EXCEPT !.at = at, !.json = Prepared(t)]
    <2>1. at \in {"update", "done"} /\ (at = "done" => Prepared(t) = load[t].json)
      BY DEF ExecUpdate
    <2>2. load' = [load EXCEPT ![t] = r]
      BY <1>4
    <2> HIDE DEF at
    <2>3. r \in Load
      BY <2>1, LoadFields, PreparedFacts DEF Load
    <2>4. load' \in [Loads -> Load] /\ Apart(t) /\ load'[t] = r
      <3> HIDE DEF r
      <3> QED BY <2>2, <2>3, MoveLoad
    <2> QED BY <1>1, <1>4, <2>1, <2>4 DEF Decides
  <1> QED BY <1>1, <1>2, <1>3, <1>4 DEF GroupsResolved

\* A load makes a project.
Makes(t) ==
    /\ load'[t] = [load[t] EXCEPT !.at = "done", !.json = Created(t),
                                  !.id = Len(projects) + 1]
    /\ projects' = Append(projects, Created(t))
    /\ \A i \in DOMAIN projects : projects[i].name # load[t].name
    /\ load[t].ids \subseteq groups
    /\ outdated' = outdated \cup (Loaded \ {t})
    /\ UNCHANGED stale

\* A load is refused a project.
IsRefused(t) ==
    /\ \/ \E i \in DOMAIN projects : projects[i].name = load[t].name
       \/ t \in stale'
    /\ \/ ~load[t].again /\ load'[t] = [load[t] EXCEPT !.at = "list", !.again = TRUE]
       \/ load[t].again /\ load'[t] = [load[t] EXCEPT !.at = "failed"]
       \/ t \in stale' /\ load'[t] = [load[t] EXCEPT !.at = "failed"]
    /\ stale \subseteq stale' /\ stale' \subseteq stale \cup {t}
    /\ UNCHANGED <<projects, outdated>>

\* The project that is made has the name and the groups of the load.
LEMMA CreatedFacts ==
    ASSUME ConfigTypeOK, NEW t \in Loads
    PROVE  /\ Created(t) \in Project
           /\ Created(t).name = load[t].name /\ Created(t).groups = load[t].ids
  <1>1. load[t].name \in {"default", "dynamic"} /\ load[t].ids \in SUBSET GroupId
    BY LoadFields
  <1> QED BY <1>1 DEF Created, Project, Tag

\* A load makes a project, is refused it, or fails.
LEMMA CreateEffect ==
    ASSUME ConfigTypeOK, NEW t \in Loads, Create(t)
    PROVE  /\ load' \in [Loads -> Load] /\ Apart(t) /\ load[t].at = "create"
           /\ \/ Makes(t) /\ UNCHANGED <<faulted, failures>>
              \/ IsRefused(t) /\ UNCHANGED <<faulted, failures>>
              \/ /\ load'[t] = [load[t] EXCEPT !.at = "failed"] /\ t \in faulted'
                 /\ UNCHANGED <<projects, outdated, stale>>
           /\ faulted \subseteq faulted' /\ faulted' \subseteq Loads
           /\ failures' \in 0..MaxFailures
           /\ UNCHANGED <<groups, index, misnamed, edits>>
  <1>1. load[t].at = "create" /\ UNCHANGED <<groups, index, misnamed, edits>>
    BY DEF Create
  <1>2. DOMAIN projects = 1..Len(projects) /\ Len(projects) \in Nat
    BY DEF ConfigTypeOK
  <1>3. Refused(0, Created(t)) <=>
           \/ \E i \in DOMAIN projects : projects[i].name = load[t].name
           \/ ~(load[t].ids \subseteq groups)
    BY <1>2, CreatedFacts DEF Refused
  <1>4. CASE /\ ~Refused(0, Created(t))
             /\ projects' = Append(projects, Created(t))
             /\ load' = [load EXCEPT ![t].at = "done", ![t].json = Created(t),
                                     ![t].id = Len(projects) + 1]
             /\ outdated' = outdated \cup (Loaded \ {t})
             /\ NoFailure /\ UNCHANGED stale
    <2> DEFINE r == [load[t] EXCEPT !.at = "done", !.json = Created(t),
                                    !.id = Len(projects) + 1]
    <2>1. r \in Load
      <3>1. Created(t) \in Project /\ Len(projects) + 1 \in Nat
        BY <1>2, CreatedFacts
      <3> QED BY <3>1, LoadFields DEF Load
    <2>2. load' = [load EXCEPT ![t] = r]
      BY <1>4
    <2>3. load' \in [Loads -> Load] /\ Apart(t) /\ load'[t] = r
      <3> HIDE DEF r
      <3> QED BY <2>1, <2>2, MoveLoad
    <2>4. Makes(t)
      <3>1. /\ projects' = Append(projects, Created(t))
            /\ outdated' = outdated \cup (Loaded \ {t}) /\ UNCHANGED stale
        BY <1>4
      <3>2. /\ \A i \in DOMAIN projects : projects[i].name # load[t].name
            /\ load[t].ids \subseteq groups
        BY <1>3, <1>4
      <3> QED BY <2>3, <3>1, <3>2, Zenon DEF Makes
    <2> QED BY <1>1, <1>4, <2>3, <2>4, FailureEffect DEF NoFailure
  <1>5. CASE /\ Refused(0, Created(t))
             /\ \/ ~load[t].again /\ load' = [load EXCEPT ![t].at = "list",
                                                          ![t].again = TRUE]
                \/ /\ load[t].again \/ ~(load[t].ids \subseteq groups)
                   /\ Goto(t, "failed")
             /\ stale' = stale \cup {u \in {t} : ~(load[u].ids \subseteq groups)}
             /\ NoFailure /\ UNCHANGED <<projects, outdated>>
    <2>1. /\ stale \subseteq stale' /\ stale' \subseteq stale \cup {t}
          /\ ~(load[t].ids \subseteq groups) => t \in stale'
      BY <1>5
    <2>2. \/ \E i \in DOMAIN projects : projects[i].name = load[t].name
          \/ t \in stale'
      BY <1>3, <1>5, <2>1
    <2>3. CASE ~load[t].again /\ load' = [load EXCEPT ![t].at = "list", ![t].again = TRUE]
      <3> DEFINE r == [load[t] EXCEPT !.at = "list", !.again = TRUE]
      <3>1. r \in Load
        BY LoadFields DEF Load
      <3>2. load' = [load EXCEPT ![t] = r]
        BY <2>3
      <3>3. load' \in [Loads -> Load] /\ Apart(t) /\ load'[t] = r
        <4> HIDE DEF r
        <4> QED BY <3>1, <3>2, MoveLoad
      <3>4. IsRefused(t)
        BY <1>5, <2>1, <2>2, <2>3, <3>3 DEF IsRefused
      <3> QED BY <1>1, <1>5, <3>3, <3>4, FailureEffect DEF NoFailure
    <2>4. CASE (load[t].again \/ ~(load[t].ids \subseteq groups)) /\ Goto(t, "failed")
      <3>1. /\ load' \in [Loads -> Load] /\ Apart(t)
            /\ load'[t] = [load[t] EXCEPT !.at = "failed"]
        BY <2>4, GotoEffect
      <3>2. IsRefused(t)
        BY <1>5, <2>1, <2>2, <2>4, <3>1 DEF IsRefused
      <3> QED BY <1>1, <1>5, <3>1, <3>2, FailureEffect DEF NoFailure
    <2> QED BY <1>5, <2>3, <2>4
  <1>6. CASE /\ Failure(t) /\ Goto(t, "failed")
             /\ UNCHANGED <<projects, outdated, stale>>
    BY <1>1, <1>6, GotoEffect, FailureEffect
  <1> QED BY <1>4, <1>5, <1>6 DEF Create

\* A load writes its project.
Writes(t) ==
    /\ load'[t] = [load[t] EXCEPT !.at = "done"]
    /\ projects' = [projects EXCEPT ![load[t].id] = load[t].json]
    /\ \A k \in DOMAIN projects :
          k # load[t].id => projects[k].name # load[t].json.name
    /\ load[t].json.groups \subseteq groups
    /\ outdated' = outdated \cup (Loaded \ {t})

\* A load fails to write its project.
Misses(t) ==
    /\ \/ load'[t] = [load[t] EXCEPT !.at = "purge"] /\ ~load[t].retried
       \/ load'[t] = [load[t] EXCEPT !.at = "failed"] /\ load[t].retried
    /\ \/ t \in faulted'
       \/ \E k \in DOMAIN projects :
             k # load[t].id /\ projects[k].name = load[t].json.name
       \/ ~(load[t].json.groups \subseteq groups)
    /\ UNCHANGED <<projects, outdated>>

\* A load writes its project or does not.
LEMMA UpdateEffect ==
    ASSUME ConfigTypeOK, NEW t \in Loads, Update(t)
    PROVE  /\ load' \in [Loads -> Load] /\ Apart(t) /\ load[t].at = "update"
           /\ Writes(t) \/ Misses(t)
           /\ faulted \subseteq faulted' /\ faulted' \subseteq Loads
           /\ failures' \in 0..MaxFailures
           /\ UNCHANGED <<groups, index, misnamed, stale, edits>>
  <1>1. load[t].at = "update" /\ UNCHANGED <<groups, index, misnamed, stale, edits>>
    BY DEF Update
  <1>2. DOMAIN projects = 1..Len(projects)
    BY DEF ConfigTypeOK
  <1>3. Refused(load[t].id, load[t].json) <=>
           \/ \E k \in DOMAIN projects :
                 k # load[t].id /\ projects[k].name = load[t].json.name
           \/ ~(load[t].json.groups \subseteq groups)
    BY <1>2 DEF Refused
  <1>4. CASE /\ ~Refused(load[t].id, load[t].json)
             /\ projects' = [projects EXCEPT ![load[t].id] = load[t].json]
             /\ outdated' = outdated \cup (Loaded \ {t})
             /\ Goto(t, "done")
             /\ NoFailure
    <2>1. /\ load' \in [Loads -> Load] /\ Apart(t)
          /\ load'[t] = [load[t] EXCEPT !.at = "done"]
      BY <1>4, GotoEffect
    <2>2. Writes(t)
      <3>1. /\ \A k \in DOMAIN projects :
                  k # load[t].id => projects[k].name # load[t].json.name
            /\ load[t].json.groups \subseteq groups
        BY <1>3, <1>4
      <3> QED BY <1>4, <2>1, <3>1, Zenon DEF Writes
    <2> QED BY <1>1, <1>4, <2>1, <2>2, FailureEffect
  <1>5. CASE /\ \/ Refused(load[t].id, load[t].json) /\ NoFailure
                \/ Failure(t)
             /\ Goto(t, IF load[t].retried THEN "failed" ELSE "purge")
             /\ UNCHANGED <<projects, outdated>>
    <2>1. /\ faulted \subseteq faulted' /\ faulted' \subseteq Loads
          /\ failures' \in 0..MaxFailures /\ (Failure(t) => t \in faulted')
      BY <1>5, FailureEffect
    <2>2. CASE load[t].retried
      <3>1. /\ load' \in [Loads -> Load] /\ Apart(t)
            /\ load'[t] = [load[t] EXCEPT !.at = "failed"]
        BY <1>5, <2>2, GotoEffect
      <3> QED BY <1>1, <1>3, <1>5, <2>1, <2>2, <3>1 DEF Misses
    <2>3. CASE ~load[t].retried
      <3>1. /\ load' \in [Loads -> Load] /\ Apart(t)
            /\ load'[t] = [load[t] EXCEPT !.at = "purge"]
        BY <1>5, <2>3, GotoEffect
      <3> QED BY <1>1, <1>3, <1>5, <2>1, <2>3, <3>1 DEF Misses
    <2> QED BY <2>2, <2>3
  <1> QED BY <1>4, <1>5 DEF Update

\* A load empties the cache of its worker and begins anew.
LEMMA PurgeEffect ==
    ASSUME ConfigTypeOK, NEW t \in Loads, PurgeCache(t)
    PROVE  /\ load' \in [Loads -> Load] /\ Apart(t) /\ load[t].at = "purge"
           /\ load'[t] = [load[t] EXCEPT !.at = "resolve", !.retried = TRUE,
                                         !.todo = GroupPaths, !.ids = {}]
           /\ index' \in [Workers -> SUBSET GroupId] /\ index'[WorkerOf[t]] = {}
           /\ \A w \in Workers : index'[w] \subseteq index[w]
           /\ UNCHANGED <<projects, groups, faulted, outdated, misnamed, stale,
                          edits, failures>>
  <1> DEFINE r == [load[t] EXCEPT !.at = "resolve", !.retried = TRUE,
                                  !.todo = GroupPaths, !.ids = {}]
  <1>1. r \in Load
    BY PathFacts, LoadFields DEF Load
  <1>2. load' = [load EXCEPT ![t] = r]
    BY DEF PurgeCache
  <1>3. load' \in [Loads -> Load] /\ Apart(t) /\ load'[t] = r
    <2> HIDE DEF r
    <2> QED BY <1>1, <1>2, MoveLoad
  <1>4. /\ index' \in [Workers -> SUBSET GroupId] /\ index'[WorkerOf[t]] = {}
        /\ \A w \in Workers : index'[w] \subseteq index[w]
    <2>1. index' = [index EXCEPT ![WorkerOf[t]] = {}] /\ WorkerOf[t] \in Workers
      BY ProjectConfigAssumption DEF PurgeCache
    <2> QED BY <2>1 DEF ConfigTypeOK
  <1> QED BY <1>3, <1>4 DEF PurgeCache, NoFailure

-----------------------------------------------------------------------------
(* The store.                                                              *)

\* A project is added, the others stay.
LEMMA MakesStore ==
    ASSUME ConfigTypeOK, NEW t \in Loads, Makes(t), NEW n, n = Len(projects) + 1
    PROVE  /\ projects' \in Seq(Project) /\ n \notin DOMAIN projects
           /\ DOMAIN projects' = DOMAIN projects \cup {n} /\ n # 0
           /\ projects'[n] = Created(t)
           /\ \A i \in DOMAIN projects : projects'[i] = projects[i]
  <1>1. projects \in Seq(Project) /\ Created(t) \in Project
    BY CreatedFacts DEF ConfigTypeOK
  <1>2. projects' = Append(projects, Created(t))
    BY DEF Makes
  <1> QED BY <1>1, <1>2, AppendProperties

\* One project changes, the others stay.
LEMMA WritesStore ==
    ASSUME ConfigTypeOK, NEW i \in DOMAIN projects, NEW json \in Project,
           projects' = [projects EXCEPT ![i] = json]
    PROVE  /\ projects' \in Seq(Project) /\ DOMAIN projects' = DOMAIN projects
           /\ projects'[i] = json
           /\ \A k \in DOMAIN projects : k # i => projects'[k] = projects[k]
  <1>1. projects \in Seq(Project)
    BY DEF ConfigTypeOK
  <1> QED BY <1>1, ExceptSeq

\* Someone makes a change in Checkmarx One.
LEMMA EditEffect ==
    ASSUME ConfigTypeOK, Edit
    PROVE  /\ edits' \in 0..MaxEdits
           /\ UNCHANGED <<config, index, load, faulted, misnamed, stale, failures>>
  BY ProjectConfigAssumption DEF ConfigTypeOK, Edit

\* The members of a deleted group leave it.
LEMMA DeleteStore ==
    ASSUME ConfigTypeOK, NEW g \in groups, DeleteGroup(g)
    PROVE  /\ projects' \in Seq(Project) /\ DOMAIN projects' = DOMAIN projects
           /\ \A i \in DOMAIN projects : /\ projects'[i].name = projects[i].name
                                         /\ projects'[i].groups = projects[i].groups \ {g}
           /\ groups' = groups \ {g} /\ outdated' = outdated \cup Resolving
  <1>1. projects' = [i \in DOMAIN projects |-> [projects[i] EXCEPT !.groups = @ \ {g}]]
    BY DEF DeleteGroup
  <1>2. \A i \in DOMAIN projects : projects[i] \in Project
    BY DEF ConfigTypeOK
  <1>3. DOMAIN projects = 1..Len(projects) /\ Len(projects) \in Nat
    BY DEF ConfigTypeOK
  <1>4. \A i \in DOMAIN projects :
           LET q == [projects[i] EXCEPT !.groups = @ \ {g}]
           IN  /\ q \in Project /\ q.name = projects[i].name
               /\ q.groups = projects[i].groups \ {g}
    BY <1>2 DEF Project
  <1>5. /\ DOMAIN projects' = DOMAIN projects
        /\ \A i \in DOMAIN projects : /\ projects'[i] \in Project
                                      /\ projects'[i].name = projects[i].name
                                      /\ projects'[i].groups = projects[i].groups \ {g}
    BY <1>1, <1>4
  <1>6. projects' \in [1..Len(projects) -> Project]
    <2> DEFINE f(i) == [projects[i] EXCEPT !.groups = @ \ {g}]
    <2>1. projects' = [i \in 1..Len(projects) |-> f(i)]
      BY <1>1, <1>3
    <2>2. \A i \in 1..Len(projects) : f(i) \in Project
      BY <1>3, <1>4
    <2> HIDE DEF f
    <2> QED BY <2>1, <2>2
  <1>7. projects' \in Seq(Project)
    BY <1>3, <1>6, SeqDef
  <1> QED BY <1>5, <1>7 DEF DeleteGroup

\* A project is put into a group of someone's own and tagged.
LEMMA EditStore ==
    ASSUME ConfigTypeOK, NEW i \in DOMAIN projects, EditProject(i)
    PROVE  /\ projects' \in Seq(Project) /\ DOMAIN projects' = DOMAIN projects
           /\ \A k \in DOMAIN projects :
                 /\ projects'[k].name = projects[k].name
                 /\ projects'[k].groups \subseteq projects[k].groups \cup {<<"own", 0>>}
           /\ groups' = groups \cup {<<"own", 0>>}
           /\ outdated' = outdated \cup Loaded
  <1> DEFINE tags == [projects[i].tags EXCEPT !.team = "other"]
             json == [projects[i] EXCEPT !.groups = @ \cup {<<"own", 0>>},
                                         !.tags = tags]
  <1>1. projects[i] \in Project
    BY DEF ConfigTypeOK
  <1>2. tags \in [service: Tag, team: Tag]
    BY <1>1 DEF Project, Tag
  <1>3. <<"own", 0>> \in GroupId
    BY DEF GroupId
  <1>4. projects' = [projects EXCEPT ![i] = json]
    BY DEF EditProject
  <1>5. /\ json \in Project /\ json.name = projects[i].name
        /\ json.groups = projects[i].groups \cup {<<"own", 0>>}
    <2> HIDE DEF tags
    <2> QED BY <1>1, <1>2, <1>3 DEF Project
  <1> HIDE DEF json
  <1> QED BY <1>4, <1>5, WritesStore DEF EditProject

\* Steps that only fill caches with groups that exist keep the store.
LEMMA QuietStore ==
    ASSUME ConfigTypeOK, StoreInv, UNCHANGED <<projects, groups>>,
           \A w \in Workers :
               index'[w] \subseteq index[w] \cup {g \in groups : g[1] \in Paths}
    PROVE  StoreInv'
  <1>1. {g \in groups : g[1] \in Paths} \subseteq PathGroup
    <2>1. \A g \in {<<"own", 0>>} : g[1] \notin Paths
      BY PathFacts
    <2> QED BY <2>1 DEF StoreInv
  <1>2. \A w \in Workers : index'[w] \subseteq PathGroup
    BY <1>1 DEF StoreInv
  <1> QED BY <1>2 DEF StoreInv

\* A project that is made has a name of its own and groups that exist.
LEMMA MakesKeepsStore ==
    ASSUME ConfigTypeOK, StoreInv, NEW t \in Loads, Makes(t), UNCHANGED <<groups, index>>
    PROVE  StoreInv'
  <1>1. PICK n :
           /\ n \notin DOMAIN projects
           /\ DOMAIN projects' = DOMAIN projects \cup {n}
           /\ projects'[n] = Created(t)
           /\ \A i \in DOMAIN projects : projects'[i] = projects[i]
    BY MakesStore
  <1>2. Created(t).name = load[t].name /\ Created(t).groups = load[t].ids
    BY CreatedFacts
  <1>3. /\ \A i \in DOMAIN projects : projects[i].name # load[t].name
        /\ load[t].ids \subseteq groups
    BY DEF Makes
  <1>4. \A i \in DOMAIN projects' : projects'[i].groups \subseteq groups
    BY <1>1, <1>2, <1>3 DEF StoreInv
  <1>5. \A i, k \in DOMAIN projects' : projects'[i].name = projects'[k].name => i = k
    BY <1>1, <1>2, <1>3 DEF StoreInv
  <1> QED BY <1>4, <1>5 DEF StoreInv

\* A project that is written keeps a name of its own.
LEMMA WritesKeepsStore ==
    ASSUME ConfigTypeOK, StoreInv, NEW t \in Loads, Writes(t), UNCHANGED <<groups, index>>,
           load[t].id \in DOMAIN projects
    PROVE  StoreInv' /\ projects' \in Seq(Project) /\ DOMAIN projects' = DOMAIN projects
  <1>1. load[t].json \in Project
    BY LoadFields
  <1>2. /\ projects' = [projects EXCEPT ![load[t].id] = load[t].json]
        /\ \A k \in DOMAIN projects :
              k # load[t].id => projects[k].name # load[t].json.name
        /\ load[t].json.groups \subseteq groups
    BY DEF Writes
  <1>3. /\ projects' \in Seq(Project) /\ DOMAIN projects' = DOMAIN projects
        /\ projects'[load[t].id] = load[t].json
        /\ \A k \in DOMAIN projects : k # load[t].id => projects'[k] = projects[k]
    BY <1>1, <1>2, WritesStore
  <1>4. \A i \in DOMAIN projects' : projects'[i].groups \subseteq groups
    BY <1>2, <1>3 DEF StoreInv
  <1>5. \A i, k \in DOMAIN projects' : projects'[i].name = projects'[k].name => i = k
    BY <1>2, <1>3 DEF StoreInv
  <1> QED BY <1>3, <1>4, <1>5 DEF StoreInv

\* An administrator's change keeps the types and the store.
Administers ==
    \/ \E g \in groups : DeleteGroup(g)
    \/ \E p \in Paths : CreateGroup(p)
    \/ \E i \in DOMAIN projects : EditProject(i)

\* A change by others outdates the loads that depend on it.
LEMMA AdministersEffect ==
    ASSUME ConfigTypeOK, StoreInv, Administers
    PROVE  /\ ConfigTypeOK' /\ StoreInv' /\ DOMAIN projects' = DOMAIN projects
           /\ \A i \in DOMAIN projects : projects'[i].name = projects[i].name
           /\ UNCHANGED <<config, index, load, faulted, misnamed, stale, failures>>
           /\ outdated \subseteq outdated' /\ Loaded \cap Resolving \subseteq outdated'
           /\ Resolving \subseteq outdated' \/ groups' = groups \cup {<<"own", 0>>}
  <1>1. Edit
    BY DEF Administers, DeleteGroup, CreateGroup, EditProject
  <1>2. /\ edits' \in 0..MaxEdits
        /\ UNCHANGED <<config, index, load, faulted, misnamed, stale, failures>>
    BY <1>1, EditEffect
  <1>3. Loaded \subseteq Loads /\ Resolving \subseteq Loads /\ outdated \subseteq Loads
    BY DEF Loaded, Resolving, ConfigTypeOK
  <1>4. ASSUME NEW g \in groups, DeleteGroup(g)
        PROVE  /\ projects' \in Seq(Project)
               /\ groups' \subseteq GroupId /\ outdated' \subseteq Loads
               /\ StoreInv' /\ DOMAIN projects' = DOMAIN projects
               /\ \A i \in DOMAIN projects : projects'[i].name = projects[i].name
               /\ Resolving \subseteq outdated' /\ outdated \subseteq outdated'
    <2>1. /\ projects' \in Seq(Project) /\ DOMAIN projects' = DOMAIN projects
          /\ \A i \in DOMAIN projects : /\ projects'[i].name = projects[i].name
                                        /\ projects'[i].groups = projects[i].groups \ {g}
          /\ groups' = groups \ {g} /\ outdated' = outdated \cup Resolving
      BY <1>4, DeleteStore
    <2>2. StoreInv'
      BY <1>2, <2>1 DEF StoreInv
    <2> QED BY <1>3, <2>1, <2>2 DEF ConfigTypeOK
  <1>5. ASSUME NEW p \in Paths, CreateGroup(p)
        PROVE  /\ projects' \in Seq(Project)
               /\ groups' \subseteq GroupId /\ outdated' \subseteq Loads
               /\ StoreInv' /\ DOMAIN projects' = DOMAIN projects
               /\ \A i \in DOMAIN projects : projects'[i].name = projects[i].name
               /\ Resolving \subseteq outdated' /\ outdated \subseteq outdated'
    <2>1. PICK n \in Nat : groups' = groups \cup {<<p, n>>}
      <3>1. 1 + edits + 1 \in Nat
        BY DEF ConfigTypeOK
      <3> QED BY <1>5, <3>1 DEF CreateGroup
    <2>2. /\ \A g \in groups : g[1] # p
          /\ outdated' = outdated \cup Resolving /\ UNCHANGED projects
      BY <1>5 DEF CreateGroup
    <2>3. groups' \subseteq GroupId /\ groups' \subseteq PathGroup \cup {<<"own", 0>>}
      BY <2>1 DEF GroupId, PathGroup, StoreInv, ConfigTypeOK
    <2>4. \A g, h \in groups' : g[1] = h[1] => g = h
      BY <2>1, <2>2 DEF StoreInv
    <2>5. StoreInv'
      BY <1>2, <2>1, <2>2, <2>3, <2>4 DEF StoreInv
    <2> QED BY <1>3, <2>2, <2>3, <2>5 DEF ConfigTypeOK
  <1>6. ASSUME NEW i \in DOMAIN projects, EditProject(i)
        PROVE  /\ projects' \in Seq(Project)
               /\ groups' \subseteq GroupId /\ outdated' \subseteq Loads
               /\ StoreInv' /\ DOMAIN projects' = DOMAIN projects
               /\ \A k \in DOMAIN projects : projects'[k].name = projects[k].name
               /\ Loaded \subseteq outdated' /\ outdated \subseteq outdated'
               /\ groups' = groups \cup {<<"own", 0>>}
    <2>1. /\ projects' \in Seq(Project) /\ DOMAIN projects' = DOMAIN projects
          /\ \A k \in DOMAIN projects :
                /\ projects'[k].name = projects[k].name
                /\ projects'[k].groups \subseteq projects[k].groups \cup {<<"own", 0>>}
          /\ groups' = groups \cup {<<"own", 0>>}
          /\ outdated' = outdated \cup Loaded
      BY <1>6, EditStore
    <2>2. groups' \subseteq GroupId /\ groups' \subseteq PathGroup \cup {<<"own", 0>>}
      BY <2>1 DEF GroupId, StoreInv, ConfigTypeOK
    <2>3. \A g \in PathGroup : g[1] \in Paths /\ g[1] # "own"
      BY PathFacts DEF PathGroup
    <2>4. \A g, h \in groups' : g[1] = h[1] => g = h
      BY <2>1, <2>3 DEF StoreInv
    <2>5. StoreInv'
      BY <1>2, <2>1, <2>2, <2>4 DEF StoreInv
    <2> QED BY <1>3, <2>1, <2>2, <2>5 DEF ConfigTypeOK
  <1>7. /\ projects' \in Seq(Project)
        /\ groups' \subseteq GroupId /\ outdated' \subseteq Loads
        /\ StoreInv' /\ DOMAIN projects' = DOMAIN projects
        /\ \A i \in DOMAIN projects : projects'[i].name = projects[i].name
        /\ Loaded \cap Resolving \subseteq outdated' /\ outdated \subseteq outdated'
        /\ Resolving \subseteq outdated' \/ groups' = groups \cup {<<"own", 0>>}
    BY <1>4, <1>5, <1>6 DEF Administers
  <1>8. ConfigTypeOK'
    BY <1>2, <1>7 DEF ConfigTypeOK
  <1> QED BY <1>2, <1>7, <1>8

-----------------------------------------------------------------------------
(* The loads.                                                              *)

\* The histories only grow.
Remembers ==
    /\ faulted \subseteq faulted' /\ outdated \subseteq outdated'
    /\ misnamed \subseteq misnamed' /\ stale \subseteq stale'

\* A load that does nothing is right as before, or outdated.
LEMMA LoadStays ==
    ASSUME ConfigTypeOK, StoreInv, NEW u \in Loads, LoadInv(u), Remembers,
           load'[u] = load[u], UNCHANGED config,
           DOMAIN projects \subseteq DOMAIN projects',
           u \in (Loaded \cap Resolving) \ outdated' =>
               /\ UNCHANGED <<projects, groups>>
               /\ index'[WorkerOf[u]] \subseteq index[WorkerOf[u]] \cup groups,
           u \in Resolving \ outdated' => groups' \in {groups, groups \cup {<<"own", 0>>}}
    PROVE  LoadInv(u)'
  <1>1. (u \in Loaded <=> u \in Loaded') /\ (u \in Resolving <=> u \in Resolving')
    BY DEF Loaded, Resolving
  <1>2. Shaped(u)'
    BY DEF LoadInv, Shaped
  <1>3. u \in Loaded => u \in Resolving
    BY DEF Loaded, Resolving, LoadInv, Shaped
  <1>4. UpToDate(u)'
    <2> SUFFICES ASSUME u \in Loaded', u \notin outdated'
                 PROVE  View(u)' /\ Fresh(u)'
      BY DEF UpToDate
    <2>1. View(u) /\ Fresh(u) /\ UNCHANGED <<projects, groups>>
          /\ index'[WorkerOf[u]] \subseteq index[WorkerOf[u]] \cup groups
      BY <1>1, <1>3 DEF LoadInv, UpToDate, Remembers
    <2>2. View(u)'
      BY <2>1 DEF View
    <2>3. Fresh(u)'
      BY <2>1 DEF Fresh
    <2> QED BY <2>2, <2>3
  <1>5. Covers(u)'
    <2> SUFFICES ASSUME u \in Resolving', u \notin outdated' \cup faulted',
                        load[u].id = 0 \/ config.update_groups,
                        load[u].ids \subseteq groups',
                        NEW g \in groups', g[1] \in Paths \ Pending(u)
                 PROVE  g \in load[u].ids
      BY DEF Covers, Pending
    <2>1. "own" \notin Paths
      BY PathFacts
    <2>2. g \in groups
      BY <1>1, <2>1
    <2>3. load[u].ids \subseteq groups
      <3>1. \A h \in load[u].ids : h[1] # "own"
        BY <2>1 DEF LoadInv, Shaped, PathGroup
      <3> QED BY <1>1, <3>1
    <2>4. u \in Resolving \ (outdated \cup faulted)
      BY <1>1 DEF Remembers
    <2> QED BY <2>2, <2>3, <2>4 DEF LoadInv, Covers
  <1>6. Retries(u)'
    BY DEF LoadInv, Retries, Remembers
  <1>7. Excused(u)'
    BY DEF LoadInv, Excused, Remembers
  <1> QED BY <1>2, <1>4, <1>5, <1>6, <1>7 DEF LoadInv

\* A load that was named has the dynamic name or is misnamed.
LEMMA NameKeeps ==
    ASSUME ConfigTypeOK, NEW t \in Loads, LoadInv(t), Name(t)
    PROVE  LoadInv(t)'
  <1>1. load[t] \in Load
    BY LoadFields
  <1>2. /\ load[t].at = "name"
        /\ \/ load'[t] = [load[t] EXCEPT !.at = "list", !.name = "dynamic"]
           \/ load'[t] = [load[t] EXCEPT !.at = "list"] /\ t \in misnamed'
        /\ misnamed \subseteq misnamed'
        /\ UNCHANGED <<projects, stale>>
    BY NameEffect
  <1>3. /\ load'[t].at = "list" /\ load'[t].id = load[t].id
        /\ load'[t].again = load[t].again /\ load'[t].ids = load[t].ids
        /\ load'[t].retried = load[t].retried
        /\ load'[t].name = "dynamic" \/ t \in misnamed'
    BY <1>1, <1>2 DEF Load
  <1>4. t \notin Loaded' /\ t \notin Resolving'
    BY <1>2, <1>3 DEF Loaded, Resolving, LoadInv, Shaped
  <1>5. Shaped(t)'
    BY <1>2, <1>3 DEF LoadInv, Shaped
  <1>6. Retries(t)'
    BY <1>2, <1>3 DEF LoadInv, Retries
  <1> QED BY <1>3, <1>4, <1>5, <1>6 DEF LoadInv, UpToDate, Covers, Excused

\* A load that fails has its reason, and is not asked anything any more.
LEMMA FailKeeps ==
    ASSUME ConfigTypeOK, NEW t \in Loads, LoadInv(t), Remembers, UNCHANGED projects,
           load'[t] = [load[t] EXCEPT !.at = "failed"],
           load[t].at # "name",
           t \in faulted' \cup outdated' \cup misnamed' \cup stale'
    PROVE  LoadInv(t)'
  <1>1. load[t] \in Load
    BY LoadFields
  <1>2. /\ load'[t].at = "failed" /\ load'[t].id = load[t].id
        /\ load'[t].again = load[t].again /\ load'[t].ids = load[t].ids
        /\ load'[t].retried = load[t].retried /\ load'[t].name = load[t].name
    BY <1>1 DEF Load
  <1>3. t \notin Loaded' /\ t \notin Resolving'
    BY <1>2 DEF Loaded, Resolving
  <1>4. Shaped(t)'
    BY <1>2 DEF LoadInv, Shaped
  <1>5. Retries(t)'
    BY <1>2 DEF LoadInv, Retries, Remembers
  <1> QED BY <1>3, <1>4, <1>5 DEF LoadInv, UpToDate, Covers, Excused

\* A load that found a project knows it as it is.
LEMMA ListKeeps ==
    ASSUME ConfigTypeOK, StoreInv, NEW t \in Loads, LoadInv(t), List(t),
           UNCHANGED config
    PROVE  LoadInv(t)'
  <1>1. /\ load[t].at = "list" /\ load[t] \in Load
        /\ \/ Listed(t)
           \/ load'[t] = [load[t] EXCEPT !.at = "failed"] /\ t \in faulted'
        /\ faulted \subseteq faulted'
        /\ UNCHANGED <<projects, groups, index, outdated, misnamed, stale, edits>>
    BY ListEffect, LoadFields
  <1>2. CASE load'[t] = [load[t] EXCEPT !.at = "failed"] /\ t \in faulted'
    BY <1>1, <1>2, FailKeeps DEF Remembers
  <1>3. CASE Listed(t)
    <2>1. PICK id \in Nat, json \in Project, paths \in Seq(Paths) :
            /\ load'[t] = [load[t] EXCEPT !.at = "resolve", !.id = id, !.json = json,
                              !.orig = json.groups, !.ids = {}, !.todo = paths]
            /\ id = 0 => Found(load[t].name) = {}
            /\ id # 0 =>
                  /\ id \in DOMAIN projects /\ json = projects[id]
                  /\ json.name \in {"default", load[t].name}
                  /\ \A k \in DOMAIN projects :
                        projects[k].name = load[t].name => json.name = load[t].name
            /\ id = 0 \/ config.update_groups => paths = GroupPaths
      BY <1>3 DEF Listed
    <2>2. /\ load'[t].at = "resolve" /\ load'[t].id = id /\ load'[t].json = json
          /\ load'[t].orig = json.groups /\ load'[t].ids = {} /\ load'[t].todo = paths
          /\ load'[t].name = load[t].name /\ load'[t].again = load[t].again
          /\ load'[t].retried = load[t].retried
      BY <1>1, <2>1 DEF Load
    <2>3. ~load[t].retried
      BY <1>1 DEF LoadInv, Shaped
    <2>4. Shaped(t)'
      BY <1>1, <2>1, <2>2, <2>3 DEF Shaped
    <2>5. UpToDate(t)'
      <3> SUFFICES ASSUME id # 0 PROVE View(t)' /\ Fresh(t)'
        BY <2>2 DEF UpToDate, Loaded
      <3>1. \A k \in DOMAIN projects : k # id => projects[k].name # load[t].name
        BY <2>1 DEF StoreInv
      <3>2. View(t)'
        BY <1>1, <2>1, <2>2, <2>3, <3>1 DEF View
      <3> QED BY <2>2, <2>3, <3>2 DEF Fresh
    <2>6. Covers(t)'
      <3>1. paths = GroupPaths => Paths \ Pending(t)' = {}
        BY <2>2 DEF Paths, Pending
      <3>2. id = 0 \/ config'.update_groups => paths = GroupPaths
        BY <2>1
      <3> QED BY <2>2, <3>1, <3>2 DEF Covers
    <2>7. Retries(t)'
      <3>1. id = 0 /\ load[t].name = "dynamic" => DOMAIN projects = {}
        BY <2>1, NothingFound
      <3> QED BY <1>1, <2>2, <3>1 DEF LoadInv, Retries
    <2> QED BY <2>2, <2>4, <2>5, <2>6, <2>7 DEF LoadInv, Excused
  <1> QED BY <1>1, <1>2, <1>3

\* What is pending without its head.
LEMMA TailPending ==
    ASSUME NEW s \in Seq(Paths), s # <<>>, NEW k \in 1..Len(s)
    PROVE  s[k] = Head(s) \/ \E j \in 1..Len(Tail(s)) : Tail(s)[j] = s[k]
  <1>1. Len(Tail(s)) = Len(s) - 1 /\ \A j \in 1..Len(Tail(s)) : Tail(s)[j] = s[j + 1]
    BY HeadTailProperties
  <1>2. CASE k = 1
    BY <1>2
  <1>3. CASE k # 1
    <2>1. k - 1 \in 1..Len(Tail(s)) /\ (k - 1) + 1 = k
      BY <1>1, <1>3
    <2>2. Tail(s)[k - 1] = s[(k - 1) + 1]
      BY <1>1, <2>1
    <2> QED BY <2>1, <2>2
  <1> QED BY <1>2, <1>3

\* A resolved path is covered, from the cache or by the service.
LEMMA ResolveKeeps ==
    ASSUME ConfigTypeOK, StoreInv, NEW t \in Loads, LoadInv(t), ResolvePath(t),
           UNCHANGED config
    PROVE  LoadInv(t)'
  <1> DEFINE p == Head(load[t].todo)
             w == WorkerOf[t]
  <1>1. /\ load[t] \in Load /\ Resolves(t) /\ faulted \subseteq faulted'
        /\ UNCHANGED <<projects, groups, outdated, misnamed, stale, edits>>
    BY ResolveEffect, LoadFields
  <1>2. PICK ids \in SUBSET GroupId :
           /\ load'[t] = [load[t] EXCEPT !.todo = Tail(load[t].todo),
                                         !.ids = load[t].ids \cup ids]
           /\ \A g \in ids : g[1] = p
           /\ ids \subseteq index[w] \cup groups
           /\ \/ ids # {} /\ ids \subseteq index[w]
              \/ ids = {g \in groups : g[1] = p}
              \/ t \in faulted'
    BY <1>1 DEF Resolves
  <1>3. /\ load[t].at = "resolve" /\ load[t].todo # <<>> /\ load[t].todo \in Seq(Paths)
        /\ \A v \in Workers : index'[v] \subseteq index[v] \cup {g \in groups : g[1] = p}
    BY <1>1, LoadFields DEF Resolves
  <1>4. /\ load'[t].at = "resolve"
        /\ load'[t].id = load[t].id /\ load'[t].json = load[t].json
        /\ load'[t].orig = load[t].orig /\ load'[t].name = load[t].name
        /\ load'[t].again = load[t].again /\ load'[t].retried = load[t].retried
        /\ load'[t].todo = Tail(load[t].todo) /\ load'[t].ids = load[t].ids \cup ids
    BY <1>1, <1>2, <1>3 DEF Load
  <1>5. p \in Paths /\ w \in Workers
    BY <1>3, HeadTailProperties, ProjectConfigAssumption
  <1>6. ids \subseteq PathGroup
    <2>1. \A g \in {<<"own", 0>>} : g[1] \notin Paths
      BY PathFacts
    <2>2. index[w] \cup groups \subseteq PathGroup \cup {<<"own", 0>>}
      BY <1>5 DEF StoreInv
    <2> QED BY <1>2, <1>5, <2>1, <2>2
  <1>7. Shaped(t)'
    BY <1>1, <1>3, <1>4, <1>6 DEF LoadInv, Shaped
  <1>8. UpToDate(t)'
    <2> SUFFICES ASSUME t \in Loaded', t \notin outdated'
                 PROVE  View(t)' /\ Fresh(t)'
      BY DEF UpToDate
    <2>1. View(t) /\ Fresh(t)
      BY <1>1, <1>3, <1>4 DEF LoadInv, UpToDate, Loaded
    <2>2. View(t)'
      BY <1>1, <1>3, <1>4, <2>1 DEF View
    <2>3. Fresh(t)'
      BY <1>1, <1>2, <1>3, <1>4, <1>5, <2>1 DEF Fresh
    <2> QED BY <2>2, <2>3
  <1>9. Covers(t)'
    <2> SUFFICES ASSUME t \notin outdated \cup faulted',
                        load[t].id = 0 \/ config.update_groups,
                        load[t].ids \cup ids \subseteq groups,
                        NEW g \in groups, g[1] \in Paths, g[1] \notin Pending(t)'
                 PROVE  g \in load[t].ids \cup ids
      BY <1>1, <1>4 DEF Covers
    <2>1. CASE g[1] = p
      <3>1. CASE ids # {} /\ ids \subseteq index[w]
        <4>1. PICK h \in ids : h \in groups /\ h[1] = g[1]
          BY <1>2, <2>1, <3>1
        <4> QED BY <4>1 DEF StoreInv
      <3> QED BY <1>2, <2>1, <3>1
    <2>2. CASE g[1] # p
      <3>1. g[1] \notin Pending(t)
        <4> SUFFICES ASSUME NEW k \in 1..Len(load[t].todo), load[t].todo[k] = g[1]
                     PROVE  FALSE
          BY DEF Pending
        <4>1. PICK j \in 1..Len(Tail(load[t].todo)) : Tail(load[t].todo)[j] = g[1]
          BY <1>3, <2>2, TailPending
        <4> QED BY <1>4, <4>1 DEF Pending
      <3>2. t \in Resolving \ (outdated \cup faulted)
        BY <1>1, <1>3 DEF Resolving
      <3> QED BY <3>1, <3>2 DEF LoadInv, Covers
    <2> QED BY <2>1, <2>2
  <1>10. Retries(t)'
    BY <1>1, <1>3, <1>4 DEF LoadInv, Retries
  <1> QED BY <1>4, <1>7, <1>8, <1>9, <1>10 DEF LoadInv, Excused

\* What a load is about to write has all that the project has.
LEMMA DecideKeeps ==
    ASSUME ConfigTypeOK, NEW t \in Loads, LoadInv(t), GroupsResolved(t),
           UNCHANGED config
    PROVE  LoadInv(t)'
  <1>1. /\ load[t] \in Load /\ Decides(t)
        /\ UNCHANGED <<projects, groups, index, faulted, outdated, misnamed, stale>>
    BY DecideEffect, LoadFields
  <1>2. load[t].at = "resolve" /\ load[t].todo = <<>>
    BY <1>1 DEF Decides
  <1>3. PICK at \in {"create", "update", "done"}, json \in Project :
           /\ load'[t] = [load[t] EXCEPT !.at = at, !.json = json]
           /\ at = "create" <=> load[t].id = 0
           /\ load[t].id # 0 /\ load[t].retried =>
                 /\ at = "update"
                 /\ json.name = load[t].json.name /\ json.tags = load[t].json.tags
                 /\ json.groups = load[t].orig \cup load[t].ids
           /\ load[t].id # 0 /\ ~load[t].retried => json = Prepared(t)
    <2>1. CASE load[t].id = 0 /\ load'[t] = [load[t] EXCEPT !.at = "create"]
      <3>1. load'[t] = [load[t] EXCEPT !.at = "create", !.json = load[t].json]
        BY <1>1, <2>1 DEF Load
      <3> QED BY <2>1, <3>1, LoadFields
    <2>2. CASE /\ load[t].id # 0 /\ load[t].retried
               /\ \E json \in Project :
                     /\ load'[t] = [load[t] EXCEPT !.at = "update", !.json = json]
                     /\ json.name = load[t].json.name /\ json.tags = load[t].json.tags
                     /\ json.groups = load[t].orig \cup load[t].ids
      BY <2>2
    <2>3. CASE /\ load[t].id # 0 /\ ~load[t].retried
               /\ \E at \in {"update", "done"} :
                     /\ load'[t] = [load[t] EXCEPT !.at = at, !.json = Prepared(t)]
                     /\ at = "done" => Prepared(t) = load[t].json
      BY <2>3, PreparedFacts
    <2> QED BY <1>1, <2>1, <2>2, <2>3 DEF Decides
  <1>4. /\ load'[t].at = at /\ load'[t].id = load[t].id /\ load'[t].json = json
        /\ load'[t].orig = load[t].orig /\ load'[t].name = load[t].name
        /\ load'[t].again = load[t].again /\ load'[t].retried = load[t].retried
        /\ load'[t].todo = load[t].todo /\ load'[t].ids = load[t].ids
    BY <1>1, <1>3 DEF Load
  <1>5. Shaped(t)'
    BY <1>1, <1>2, <1>3, <1>4 DEF LoadInv, Shaped
  <1>6. UpToDate(t)'
    <2> SUFFICES ASSUME t \in Loaded', t \notin outdated'
                 PROVE  View(t)' /\ Fresh(t)'
      BY DEF UpToDate
    <2>1. View(t) /\ Fresh(t) /\ load[t].id # 0 /\ at = "update"
      BY <1>1, <1>2, <1>3, <1>4 DEF LoadInv, UpToDate, Loaded
    <2>2. Fresh(t)'
      BY <1>1, <1>4, <2>1 DEF Fresh
    <2>3. /\ \A k \in DOMAIN projects :
                k # load[t].id => projects[k].name # load[t].name
          /\ load[t].orig = projects[load[t].id].groups
      BY <2>1 DEF View
    <2>4. /\ json.name = IF config.update_name THEN load[t].name
                                               ELSE projects[load[t].id].name
          /\ projects[load[t].id].tags.team \in {"none", json.tags.team}
          /\ projects[load[t].id].groups \subseteq json.groups
          /\ load[t].retried \/ config.update_groups =>
                json.groups = load[t].orig \cup load[t].ids
      <3>1. CASE load[t].retried
        BY <1>2, <1>3, <2>1, <2>3, <3>1 DEF View
      <3>2. CASE ~load[t].retried
        <4>1. json = Prepared(t) /\ load[t].json = projects[load[t].id]
          BY <1>2, <1>3, <2>1, <3>2 DEF View
        <4> QED BY <2>3, <3>2, <4>1, PreparedFacts
      <3> QED BY <3>1, <3>2
    <2>5. View(t)'
      BY <1>1, <1>4, <2>1, <2>3, <2>4 DEF View
    <2> QED BY <2>2, <2>5
  <1>7. Covers(t)'
    <2>1. t \in Resolving
      BY <1>2 DEF Resolving
    <2>2. Pending(t)' = Pending(t)
      BY <1>4 DEF Pending
    <2> QED BY <1>1, <1>4, <2>1, <2>2 DEF LoadInv, Covers
  <1>8. Retries(t)'
    BY <1>1, <1>2, <1>3, <1>4 DEF LoadInv, Retries
  <1> QED BY <1>4, <1>5, <1>6, <1>7, <1>8 DEF LoadInv, Excused

\* After a purge the cache has nothing that is gone.
LEMMA PurgeKeeps ==
    ASSUME ConfigTypeOK, NEW t \in Loads, LoadInv(t), PurgeCache(t), UNCHANGED config
    PROVE  LoadInv(t)'
  <1>1. /\ load[t] \in Load /\ load[t].at = "purge"
        /\ load'[t] = [load[t] EXCEPT !.at = "resolve", !.retried = TRUE,
                                      !.todo = GroupPaths, !.ids = {}]
        /\ index'[WorkerOf[t]] = {}
        /\ UNCHANGED <<projects, groups, faulted, outdated, misnamed, stale>>
    BY PurgeEffect, LoadFields
  <1>2. /\ load'[t].at = "resolve"
        /\ load'[t].id = load[t].id /\ load'[t].json = load[t].json
        /\ load'[t].orig = load[t].orig /\ load'[t].name = load[t].name
        /\ load'[t].again = load[t].again /\ load'[t].retried = TRUE
        /\ load'[t].todo = GroupPaths /\ load'[t].ids = {}
    BY <1>1 DEF Load
  <1>3. Shaped(t)'
    BY <1>1, <1>2 DEF LoadInv, Shaped
  <1>4. UpToDate(t)'
    <2> SUFFICES ASSUME t \in Loaded', t \notin outdated'
                 PROVE  View(t)' /\ Fresh(t)'
      BY DEF UpToDate
    <2>1. View(t)
      BY <1>1, <1>2 DEF LoadInv, UpToDate, Loaded
    <2>2. Fresh(t)'
      BY <1>1, <1>2 DEF Fresh
    <2>3. View(t)'
      BY <1>1, <1>2, <2>1 DEF View
    <2> QED BY <2>2, <2>3
  <1>5. Covers(t)'
    BY <1>2 DEF Covers, Paths, Pending
  <1>6. Retries(t)'
    BY <1>1, <1>2 DEF LoadInv, Shaped, Retries
  <1> QED BY <1>2, <1>3, <1>4, <1>5, <1>6 DEF LoadInv, Excused

\* A load refused because of the name finds the project next time.
LEMMA CreateKeeps ==
    ASSUME ConfigTypeOK, NEW t \in Loads, LoadInv(t), Create(t)
    PROVE  LoadInv(t)'
  <1>1. /\ load[t] \in Load /\ load[t].at = "create"
        /\ \/ Makes(t)
           \/ IsRefused(t)
           \/ /\ load'[t] = [load[t] EXCEPT !.at = "failed"] /\ t \in faulted'
              /\ UNCHANGED <<projects, outdated, stale>>
        /\ faulted \subseteq faulted'
        /\ UNCHANGED <<groups, index, misnamed, edits>>
    BY CreateEffect, LoadFields
  <1>2. load[t].id = 0 /\ ~load[t].retried /\ (load[t].again => t \in misnamed \cup stale)
    BY <1>1 DEF LoadInv, Shaped, Retries
  <1>3. CASE Makes(t)
    <2>1. PICK n :
             /\ load'[t] = [load[t] EXCEPT !.at = "done", !.json = Created(t), !.id = n]
             /\ DOMAIN projects' = DOMAIN projects \cup {n} /\ n # 0
             /\ UNCHANGED stale
      <3>1. PICK n : n = Len(projects) + 1
        OBVIOUS
      <3>2. DOMAIN projects' = DOMAIN projects \cup {n} /\ n # 0
        BY <1>3, <3>1, MakesStore
      <3> QED BY <1>3, <3>1, <3>2 DEF Makes
    <2>2. /\ load'[t].at = "done" /\ load'[t].id = n /\ load'[t].name = load[t].name
          /\ load'[t].ids = load[t].ids
      BY <1>1, <2>1 DEF Load
    <2>3. t \notin Loaded' /\ t \notin Resolving'
      BY <2>2 DEF Loaded, Resolving
    <2>4. Shaped(t)'
      BY <1>1, <2>1, <2>2 DEF LoadInv, Shaped
    <2>5. Retries(t)'
      BY <1>1, <2>1, <2>2 DEF LoadInv, Retries
    <2> QED BY <2>2, <2>3, <2>4, <2>5 DEF LoadInv, UpToDate, Covers, Excused
  <1>4. CASE IsRefused(t)
    <2>1. Remembers /\ UNCHANGED projects
      BY <1>1, <1>4 DEF Remembers, IsRefused
    <2>2. CASE /\ load'[t] = [load[t] EXCEPT !.at = "failed"]
               /\ load[t].again \/ t \in stale'
      <3>1. t \in misnamed' \cup stale'
        BY <1>1, <1>2, <2>1, <2>2 DEF Remembers
      <3> QED BY <1>1, <2>1, <2>2, <3>1, FailKeeps
    <2>3. CASE load'[t] = [load[t] EXCEPT !.at = "list", !.again = TRUE]
      <3>1. /\ load'[t].at = "list"
            /\ load'[t].id = load[t].id /\ load'[t].name = load[t].name
            /\ load'[t].ids = load[t].ids /\ load'[t].retried = load[t].retried
        BY <1>1, <2>3 DEF Load
      <3>2. t \notin Loaded' /\ t \notin Resolving'
        BY <1>2, <3>1 DEF Loaded, Resolving
      <3>3. Shaped(t)'
        BY <1>2, <3>1 DEF LoadInv, Shaped
      <3>4. t \notin misnamed' \cup stale' => DOMAIN projects' # {}
        BY <1>4, <2>1 DEF IsRefused
      <3>5. Retries(t)'
        BY <1>1, <2>1, <3>1, <3>4 DEF LoadInv, Retries, Remembers
      <3> QED BY <3>1, <3>2, <3>3, <3>5 DEF LoadInv, UpToDate, Covers, Excused
    <2> QED BY <1>4, <2>2, <2>3 DEF IsRefused
  <1>5. CASE /\ load'[t] = [load[t] EXCEPT !.at = "failed"] /\ t \in faulted'
             /\ UNCHANGED <<projects, outdated, stale>>
    BY <1>1, <1>5, FailKeeps DEF Remembers
  <1> QED BY <1>1, <1>3, <1>4, <1>5

\* The second update of a load that is up to date is not refused.
LEMMA UpdateKeepsLoad ==
    ASSUME ConfigTypeOK, StoreInv, NEW t \in Loads, LoadInv(t), Update(t),
           UNCHANGED config
    PROVE  LoadInv(t)'
  <1>1. /\ load[t] \in Load /\ load[t].at = "update"
        /\ Writes(t) \/ Misses(t)
        /\ faulted \subseteq faulted'
        /\ UNCHANGED <<groups, index, misnamed, stale, edits>>
    BY UpdateEffect, LoadFields
  <1>2. load[t].id # 0 /\ load[t].id \in DOMAIN projects
    BY <1>1 DEF LoadInv, Shaped
  <1>3. CASE Writes(t)
    <2>1. load'[t] = [load[t] EXCEPT !.at = "done"]
      BY <1>3 DEF Writes
    <2>2. /\ load'[t].at = "done" /\ load'[t].id = load[t].id
          /\ load'[t].name = load[t].name /\ load'[t].again = load[t].again
          /\ load'[t].ids = load[t].ids /\ load'[t].retried = load[t].retried
      BY <1>1, <2>1 DEF Load
    <2>3. t \notin Loaded' /\ t \notin Resolving'
      BY <2>2 DEF Loaded, Resolving
    <2>4. DOMAIN projects' = DOMAIN projects
      BY <1>1, <1>2, <1>3, WritesKeepsStore
    <2>5. Shaped(t)'
      BY <2>2, <2>4 DEF LoadInv, Shaped
    <2>6. Retries(t)'
      BY <1>1, <2>2, <2>4 DEF LoadInv, Retries
    <2> QED BY <2>2, <2>3, <2>5, <2>6 DEF LoadInv, UpToDate, Covers, Excused
  <1>4. CASE Misses(t)
    <2>1. UNCHANGED <<projects, outdated>> /\ Remembers
      BY <1>1, <1>4 DEF Misses, Remembers
    <2>2. CASE load'[t] = [load[t] EXCEPT !.at = "purge"] /\ ~load[t].retried
      <3>1. /\ load'[t].at = "purge"
            /\ load'[t].id = load[t].id /\ load'[t].json = load[t].json
            /\ load'[t].orig = load[t].orig /\ load'[t].name = load[t].name
            /\ load'[t].again = load[t].again /\ load'[t].retried = load[t].retried
            /\ load'[t].todo = load[t].todo /\ load'[t].ids = load[t].ids
        BY <1>1, <2>2 DEF Load
      <3>2. Shaped(t)'
        BY <1>1, <2>1, <3>1 DEF LoadInv, Shaped
      <3>3. UpToDate(t)'
        <4> SUFFICES ASSUME t \in Loaded', t \notin outdated'
                     PROVE  View(t)' /\ Fresh(t)'
          BY DEF UpToDate
        <4>1. View(t)
          BY <1>1, <1>2, <2>1 DEF LoadInv, UpToDate, Loaded
        <4>2. View(t)'
          BY <1>1, <2>1, <3>1, <4>1 DEF View
        <4> QED BY <2>2, <3>1, <4>2 DEF Fresh
      <3>4. Covers(t)'
        <4>1. t \in Resolving
          BY <1>1 DEF Resolving
        <4>2. Pending(t)' = Pending(t)
          BY <3>1 DEF Pending
        <4> QED BY <1>1, <2>1, <3>1, <4>1, <4>2 DEF LoadInv, Covers
      <3>5. Retries(t)'
        BY <1>1, <2>1, <3>1 DEF LoadInv, Retries
      <3> QED BY <3>1, <3>2, <3>3, <3>4, <3>5 DEF LoadInv, Excused
    <2>3. CASE load'[t] = [load[t] EXCEPT !.at = "failed"] /\ load[t].retried
      <3>1. t \in faulted' \cup outdated'
        <4> SUFFICES ASSUME t \notin faulted', t \notin outdated
                     PROVE  FALSE
          BY <2>1
        <4>1. View(t) /\ Fresh(t)
          BY <1>1, <1>2 DEF LoadInv, UpToDate, Loaded
        <4>2. load[t].json.groups \subseteq groups
          BY <1>1, <1>2, <2>3, <4>1 DEF View, Fresh, StoreInv
        <4>3. \A k \in DOMAIN projects :
                 k # load[t].id => projects[k].name # load[t].json.name
          BY <1>1, <1>2, <4>1 DEF View, StoreInv
        <4> QED BY <1>4, <4>2, <4>3 DEF Misses
      <3> QED BY <1>1, <2>1, <2>3, <3>1, FailKeeps
    <2> QED BY <1>4, <2>2, <2>3 DEF Misses
  <1> QED BY <1>1, <1>3, <1>4

-----------------------------------------------------------------------------
(* One project.                                                            *)

\* Names change to the dynamic name, if at all.
Renames ==
    /\ DOMAIN projects' = DOMAIN projects
    /\ \A i \in DOMAIN projects :
          \/ projects'[i].name = projects[i].name
          \/ config.update_name /\ projects'[i].name = "dynamic"

\* A load that does nothing sees names change to the dynamic name only.
LEMMA SingleStays ==
    ASSUME ConfigTypeOK, NEW u \in Loads, LoadInv(u), SingleAt(u), load'[u] = load[u],
           Renames, UNCHANGED config
    PROVE  SingleAt(u)'
  <1>1. u \in Loaded' => u \in Loaded /\ load[u].id \in DOMAIN projects
    BY DEF Loaded, LoadInv, Shaped
  <1>2. load[u].at \in {"resolve", "create"} /\ load[u].id = 0 =>
           \A i \in DOMAIN projects' : projects'[i].name = "dynamic"
    BY DEF SingleAt, Renames
  <1>3. u \in Loaded /\ ~config.update_name =>
           load[u].json.name = projects'[load[u].id].name
    BY <1>1 DEF SingleAt, Renames, Loaded
  <1>4. u \in Loaded /\ config.update_name =>
           (load[u].at # "resolve" \/ load[u].retried => load[u].json.name = "dynamic")
    BY DEF SingleAt
  <1> QED BY <1>1, <1>2, <1>3, <1>4 DEF SingleAt

\* The step of a load that makes no project and writes none.
LEMMA SingleStep ==
    ASSUME ConfigTypeOK, NEW t \in Loads, LoadInv(t), SingleAt(t), UNCHANGED config,
           t \notin misnamed,
           Name(t) \/ List(t) \/ ResolvePath(t) \/ GroupsResolved(t) \/ PurgeCache(t)
    PROVE  SingleAt(t)' /\ UNCHANGED projects
  <1>1. load[t] \in Load
    BY LoadFields
  <1>2. load[t].at # "name" => load[t].name = "dynamic"
    BY DEF LoadInv, Retries
  <1>3. CASE Name(t)
    <2>1. /\ \/ load'[t] = [load[t] EXCEPT !.at = "list", !.name = "dynamic"]
             \/ load'[t] = [load[t] EXCEPT !.at = "list"]
          /\ load[t].at = "name" /\ UNCHANGED projects
      BY <1>3, NameEffect
    <2>2. load'[t].at = "list" /\ load'[t].id = load[t].id /\ load[t].id = 0
      BY <1>1, <2>1 DEF Load, LoadInv, Shaped
    <2> QED BY <2>1, <2>2 DEF SingleAt, Loaded
  <1>4. CASE List(t)
    <2>1. /\ Listed(t) \/ load'[t] = [load[t] EXCEPT !.at = "failed"]
          /\ load[t].at = "list" /\ UNCHANGED projects
      BY <1>4, ListEffect
    <2>2. CASE load'[t] = [load[t] EXCEPT !.at = "failed"]
      <3>1. load'[t].at = "failed"
        BY <1>1, <2>2 DEF Load
      <3> QED BY <2>1, <3>1 DEF SingleAt, Loaded
    <2>3. CASE Listed(t)
      <3>1. PICK id \in Nat, json \in Project, paths \in Seq(Paths) :
              /\ load'[t] = [load[t] EXCEPT !.at = "resolve", !.id = id, !.json = json,
                                !.orig = json.groups, !.ids = {}, !.todo = paths]
              /\ id = 0 => Found(load[t].name) = {}
              /\ id # 0 => id \in DOMAIN projects /\ json = projects[id]
        BY <2>3 DEF Listed
      <3>2. /\ load'[t].at = "resolve" /\ load'[t].id = id /\ load'[t].json = json
            /\ load'[t].retried = load[t].retried /\ ~load[t].retried
        BY <1>1, <2>1, <3>1 DEF Load, LoadInv, Shaped
      <3>3. id = 0 => DOMAIN projects = {}
        BY <1>2, <2>1, <3>1, NothingFound
      <3> QED BY <2>1, <3>1, <3>2, <3>3 DEF SingleAt, Loaded
    <2> QED BY <2>1, <2>2, <2>3
  <1>5. CASE ResolvePath(t)
    <2>1. Resolves(t) /\ UNCHANGED projects
      BY <1>5, ResolveEffect
    <2>2. /\ load[t].at = "resolve" /\ load'[t].at = "resolve" /\ load'[t].id = load[t].id
          /\ load'[t].json = load[t].json /\ load'[t].retried = load[t].retried
      BY <1>1, <2>1 DEF Load, Resolves
    <2> QED BY <2>1, <2>2 DEF SingleAt, Loaded
  <1>6. CASE GroupsResolved(t)
    <2>1. Decides(t) /\ UNCHANGED projects
      BY <1>6, DecideEffect
    <2>2. load[t].at = "resolve"
      BY <2>1 DEF Decides
    <2>3. CASE load[t].id = 0 /\ load'[t] = [load[t] EXCEPT !.at = "create"]
      <3>1. load'[t].at = "create" /\ load'[t].id = 0
        BY <1>1, <2>3 DEF Load
      <3> QED BY <2>1, <2>2, <2>3, <3>1 DEF SingleAt, Loaded
    <2>4. ASSUME load[t].id # 0, load[t].retried, NEW json \in Project,
                 load'[t] = [load[t] EXCEPT !.at = "update", !.json = json],
                 json.name = load[t].json.name
          PROVE  SingleAt(t)'
      <3>1. /\ load'[t].at = "update" /\ load'[t].json = json /\ load'[t].id = load[t].id
        BY <1>1, <2>4 DEF Load
      <3> QED BY <2>1, <2>2, <2>4, <3>1 DEF SingleAt, Loaded
    <2>5. ASSUME load[t].id # 0, ~load[t].retried, NEW at \in {"update", "done"},
                 load'[t] = [load[t] EXCEPT !.at = at, !.json = Prepared(t)]
          PROVE  SingleAt(t)'
      <3>1. /\ load'[t].at = at /\ load'[t].json = Prepared(t) /\ load'[t].id = load[t].id
        BY <1>1, <2>5 DEF Load
      <3>2. Prepared(t).name = IF config.update_name THEN "dynamic" ELSE load[t].json.name
        BY <1>2, <2>2, PreparedFacts
      <3> QED BY <2>1, <2>2, <2>5, <3>1, <3>2 DEF SingleAt, Loaded
    <2> QED BY <2>1, <2>3, <2>4, <2>5 DEF Decides
  <1>7. CASE PurgeCache(t)
    <2>1. /\ load'[t] = [load[t] EXCEPT !.at = "resolve", !.retried = TRUE,
                                        !.todo = GroupPaths, !.ids = {}]
          /\ load[t].at = "purge" /\ UNCHANGED projects
      BY <1>7, PurgeEffect
    <2>2. /\ load'[t].at = "resolve" /\ load'[t].id = load[t].id
          /\ load'[t].json = load[t].json /\ load[t].id # 0
      BY <1>1, <2>1 DEF Load, LoadInv, Shaped
    <2> QED BY <2>1, <2>2 DEF SingleAt, Loaded
  <1> QED BY <1>3, <1>4, <1>5, <1>6, <1>7

\* A project is made where there is none.
LEMMA SingleMakes ==
    ASSUME ConfigTypeOK, \A u \in Loads : LoadInv(u), NEW t \in Loads, Makes(t), Apart(t),
           load[t].at = "create", t \notin misnamed, \A u \in Loads : SingleAt(u)
    PROVE  Len(projects') <= 1 /\ \A u \in Loads : SingleAt(u)'
  <1>1. load[t] \in Load /\ load[t].name = "dynamic" /\ load[t].id = 0
    BY LoadFields DEF LoadInv, Retries, Shaped
  <1>2. DOMAIN projects = {}
    <2>1. \A i \in DOMAIN projects : projects[i].name = "dynamic"
      BY <1>1 DEF SingleAt
    <2> QED BY <1>1, <2>1 DEF Makes
  <1>3. Len(projects) = 0
    BY <1>2 DEF ConfigTypeOK
  <1>4. PICK n :
           /\ projects' \in Seq(Project)
           /\ n = Len(projects) + 1 /\ DOMAIN projects' = DOMAIN projects \cup {n}
           /\ projects'[n] = Created(t)
    BY MakesStore
  <1>5. DOMAIN projects' = {1} /\ projects'[1].name = "dynamic"
    BY <1>1, <1>2, <1>3, <1>4, CreatedFacts
  <1>6. Len(projects') <= 1
    <2>1. DOMAIN projects' = 1..Len(projects') /\ Len(projects') \in Nat
      BY <1>4
    <2>2. 2 \notin 1..Len(projects')
      BY <1>5, <2>1
    <2> QED BY <2>1, <2>2
  <1>7. ASSUME NEW u \in Loads PROVE SingleAt(u)'
    <2>1. CASE u = t
      <3>1. load'[t].at = "done"
        BY <1>1 DEF Makes, Load
      <3> QED BY <2>1, <3>1 DEF SingleAt, Loaded
    <2>2. CASE u # t
      <3>1. load'[u] = load[u]
        BY <2>2 DEF Apart
      <3>2. load[u].id = 0
        BY <1>2 DEF LoadInv, Shaped
      <3> QED BY <1>5, <3>1, <3>2 DEF SingleAt, Loaded
    <2> QED BY <2>1, <2>2
  <1> QED BY <1>6, <1>7

\* A creation leaves one project.
LEMMA SingleCreate ==
    ASSUME ConfigTypeOK, \A u \in Loads : LoadInv(u), Single, NEW t \in Loads, Create(t),
           UNCHANGED config
    PROVE  Single'
  <1>1. /\ Apart(t) /\ load[t].at = "create" /\ load[t] \in Load
        /\ \/ Makes(t)
           \/ IsRefused(t)
           \/ load'[t] = [load[t] EXCEPT !.at = "failed"] /\ UNCHANGED projects
        /\ UNCHANGED misnamed
    BY CreateEffect, LoadFields
  <1> SUFFICES ASSUME misnamed = {}
               PROVE  Len(projects') <= 1 /\ \A u \in Loads : SingleAt(u)'
    BY <1>1 DEF Single
  <1>2. CASE Makes(t)
    BY <1>1, <1>2, SingleMakes DEF Single
  <1>3. CASE \/ IsRefused(t)
             \/ load'[t] = [load[t] EXCEPT !.at = "failed"] /\ UNCHANGED projects
    <2>1. /\ UNCHANGED projects /\ load'[t].at \in {"list", "failed"}
          /\ load'[t].id = load[t].id /\ load[t].id = 0
      BY <1>1, <1>3 DEF IsRefused, Load, LoadInv, Shaped
    <2>2. SingleAt(t)'
      BY <2>1 DEF SingleAt, Loaded
    <2>3. Renames
      BY <2>1 DEF Renames
    <2>4. \A u \in Loads \ {t} : SingleAt(u)'
      BY <1>1, <2>3, SingleStays DEF Apart, Single
    <2> QED BY <2>1, <2>2, <2>4 DEF Single
  <1> QED BY <1>1, <1>2, <1>3

\* An update leaves one project.
LEMMA SingleUpdate ==
    ASSUME ConfigTypeOK, StoreInv, \A u \in Loads : LoadInv(u), Single,
           NEW t \in Loads, Update(t), UNCHANGED config
    PROVE  Single'
  <1>1. /\ Apart(t) /\ load[t].at = "update" /\ load[t] \in Load
        /\ Writes(t) \/ Misses(t)
        /\ UNCHANGED <<groups, index, misnamed>>
    BY UpdateEffect, LoadFields
  <1>2. load[t].id # 0 /\ load[t].id \in DOMAIN projects /\ load[t].json \in Project
    BY <1>1, LoadFields DEF LoadInv, Shaped
  <1> SUFFICES ASSUME misnamed = {}
               PROVE  Len(projects') <= 1 /\ \A u \in Loads : SingleAt(u)'
    BY <1>1 DEF Single
  <1>3. Renames /\ Len(projects') = Len(projects)
    <2>1. CASE Writes(t)
      <3>1. /\ projects' \in Seq(Project) /\ DOMAIN projects' = DOMAIN projects
            /\ projects'[load[t].id] = load[t].json
            /\ \A k \in DOMAIN projects : k # load[t].id => projects'[k] = projects[k]
        BY <1>2, <2>1, WritesStore DEF Writes
      <3>2. IF config.update_name THEN load[t].json.name = "dynamic"
            ELSE load[t].json.name = projects[load[t].id].name
        BY <1>1, <1>2 DEF Single, SingleAt, Loaded
      <3>3. Renames
        BY <3>1, <3>2 DEF Renames
      <3>4. Len(projects') = Len(projects)
        BY <3>1 DEF ConfigTypeOK
      <3> QED BY <3>3, <3>4
    <2>2. CASE Misses(t)
      BY <2>2 DEF Misses, Renames
    <2> QED BY <1>1, <2>1, <2>2
  <1>4. SingleAt(t)'
    <2>1. CASE load'[t].at \in {"done", "failed"}
      BY <2>1 DEF SingleAt, Loaded
    <2>2. CASE load'[t] = [load[t] EXCEPT !.at = "purge"] /\ UNCHANGED projects
      <3>1. /\ load'[t].at = "purge" /\ load'[t].id = load[t].id
            /\ load'[t].json = load[t].json
        BY <1>1, <2>2 DEF Load
      <3> QED BY <1>1, <1>2, <2>2, <3>1 DEF Single, SingleAt, Loaded
    <2> QED BY <1>1, <2>1, <2>2 DEF Writes, Misses, Load
  <1>5. \A u \in Loads \ {t} : SingleAt(u)'
    BY <1>1, <1>3, SingleStays DEF Apart, Single
  <1> QED BY <1>3, <1>4, <1>5 DEF Single, ConfigTypeOK

\* The other steps of a load leave one project.
LEMMA SingleOther ==
    ASSUME ConfigTypeOK, \A u \in Loads : LoadInv(u), Single, NEW t \in Loads,
           UNCHANGED config, Apart(t), misnamed \subseteq misnamed',
           Name(t) \/ List(t) \/ ResolvePath(t) \/ GroupsResolved(t) \/ PurgeCache(t)
    PROVE  Single'
  <1> SUFFICES ASSUME misnamed = {}
               PROVE  Len(projects') <= 1 /\ \A u \in Loads : SingleAt(u)'
    BY DEF Single
  <1>1. SingleAt(t)' /\ UNCHANGED projects
    BY SingleStep DEF Single
  <1>2. Renames
    BY <1>1 DEF Renames
  <1>3. \A u \in Loads \ {t} : SingleAt(u)'
    BY <1>2, SingleStays DEF Apart, Single
  <1> QED BY <1>1, <1>3 DEF Single

\* Changes by others leave one project.
LEMMA SingleAdministers ==
    ASSUME ConfigTypeOK, StoreInv, \A u \in Loads : LoadInv(u), Single, Administers
    PROVE  Single'
  <1>1. /\ ConfigTypeOK' /\ DOMAIN projects' = DOMAIN projects
        /\ \A i \in DOMAIN projects : projects'[i].name = projects[i].name
        /\ UNCHANGED <<config, load, misnamed>>
    BY AdministersEffect
  <1>2. Renames /\ Len(projects') = Len(projects)
    BY <1>1 DEF Renames, ConfigTypeOK
  <1>3. misnamed = {} => \A u \in Loads : SingleAt(u)'
    BY <1>1, <1>2, SingleStays DEF Single
  <1> QED BY <1>1, <1>2, <1>3 DEF Single

-----------------------------------------------------------------------------
(* The invariant holds.                                                    *)

\* A load that does not write a project leaves the others as they are.
LEMMA QuietKeeps ==
    ASSUME ConfigTypeOK, StoreInv, NEW t \in Loads, \A u \in Loads : LoadInv(u),
           Apart(t), Remembers, UNCHANGED <<config, projects, groups>>,
           \A w \in Workers : index'[w] \subseteq index[w] \cup groups
    PROVE  \A u \in Loads \ {t} : LoadInv(u)'
  <1> SUFFICES ASSUME NEW u \in Loads \ {t} PROVE LoadInv(u)'
    OBVIOUS
  <1>1. WorkerOf[u] \in Workers
    BY ProjectConfigAssumption
  <1>2. load'[u] = load[u]
    BY DEF Apart
  <1> QED BY <1>1, <1>2, LoadStays

\* A load that makes or writes a project outdates the others.
LEMMA WriterKeeps ==
    ASSUME ConfigTypeOK, StoreInv, NEW t \in Loads, \A u \in Loads : LoadInv(u),
           Apart(t), Remembers, UNCHANGED <<config, groups, index>>,
           Loaded \ {t} \subseteq outdated', DOMAIN projects \subseteq DOMAIN projects'
    PROVE  \A u \in Loads \ {t} : LoadInv(u)'
  <1> SUFFICES ASSUME NEW u \in Loads \ {t} PROVE LoadInv(u)'
    OBVIOUS
  <1>1. load'[u] = load[u] /\ u \notin (Loaded \cap Resolving) \ outdated'
    BY DEF Apart
  <1> QED BY <1>1, LoadStays

\* Every step of a load keeps the invariant.
LEMMA LoadStepKeeps ==
    ASSUME ConfigInv, NEW t \in Loads, LoadStep(t), UNCHANGED config
    PROVE  ConfigInv'
  <1> USE DEF ConfigInv
  <1>1. CASE Name(t)
    <2>1. /\ load' \in [Loads -> Load] /\ Apart(t)
          /\ misnamed \subseteq misnamed' /\ misnamed' \subseteq Loads
          /\ failures' \in 0..MaxFailures
          /\ UNCHANGED <<projects, groups, index, faulted, outdated, stale, edits>>
      BY <1>1, NameEffect
    <2>2. ConfigTypeOK'
      BY <2>1 DEF ConfigTypeOK
    <2>3. StoreInv'
      BY <2>1, QuietStore
    <2>4. \A u \in Loads \ {t} : LoadInv(u)'
      BY <2>1, QuietKeeps DEF Remembers
    <2>5. LoadInv(t)' /\ Single'
      BY <1>1, <2>1, NameKeeps, SingleOther
    <2> QED BY <2>2, <2>3, <2>4, <2>5
  <1>2. CASE List(t)
    <2>1. /\ load' \in [Loads -> Load] /\ Apart(t)
          /\ faulted \subseteq faulted' /\ faulted' \subseteq Loads
          /\ failures' \in 0..MaxFailures
          /\ UNCHANGED <<projects, groups, index, outdated, misnamed, stale, edits>>
      BY <1>2, ListEffect
    <2>2. ConfigTypeOK'
      BY <2>1 DEF ConfigTypeOK
    <2>3. StoreInv'
      BY <2>1, QuietStore
    <2>4. \A u \in Loads \ {t} : LoadInv(u)'
      BY <2>1, QuietKeeps DEF Remembers
    <2>5. LoadInv(t)' /\ Single'
      BY <1>2, <2>1, ListKeeps, SingleOther
    <2> QED BY <2>2, <2>3, <2>4, <2>5
  <1>3. CASE ResolvePath(t)
    <2>1. /\ load' \in [Loads -> Load] /\ Apart(t) /\ Resolves(t)
          /\ index' \in [Workers -> SUBSET GroupId]
          /\ faulted \subseteq faulted' /\ faulted' \subseteq Loads
          /\ failures' \in 0..MaxFailures
          /\ UNCHANGED <<projects, groups, outdated, misnamed, stale, edits>>
      BY <1>3, ResolveEffect
    <2>2. ConfigTypeOK'
      BY <2>1 DEF ConfigTypeOK
    <2>3. Head(load[t].todo) \in Paths
      BY <2>1, LoadFields, HeadTailProperties DEF Resolves
    <2>4. \A w \in Workers :
             /\ index'[w] \subseteq index[w] \cup groups
             /\ index'[w] \subseteq index[w] \cup {g \in groups : g[1] \in Paths}
      BY <2>1, <2>3 DEF Resolves
    <2>5. StoreInv'
      BY <2>1, <2>4, QuietStore
    <2>6. \A u \in Loads \ {t} : LoadInv(u)'
      BY <2>1, <2>4, QuietKeeps DEF Remembers
    <2>7. LoadInv(t)' /\ Single'
      BY <1>3, <2>1, ResolveKeeps, SingleOther
    <2> QED BY <2>2, <2>5, <2>6, <2>7
  <1>4. CASE GroupsResolved(t)
    <2>1. /\ load' \in [Loads -> Load] /\ Apart(t)
          /\ UNCHANGED <<projects, groups, index, faulted, outdated, misnamed, stale,
                         edits, failures>>
      BY <1>4, DecideEffect
    <2>2. ConfigTypeOK'
      BY <2>1 DEF ConfigTypeOK
    <2>3. StoreInv'
      BY <2>1, QuietStore
    <2>4. \A u \in Loads \ {t} : LoadInv(u)'
      BY <2>1, QuietKeeps DEF Remembers
    <2>5. LoadInv(t)' /\ Single'
      BY <1>4, <2>1, DecideKeeps, SingleOther
    <2> QED BY <2>2, <2>3, <2>4, <2>5
  <1>5. CASE Create(t)
    <2>1. /\ load' \in [Loads -> Load] /\ Apart(t)
          /\ \/ Makes(t)
             \/ IsRefused(t)
             \/ UNCHANGED <<projects, outdated, stale>>
          /\ faulted \subseteq faulted' /\ faulted' \subseteq Loads
          /\ failures' \in 0..MaxFailures
          /\ UNCHANGED <<groups, index, misnamed, edits>>
      BY <1>5, CreateEffect
    <2>2. LoadInv(t)' /\ Single'
      BY <1>5, CreateKeeps, SingleCreate
    <2>3. CASE Makes(t)
      <3>1. projects' \in Seq(Project) /\ DOMAIN projects \subseteq DOMAIN projects'
        BY <2>3, MakesStore
      <3>2. /\ outdated' = outdated \cup (Loaded \ {t}) /\ UNCHANGED stale
            /\ Loaded \subseteq Loads
        BY <2>3 DEF Makes, Loaded
      <3>3. ConfigTypeOK'
        BY <2>1, <3>1, <3>2 DEF ConfigTypeOK
      <3>4. StoreInv'
        BY <2>1, <2>3, MakesKeepsStore
      <3>5. Remembers
        BY <2>1, <3>2 DEF Remembers
      <3>6. \A u \in Loads \ {t} : LoadInv(u)'
        BY <2>1, <3>1, <3>2, <3>5, WriterKeeps
      <3> QED BY <2>2, <3>3, <3>4, <3>6
    <2>4. CASE IsRefused(t) \/ UNCHANGED <<projects, outdated, stale>>
      <3>1. /\ UNCHANGED <<projects, outdated>> /\ stale \subseteq stale'
            /\ stale' \subseteq Loads
        BY <2>4 DEF IsRefused, ConfigTypeOK
      <3>2. ConfigTypeOK'
        BY <2>1, <3>1 DEF ConfigTypeOK
      <3>3. StoreInv'
        BY <2>1, <3>1, QuietStore
      <3>4. \A u \in Loads \ {t} : LoadInv(u)'
        BY <2>1, <3>1, QuietKeeps DEF Remembers
      <3> QED BY <2>2, <3>2, <3>3, <3>4
    <2> QED BY <2>1, <2>3, <2>4
  <1>6. CASE Update(t)
    <2>1. /\ load' \in [Loads -> Load] /\ Apart(t) /\ load[t].at = "update"
          /\ Writes(t) \/ Misses(t)
          /\ faulted \subseteq faulted' /\ faulted' \subseteq Loads
          /\ failures' \in 0..MaxFailures
          /\ UNCHANGED <<groups, index, misnamed, stale, edits>>
      BY <1>6, UpdateEffect
    <2>2. LoadInv(t)' /\ Single'
      BY <1>6, UpdateKeepsLoad, SingleUpdate
    <2>3. CASE Writes(t)
      <3>1. load[t].id \in DOMAIN projects
        BY <2>1 DEF LoadInv, Shaped
      <3>2. StoreInv' /\ projects' \in Seq(Project) /\ DOMAIN projects' = DOMAIN projects
        BY <2>1, <2>3, <3>1, WritesKeepsStore
      <3>3. outdated' = outdated \cup (Loaded \ {t}) /\ Loaded \subseteq Loads
        BY <2>3 DEF Writes, Loaded
      <3>4. ConfigTypeOK'
        BY <2>1, <3>2, <3>3 DEF ConfigTypeOK
      <3>5. Remembers
        BY <2>1, <3>3 DEF Remembers
      <3>6. \A u \in Loads \ {t} : LoadInv(u)'
        BY <2>1, <3>2, <3>3, <3>5, WriterKeeps
      <3> QED BY <2>2, <3>2, <3>4, <3>6
    <2>4. CASE Misses(t)
      <3>1. UNCHANGED <<projects, outdated>>
        BY <2>4 DEF Misses
      <3>2. ConfigTypeOK'
        BY <2>1, <3>1 DEF ConfigTypeOK
      <3>3. StoreInv'
        BY <2>1, <3>1, QuietStore
      <3>4. \A u \in Loads \ {t} : LoadInv(u)'
        BY <2>1, <3>1, QuietKeeps DEF Remembers
      <3> QED BY <2>2, <3>2, <3>3, <3>4
    <2> QED BY <2>1, <2>3, <2>4
  <1>7. CASE PurgeCache(t)
    <2>1. /\ load' \in [Loads -> Load] /\ Apart(t)
          /\ index' \in [Workers -> SUBSET GroupId]
          /\ \A w \in Workers : index'[w] \subseteq index[w]
          /\ UNCHANGED <<projects, groups, faulted, outdated, misnamed, stale,
                         edits, failures>>
      BY <1>7, PurgeEffect
    <2>2. ConfigTypeOK'
      BY <2>1 DEF ConfigTypeOK
    <2>3. StoreInv'
      BY <2>1, QuietStore
    <2>4. \A u \in Loads \ {t} : LoadInv(u)'
      BY <2>1, QuietKeeps DEF Remembers
    <2>5. LoadInv(t)' /\ Single'
      BY <1>7, <2>1, PurgeKeeps, SingleOther
    <2> QED BY <2>2, <2>3, <2>4, <2>5
  <1> QED BY <1>1, <1>2, <1>3, <1>4, <1>5, <1>6, <1>7 DEF LoadStep

\* Changes by others keep the invariant.
LEMMA AdministersKeeps ==
    ASSUME ConfigInv, Administers
    PROVE  ConfigInv'
  <1> USE DEF ConfigInv
  <1>1. /\ ConfigTypeOK' /\ StoreInv' /\ DOMAIN projects' = DOMAIN projects
        /\ UNCHANGED <<config, index, load, faulted, misnamed, stale, failures>>
        /\ outdated \subseteq outdated' /\ Loaded \cap Resolving \subseteq outdated'
        /\ Resolving \subseteq outdated' \/ groups' = groups \cup {<<"own", 0>>}
    BY AdministersEffect
  <1>2. ASSUME NEW u \in Loads PROVE LoadInv(u)'
    <2>1. /\ load'[u] = load[u] /\ Remembers
          /\ u \notin (Loaded \cap Resolving) \ outdated'
          /\ u \in Resolving \ outdated' => groups' = groups \cup {<<"own", 0>>}
      BY <1>1 DEF Remembers
    <2> QED BY <1>1, <2>1, LoadStays
  <1>3. Single'
    BY SingleAdministers
  <1> QED BY <1>1, <1>2, <1>3

\* Every step keeps the invariant.
LEMMA ConfigStepKeeps == ConfigInv /\ [ConfigNext]_configVars => ConfigInv'
  <1> SUFFICES ASSUME ConfigInv, [ConfigNext]_configVars PROVE ConfigInv'
    OBVIOUS
  <1>1. ASSUME NEW t \in Loads, LoadStep(t), UNCHANGED config PROVE ConfigInv'
    BY <1>1, LoadStepKeeps
  <1>2. CASE Administers
    BY <1>2, AdministersKeeps
  <1>3. CASE UNCHANGED configVars
    <2>1. ConfigTypeOK' /\ StoreInv'
      BY <1>3 DEF ConfigInv, ConfigTypeOK, StoreInv, configVars
    <2>2. \A t \in Loads : LoadInv(t)'
      BY <1>3 DEF ConfigInv, configVars, LoadInv, Shaped, UpToDate, View, Fresh,
                  Loaded, Covers, Resolving, Pending, Retries, Excused
    <2>3. Single'
      BY <1>3 DEF ConfigInv, configVars, Single, SingleAt, Loaded
    <2> QED BY <2>1, <2>2, <2>3 DEF ConfigInv
  <1> QED BY <1>1, <1>2, <1>3 DEF ConfigNext, Administers

\* The invariant holds initially.
LEMMA ConfigInitially == ConfigInit => ConfigInv
  <1> SUFFICES ASSUME ConfigInit PROVE ConfigInv
    OBVIOUS
  <1>1. /\ config \in [update_name: BOOLEAN, update_groups: BOOLEAN]
        /\ load = [t \in Loads |-> NewLoad]
        /\ faulted = {} /\ outdated = {} /\ misnamed = {} /\ stale = {}
        /\ edits = 0 /\ failures = 0
    BY DEF ConfigInit
  <1>2. /\ groups \subseteq PathGroup
        /\ \A g, h \in groups : g[1] = h[1] => g = h
    <2>1. CASE groups = {}
      BY <2>1
    <2>2. ASSUME NEW gen \in [Paths -> {0, 1}], groups = {<<p, gen[p]>> : p \in Paths}
          PROVE  /\ groups \subseteq PathGroup
                 /\ \A g, h \in groups : g[1] = h[1] => g = h
      <3>1. \A g \in groups : \E p \in Paths : g = <<p, gen[p]>>
        BY <2>2
      <3>2. \A p \in Paths : gen[p] \in Nat
        OBVIOUS
      <3>3. groups \subseteq PathGroup
        BY <3>1, <3>2 DEF PathGroup
      <3>4. \A g, h \in groups : g[1] = h[1] => g = h
        BY <3>1
      <3> QED BY <3>3, <3>4
    <2> QED BY <2>1, <2>2 DEF ConfigInit
  <1>3. PathGroup \subseteq GroupId
    BY DEF PathGroup, GroupId
  <1>4. index \in [Workers -> SUBSET PathGroup]
    <2>1. {<<p, 0>> : p \in Paths} \subseteq PathGroup
      BY DEF PathGroup
    <2> QED BY <2>1 DEF ConfigInit
  <1>5. \/ projects = <<>>
        \/ \E q \in Project : projects = <<q>> /\ q.groups \subseteq groups
    <2>1. ASSUME NEW n \in {"default", "dynamic"},
                 NEW g \in [service: {"none", "other"}, team: {"other"}]
                           \cup {[service |-> "flow", team |-> "default"]},
                 NEW m \in {{}, groups}, NEW r \in {"url"}
          PROVE  /\ [name |-> n, tags |-> g, groups |-> m, repo |-> r] \in Project
                 /\ m \subseteq groups
      <3>1. g \in [service: Tag, team: Tag]
        BY DEF Tag
      <3>2. m \subseteq groups /\ m \in SUBSET GroupId
        BY <1>2, <1>3
      <3> QED BY <3>1, <3>2 DEF Project
    <2>2. ASSUME NEW r \in {"none", "repoId", "imported"}
          PROVE  [NoProject EXCEPT !.repo = r] \in Project
                 /\ [NoProject EXCEPT !.repo = r].groups = {}
      BY DEF NoProject, Project, Tag
    <2>3. \/ projects = <<>>
          \/ \E n \in {"default", "dynamic"},
                g \in [service: {"none", "other"}, team: {"other"}]
                      \cup {[service |-> "flow", team |-> "default"]},
                m \in {{}, groups}, r \in {"url"} :
                projects = <<[name |-> n, tags |-> g, groups |-> m, repo |-> r]>>
          \/ \E r \in {"none", "repoId", "imported"} : projects = <<[NoProject EXCEPT !.repo = r]>>
      BY DEF ConfigInit
    <2>4. ASSUME NEW n \in {"default", "dynamic"},
                 NEW g \in [service: {"none", "other"}, team: {"other"}]
                           \cup {[service |-> "flow", team |-> "default"]},
                 NEW m \in {{}, groups}, NEW r \in {"url"},
                 projects = <<[name |-> n, tags |-> g, groups |-> m, repo |-> r]>>
          PROVE  \E q \in Project : projects = <<q>> /\ q.groups \subseteq groups
      BY <2>1, <2>4
    <2>5. ASSUME NEW r \in {"none", "repoId", "imported"},
                 projects = <<[NoProject EXCEPT !.repo = r]>>
          PROVE  \E q \in Project : projects = <<q>> /\ q.groups \subseteq groups
      BY <2>2, <2>5
    <2> QED BY <2>3, <2>4, <2>5
  <1>6. /\ projects \in Seq(Project) /\ Len(projects) <= 1
        /\ \A i, k \in DOMAIN projects : i = k
        /\ \A i \in DOMAIN projects : projects[i].groups \subseteq groups
    <2>1. CASE projects = <<>>
      <3>1. projects \in Seq(Project) /\ Len(projects) = 0 /\ DOMAIN projects = {}
        BY <2>1
      <3> QED BY <3>1
    <2>2. ASSUME NEW q \in Project, projects = <<q>>, q.groups \subseteq groups
          PROVE  /\ projects \in Seq(Project) /\ Len(projects) <= 1
                 /\ \A i, k \in DOMAIN projects : i = k
                 /\ \A i \in DOMAIN projects : projects[i].groups \subseteq groups
      <3>1. /\ projects \in Seq(Project) /\ Len(projects) = 1
            /\ DOMAIN projects = {1} /\ projects[1] = q
        BY <2>2
      <3> QED BY <2>2, <3>1
    <2> QED BY <1>5, <2>1, <2>2
  <1>7. NewLoad \in Load
    BY DEF NewLoad, Load, NoProject, Project, Tag
  <1>8. ConfigTypeOK
    BY <1>1, <1>2, <1>3, <1>4, <1>6, <1>7, ProjectConfigAssumption DEF ConfigTypeOK
  <1>9. StoreInv
    BY <1>2, <1>4, <1>6 DEF StoreInv
  <1>10. ASSUME NEW t \in Loads PROVE LoadInv(t) /\ SingleAt(t)
    <2>1. /\ load[t].at = "name" /\ load[t].id = 0 /\ load[t].ids = {}
          /\ load[t].again = FALSE /\ load[t].retried = FALSE
      BY <1>1 DEF NewLoad
    <2>2. t \notin Loaded /\ t \notin Resolving
      BY <2>1 DEF Loaded, Resolving
    <2> QED BY <2>1, <2>2 DEF LoadInv, Shaped, UpToDate, Covers, Retries, Excused, SingleAt
  <1> QED BY <1>6, <1>8, <1>9, <1>10 DEF ConfigInv, Single

\* ConfigInv is an invariant.
LEMMA ConfigInvHolds == ConfigSpec => []ConfigInv
  BY ConfigInitially, ConfigStepKeeps, PTL DEF ConfigSpec

\* Every variable of the loads, of the caches and of Checkmarx One keeps its
\* type.
THEOREM ConfigTypeCorrect == ConfigSpec => []ConfigTypeOK
  BY ConfigInvHolds, PTL DEF ConfigInv

\* The create-or-retrieve of load_project_config gives a repository one
\* project, for any number of events, workers and changes by others.
THEOREM ProjectIsUnique == ConfigSpec => []OneProject
  <1>1. ConfigInv => OneProject
    BY DEF ConfigInv, Single, OneProject
  <1> QED BY <1>1, ConfigInvHolds, PTL

\* load_project_config raises only for one of the recorded reasons.
THEOREM LoadsFailWithCause == ConfigSpec => []FailuresHaveCause
  <1>1. ConfigInv => FailuresHaveCause
    BY DEF ConfigInv, LoadInv, Excused, FailuresHaveCause
  <1> QED BY <1>1, ConfigInvHolds, PTL

\* update_a_project keeps the groups and tags of a project that was not
\* changed since it was read.
THEOREM UpdatesKeep == ConfigSpec => UpdateKeeps
  <1>1. ASSUME ConfigInv, NEW t \in Loads \ outdated, Update(t),
               NEW i \in DOMAIN projects
        PROVE  /\ projects[i].groups \subseteq projects'[i].groups
               /\ projects[i].tags.team \in {"none", projects'[i].tags.team}
    <2>1. load[t].at = "update" /\ (Writes(t) \/ Misses(t))
      BY <1>1, UpdateEffect DEF ConfigInv
    <2>2. /\ load[t].id # 0 /\ load[t].id \in DOMAIN projects
          /\ View(t) /\ load[t].json \in Project
      BY <1>1, <2>1, LoadFields DEF ConfigInv, LoadInv, Shaped, UpToDate, Loaded
    <2>3. CASE Writes(t)
      <3>1. /\ projects'[load[t].id] = load[t].json
            /\ \A k \in DOMAIN projects : k # load[t].id => projects'[k] = projects[k]
        BY <1>1, <2>2, <2>3, WritesStore DEF Writes, ConfigInv
      <3> QED BY <1>1, <2>1, <2>2, <3>1 DEF View
    <2>4. CASE Misses(t)
      BY <2>4 DEF Misses
    <2> QED BY <2>1, <2>3, <2>4
  <1>2. ConfigInv /\ [ConfigNext]_configVars =>
          [\A t \in Loads \ outdated : Update(t) =>
              \A i \in DOMAIN projects :
                  /\ projects[i].groups \subseteq projects'[i].groups
                  /\ projects[i].tags.team \in {"none", projects'[i].tags.team}
          ]_configVars
    BY <1>1
  <1> QED BY <1>2, ConfigInvHolds, PTL DEF ConfigSpec, UpdateKeeps

\* The load has the group of every path.
LEMMA AllCovered ==
    ASSUME ConfigInv, NEW t \in Loads \ (faulted \cup outdated), t \in Resolving,
           load[t].id = 0 \/ config.update_groups, load[t].todo = <<>>,
           load[t].ids \subseteq groups
    PROVE  {g \in groups : g[1] \in Paths} \subseteq load[t].ids
  <1>1. Pending(t) = {}
    BY DEF Pending
  <1>2. Covers(t)
    BY DEF ConfigInv, LoadInv
  <1> QED BY <1>1, <1>2 DEF Covers

\* The steps that end a load leave the project in the groups that exist.
LEMMA EndsAssigned ==
    ASSUME ConfigInv, NEW t \in Loads \ (faulted \cup outdated), LoadStep(t),
           load'[t].at = "done", load[t].id = 0 \/ config.update_groups
    PROVE  {g \in groups : g[1] \in Paths} \subseteq projects'[load'[t].id].groups
  <1>1. load[t] \in Load /\ ConfigTypeOK /\ StoreInv /\ LoadInv(t)
    BY LoadFields DEF ConfigInv
  <1>2. CASE Name(t)
    BY <1>1, <1>2, NameEffect DEF Load
  <1>3. CASE List(t)
    BY <1>1, <1>3, ListEffect DEF Load, Listed
  <1>4. CASE ResolvePath(t)
    BY <1>1, <1>4, ResolveEffect DEF Load, Resolves
  <1>5. CASE PurgeCache(t)
    BY <1>1, <1>5, PurgeEffect DEF Load
  <1>6. CASE GroupsResolved(t)
    <2>1. Decides(t) /\ UNCHANGED projects
      BY <1>1, <1>6, DecideEffect
    <2>2. /\ load[t].at = "resolve" /\ load[t].todo = <<>> /\ load[t].id # 0
          /\ ~load[t].retried /\ Prepared(t) = load[t].json
          /\ load'[t].id = load[t].id
      BY <1>1, <2>1 DEF Decides, Load
    <2>3. View(t) /\ load[t].id \in DOMAIN projects
      BY <1>1, <2>2 DEF LoadInv, UpToDate, Loaded, Shaped
    <2>4. /\ load[t].json = projects[load[t].id]
          /\ load[t].json.groups = load[t].orig \cup load[t].ids
      BY <1>1, <2>2, <2>3, PreparedFacts DEF View
    <2>5. load[t].ids \subseteq groups
      BY <1>1, <2>3, <2>4 DEF StoreInv
    <2>6. t \in Resolving
      BY <2>2 DEF Resolving
    <2>7. {g \in groups : g[1] \in Paths} \subseteq load[t].ids
      BY <2>2, <2>5, <2>6, AllCovered
    <2> QED BY <2>1, <2>2, <2>4, <2>7
  <1>7. CASE Create(t)
    <2>1. Makes(t) /\ load[t].at = "create"
      BY <1>1, <1>7, CreateEffect DEF Load, IsRefused
    <2>2. PICK n : n = Len(projects) + 1
      OBVIOUS
    <2>3. projects'[n] = Created(t) /\ load'[t].id = n /\ load[t].ids \subseteq groups
      BY <1>1, <2>1, <2>2, MakesStore DEF Makes, Load
    <2>4. t \in Resolving /\ load[t].todo = <<>>
      BY <1>1, <2>1 DEF Resolving, LoadInv, Shaped
    <2>5. {g \in groups : g[1] \in Paths} \subseteq load[t].ids
      BY <2>3, <2>4, AllCovered
    <2> QED BY <1>1, <2>3, <2>5, CreatedFacts
  <1>8. CASE Update(t)
    <2>1. Writes(t) /\ load[t].at = "update"
      BY <1>1, <1>8, UpdateEffect DEF Load, Misses
    <2>2. /\ load[t].id # 0 /\ load[t].id \in DOMAIN projects /\ load[t].todo = <<>>
          /\ View(t) /\ load[t].json \in Project
      BY <1>1, <2>1, LoadFields DEF LoadInv, Shaped, UpToDate, Loaded
    <2>3. projects'[load[t].id] = load[t].json /\ load'[t].id = load[t].id
      BY <1>1, <2>1, <2>2, WritesStore DEF Writes, Load
    <2>4. /\ load[t].json.groups = load[t].orig \cup load[t].ids
          /\ load[t].json.groups \subseteq groups
      BY <2>1, <2>2 DEF View, Writes
    <2>5. t \in Resolving
      BY <2>1 DEF Resolving
    <2>6. {g \in groups : g[1] \in Paths} \subseteq load[t].ids
      BY <2>2, <2>4, <2>5, AllCovered
    <2> QED BY <2>3, <2>4, <2>6
  <1> QED BY <1>2, <1>3, <1>4, <1>5, <1>6, <1>7, <1>8 DEF LoadStep

\* The step of a load leaves the others where they are.
LEMMA StepsApart ==
    ASSUME ConfigTypeOK, NEW t \in Loads, LoadStep(t)
    PROVE  Apart(t)
  BY NameEffect, ListEffect, ResolveEffect, DecideEffect, CreateEffect, UpdateEffect,
     PurgeEffect DEF LoadStep

\* A load that ends undisturbed leaves the project in every group that the
\* assignment rules give and that exists.
THEOREM GroupsAreAssigned == ConfigSpec => GroupsAssigned
  <1>1. ASSUME ConfigInv, ConfigNext, NEW t \in Loads \ (faulted \cup outdated),
               load[t].at # "done", load'[t].at = "done",
               config.update_groups \/ load[t].id = 0
        PROVE  {g \in groups : g[1] \in Paths} \subseteq projects'[load'[t].id].groups
    <2>1. ASSUME NEW u \in Loads, LoadStep(u) PROVE u = t
      <3>1. Apart(u)
        BY <1>1, <2>1, StepsApart DEF ConfigInv
      <3> QED BY <1>1, <3>1 DEF Apart
    <2>2. CASE Administers
      <3>1. UNCHANGED load
        BY <1>1, <2>2, AdministersEffect DEF ConfigInv
      <3> QED BY <1>1, <3>1
    <2>3. CASE LoadStep(t)
      BY <1>1, <2>3, EndsAssigned
    <2> QED BY <1>1, <2>1, <2>2, <2>3 DEF ConfigNext, Administers
  <1>2. ConfigInv /\ [ConfigNext]_configVars =>
          [\A t \in Loads \ (faulted \cup outdated) :
              load[t].at # "done" /\ load'[t].at = "done"
              /\ (config.update_groups \/ load[t].id = 0)
              => {g \in groups : g[1] \in Paths}
                     \subseteq projects'[load'[t].id].groups
          ]_configVars
    BY <1>1
  <1> QED BY <1>2, ConfigInvHolds, PTL DEF ConfigSpec, GroupsAssigned
=============================================================================
