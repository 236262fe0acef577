------------------------- MODULE PullRequestComments -------------------------
(***************************************************************************)
(* Decoration of a pull request through a comment and, for three of the    *)
(* services, a status of the commit.  Every decorator of an SCM service    *)
(* first posts the status, then looks for the comment that starts with     *)
(* the cxoneflow identifier, then changes it or adds one.  These are       *)
(* separate requests; the messages of the scans of a pull request come     *)
(* from different queues and their handlers interleave at every request.   *)
(*                                                                         *)
(* A message is a pair <<kind, s>>: the prescan notice ("pending"), the    *)
(* scan notice ("update"), the feedback, and the prescan failure ("abort") *)
(* that the resolver's results agent hands to the service.  Each scan is   *)
(* of a commit of its own.  GitHub check runs are in CheckRuns.            *)
(***************************************************************************)
EXTENDS Integers, Sequences, FiniteSets

CONSTANTS
    Scans,      \* scan workflows of the pull request
    Delegated,  \* those whose scan is delegated to a resolver agent
    Services,   \* the kinds of SCM service
    Disturbed,  \* bound: those on which there are disturbances
    PageSize,   \* comments in a page of the SCM's answer
    MaxComments,\* bound: comments of the service
    MaxFaults   \* bound: failed requests, lost agents, closed comments and
                \* comments of other people

AllServices == {"gh", "gh_status", "adoe", "adoe_checks", "bbc", "bbc_checks",
                "bbdc", "gl"}

ASSUME CommentsAssumption ==
    /\ Scans # {} /\ Delegated \subseteq Scans
    /\ Services \subseteq AllServices
    /\ Disturbed \subseteq Services
    /\ PageSize \in Nat \ {0}
    /\ {MaxComments, MaxFaults} \subseteq Nat

VARIABLES
    service,   \* the SCM service of the repository
    stage,     \* how far the workflow of each scan has come
    verdict,   \* the feedback published for each scan
    at,        \* where each message is
    failing,   \* feedback messages on the way to exec_pr_unrecoverable_error
    target,    \* what the lookup of each handler found
    comments,  \* the comments of the pull request, oldest first
    status,    \* the status of each scan's commit
    excuses,   \* history: why there may be a second comment
    spoilt,    \* history: a race or a fault has spoilt the decoration
    faults     \* history: number of faults so far

vars == <<service, stage, verdict, at, failing, target, comments, status,
          excuses, spoilt, faults>>

Stages == {"idle", "delegated", "started", "reported", "aborted"}

Messages == {"pending", "update", "feedback", "abort"} \X Scans

Shown == {"pending", "update", "success", "failure", "error"}

\* "closed" comments are deleted or, on Bitbucket Data Center, resolved.
Comment == [ours: BOOLEAN, closed: BOOLEAN, shows: Shown, scan: Scans]

\* The comment that was found, or 0; "current" says whether its version is
\* still the one that was found (only Bitbucket Data Center has versions).
\* "known" is history: the number of comments when a lookup found none.
Target == [id: Nat, current: BOOLEAN, known: Nat]

NoTarget == [id |-> 0, current |-> TRUE, known |-> 0]

Init ==
    /\ service \in Services
    /\ stage = [s \in Scans |-> "idle"]
    /\ verdict = [s \in Scans |-> "none"]
    /\ at = [m \in Messages |-> "absent"]
    /\ failing = {}
    /\ target = [m \in Messages |-> NoTarget]
    /\ comments = <<>>
    /\ status = [s \in Scans |-> "none"]
    /\ excuses = {}
    /\ spoilt = FALSE
    /\ faults = 0

Others == {i \in DOMAIN comments : ~comments[i].ours}

Disturbable ==
    /\ service \in Disturbed
    /\ faults + Cardinality(Others) < MaxFaults

Fault ==
    /\ Disturbable
    /\ faults' = faults + 1
    /\ spoilt' = TRUE

-----------------------------------------------------------------------------
(* The workflow of a scan, and other people.                               *)

Publish(s, from, to, kind) ==
    /\ stage[s] = from
    /\ stage' = [stage EXCEPT ![s] = to]
    /\ at' = [at EXCEPT ![<<kind, s>>] = "queued"]
    /\ UNCHANGED <<service, failing, target, comments, status, excuses, spoilt,
                   faults>>

\* The prescan notice of a delegated scan; the scan notice; the failure of
\* the prescan; the feedback that the poller publishes.
Workflow(s) ==
    \/ /\ \/ s \in Delegated /\ Publish(s, "idle", "delegated", "pending")
          \/ s \notin Delegated /\ Publish(s, "idle", "started", "update")
          \/ Publish(s, "delegated", "started", "update")
          \/ Publish(s, "delegated", "aborted", "abort")
       /\ UNCHANGED verdict
    \/ /\ Publish(s, "started", "reported", "feedback")
       /\ \E v \in {"success", "failure"} : verdict' = [verdict EXCEPT ![s] = v]

OtherComment ==
    /\ Disturbable
    /\ comments' = Append(comments,
           [ours |-> FALSE, closed |-> FALSE, shows |-> "update",
            scan |-> CHOOSE s \in Scans : TRUE])
    /\ UNCHANGED <<service, stage, verdict, at, failing, target, status,
                   excuses, spoilt, faults>>

\* Someone deletes the thread, or resolves it.
CloseComment(i) ==
    /\ service \in {"adoe", "adoe_checks", "bbdc"}
    /\ comments[i].ours /\ ~comments[i].closed
    /\ Fault
    /\ comments' = [comments EXCEPT ![i].closed = TRUE]
    /\ UNCHANGED <<service, stage, verdict, at, failing, target, status,
                   excuses>>

-----------------------------------------------------------------------------
(* What the services do with a message.                                    *)

GitHub == {"gh", "gh_status"}

BitbucketCloud == {"bbc", "bbc_checks"}

AzureDevOps == {"adoe", "adoe_checks"}

HasStatus == service \in {"gh_status", "adoe_checks", "bbc_checks"}

\* The other services inherit exec_pr_prescan_failure from SCMService, which
\* raises NotImplementedError.
Implements(m) ==
    m[1] = "abort" => service \in GitHub \cup BitbucketCloud

\* The status of GitHub's prescan failure comes without a comment.
HasComment(m) == ~(m[1] = "abort" /\ service = "gh_status")

\* Mutant: both feedback queues decorate with success.
ShowsSuccess(m) ==
    CASE m[1] = "abort" -> "error" [] m[1] = "feedback" -> "success"
      [] OTHER -> m[1]

\* What the decorator of a message shows.
Shows(m) ==
    IF m[1] = "abort" \/ m \in failing THEN "error"
    ELSE IF m[1] = "feedback" THEN verdict[m[2]]
    ELSE m[1]

\* The states "pending" and "INPROGRESS", "success", "error" and "FAILED".
StatusOf(shows) ==
    CASE shows \in {"pending", "update"} -> "pending"
      [] shows = "success" -> "success"
      [] OTHER -> "failure"

\* Without the URL of a scan the payload of Azure DevOps is {} (the
\* conditional expression takes in the whole dictionary), which is refused.
EmptyPayload(m) == m[1] = "pending" \/ m \in failing

-----------------------------------------------------------------------------
(* The comments, as the services list them.                                *)

\* A page of the list, oldest comments first.
Page(k) == DOMAIN comments \cap (k - 1) * PageSize + 1..k * PageSize

Pages == 1..Len(comments) + 1

\* The pages up to the first that is taken for the last one; the pager stops
\* at an empty page in any case.
PagesUpTo(last) ==
    UNION {Page(k) : k \in {j \in Pages : \A i \in 1..j - 1 : i \notin last}}

\* GitHub's data extractor says of a full page that it is the last one.
ListedByGitHub == PagesUpTo({k \in Pages : Cardinality(Page(k)) >= PageSize})

\* The answers of Bitbucket say whether there is a next page.
ListedByBitbucketCloud == PagesUpTo({k \in Pages : Page(k + 1) = {}})

ListedByBitbucketDataCenter == PagesUpTo({k \in Pages : Page(k + 1) = {}})

\* Azure DevOps answers with all threads.
ListedByAzureDevOps == DOMAIN comments

\* GitLab lists the newest notes first, and one page is asked for.
ListedByGitlab ==
    DOMAIN comments \cap Len(comments) - PageSize + 1..Len(comments)

\* The comments that a lookup gets to see.
Listed ==
    CASE service \in GitHub -> ListedByGitHub
      [] service \in BitbucketCloud -> ListedByBitbucketCloud
      [] service \in AzureDevOps -> ListedByAzureDevOps
      [] service = "bbdc" -> ListedByBitbucketDataCenter
      [] service = "gl" -> ListedByGitlab

Ours == {i \in DOMAIN comments : comments[i].ours /\ ~comments[i].closed}

\* The lookup takes one of the comments with the identifier.
FindComment ==
    LET n == Len(comments)
    IN  IF Ours \cap Listed = {}
          THEN {[NoTarget EXCEPT !.known = n]}
          ELSE {[NoTarget EXCEPT !.id = i] : i \in Ours \cap Listed}

-----------------------------------------------------------------------------
(* Handlers of workflow_agent.py and the resolver's results agent.         *)

Later(m) ==
    CASE m[1] = "pending" -> {"update", "feedback", "abort"} \X {m[2]}
      [] m[1] = "update" -> {<<"feedback", m[2]>>}
      [] OTHER -> {}

Published(m) ==
    \/ m[1] = "update" /\ stage[m[2]] \in {"started", "reported"}
    \/ m[1] = "feedback" /\ stage[m[2]] = "reported"
    \/ m[1] = "abort" /\ stage[m[2]] = "aborted"

\* A message that comes after m is being or has been handled already.
Overtaken(m) == \E l \in Later(m) : Published(l) /\ at[l] # "queued"

Leave(m, where) ==
    /\ at' = [at EXCEPT ![m] = where]
    /\ failing' = failing \ {m}

Forget(m) == target' = [target EXCEPT ![m] = NoTarget]

\* The targets once the comment that m found was changed: the version that
\* handlers have found of it is stale.
Outdated(m) ==
    [l \in Messages |->
        [target[l] EXCEPT !.current =
            @ /\ ~(service = "bbdc" /\ target[m].id # 0
                                   /\ target[l].id = target[m].id)]]

Outdate(m) == target' = [Outdated(m) EXCEPT ![m] = NoTarget]

\* The message is acknowledged, or rejected to a queue without a dead-letter
\* exchange.
Drop(m) == Leave(m, "absent") /\ Forget(m)

\* An exception: feedback goes on to exec_pr_unrecoverable_error, anything
\* else, and feedback that is there already, is rejected.
Reroute(m) ==
    \/ /\ m[1] = "feedback" /\ m \notin failing
       /\ failing' = failing \cup {m}
       /\ at' = [at EXCEPT ![m] = "queued"]
    \/ /\ m[1] # "feedback" \/ m \in failing
       /\ Leave(m, "absent")

Raise(m) == Reroute(m) /\ Forget(m)

\* A prescan failure that the service does not implement.
NotImplemented(m) ==
    /\ at[m] = "queued"
    /\ ~Implements(m)
    /\ Drop(m)
    /\ UNCHANGED <<service, stage, verdict, comments, status, excuses, spoilt,
                   faults>>

StatusPosted(m) ==
    /\ status' = [status EXCEPT ![m[2]] = StatusOf(Shows(m))]
    /\ spoilt' = (spoilt \/ Overtaken(m))
    /\ \/ /\ HasComment(m)
          /\ at' = [at EXCEPT ![m] = "posted"]
          /\ UNCHANGED <<failing, target>>
       \/ ~HasComment(m) /\ Drop(m)
    /\ UNCHANGED <<service, stage, verdict, comments, excuses, faults>>

\* GHServiceCommitStatus
PostCommitStatus(m) ==
    /\ at[m] = "queued"
    /\ service = "gh_status"
    /\ StatusPosted(m)

\* BBCServiceChecks
PostBuildStatus(m) ==
    /\ at[m] = "queued"
    /\ service = "bbc_checks"
    /\ StatusPosted(m)

\* ADOEServiceChecks
PostCheckStatus(m) ==
    /\ at[m] = "queued"
    /\ service = "adoe_checks" /\ Implements(m)
    /\ \/ ~EmptyPayload(m) /\ StatusPosted(m)
       \/ /\ EmptyPayload(m)
          /\ Raise(m)
          /\ UNCHANGED <<service, stage, verdict, comments, status, excuses,
                         spoilt, faults>>

\* Azure DevOps goes on to the comment when the status is not authorized.
StatusRefused(m) ==
    /\ at[m] = "queued"
    /\ service = "adoe_checks" /\ Implements(m)
    /\ Fault
    /\ at' = [at EXCEPT ![m] = "posted"]
    /\ UNCHANGED <<service, stage, verdict, failing, target, comments, status,
                   excuses>>

\* A status was set, but the answer to the request is an error of a gateway
\* or gets lost: APISession.exec sends it again or raises.
StatusAnswerLost(m) ==
    /\ at[m] = "queued"
    /\ HasStatus /\ Implements(m)
    /\ service = "adoe_checks" => ~EmptyPayload(m)
    /\ Fault
    /\ status' = [status EXCEPT ![m[2]] = StatusOf(Shows(m))]
    /\ \/ UNCHANGED <<at, failing, target>>
       \/ Raise(m)
    /\ UNCHANGED <<service, stage, verdict, comments, excuses>>

\* The lookup of the comment, the first request about it.
Find(m) ==
    /\ at[m] = IF HasStatus THEN "posted" ELSE "queued"
    /\ Implements(m)
    /\ at' = [at EXCEPT ![m] = "found"]
    /\ \E found \in FindComment : target' = [target EXCEPT ![m] = found]
    /\ excuses' = excuses \cup
           IF Ours # {} /\ Ours \cap Listed = {} THEN {"unseen"} ELSE {}
    /\ UNCHANGED <<service, stage, verdict, failing, comments, status, spoilt,
                   faults>>

NewComment(m) ==
    [ours |-> TRUE, closed |-> FALSE, shows |-> Shows(m), scan |-> m[2]]

\* Mutant: a comment that speaks of the scan already is left as it is.
OwnOnly(m) ==
    IF comments[target[m].id].scan = m[2] /\ m \notin failing
      THEN comments[target[m].id]
      ELSE [comments[target[m].id] EXCEPT !.shows = Shows(m), !.scan = m[2]]

\* The comment with the handler's text in it.
Revised(m) ==
    [comments[target[m].id] EXCEPT !.shows = Shows(m), !.scan = m[2]]

\* The request has had its effect.  The message is acknowledged, or the agent
\* dies before that and the message is delivered again.
Settle(m, race) ==
    /\ \/ /\ Leave(m, "absent")
          /\ spoilt' = (spoilt \/ race)
          /\ UNCHANGED faults
       \/ Fault /\ Leave(m, "queued")
    /\ Outdate(m)

\* A handler that found nothing adds a comment although there is one by now:
\* of another handler, or of an attempt of its own that was answered with an
\* error.
Crossing(m) ==
    IF target[m].id = 0 /\ \E i \in Ours : i > target[m].known
      THEN {"crossed"} ELSE {}

\* POST of a new comment.
Post(m) ==
    /\ Cardinality({i \in DOMAIN comments : comments[i].ours}) < MaxComments
    /\ comments' = Append(comments, NewComment(m))
    /\ excuses' = excuses \cup Crossing(m)

\* Mutant: the comment that was found is not used.
AddAlways(m) == Post(m) /\ Settle(m, Overtaken(m))

\* POST a comment, or PATCH or PUT the one that was found.
Request(m) ==
    \/ target[m].id = 0 /\ Post(m)
    \/ /\ target[m].id # 0
       /\ comments' = [comments EXCEPT ![target[m].id] = Revised(m)]
       /\ UNCHANGED excuses

CreateOrUpdate(m) == Request(m) /\ Settle(m, Overtaken(m))

GitHubWrites(m) == service \in GitHub /\ CreateOrUpdate(m)

BitbucketCloudWrites(m) == service \in BitbucketCloud /\ CreateOrUpdate(m)

GitlabWrites(m) == service = "gl" /\ CreateOrUpdate(m)

\* The server refuses to change a version that is not current.
BitbucketDataCenterWrites(m) ==
    /\ service = "bbdc"
    /\ \/ target[m].current /\ CreateOrUpdate(m)
       \/ /\ ~target[m].current
          /\ Raise(m)
          /\ spoilt' = TRUE
          /\ UNCHANGED <<comments, excuses, faults>>

\* exec_pr_unrecoverable_error changes a thread but adds none.
AzureDevOpsWrites(m) ==
    /\ service \in AzureDevOps
    /\ \/ m \notin failing /\ CreateOrUpdate(m)
       \/ /\ m \in failing
          /\ \/ target[m].id # 0 /\ CreateOrUpdate(m)
             \/ /\ target[m].id = 0
                /\ Settle(m, TRUE)
                /\ UNCHANGED <<comments, excuses>>

\* The second request about the comment.
WriteComment(m) ==
    /\ at[m] = "found"
    /\ \/ GitHubWrites(m)
       \/ BitbucketCloudWrites(m)
       \/ GitlabWrites(m)
       \/ BitbucketDataCenterWrites(m)
       \/ AzureDevOpsWrites(m)
    /\ UNCHANGED <<service, stage, verdict, status>>

\* The request has had its effect, but its answer is an error of a gateway or
\* gets lost.  APISession.exec sends the same request again, without another
\* lookup; or it raises, because the attempts are used up or the answer did
\* not come in time.
AnswerLost(m) ==
    /\ at[m] = "found"
    /\ service = "bbdc" => target[m].current
    /\ ~(service \in AzureDevOps /\ m \in failing /\ target[m].id = 0)
    /\ Fault
    /\ Request(m)
    /\ \/ target' = Outdated(m) /\ UNCHANGED <<at, failing>>
       \/ Outdate(m) /\ Reroute(m)
    /\ UNCHANGED <<service, stage, verdict, status>>

\* A request to the SCM fails for good and without effect, or the report
\* cannot be retrieved.
HandlerFails(m) ==
    /\ at[m] # "absent"
    /\ Fault
    /\ Raise(m)
    /\ UNCHANGED <<service, stage, verdict, comments, status, excuses>>

\* An agent dies in the middle of a handler.
AgentLost(m) ==
    /\ at[m] \in {"posted", "found"}
    /\ Fault
    /\ Leave(m, "queued") /\ Forget(m)
    /\ UNCHANGED <<service, stage, verdict, comments, status, excuses>>

Handle(m) ==
    \/ NotImplemented(m)
    \/ PostCommitStatus(m)
    \/ PostBuildStatus(m)
    \/ PostCheckStatus(m)
    \/ Find(m)
    \/ WriteComment(m)

-----------------------------------------------------------------------------
Next ==
    \/ \E s \in Scans : Workflow(s)
    \/ OtherComment
    \/ \E i \in DOMAIN comments : CloseComment(i)
    \/ \E m \in Messages :
          \/ Handle(m)
          \/ StatusRefused(m)
          \/ StatusAnswerLost(m)
          \/ AnswerLost(m)
          \/ HandlerFails(m)
          \/ AgentLost(m)

Spec == Init /\ [][Next]_vars

-----------------------------------------------------------------------------
(* Properties.                                                             *)

TypeOK ==
    /\ service \in Services
    /\ stage \in [Scans -> Stages]
    /\ verdict \in [Scans -> {"none", "success", "failure"}]
    /\ at \in [Messages -> {"absent", "queued", "posted", "found"}]
    /\ failing \subseteq Messages
    /\ target \in [Messages -> Target]
    /\ comments \in Seq(Comment)
    /\ status \in [Scans -> {"none", "pending", "success", "failure"}]
    /\ excuses \subseteq {"unseen", "crossed"}
    /\ spoilt \in BOOLEAN
    /\ faults \in 0..MaxFaults

\* Neither a status nor a comment ever claims a success that was not
\* reported for the scan it speaks of, and no comment claims a failed scan
\* that succeeded, whatever order the queues are served in.
DecorationIsTrue ==
    /\ \A s \in Scans : status[s] = "success" => verdict[s] = "success"
    /\ \A i \in DOMAIN comments :
          comments[i].shows \in {"success", "failure"} =>
              comments[i].shows = verdict[comments[i].scan]

\* What it takes to get a second open comment on the pull request: a lookup
\* that found none and is out of date when the comment is posted, because
\* another handler has posted since or because APISession.exec repeats a POST
\* that had its effect; or a list of which the comment is not in the part that
\* is read (GitHub beyond a full page, GitLab beyond the newest page).
\* Redeliveries, version conflicts and handlers that start over after a
\* failure, even one whose POST had its effect, do not lead to one.
OneComment == excuses = {} => Cardinality(Ours) <= 1

Final == {"success", "failure", "error"}

\* When everything has been handled, and nothing was overtaken, failed or
\* closed, the comment and the statuses show how the scans ended: no notice
\* is left standing.  Prescan failures are excepted for the services that do
\* not implement them.
FinalWord ==
    /\ \A m \in Messages : at[m] = "absent"
    /\ \A s \in Scans :
          \/ stage[s] \in {"idle", "reported"}
          \/ stage[s] = "aborted" /\ service \in {"gh", "bbc", "bbc_checks"}
    /\ ~spoilt /\ excuses = {}
    => /\ \A i \in Ours : comments[i].shows \in Final
       /\ \A s \in Scans : HasStatus /\ stage[s] # "idle" =>
              status[s] \in {"success", "failure"}
=============================================================================
