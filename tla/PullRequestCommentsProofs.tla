---------------------- MODULE PullRequestCommentsProofs ----------------------
(***************************************************************************)
(* Proofs about PullRequestComments, for any number of scans, comments and *)
(* faults and any size of a page.  Decorations stay true because a scan is *)
(* reported once.  There is one comment because a handler that found none  *)
(* knows how long the list was.  The last word is that of the feedback     *)
(* because, as long as nothing is overtaken, every handler writes into the *)
(* one comment, and the last handler of a workflow has not yet looked.     *)
(***************************************************************************)
EXTENDS PullRequestComments, SequenceTheorems, FiniteSetTheorems, TLAPS

Notices == {"pending", "update"}

\* What a message needs to have been published.
Ready(m) ==
    /\ m[1] = "pending" => stage[m[2]] # "idle"
    /\ m[1] = "update" => stage[m[2]] \in {"started", "reported"}
    /\ m[1] = "feedback" => stage[m[2]] = "reported" /\ verdict[m[2]] # "none"
    /\ m[1] = "abort" => stage[m[2]] = "aborted"

\* Messages come from the workflow; a verdict exists once it has reported.
Sent ==
    /\ \A m \in Messages : at[m] # "absent" => Ready(m)
    /\ \A s \in Scans : verdict[s] # "none" => stage[s] = "reported"

\* What handlers remember of the comments: one of ours, or a number of
\* comments among which none of ours is open.
Remembered ==
    \A m \in Messages :
        /\ target[m].id # 0 =>
              target[m].id \in DOMAIN comments /\ comments[target[m].id].ours
        /\ at[m] = "found" /\ target[m].id = 0 =>
              /\ target[m].known <= Len(comments)
              /\ excuses = {} => \A i \in Ours : i > target[m].known

\* The open comment of the service is the only one.
AtMostOne == excuses = {} => \A i, j \in Ours : i = j

\* Nothing has failed and nobody has closed a comment.
Undisturbed ==
    ~spoilt => failing = {} /\ \A i \in DOMAIN comments : ~comments[i].closed

\* The handler with the last word on s has not had it yet.
Awaited(s) ==
    \/ stage[s] \in {"delegated", "started"}
    \/ stage[s] = "reported" /\ at[<<"feedback", s>>] # "absent"
    \/ /\ stage[s] = "aborted"
       /\ \/ at[<<"abort", s>>] # "absent"
          \/ service \notin {"gh", "bbc", "bbc_checks"}

\* A notice stands only while the handler that replaces it is to come.
NoticeAwaits ==
    ~spoilt /\ excuses = {} =>
        \A i \in Ours : comments[i].shows \in Notices => Awaited(comments[i].scan)

\* The handlers that post the last status of s have not started.
StatusAwaited(s) ==
    \/ stage[s] \in {"idle", "delegated", "started"}
    \/ stage[s] = "reported" /\ at[<<"feedback", s>>] = "queued"
    \/ /\ stage[s] = "aborted"
       /\ at[<<"abort", s>>] = "queued" \/ service # "bbc_checks"

\* A status that says nothing final is one that a handler will replace.
StatusAwaits ==
    ~spoilt /\ HasStatus =>
        \A s \in Scans : status[s] \in {"success", "failure"} \/ StatusAwaited(s)

IInv ==
    /\ TypeOK
    /\ Sent
    /\ DecorationIsTrue
    /\ Remembered
    /\ AtMostOne
    /\ Undisturbed
    /\ NoticeAwaits
    /\ StatusAwaits

-----------------------------------------------------------------------------
(* Types.                                                                  *)

\* The parts of a message.
LEMMA MessageType ==
    ASSUME NEW m \in Messages
    PROVE  /\ m[1] \in {"pending", "update", "feedback", "abort"}
           /\ m[2] \in Scans
           /\ m = <<m[1], m[2]>>
  BY DEF Messages

\* The comments speak of scans.
LEMMA CommentScans ==
    ASSUME TypeOK
    PROVE  \A i \in DOMAIN comments : comments[i].scan \in Scans
  <1>1. \A i \in DOMAIN comments : comments[i] \in Comment
    BY DEF TypeOK
  <1> QED BY <1>1 DEF Comment

\* A fault stays within the bound: the number of other people's comments is
\* a number.
LEMMA FaultType ==
    ASSUME TypeOK, UNCHANGED faults \/ Fault
    PROVE  faults' \in 0..MaxFaults
  <1>1. faults \in 0..MaxFaults /\ MaxFaults \in Nat
    BY CommentsAssumption DEF TypeOK
  <1>2. Cardinality(Others) \in Nat
    <2>1. DOMAIN comments = 1..Len(comments) /\ Len(comments) \in Nat
      BY DEF TypeOK
    <2>2. IsFiniteSet(1..Len(comments))
      BY <2>1, FS_Interval
    <2>3. Others \subseteq 1..Len(comments)
      BY <2>1 DEF Others
    <2> QED BY <2>2, <2>3, FS_Subset, FS_CardinalityType
  <1>3. CASE UNCHANGED faults
    BY <1>1, <1>3
  <1>4. CASE Fault
    BY <1>1, <1>2, <1>4 DEF Fault, Disturbable
  <1> QED BY <1>3, <1>4

\* What a handler shows is something a comment can show; a verdict is shown
\* only by the handler of the feedback.
LEMMA ShowsType ==
    ASSUME TypeOK, Sent, NEW m \in Messages, at[m] # "absent"
    PROVE  /\ Shows(m) \in Shown
           /\ Shows(m) \in {"success", "failure"} => Shows(m) = verdict[m[2]]
           /\ m[1] \in {"feedback", "abort"} => Shows(m) \notin Notices
           /\ Shows(m) \in Notices => m[1] \in Notices
           /\ StatusOf(Shows(m)) \in {"pending", "success", "failure"}
           /\ StatusOf(Shows(m)) = "success" => verdict[m[2]] = "success"
           /\ m[1] \in {"feedback", "abort"} =>
                  StatusOf(Shows(m)) \in {"success", "failure"}
  <1>1. /\ m[1] \in {"pending", "update", "feedback", "abort"}
        /\ m[2] \in Scans
    BY MessageType
  <1>2. verdict[m[2]] \in {"none", "success", "failure"}
    BY <1>1 DEF TypeOK
  <1>3. m[1] = "feedback" => verdict[m[2]] # "none"
    BY DEF Sent, Ready
  <1>4. CASE m[1] = "abort" \/ m \in failing
    <2>1. Shows(m) = "error"
      BY <1>4 DEF Shows
    <2> QED BY <2>1 DEF Shown, Notices, StatusOf
  <1>5. CASE ~(m[1] = "abort" \/ m \in failing) /\ m[1] = "feedback"
    <2>1. Shows(m) = verdict[m[2]]
      BY <1>5 DEF Shows
    <2> QED BY <1>2, <1>3, <1>5, <2>1 DEF Shown, Notices, StatusOf
  <1>6. CASE ~(m[1] = "abort" \/ m \in failing) /\ m[1] # "feedback"
    <2>1. Shows(m) = m[1]
      BY <1>6 DEF Shows
    <2> QED BY <1>1, <1>6, <2>1 DEF Shown, Notices, StatusOf
  <1> QED BY <1>4, <1>5, <1>6

\* A comment is changed or added.
LEMMA CommentTypes ==
    ASSUME TypeOK, Sent, Remembered, NEW m \in Messages, at[m] # "absent"
    PROVE  /\ Append(comments, NewComment(m)) \in Seq(Comment)
           /\ target[m].id # 0 =>
                 [comments EXCEPT ![target[m].id] = Revised(m)] \in Seq(Comment)
  <1>1. m[2] \in Scans /\ Shows(m) \in Shown
    BY MessageType, ShowsType
  <1>2. NewComment(m) \in Comment
    BY <1>1 DEF NewComment, Comment
  <1>3. comments \in [1..Len(comments) -> Comment] /\ Len(comments) \in Nat
    BY DEF TypeOK
  <1>4. ASSUME target[m].id # 0
        PROVE  [comments EXCEPT ![target[m].id] = Revised(m)] \in Seq(Comment)
    <2>1. target[m].id \in 1..Len(comments)
      BY <1>3, <1>4 DEF Remembered
    <2>2. comments[target[m].id] \in Comment
      BY <1>3, <2>1
    <2>3. Revised(m) \in Comment
      BY <1>1, <2>2 DEF Revised, Comment
    <2>4. [comments EXCEPT ![target[m].id] = Revised(m)]
              \in [1..Len(comments) -> Comment]
      BY <1>3, <2>3
    <2> QED BY <1>3, <2>4, SeqDef
  <1> QED BY <1>2, <1>4 DEF TypeOK

-----------------------------------------------------------------------------
(* What steps do to the messages.                                          *)

\* The other messages are where they were and remember what they found.
Elsewhere(m) ==
    \A l \in Messages :
        l # m => /\ at'[l] = at[l]
                 /\ target'[l].id = target[l].id
                 /\ target'[l].known = target[l].known

\* The handler of m is done with m for now.
Released(m) ==
    /\ at' \in [Messages -> {"absent", "queued", "posted", "found"}]
    /\ failing' \subseteq Messages
    /\ target' \in [Messages -> Target]
    /\ Elsewhere(m)
    /\ at'[m] \in {"absent", "queued"}
    /\ target'[m] = NoTarget

\* A version that is out of date changes nothing else of what was found.
LEMMA OutdatedType ==
    ASSUME TypeOK, NEW m \in Messages
    PROVE  /\ Outdated(m) \in [Messages -> Target]
           /\ \A l \in Messages : /\ Outdated(m)[l].id = target[l].id
                                  /\ Outdated(m)[l].known = target[l].known
  <1>1. target \in [Messages -> Target]
    BY DEF TypeOK
  <1>2. ASSUME NEW l \in Messages
        PROVE  /\ Outdated(m)[l] \in Target
               /\ Outdated(m)[l].id = target[l].id
               /\ Outdated(m)[l].known = target[l].known
    <2>1. target[l] \in Target
      BY <1>1
    <2>2. PICK b \in BOOLEAN : Outdated(m)[l] = [target[l] EXCEPT !.current = b]
      BY <2>1 DEF Outdated, Target
    <2> QED BY <2>1, <2>2 DEF Target
  <1>3. Outdated(m) = [l \in Messages |-> Outdated(m)[l]]
    BY DEF Outdated
  <1> QED BY <1>2, <1>3

\* The types of the steps' parts.
LEMMA TargetTypes ==
    ASSUME TypeOK, NEW m \in Messages, Forget(m) \/ Outdate(m)
    PROVE  /\ target' \in [Messages -> Target]
           /\ target'[m] = NoTarget
           /\ \A l \in Messages : l # m => /\ target'[l].id = target[l].id
                                           /\ target'[l].known = target[l].known
  <1>1. target \in [Messages -> Target] /\ NoTarget \in Target
    BY DEF TypeOK, NoTarget, Target
  <1>2. CASE Forget(m)
    BY <1>1, <1>2 DEF Forget
  <1>3. CASE Outdate(m)
    <2> DEFINE o == Outdated(m)
    <2>1. /\ o \in [Messages -> Target]
          /\ \A l \in Messages : o[l].id = target[l].id /\ o[l].known = target[l].known
      BY OutdatedType
    <2>2. target' = [o EXCEPT ![m] = NoTarget]
      BY <1>3 DEF Outdate
    <2> HIDE DEF o
    <2> QED BY <1>1, <2>1, <2>2
  <1> QED BY <1>2, <1>3

\* A message that is acknowledged, dropped or delivered again.
LEMMA LeaveReleases ==
    ASSUME TypeOK, NEW m \in Messages, NEW where \in {"absent", "queued"},
           Leave(m, where), Forget(m) \/ Outdate(m)
    PROVE  Released(m) /\ at'[m] = where /\ failing' \subseteq failing
  <1>1. /\ at' = [at EXCEPT ![m] = where]
        /\ failing' = failing \ {m}
        /\ at \in [Messages -> {"absent", "queued", "posted", "found"}]
        /\ failing \subseteq Messages
    BY DEF Leave, TypeOK
  <1>2. /\ at' \in [Messages -> {"absent", "queued", "posted", "found"}]
        /\ at'[m] = where
        /\ \A l \in Messages : l # m => at'[l] = at[l]
    BY <1>1
  <1>3. failing' \subseteq Messages /\ failing' \subseteq failing
    BY <1>1
  <1> QED BY <1>2, <1>3, TargetTypes DEF Released, Elsewhere

\* A handler that raises, with or without effect.
LEMMA RerouteReleases ==
    ASSUME TypeOK, NEW m \in Messages, Reroute(m), Forget(m) \/ Outdate(m)
    PROVE  /\ Released(m)
           /\ m[1] # "feedback" => at'[m] = "absent" /\ failing' \subseteq failing
  <1>1. CASE m[1] = "feedback" /\ m \notin failing
    <2>1. /\ failing' = failing \cup {m}
          /\ at' = [at EXCEPT ![m] = "queued"]
          /\ at \in [Messages -> {"absent", "queued", "posted", "found"}]
          /\ failing \subseteq Messages
      BY <1>1 DEF Reroute, TypeOK
    <2>2. /\ at' \in [Messages -> {"absent", "queued", "posted", "found"}]
          /\ at'[m] = "queued"
          /\ \A l \in Messages : l # m => at'[l] = at[l]
      BY <2>1
    <2>3. failing' \subseteq Messages
      BY <2>1
    <2> QED BY <1>1, <2>2, <2>3, TargetTypes DEF Released, Elsewhere
  <1>2. CASE m[1] # "feedback" \/ m \in failing
    <2>1. Leave(m, "absent")
      BY <1>2 DEF Reroute
    <2> QED BY <2>1, LeaveReleases
  <1> QED BY <1>1, <1>2

\* A handler that raises.
LEMMA RaiseReleases ==
    ASSUME TypeOK, NEW m \in Messages, Raise(m)
    PROVE  /\ Released(m)
           /\ m[1] # "feedback" => at'[m] = "absent" /\ failing' \subseteq failing
  BY RerouteReleases DEF Raise

-----------------------------------------------------------------------------
(* What a write does to the comments.                                      *)

\* A comment is added, the comment that was found is changed, or neither.
Added(m) ==
    /\ target[m].id = 0
    /\ comments' = Append(comments, NewComment(m))
    /\ excuses' = excuses \cup Crossing(m)

Changed(m) ==
    /\ target[m].id # 0
    /\ comments' = [comments EXCEPT ![target[m].id] = Revised(m)]
    /\ UNCHANGED excuses

\* The handler is about to send its request again.
Resends(m) ==
    /\ UNCHANGED <<at, failing>>
    /\ target' \in [Messages -> Target]
    /\ \A l \in Messages : /\ target'[l].id = target[l].id
                           /\ target'[l].known = target[l].known

\* A write had its effect: unless something went wrong the message is gone
\* and nothing had overtaken it.
Written(m) ==
    /\ Released(m) \/ Resends(m)
    /\ UNCHANGED faults \/ Fault
    /\ spoilt' \in BOOLEAN
    /\ \/ Added(m) \/ Changed(m)
       \/ UNCHANGED <<comments, excuses>> /\ spoilt'
    /\ ~spoilt' => /\ ~spoilt /\ ~Overtaken(m)
                   /\ at'[m] = "absent"
                   /\ failing' \subseteq failing

\* After the last request a message is acknowledged, or the agent was lost and
\* the message is queued again; then, or after a race, decorations are spoilt.
LEMMA SettleReleases ==
    ASSUME TypeOK, NEW m \in Messages, NEW race \in BOOLEAN, Settle(m, race)
    PROVE  /\ Released(m)
           /\ UNCHANGED faults \/ Fault
           /\ spoilt' \in BOOLEAN
           /\ race => spoilt'
           /\ ~spoilt' => /\ ~spoilt
                          /\ at'[m] = "absent"
                          /\ failing' \subseteq failing
  <1>1. Outdate(m)
    BY DEF Settle
  <1>2. CASE Leave(m, "absent") /\ spoilt' = (spoilt \/ race) /\ UNCHANGED faults
    <2>1. Released(m) /\ at'[m] = "absent" /\ failing' \subseteq failing
      BY <1>1, <1>2, LeaveReleases
    <2>2. spoilt' \in BOOLEAN /\ (race => spoilt') /\ (~spoilt' => ~spoilt)
      BY <1>2, Zenon DEF TypeOK
    <2> QED BY <1>2, <2>1, <2>2
  <1>3. CASE Fault /\ Leave(m, "queued")
    <2>1. Released(m)
      BY <1>1, <1>3, LeaveReleases
    <2>2. spoilt' = TRUE
      BY <1>3 DEF Fault
    <2> QED BY <1>3, <2>1, <2>2
  <1> QED BY <1>2, <1>3 DEF Settle

\* Adding a comment or changing the one that was found.
LEMMA CreateOrUpdateWrites ==
    ASSUME TypeOK, NEW m \in Messages, CreateOrUpdate(m)
    PROVE  Written(m)
  <1>1. Overtaken(m) \in BOOLEAN
    BY DEF Overtaken
  <1>2. Settle(m, Overtaken(m)) /\ (Added(m) \/ Changed(m))
    BY DEF CreateOrUpdate, Request, Added, Changed, Post
  <1> QED BY <1>1, <1>2, SettleReleases DEF Written

\* A request that had its effect although its answer was lost.
LEMMA AnswerLostWrites ==
    ASSUME TypeOK, NEW m \in Messages, AnswerLost(m)
    PROVE  /\ Written(m)
           /\ at[m] = "found"
           /\ UNCHANGED <<service, stage, verdict, status>>
  <1>1. /\ at[m] = "found" /\ Fault /\ spoilt' = TRUE
        /\ UNCHANGED <<service, stage, verdict, status>>
    BY DEF AnswerLost, Fault
  <1>2. Added(m) \/ Changed(m)
    BY DEF AnswerLost, Request, Added, Changed, Post
  <1>3. CASE target' = Outdated(m) /\ UNCHANGED <<at, failing>>
    <2>1. Resends(m)
      BY <1>3, OutdatedType DEF Resends
    <2> QED BY <1>1, <1>2, <2>1 DEF Written
  <1>4. CASE Outdate(m) /\ Reroute(m)
    BY <1>1, <1>2, <1>4, RerouteReleases DEF Written
  <1> QED BY <1>3, <1>4 DEF AnswerLost

\* The last request of a handler, also when it raises.
LEMMA WriteCommentWrites ==
    ASSUME TypeOK, NEW m \in Messages, WriteComment(m)
    PROVE  /\ Written(m)
           /\ at[m] = "found"
           /\ UNCHANGED <<service, stage, verdict, status>>
  <1>1. at[m] = "found" /\ UNCHANGED <<service, stage, verdict, status>>
    BY DEF WriteComment
  <1>2. CASE CreateOrUpdate(m)
    BY <1>1, <1>2, CreateOrUpdateWrites
  <1>3. CASE Raise(m) /\ spoilt' = TRUE /\ UNCHANGED <<comments, excuses, faults>>
    BY <1>1, <1>3, RaiseReleases DEF Written
  <1>4. CASE Settle(m, TRUE) /\ UNCHANGED <<comments, excuses>>
    BY <1>1, <1>4, SettleReleases DEF Written
  <1> QED BY <1>2, <1>3, <1>4
          DEF WriteComment, GitHubWrites, BitbucketCloudWrites, GitlabWrites,
              BitbucketDataCenterWrites, AzureDevOpsWrites

-----------------------------------------------------------------------------
(* What the other steps of a handler do.                                   *)

\* The handler ends without a write.  Without a fault these are the notice
\* whose payload is refused and the prescan failure that is not implemented.
GivesUp(m) ==
    /\ at[m] # "absent"
    /\ Released(m)
    /\ UNCHANGED <<service, stage, verdict, comments, status, excuses>>
    /\ UNCHANGED faults \/ Fault
    /\ spoilt' \in BOOLEAN
    /\ ~spoilt' => /\ ~spoilt
                   /\ failing' \subseteq failing
                   /\ \/ m[1] = "pending"
                      \/ m[1] = "abort" /\ service \notin GitHub \cup BitbucketCloud

\* The handler has posted a status, or was refused to, or was not told.
Posts(m) ==
    /\ at[m] = "queued"
    /\ HasStatus
    /\ at' \in [Messages -> {"absent", "queued", "posted", "found"}]
    /\ failing' \subseteq Messages
    /\ target' \in [Messages -> Target]
    /\ Elsewhere(m)
    /\ \/ at'[m] = "posted" /\ target'[m] = target[m]
       \/ /\ at'[m] \in {"absent", "queued"} /\ target'[m] \in {target[m], NoTarget}
          /\ spoilt'
       \/ /\ at'[m] = "absent" /\ target'[m] = NoTarget
          /\ m[1] = "abort" /\ service = "gh_status"
    /\ UNCHANGED <<service, stage, verdict, comments, excuses>>
    /\ UNCHANGED faults \/ Fault
    /\ spoilt' \in BOOLEAN
    /\ \/ status' = [status EXCEPT ![m[2]] = StatusOf(Shows(m))]
       \/ spoilt' /\ UNCHANGED status
    /\ ~spoilt' => ~spoilt /\ ~Overtaken(m) /\ failing' \subseteq failing

Writes(m) ==
    /\ at[m] = "found"
    /\ Written(m)
    /\ UNCHANGED <<service, stage, verdict, status>>

\* Posting a commit status or a required check.
LEMMA StatusPosts ==
    ASSUME TypeOK, NEW m \in Messages, at[m] = "queued", HasStatus,
           StatusPosted(m)
    PROVE  Posts(m)
  <1>1. /\ status' = [status EXCEPT ![m[2]] = StatusOf(Shows(m))]
        /\ UNCHANGED <<service, stage, verdict, comments, excuses, faults>>
    BY DEF StatusPosted
  <1>2. spoilt' \in BOOLEAN /\ (~spoilt' => ~spoilt /\ ~Overtaken(m))
    <2>1. spoilt' = (spoilt \/ Overtaken(m)) /\ spoilt \in BOOLEAN
      BY DEF StatusPosted, TypeOK
    <2>2. Overtaken(m) \in BOOLEAN
      BY DEF Overtaken
    <2> QED BY <2>1, <2>2, Zenon
  <1>3. CASE HasComment(m)
    <2>1. at' = [at EXCEPT ![m] = "posted"] /\ UNCHANGED <<failing, target>>
      BY <1>3 DEF StatusPosted
    <2>2. /\ at' \in [Messages -> {"absent", "queued", "posted", "found"}]
          /\ at'[m] = "posted"
          /\ \A l \in Messages : l # m => at'[l] = at[l]
      BY <2>1 DEF TypeOK
    <2> QED BY <1>1, <1>2, <2>1, <2>2 DEF Posts, Elsewhere, TypeOK
  <1>4. CASE ~HasComment(m)
    <2>1. Leave(m, "absent") /\ Forget(m)
      BY <1>4 DEF StatusPosted, Drop
    <2>2. Released(m) /\ at'[m] = "absent" /\ failing' \subseteq failing
      BY <2>1, LeaveReleases
    <2>3. m[1] = "abort" /\ service = "gh_status"
      BY <1>4 DEF HasComment
    <2> QED BY <1>1, <1>2, <2>2, <2>3 DEF Posts, Released
  <1> QED BY <1>3, <1>4

\* Every step of a handler is one of four.
LEMMA HandlerSteps ==
    ASSUME TypeOK, Undisturbed, NEW m \in Messages,
           \/ Handle(m) \/ StatusRefused(m) \/ StatusAnswerLost(m)
           \/ AnswerLost(m) \/ HandlerFails(m) \/ AgentLost(m)
    PROVE  GivesUp(m) \/ Posts(m) \/ Find(m) \/ Writes(m)
  <1>0. m[1] \in {"pending", "update", "feedback", "abort"}
    BY MessageType
  <1>1. CASE NotImplemented(m)
    <2>1. /\ at[m] = "queued"
          /\ Leave(m, "absent") /\ Forget(m)
          /\ UNCHANGED <<service, stage, verdict, comments, status, excuses, spoilt,
                         faults>>
          /\ m[1] = "abort" /\ service \notin GitHub \cup BitbucketCloud
      BY <1>1 DEF NotImplemented, Drop, Implements
    <2>2. Released(m) /\ failing' \subseteq failing
      BY <2>1, LeaveReleases
    <2>3. spoilt' \in BOOLEAN /\ (~spoilt' => ~spoilt)
      BY <2>1 DEF TypeOK
    <2> QED BY <2>1, <2>2, <2>3 DEF GivesUp
  <1>2. CASE at[m] = "queued" /\ HasStatus /\ StatusPosted(m)
    BY <1>2, StatusPosts
  <1>3. CASE /\ at[m] = "queued"
             /\ EmptyPayload(m) /\ Raise(m)
             /\ UNCHANGED <<service, stage, verdict, comments, status, excuses,
                            spoilt, faults>>
    <2>1. /\ Released(m)
          /\ m[1] # "feedback" => failing' \subseteq failing
      BY <1>3, RaiseReleases
    <2>2. ~spoilt => m[1] = "pending"
      BY <1>3 DEF EmptyPayload, Undisturbed
    <2>3. spoilt' = spoilt /\ spoilt' \in BOOLEAN
      BY <1>3 DEF TypeOK
    <2> QED BY <1>3, <2>1, <2>2, <2>3 DEF GivesUp
  <1>4. CASE StatusRefused(m)
    <2>1. /\ at[m] = "queued" /\ HasStatus
          /\ Fault
          /\ at' = [at EXCEPT ![m] = "posted"]
          /\ UNCHANGED <<service, stage, verdict, failing, target, comments, status,
                         excuses>>
      BY <1>4 DEF StatusRefused, HasStatus
    <2>2. /\ at' \in [Messages -> {"absent", "queued", "posted", "found"}]
          /\ at'[m] = "posted"
          /\ \A l \in Messages : l # m => at'[l] = at[l]
      BY <2>1 DEF TypeOK
    <2>3. spoilt' = TRUE
      BY <2>1 DEF Fault
    <2> QED BY <2>1, <2>2, <2>3 DEF Posts, Elsewhere, TypeOK
  <1>5. CASE HandlerFails(m)
    <2>1. spoilt' = TRUE /\ Fault
      BY <1>5 DEF HandlerFails, Fault
    <2> QED BY <1>5, <2>1, RaiseReleases DEF HandlerFails, GivesUp
  <1>6. CASE AgentLost(m)
    <2>1. spoilt' = TRUE /\ Fault
      BY <1>6 DEF AgentLost, Fault
    <2> QED BY <1>6, <2>1, LeaveReleases DEF AgentLost, GivesUp
  <1>7. CASE WriteComment(m)
    BY <1>7, WriteCommentWrites DEF Writes
  <1>8. CASE AnswerLost(m)
    BY <1>8, AnswerLostWrites DEF Writes
  <1>9. CASE StatusAnswerLost(m)
    <2>1. /\ at[m] = "queued" /\ HasStatus
          /\ Fault /\ spoilt' = TRUE
          /\ status' = [status EXCEPT ![m[2]] = StatusOf(Shows(m))]
          /\ UNCHANGED <<service, stage, verdict, comments, excuses>>
      BY <1>9 DEF StatusAnswerLost, Fault
    <2>2. CASE UNCHANGED <<at, failing, target>>
      BY <2>1, <2>2 DEF Posts, Elsewhere, TypeOK
    <2>3. CASE Raise(m)
      BY <2>1, <2>3, RaiseReleases DEF Posts, Released
    <2> QED BY <1>9, <2>2, <2>3 DEF StatusAnswerLost
  <1> QED BY <1>1, <1>2, <1>3, <1>4, <1>5, <1>6, <1>7, <1>8, <1>9
          DEF Handle, PostCommitStatus, PostBuildStatus, PostCheckStatus, HasStatus

-----------------------------------------------------------------------------
(* The lookup.                                                             *)

\* A lookup returns a comment of the service, or says that it saw none.
LEMMA FindFinds ==
    ASSUME TypeOK, NEW m \in Messages, Find(m)
    PROVE  /\ at[m] \in {"queued", "posted"} /\ at'[m] = "found"
           /\ HasStatus => at[m] = "posted"
           /\ at' \in [Messages -> {"absent", "queued", "posted", "found"}]
           /\ target' \in [Messages -> Target]
           /\ Elsewhere(m)
           /\ target'[m].id # 0 => target'[m].id \in Ours
           /\ target'[m].id = 0 => /\ target'[m].known = Len(comments)
                                   /\ excuses' = {} => Ours = {}
           /\ excuses' \subseteq {"unseen", "crossed"}
           /\ excuses' = {} => excuses = {}
           /\ UNCHANGED <<service, stage, verdict, failing, comments, status,
                          spoilt, faults>>
  <1>1. /\ at[m] = IF HasStatus THEN "posted" ELSE "queued"
        /\ at' = [at EXCEPT ![m] = "found"]
        /\ UNCHANGED <<service, stage, verdict, failing, comments, status, spoilt,
                       faults>>
    BY DEF Find
  <1>2. /\ at' \in [Messages -> {"absent", "queued", "posted", "found"}]
        /\ at'[m] = "found"
        /\ \A l \in Messages : l # m => at'[l] = at[l]
    BY <1>1 DEF TypeOK
  <1>3. PICK found \in FindComment : target' = [target EXCEPT ![m] = found]
    BY DEF Find
  <1>4. Len(comments) \in Nat /\ DOMAIN comments = 1..Len(comments)
    BY DEF TypeOK
  <1>5. Ours \subseteq Nat \ {0}
    BY <1>4 DEF Ours
  <1>6. /\ found \in Target
        /\ found.id # 0 => found.id \in Ours
        /\ found.id = 0 => found.known = Len(comments) /\ Ours \cap Listed = {}
    <2>1. CASE Ours \cap Listed = {}
      <3>1. found = [NoTarget EXCEPT !.known = Len(comments)]
        BY <1>3, <2>1 DEF FindComment
      <3> QED BY <1>4, <2>1, <3>1 DEF NoTarget, Target
    <2>2. CASE Ours \cap Listed # {}
      <3>1. PICK i \in Ours \cap Listed : found = [NoTarget EXCEPT !.id = i]
        BY <1>3, <2>2 DEF FindComment
      <3>2. i \in Nat \ {0} /\ i \in Ours
        BY <1>5
      <3> QED BY <3>1, <3>2 DEF NoTarget, Target
    <2> QED BY <2>1, <2>2
  <1>7. /\ target' \in [Messages -> Target]
        /\ target'[m] = found
        /\ \A l \in Messages : l # m => target'[l] = target[l]
    BY <1>3, <1>6 DEF TypeOK
  <1>8. excuses' = excuses \cup
           IF Ours # {} /\ Ours \cap Listed = {} THEN {"unseen"} ELSE {}
    BY DEF Find
  <1>9. /\ excuses' \subseteq {"unseen", "crossed"}
        /\ excuses' = {} => excuses = {} /\ (Ours = {} \/ Ours \cap Listed # {})
    BY <1>8 DEF TypeOK
  <1> QED BY <1>1, <1>2, <1>6, <1>7, <1>9 DEF Elsewhere

-----------------------------------------------------------------------------
(* The comments after a write.                                             *)

\* A new comment is the last one, and it is open.
LEMMA AddedComments ==
    ASSUME TypeOK, Sent, Remembered, NEW m \in Messages, at[m] # "absent",
           Added(m)
    PROVE  /\ comments' \in Seq(Comment)
           /\ Len(comments') = Len(comments) + 1
           /\ DOMAIN comments' = 1..Len(comments) + 1
           /\ \A i \in DOMAIN comments : comments'[i] = comments[i]
           /\ comments'[Len(comments) + 1] = NewComment(m)
           /\ Ours' = Ours \cup {Len(comments) + 1}
           /\ excuses' \subseteq {"unseen", "crossed"}
           /\ excuses' = {} => excuses = {} /\ ~\E i \in Ours : i > target[m].known
  <1>1. comments' = Append(comments, NewComment(m)) /\ comments' \in Seq(Comment)
    BY CommentTypes DEF Added
  <1>2. NewComment(m) \in Comment
    <2>1. m[2] \in Scans /\ Shows(m) \in Shown
      BY MessageType, ShowsType
    <2> QED BY <2>1 DEF NewComment, Comment
  <1>3. comments \in Seq(Comment) /\ Len(comments) \in Nat
    BY DEF TypeOK
  <1>4. /\ Len(comments') = Len(comments) + 1
        /\ DOMAIN comments' = 1..Len(comments) + 1
        /\ \A i \in 1..Len(comments) : comments'[i] = comments[i]
        /\ comments'[Len(comments) + 1] = NewComment(m)
        /\ DOMAIN comments = 1..Len(comments)
    BY <1>1, <1>2, <1>3, AppendProperties
  <1>5. NewComment(m).ours /\ ~NewComment(m).closed
    BY DEF NewComment
  <1>6. ASSUME NEW i PROVE i \in Ours' <=> i \in Ours \cup {Len(comments) + 1}
    <2>1. i \in 1..Len(comments) + 1 <=>
              i \in 1..Len(comments) \/ i = Len(comments) + 1
      BY <1>3
    <2>2. Len(comments) + 1 \notin 1..Len(comments)
      BY <1>3
    <2> QED BY <1>4, <1>5, <2>1, <2>2 DEF Ours
  <1>7. Ours' = Ours \cup {Len(comments) + 1}
    BY <1>6
  <1>8. /\ excuses' \subseteq {"unseen", "crossed"}
        /\ excuses' = {} => excuses = {} /\ ~\E i \in Ours : i > target[m].known
    BY DEF Added, Crossing, TypeOK
  <1> QED BY <1>1, <1>4, <1>7, <1>8

\* A changed comment is the one that was found; it is ours, and as open as it
\* was.
LEMMA ChangedComments ==
    ASSUME TypeOK, Sent, Remembered, NEW m \in Messages, at[m] # "absent",
           Changed(m)
    PROVE  /\ comments' \in Seq(Comment)
           /\ Len(comments') = Len(comments)
           /\ DOMAIN comments' = DOMAIN comments
           /\ target[m].id \in DOMAIN comments
           /\ \A i \in DOMAIN comments :
                 i # target[m].id => comments'[i] = comments[i]
           /\ \A i \in DOMAIN comments :
                 /\ comments'[i].ours = comments[i].ours
                 /\ comments'[i].closed = comments[i].closed
           /\ comments'[target[m].id].shows = Shows(m)
           /\ comments'[target[m].id].scan = m[2]
           /\ Ours' = Ours
           /\ UNCHANGED excuses
  <1> DEFINE t == target[m].id
  <1>1. /\ t # 0 /\ comments' = [comments EXCEPT ![t] = Revised(m)]
        /\ UNCHANGED excuses
    BY DEF Changed
  <1>2. comments' \in Seq(Comment)
    BY <1>1, CommentTypes
  <1>3. /\ comments \in [1..Len(comments) -> Comment] /\ Len(comments) \in Nat
        /\ DOMAIN comments = 1..Len(comments)
    BY DEF TypeOK
  <1>4. t \in DOMAIN comments
    BY <1>1 DEF Remembered
  <1>5. /\ DOMAIN comments' = DOMAIN comments
        /\ \A i \in DOMAIN comments : i # t => comments'[i] = comments[i]
        /\ comments'[t] = Revised(m)
    BY <1>1, <1>3, <1>4
  <1>6. Len(comments') = Len(comments)
    BY <1>2, <1>3, <1>5, LenProperties
  <1>7. /\ comments'[t].ours = comments[t].ours
        /\ comments'[t].closed = comments[t].closed
        /\ comments'[t].shows = Shows(m)
        /\ comments'[t].scan = m[2]
    <2>1. comments[t] \in Comment
      BY <1>3, <1>4
    <2> QED BY <1>5, <2>1 DEF Revised, Comment
  <1>8. \A i \in DOMAIN comments : /\ comments'[i].ours = comments[i].ours
                                   /\ comments'[i].closed = comments[i].closed
    BY <1>5, <1>7
  <1>9. Ours' = Ours
    BY <1>5, <1>8 DEF Ours
  <1> QED BY <1>1, <1>2, <1>4, <1>5, <1>6, <1>7, <1>8, <1>9

-----------------------------------------------------------------------------
(* The steps of the workflow and of other people.                          *)

\* A step of the workflow brings one new message, and a verdict with the
\* feedback.
Publishes(s, kind) ==
    /\ at' = [at EXCEPT ![<<kind, s>>] = "queued"]
    /\ \A r \in Scans : r # s => stage'[r] = stage[r] /\ verdict'[r] = verdict[r]
    /\ stage' \in [Scans -> Stages]
    /\ verdict' \in [Scans -> {"none", "success", "failure"}]
    /\ stage[s] \notin {"reported", "aborted"}
    /\ kind = "pending" => stage'[s] = "delegated"
    /\ kind = "update" => stage'[s] = "started"
    /\ kind = "abort" => stage'[s] = "aborted"
    /\ kind = "feedback" => /\ stage[s] = "started"
                            /\ stage'[s] = "reported"
                            /\ verdict'[s] # "none"
    /\ kind # "feedback" => verdict'[s] = verdict[s] /\ stage[s] # "started"
    /\ stage[s] = "idle" => kind \in Notices
    /\ UNCHANGED <<service, failing, target, comments, status, excuses, spoilt,
                   faults>>

\* A workflow goes on and publishes one message.
LEMMA WorkflowPublishes ==
    ASSUME TypeOK, NEW s \in Scans, Workflow(s)
    PROVE  \E kind \in {"pending", "update", "feedback", "abort"} :
               Publishes(s, kind)
  <1>1. /\ stage \in [Scans -> Stages]
        /\ verdict \in [Scans -> {"none", "success", "failure"}]
    BY DEF TypeOK
  <1>2. ASSUME NEW from \in Stages, NEW to \in Stages,
               NEW kind \in {"pending", "update", "feedback", "abort"},
               Publish(s, from, to, kind)
        PROVE  /\ at' = [at EXCEPT ![<<kind, s>>] = "queued"]
               /\ \A r \in Scans : r # s => stage'[r] = stage[r]
               /\ stage' \in [Scans -> Stages]
               /\ stage[s] = from /\ stage'[s] = to
               /\ UNCHANGED <<service, failing, target, comments, status, excuses,
                              spoilt, faults>>
    BY <1>1, <1>2 DEF Publish
  <1>3. {"idle", "delegated", "started", "reported", "aborted"} \subseteq Stages
    BY DEF Stages
  <1>4. CASE UNCHANGED verdict
    <2>1. CASE Publish(s, "idle", "delegated", "pending")
      BY <1>1, <1>2, <1>3, <1>4, <2>1 DEF Publishes, Notices
    <2>2. CASE \/ Publish(s, "idle", "started", "update")
               \/ Publish(s, "delegated", "started", "update")
      BY <1>1, <1>2, <1>3, <1>4, <2>2 DEF Publishes, Notices
    <2>3. CASE Publish(s, "delegated", "aborted", "abort")
      BY <1>1, <1>2, <1>3, <1>4, <2>3 DEF Publishes, Notices
    <2>4. CASE Publish(s, "started", "reported", "feedback")
               /\ \E v \in {"success", "failure"} :
                     verdict' = [verdict EXCEPT ![s] = v]
      BY <1>1, <1>2, <1>3, <2>4 DEF Publishes, Notices
    <2> QED BY <2>1, <2>2, <2>3, <2>4 DEF Workflow
  <1>5. CASE Publish(s, "started", "reported", "feedback")
             /\ \E v \in {"success", "failure"} :
                   verdict' = [verdict EXCEPT ![s] = v]
    BY <1>1, <1>2, <1>3, <1>5 DEF Publishes, Notices
  <1> QED BY <1>4, <1>5 DEF Workflow

\* A comment of someone else is not ours.
LEMMA OtherComments ==
    ASSUME TypeOK, OtherComment
    PROVE  /\ comments' \in Seq(Comment)
           /\ Len(comments') = Len(comments) + 1
           /\ DOMAIN comments' = 1..Len(comments) + 1
           /\ \A i \in DOMAIN comments : comments'[i] = comments[i]
           /\ comments'[Len(comments) + 1].shows = "update"
           /\ ~comments'[Len(comments) + 1].closed
           /\ Ours' = Ours
  <1> DEFINE c == [ours |-> FALSE, closed |-> FALSE, shows |-> "update",
                   scan |-> CHOOSE s \in Scans : TRUE]
  <1>1. c \in Comment
    <2>1. (CHOOSE s \in Scans : TRUE) \in Scans
      BY CommentsAssumption
    <2> QED BY <2>1 DEF Comment, Shown
  <1>2. comments' = Append(comments, c)
    BY DEF OtherComment
  <1>3. comments \in Seq(Comment) /\ Len(comments) \in Nat
    BY DEF TypeOK
  <1>4. ~c.ours /\ ~c.closed /\ c.shows = "update"
    OBVIOUS
  <1> HIDE DEF c
  <1>5. /\ comments' \in Seq(Comment)
        /\ Len(comments') = Len(comments) + 1
        /\ DOMAIN comments' = 1..Len(comments) + 1
        /\ \A i \in 1..Len(comments) : comments'[i] = comments[i]
        /\ comments'[Len(comments) + 1] = c
        /\ DOMAIN comments = 1..Len(comments)
    BY <1>1, <1>2, <1>3, AppendProperties
  <1>6. ASSUME NEW i PROVE i \in Ours' <=> i \in Ours
    <2>1. i \in 1..Len(comments) + 1 <=>
              i \in 1..Len(comments) \/ i = Len(comments) + 1
      BY <1>3
    <2>2. Len(comments) + 1 \notin 1..Len(comments)
      BY <1>3
    <2> QED BY <1>4, <1>5, <2>1, <2>2 DEF Ours
  <1>7. Ours' = Ours
    BY <1>6
  <1> QED BY <1>4, <1>5, <1>7

\* A comment that is closed still shows what it showed.
LEMMA ClosedComments ==
    ASSUME TypeOK, NEW k \in DOMAIN comments, CloseComment(k)
    PROVE  /\ comments' \in Seq(Comment)
           /\ Len(comments') = Len(comments)
           /\ DOMAIN comments' = DOMAIN comments
           /\ \A i \in DOMAIN comments :
                 /\ comments'[i].ours = comments[i].ours
                 /\ comments'[i].shows = comments[i].shows
                 /\ comments'[i].scan = comments[i].scan
           /\ Ours' \subseteq Ours
  <1>1. comments' = [comments EXCEPT ![k] = [comments[k] EXCEPT !.closed = TRUE]]
    BY DEF CloseComment
  <1>2. /\ comments \in [1..Len(comments) -> Comment] /\ Len(comments) \in Nat
        /\ DOMAIN comments = 1..Len(comments)
    BY DEF TypeOK
  <1>3. comments[k] \in Comment
    BY <1>2
  <1>4. [comments[k] EXCEPT !.closed = TRUE] \in Comment
    BY <1>3 DEF Comment
  <1>5. comments' \in [1..Len(comments) -> Comment]
    BY <1>1, <1>2, <1>4
  <1>6. comments' \in Seq(Comment) /\ Len(comments') = Len(comments)
    BY <1>2, <1>5, SeqDef, LenProperties
  <1>7. ASSUME NEW i \in DOMAIN comments
        PROVE  /\ comments'[i].ours = comments[i].ours
               /\ comments'[i].shows = comments[i].shows
               /\ comments'[i].scan = comments[i].scan
               /\ comments'[i].closed \in {comments[i].closed, TRUE}
    <2>1. CASE i = k
      BY <1>1, <1>2, <1>3, <2>1 DEF Comment
    <2>2. CASE i # k
      BY <1>1, <1>2, <2>2
    <2> QED BY <2>1, <2>2
  <1>8. Ours' \subseteq Ours
    BY <1>2, <1>5, <1>7 DEF Ours
  <1> QED BY <1>2, <1>5, <1>6, <1>7, <1>8

-----------------------------------------------------------------------------
(* The steps keep the invariant.                                           *)

\* A step of the workflow.
LEMMA WorkflowKeeps ==
    ASSUME IInv, NEW s \in Scans, Workflow(s)
    PROVE  IInv'
  <1> USE DEF IInv
  <1>1. PICK kind \in {"pending", "update", "feedback", "abort"} :
            Publishes(s, kind)
    BY WorkflowPublishes
  <1>2. UNCHANGED <<service, failing, target, comments, status, excuses, spoilt,
                    faults>>
    BY <1>1 DEF Publishes
  <1>3. <<kind, s>> \in Messages
    BY DEF Messages
  <1>4. /\ at' \in [Messages -> {"absent", "queued", "posted", "found"}]
        /\ at'[<<kind, s>>] = "queued"
        /\ \A l \in Messages : l # <<kind, s>> => at'[l] = at[l]
    BY <1>1, <1>3 DEF Publishes, TypeOK
  <1>5. TypeOK'
    BY <1>1, <1>2, <1>4 DEF Publishes, TypeOK
  <1>6. \A r \in Scans : verdict'[r] # verdict[r] => verdict[r] = "none"
    BY <1>1 DEF Publishes, Sent
  <1>7. Sent'
    <2>1. ASSUME NEW r \in Scans, verdict'[r] # "none"
          PROVE  stage'[r] = "reported"
      BY <1>1, <2>1 DEF Publishes, Sent
    <2>2. ASSUME NEW l \in Messages, at'[l] # "absent"
          PROVE  Ready(l)'
      <3>1. /\ l[1] \in {"pending", "update", "feedback", "abort"}
            /\ l[2] \in Scans /\ l = <<l[1], l[2]>>
        BY MessageType
      <3>2. CASE l[2] # s
        <4>1. at'[l] = at[l]
          BY <1>4, <3>2
        <4>2. Ready(l)
          BY <2>2, <4>1 DEF Sent
        <4> QED BY <1>1, <3>1, <3>2, <4>2 DEF Publishes, Ready
      <3>3. CASE l = <<kind, s>>
        BY <1>1, <3>1, <3>3 DEF Publishes, Ready
      <3>4. CASE l[2] = s /\ l # <<kind, s>>
        <4>1. Ready(l)
          BY <1>4, <2>2, <3>4 DEF Sent
        <4> QED BY <1>1, <3>1, <3>4, <4>1 DEF Publishes, Ready
      <3> QED BY <3>1, <3>2, <3>3, <3>4
    <2> QED BY <2>1, <2>2 DEF Sent
  <1>8. DecorationIsTrue'
    <2>1. \A i \in DOMAIN comments : comments[i].scan \in Scans
      BY CommentScans
    <2> QED BY <1>2, <1>6, <2>1 DEF DecorationIsTrue
  <1>9. Remembered'
    <2>1. \A l \in Messages : at'[l] = "found" => at[l] = "found"
      BY <1>4
    <2> QED BY <1>2, <2>1 DEF Remembered, Ours
  <1>10. AtMostOne' /\ Undisturbed'
    BY <1>2 DEF AtMostOne, Undisturbed, Ours
  <1>11. NoticeAwaits'
    <2>1. ASSUME NEW r \in Scans, Awaited(r) PROVE Awaited(r)'
      <3>1. CASE r # s
        <4>1. \A k \in {"feedback", "abort"} : at'[<<k, r>>] = at[<<k, r>>]
          <5>1. \A k \in {"feedback", "abort"} :
                   <<k, r>> \in Messages /\ <<k, r>> # <<kind, s>>
            BY <3>1 DEF Messages
          <5> QED BY <1>4, <5>1
        <4> QED BY <1>1, <1>2, <2>1, <3>1, <4>1 DEF Publishes, Awaited
      <3>2. CASE r = s
        BY <1>1, <1>4, <2>1, <3>2 DEF Publishes, Awaited
      <3> QED BY <3>1, <3>2
    <2>2. \A i \in Ours : comments[i].scan \in Scans
      BY CommentScans DEF Ours
    <2> QED BY <1>2, <2>1, <2>2 DEF NoticeAwaits, Ours
  <1>12. StatusAwaits'
    <2>1. ASSUME NEW r \in Scans, StatusAwaited(r) PROVE StatusAwaited(r)'
      <3>1. CASE r # s
        <4>1. \A k \in {"feedback", "abort"} : at'[<<k, r>>] = at[<<k, r>>]
          <5>1. \A k \in {"feedback", "abort"} :
                   <<k, r>> \in Messages /\ <<k, r>> # <<kind, s>>
            BY <3>1 DEF Messages
          <5> QED BY <1>4, <5>1
        <4> QED BY <1>1, <1>2, <2>1, <3>1, <4>1 DEF Publishes, StatusAwaited
      <3>2. CASE r = s
        BY <1>1, <1>4, <2>1, <3>2 DEF Publishes, StatusAwaited
      <3> QED BY <3>1, <3>2
    <2> QED BY <1>2, <2>1 DEF StatusAwaits, HasStatus
  <1> QED BY <1>5, <1>7, <1>8, <1>9, <1>10, <1>11, <1>12

\* A comment of someone else.
LEMMA OtherCommentKeeps ==
    ASSUME IInv, OtherComment
    PROVE  IInv'
  <1> USE DEF IInv
  <1>1. UNCHANGED <<service, stage, verdict, at, failing, target, status, excuses,
                    spoilt, faults>>
    BY DEF OtherComment
  <1>2. /\ comments' \in Seq(Comment)
        /\ Len(comments') = Len(comments) + 1
        /\ DOMAIN comments' = 1..Len(comments) + 1
        /\ \A i \in DOMAIN comments : comments'[i] = comments[i]
        /\ comments'[Len(comments) + 1].shows = "update"
        /\ ~comments'[Len(comments) + 1].closed
        /\ Ours' = Ours
    BY OtherComments
  <1>3. DOMAIN comments = 1..Len(comments) /\ Len(comments) \in Nat
    BY DEF TypeOK
  <1>4. \A i \in DOMAIN comments' : i \in DOMAIN comments \/ i = Len(comments) + 1
    BY <1>2, <1>3
  <1>5. DOMAIN comments \subseteq DOMAIN comments'
    BY <1>2, <1>3
  <1>6. TypeOK'
    BY <1>1, <1>2 DEF TypeOK
  <1>7. Sent'
    BY <1>1 DEF Sent, Ready
  <1>8. DecorationIsTrue'
    BY <1>1, <1>2, <1>4 DEF DecorationIsTrue
  <1>9. Remembered'
    <2>1. \A m \in Messages : target[m].known \in Nat
      BY DEF TypeOK, Target
    <2>2. ASSUME NEW m \in Messages
          PROVE  /\ target'[m].id # 0 =>
                       /\ target'[m].id \in DOMAIN comments'
                       /\ comments'[target'[m].id].ours
                 /\ at'[m] = "found" /\ target'[m].id = 0 =>
                       /\ target'[m].known <= Len(comments')
                       /\ excuses' = {} => \A i \in Ours' : i > target'[m].known
      BY <1>1, <1>2, <1>3, <1>5, <2>1 DEF Remembered
    <2> QED BY <2>2 DEF Remembered
  <1>10. AtMostOne'
    BY <1>1, <1>2 DEF AtMostOne
  <1>11. Undisturbed'
    BY <1>1, <1>2, <1>4 DEF Undisturbed
  <1>12. NoticeAwaits'
    <2>1. \A r \in Scans : Awaited(r)' <=> Awaited(r)
      BY <1>1 DEF Awaited
    <2>2. \A i \in Ours : i \in DOMAIN comments /\ comments[i].scan \in Scans
      BY CommentScans DEF Ours
    <2>3. \A i \in Ours' : comments'[i] = comments[i] /\ i \in Ours
      BY <1>2, <2>2
    <2> QED BY <1>1, <2>1, <2>2, <2>3 DEF NoticeAwaits
  <1>13. StatusAwaits'
    BY <1>1 DEF StatusAwaits, StatusAwaited, HasStatus
  <1> QED BY <1>6, <1>7, <1>8, <1>9, <1>10, <1>11, <1>12, <1>13

\* Someone closes the comment.
LEMMA CloseCommentKeeps ==
    ASSUME IInv, NEW k \in DOMAIN comments, CloseComment(k)
    PROVE  IInv'
  <1> USE DEF IInv
  <1>1. /\ UNCHANGED <<service, stage, verdict, at, failing, target, status, excuses>>
        /\ Fault /\ spoilt' = TRUE
    BY DEF CloseComment, Fault
  <1>2. /\ comments' \in Seq(Comment)
        /\ Len(comments') = Len(comments)
        /\ DOMAIN comments' = DOMAIN comments
        /\ \A i \in DOMAIN comments :
              /\ comments'[i].ours = comments[i].ours
              /\ comments'[i].shows = comments[i].shows
              /\ comments'[i].scan = comments[i].scan
        /\ Ours' \subseteq Ours
    BY ClosedComments
  <1>3. TypeOK'
    <2>1. faults' \in 0..MaxFaults
      BY <1>1, FaultType
    <2> QED BY <1>1, <1>2, <2>1 DEF TypeOK
  <1>4. Sent'
    BY <1>1 DEF Sent, Ready
  <1>5. DecorationIsTrue'
    BY <1>1, <1>2 DEF DecorationIsTrue
  <1>6. Remembered'
    <2>1. ASSUME NEW m \in Messages
          PROVE  /\ target'[m].id # 0 =>
                       /\ target'[m].id \in DOMAIN comments'
                       /\ comments'[target'[m].id].ours
                 /\ at'[m] = "found" /\ target'[m].id = 0 =>
                       /\ target'[m].known <= Len(comments')
                       /\ excuses' = {} => \A i \in Ours' : i > target'[m].known
      BY <1>1, <1>2 DEF Remembered
    <2> QED BY <2>1 DEF Remembered
  <1>7. AtMostOne'
    BY <1>1, <1>2 DEF AtMostOne
  <1>8. Undisturbed' /\ NoticeAwaits' /\ StatusAwaits'
    BY <1>1 DEF Undisturbed, NoticeAwaits, StatusAwaits
  <1> QED BY <1>3, <1>4, <1>5, <1>6, <1>7, <1>8

-----------------------------------------------------------------------------
\* Handlers publish nothing: what was sent stays so.
LEMMA SentStays ==
    ASSUME Sent, NEW m \in Messages, at[m] # "absent", Elsewhere(m),
           UNCHANGED <<stage, verdict>>
    PROVE  Sent'
  <1>1. ASSUME NEW l \in Messages, at'[l] # "absent" PROVE Ready(l)'
    <2>1. at[l] # "absent"
      BY <1>1 DEF Elsewhere
    <2>2. Ready(l)
      BY <2>1 DEF Sent
    <2> QED BY <2>2 DEF Ready
  <1> QED BY <1>1 DEF Sent

\* What handlers remember outlasts a step that leaves the comments alone.
LEMMA MemoryStays ==
    ASSUME Remembered, NEW m \in Messages, Elsewhere(m),
           UNCHANGED <<comments, excuses>>,
           at'[m] # "found",
           target'[m].id = 0 \/ target'[m].id = target[m].id
    PROVE  Remembered'
  <1>1. ASSUME NEW l \in Messages
        PROVE  /\ target'[l].id # 0 =>
                     /\ target'[l].id \in DOMAIN comments'
                     /\ comments'[target'[l].id].ours
               /\ at'[l] = "found" /\ target'[l].id = 0 =>
                     /\ target'[l].known <= Len(comments')
                     /\ excuses' = {} => \A i \in Ours' : i > target'[l].known
    <2>1. CASE l = m
      BY <2>1 DEF Remembered
    <2>2. CASE l # m
      BY <2>2 DEF Remembered, Elsewhere, Ours
    <2> QED BY <2>1, <2>2
  <1> QED BY <1>1 DEF Remembered

\* What awaits a handler other than m goes on waiting for it.
LEMMA AwaitedStays ==
    ASSUME NEW m \in Messages, Elsewhere(m), UNCHANGED <<service, stage>>,
           NEW r \in Scans, Awaited(r),
           \/ at'[m] # "absent"
           \/ m \notin {<<"feedback", r>>, <<"abort", r>>}
           \/ m = <<"abort", r>> /\ service \notin {"gh", "bbc", "bbc_checks"}
    PROVE  Awaited(r)'
  <1>1. <<"feedback", r>> \in Messages /\ <<"abort", r>> \in Messages
    BY DEF Messages
  <1>2. <<"feedback", r>> # <<"abort", r>>
    OBVIOUS
  <1>3. CASE stage[r] \in {"delegated", "started"}
    BY <1>3 DEF Awaited
  <1>4. CASE stage[r] = "reported" /\ at[<<"feedback", r>>] # "absent"
    BY <1>1, <1>2, <1>4 DEF Awaited, Elsewhere
  <1>5. CASE /\ stage[r] = "aborted"
             /\ \/ at[<<"abort", r>>] # "absent"
                \/ service \notin {"gh", "bbc", "bbc_checks"}
    BY <1>1, <1>2, <1>5 DEF Awaited, Elsewhere
  <1> QED BY <1>3, <1>4, <1>5 DEF Awaited

\* The last status of r is still awaited after a step of a handler that does
\* not post it.
LEMMA StatusAwaitedStays ==
    ASSUME NEW m \in Messages, Elsewhere(m), UNCHANGED <<service, stage>>,
           NEW r \in Scans, StatusAwaited(r),
           \/ at[m] # "queued"
           \/ m \notin {<<"feedback", r>>, <<"abort", r>>}
           \/ m = <<"abort", r>> /\ service # "bbc_checks"
    PROVE  StatusAwaited(r)'
  <1>1. <<"feedback", r>> \in Messages /\ <<"abort", r>> \in Messages
    BY DEF Messages
  <1>2. <<"feedback", r>> # <<"abort", r>>
    OBVIOUS
  <1>3. CASE stage[r] \in {"idle", "delegated", "started"}
    BY <1>3 DEF StatusAwaited
  <1>4. CASE stage[r] = "reported" /\ at[<<"feedback", r>>] = "queued"
    BY <1>1, <1>2, <1>4 DEF StatusAwaited, Elsewhere
  <1>5. CASE /\ stage[r] = "aborted"
             /\ at[<<"abort", r>>] = "queued" \/ service # "bbc_checks"
    BY <1>1, <1>2, <1>5 DEF StatusAwaited, Elsewhere
  <1> QED BY <1>3, <1>4, <1>5 DEF StatusAwaited

\* A notice that nothing has overtaken: what ends the workflow is not there
\* yet or waits in its queue.
LEMMA LaterWaits ==
    ASSUME NEW m \in Messages, m[1] \in Notices, Ready(m), ~Overtaken(m)
    PROVE  /\ stage[m[2]] # "idle"
           /\ stage[m[2]] = "reported" => at[<<"feedback", m[2]>>] = "queued"
           /\ stage[m[2]] = "aborted" => at[<<"abort", m[2]>>] = "queued"
  <1>1. m[1] \in {"pending", "update"}
    BY DEF Notices
  <1>2. stage[m[2]] # "idle"
    BY <1>1 DEF Ready
  <1>3. ASSUME stage[m[2]] = "reported"
        PROVE  at[<<"feedback", m[2]>>] = "queued"
    <2>1. <<"feedback", m[2]>> \in Later(m)
      BY <1>1 DEF Later
    <2>2. Published(<<"feedback", m[2]>>)
      BY <1>3 DEF Published
    <2> QED BY <2>1, <2>2 DEF Overtaken
  <1>4. ASSUME stage[m[2]] = "aborted"
        PROVE  at[<<"abort", m[2]>>] = "queued"
    <2>1. m[1] = "pending"
      BY <1>1, <1>4 DEF Ready
    <2>2. <<"abort", m[2]>> \in Later(m)
      BY <2>1 DEF Later
    <2>3. Published(<<"abort", m[2]>>)
      BY <1>4 DEF Published
    <2> QED BY <2>2, <2>3 DEF Overtaken
  <1> QED BY <1>2, <1>3, <1>4

-----------------------------------------------------------------------------
\* A handler that ends without a write.
LEMMA GivesUpKeeps ==
    ASSUME IInv, NEW m \in Messages, GivesUp(m)
    PROVE  IInv'
  <1> USE DEF IInv
  <1>1. /\ at[m] # "absent"
        /\ UNCHANGED <<service, stage, verdict, comments, status, excuses>>
        /\ Elsewhere(m) /\ at'[m] \in {"absent", "queued"}
        /\ target'[m].id = 0
    BY DEF GivesUp, Released, NoTarget
  <1>2. TypeOK'
    <2>1. faults' \in 0..MaxFaults
      BY FaultType DEF GivesUp
    <2> QED BY <1>1, <2>1 DEF GivesUp, Released, TypeOK
  <1>3. Sent'
    BY <1>1, SentStays
  <1>4. DecorationIsTrue'
    BY <1>1 DEF DecorationIsTrue
  <1>5. Remembered'
    BY <1>1, MemoryStays
  <1>6. AtMostOne'
    BY <1>1 DEF AtMostOne, Ours
  <1>7. Undisturbed'
    BY <1>1 DEF GivesUp, Undisturbed
  <1>8. ASSUME ~spoilt'
        PROVE  /\ ~spoilt
               /\ m[1] = "pending" \/ (/\ m[1] = "abort"
                                       /\ service \notin {"gh", "bbc", "bbc_checks"})
    BY <1>8 DEF GivesUp, GitHub, BitbucketCloud
  <1>9. NoticeAwaits'
    <2>1. ASSUME ~spoilt', NEW r \in Scans, Awaited(r) PROVE Awaited(r)'
      <3>1. \/ m \notin {<<"feedback", r>>, <<"abort", r>>}
            \/ m = <<"abort", r>> /\ service \notin {"gh", "bbc", "bbc_checks"}
        BY <1>8, <2>1
      <3> QED BY <1>1, <2>1, <3>1, AwaitedStays
    <2>2. \A i \in Ours : comments[i].scan \in Scans
      BY CommentScans DEF Ours
    <2>3. Ours' = Ours
      BY <1>1 DEF Ours
    <2> QED BY <1>1, <1>8, <2>1, <2>2, <2>3 DEF NoticeAwaits
  <1>10. StatusAwaits'
    <2>1. ASSUME ~spoilt', NEW r \in Scans, StatusAwaited(r)
          PROVE  StatusAwaited(r)'
      <3>1. \/ m \notin {<<"feedback", r>>, <<"abort", r>>}
            \/ m = <<"abort", r>> /\ service # "bbc_checks"
        BY <1>8, <2>1
      <3> QED BY <1>1, <2>1, <3>1, StatusAwaitedStays
    <2> QED BY <1>1, <1>8, <2>1 DEF StatusAwaits, HasStatus
  <1> QED BY <1>2, <1>3, <1>4, <1>5, <1>6, <1>7, <1>9, <1>10

\* A handler that posts a status.
LEMMA PostsKeeps ==
    ASSUME IInv, NEW m \in Messages, Posts(m)
    PROVE  IInv'
  <1> USE DEF IInv
  <1>1. /\ at[m] = "queued" /\ at[m] # "absent" /\ HasStatus
        /\ UNCHANGED <<service, stage, verdict, comments, excuses>>
        /\ Elsewhere(m)
        /\ at'[m] # "found"
        /\ target'[m].id = 0 \/ target'[m].id = target[m].id
    BY DEF Posts, NoTarget
  <1>2. m[2] \in Scans
    BY MessageType
  <1>3. /\ status' \in [Scans -> {"none", "pending", "success", "failure"}]
        /\ \A s \in Scans : status'[s] = "success" => verdict[s] = "success"
    <2>1. status \in [Scans -> {"none", "pending", "success", "failure"}]
      BY DEF TypeOK
    <2>2. CASE UNCHANGED status
      BY <2>1, <2>2 DEF DecorationIsTrue
    <2>3. CASE status' = [status EXCEPT ![m[2]] = StatusOf(Shows(m))]
      <3>1. /\ StatusOf(Shows(m)) \in {"pending", "success", "failure"}
            /\ StatusOf(Shows(m)) = "success" => verdict[m[2]] = "success"
        BY <1>1, ShowsType
      <3> QED BY <1>2, <2>1, <2>3, <3>1 DEF DecorationIsTrue
    <2> QED BY <2>2, <2>3 DEF Posts
  <1>4. TypeOK'
    <2>1. faults' \in 0..MaxFaults
      BY FaultType DEF Posts
    <2> QED BY <1>1, <1>3, <2>1 DEF Posts, TypeOK
  <1>5. Sent'
    BY <1>1, SentStays
  <1>6. DecorationIsTrue'
    BY <1>1, <1>3 DEF DecorationIsTrue
  <1>7. Remembered'
    BY <1>1, MemoryStays
  <1>8. AtMostOne'
    BY <1>1 DEF AtMostOne, Ours
  <1>9. Undisturbed'
    BY <1>1 DEF Posts, Undisturbed
  <1>10. NoticeAwaits'
    <2>1. ASSUME ~spoilt', NEW r \in Scans, Awaited(r) PROVE Awaited(r)'
      <3>1. \/ at'[m] # "absent"
            \/ m \notin {<<"feedback", r>>, <<"abort", r>>}
            \/ m = <<"abort", r>> /\ service \notin {"gh", "bbc", "bbc_checks"}
        BY <2>1 DEF Posts
      <3> QED BY <1>1, <2>1, <3>1, AwaitedStays
    <2>2. \A i \in Ours : comments[i].scan \in Scans
      BY CommentScans DEF Ours
    <2>3. Ours' = Ours
      BY <1>1 DEF Ours
    <2>4. ~spoilt' => ~spoilt
      BY DEF Posts
    <2> QED BY <1>1, <2>1, <2>2, <2>3, <2>4 DEF NoticeAwaits
  <1>11. StatusAwaits'
    <2> SUFFICES ASSUME ~spoilt', NEW r \in Scans,
                        status'[r] \notin {"success", "failure"}
                 PROVE  StatusAwaited(r)'
      BY DEF StatusAwaits
    <2>1. /\ ~spoilt /\ ~Overtaken(m)
          /\ status' = [status EXCEPT ![m[2]] = StatusOf(Shows(m))]
      BY DEF Posts
    <2>2. CASE r # m[2]
      <3>1. status'[r] = status[r]
        BY <2>1, <2>2 DEF TypeOK
      <3>2. StatusAwaited(r)
        BY <1>1, <2>1, <3>1 DEF StatusAwaits
      <3>3. m \notin {<<"feedback", r>>, <<"abort", r>>}
        BY <2>2
      <3> QED BY <1>1, <3>2, <3>3, StatusAwaitedStays
    <2>3. CASE r = m[2]
      <3>1. status'[r] = StatusOf(Shows(m))
        BY <1>2, <2>1, <2>3 DEF TypeOK
      <3>2. m[1] \in Notices
        BY <1>1, <3>1, ShowsType, MessageType DEF Notices
      <3>3. Ready(m)
        BY <1>1 DEF Sent
      <3>4. /\ stage[r] = "reported" => at[<<"feedback", r>>] = "queued"
            /\ stage[r] = "aborted" => at[<<"abort", r>>] = "queued"
        BY <2>1, <2>3, <3>2, <3>3, LaterWaits
      <3>5. stage[r] \in Stages
        BY DEF TypeOK
      <3>6. StatusAwaited(r)
        BY <3>4, <3>5 DEF StatusAwaited, Stages
      <3>7. m \notin {<<"feedback", r>>, <<"abort", r>>}
        BY <3>2 DEF Notices
      <3> QED BY <1>1, <3>6, <3>7, StatusAwaitedStays
    <2> QED BY <2>2, <2>3
  <1> QED BY <1>4, <1>5, <1>6, <1>7, <1>8, <1>9, <1>10, <1>11

\* A lookup.
LEMMA FindKeeps ==
    ASSUME IInv, NEW m \in Messages, Find(m)
    PROVE  IInv'
  <1> USE DEF IInv
  <1>1. /\ at[m] \in {"queued", "posted"} /\ at'[m] = "found"
        /\ HasStatus => at[m] = "posted"
        /\ at' \in [Messages -> {"absent", "queued", "posted", "found"}]
        /\ target' \in [Messages -> Target]
        /\ Elsewhere(m)
        /\ target'[m].id # 0 => target'[m].id \in Ours
        /\ target'[m].id = 0 => /\ target'[m].known = Len(comments)
                                /\ excuses' = {} => Ours = {}
        /\ excuses' \subseteq {"unseen", "crossed"}
        /\ excuses' = {} => excuses = {}
        /\ UNCHANGED <<service, stage, verdict, failing, comments, status,
                       spoilt, faults>>
    BY FindFinds
  <1>2. TypeOK'
    BY <1>1 DEF TypeOK
  <1>3. Sent'
    BY <1>1, SentStays
  <1>4. DecorationIsTrue'
    BY <1>1 DEF DecorationIsTrue
  <1>5. Ours' = Ours
    BY <1>1 DEF Ours
  <1>6. Remembered'
    <2>1. ASSUME NEW l \in Messages
          PROVE  /\ target'[l].id # 0 =>
                       /\ target'[l].id \in DOMAIN comments'
                       /\ comments'[target'[l].id].ours
                 /\ at'[l] = "found" /\ target'[l].id = 0 =>
                       /\ target'[l].known <= Len(comments')
                       /\ excuses' = {} => \A i \in Ours' : i > target'[l].known
      <3>1. CASE l = m
        <4>1. Len(comments) \in Nat
          BY DEF TypeOK
        <4>2. target'[m].id # 0 => /\ target'[m].id \in DOMAIN comments'
                                   /\ comments'[target'[m].id].ours
          BY <1>1 DEF Ours
        <4>3. target'[m].id = 0 =>
                 /\ target'[m].known <= Len(comments')
                 /\ excuses' = {} => Ours' = {}
          BY <1>1, <1>5, <4>1
        <4> QED BY <3>1, <4>2, <4>3
      <3>2. CASE l # m
        BY <1>1, <1>5, <3>2 DEF Remembered, Elsewhere
      <3> QED BY <3>1, <3>2
    <2> QED BY <2>1 DEF Remembered
  <1>7. AtMostOne'
    BY <1>1, <1>5 DEF AtMostOne
  <1>8. Undisturbed'
    BY <1>1 DEF Undisturbed
  <1>9. NoticeAwaits'
    <2>1. ASSUME NEW r \in Scans, Awaited(r) PROVE Awaited(r)'
      BY <1>1, <2>1, AwaitedStays
    <2>2. \A i \in Ours : comments[i].scan \in Scans
      BY CommentScans DEF Ours
    <2> QED BY <1>1, <1>5, <2>1, <2>2 DEF NoticeAwaits
  <1>10. StatusAwaits'
    <2>1. ASSUME HasStatus, NEW r \in Scans, StatusAwaited(r)
          PROVE  StatusAwaited(r)'
      BY <1>1, <2>1, StatusAwaitedStays
    <2> QED BY <1>1, <2>1 DEF StatusAwaits, HasStatus
  <1> QED BY <1>2, <1>3, <1>4, <1>6, <1>7, <1>8, <1>9, <1>10

\* A write, if nothing went wrong, leaves only what the handler wrote.
LEMMA OnlyWritten ==
    ASSUME IInv, NEW m \in Messages, Writes(m), ~spoilt', excuses' = {},
           NEW i \in Ours'
    PROVE  /\ comments'[i].shows = Shows(m)
           /\ comments'[i].scan = m[2]
  <1> USE DEF IInv
  <1>1. /\ at[m] = "found" /\ at[m] # "absent"
        /\ Added(m) \/ Changed(m)
        /\ ~spoilt
    BY DEF Writes, Written
  <1>2. CASE Added(m)
    <2>1. /\ Ours' = Ours \cup {Len(comments) + 1}
          /\ comments'[Len(comments) + 1] = NewComment(m)
          /\ excuses = {} /\ ~\E j \in Ours : j > target[m].known
      BY <1>1, <1>2, AddedComments
    <2>2. Ours = {}
      BY <1>1, <1>2, <2>1 DEF Remembered, Added
    <2>3. i = Len(comments) + 1
      BY <2>1, <2>2
    <2> QED BY <2>1, <2>3 DEF NewComment
  <1>3. CASE Changed(m)
    <2>1. /\ Ours' = Ours /\ excuses = {}
          /\ target[m].id # 0 /\ target[m].id \in DOMAIN comments
          /\ comments'[target[m].id].shows = Shows(m)
          /\ comments'[target[m].id].scan = m[2]
      BY <1>1, <1>3, ChangedComments DEF Changed
    <2>2. target[m].id \in Ours
      BY <1>1, <2>1 DEF Remembered, Undisturbed, Ours
    <2>3. i = target[m].id
      BY <2>1, <2>2 DEF AtMostOne
    <2> QED BY <2>1, <2>3
  <1> QED BY <1>1, <1>2, <1>3

\* What handlers remember outlasts a write: a comment that is added comes
\* after those they know of.
LEMMA MemoryOutlastsWrites ==
    ASSUME IInv, NEW m \in Messages, Writes(m)
    PROVE  Remembered'
  <1> USE DEF IInv
  <1>1. /\ at[m] # "absent"
        /\ Elsewhere(m)
        /\ \/ at'[m] # "found" /\ target'[m].id = 0
           \/ \A l \in Messages : /\ at'[l] = at[l]
                                  /\ target'[l].id = target[l].id
                                  /\ target'[l].known = target[l].known
    BY DEF Writes, Written, Released, Resends, Elsewhere, NoTarget
  <1>2. DOMAIN comments = 1..Len(comments) /\ Len(comments) \in Nat
    BY DEF TypeOK
  <1>3. CASE UNCHANGED <<comments, excuses>>
    <2>1. CASE at'[m] # "found" /\ target'[m].id = 0
      BY <1>1, <1>3, <2>1, MemoryStays
    <2>2. CASE \A l \in Messages : /\ at'[l] = at[l]
                                   /\ target'[l].id = target[l].id
                                   /\ target'[l].known = target[l].known
      BY <1>3, <2>2 DEF Remembered, Ours
    <2> QED BY <1>1, <2>1, <2>2
  <1>4. ASSUME Added(m) \/ Changed(m), NEW l \in Messages,
               /\ at'[l] = at[l]
               /\ target'[l].id = target[l].id
               /\ target'[l].known = target[l].known
        PROVE  /\ target'[l].id # 0 =>
                     /\ target'[l].id \in DOMAIN comments'
                     /\ comments'[target'[l].id].ours
               /\ at'[l] = "found" /\ target'[l].id = 0 =>
                     /\ target'[l].known <= Len(comments')
                     /\ excuses' = {} => \A i \in Ours' : i > target'[l].known
    <2>1. /\ target'[l].id = target[l].id /\ target'[l].known = target[l].known
          /\ at'[l] = at[l] /\ target[l].known \in Nat
      BY <1>4 DEF TypeOK, Target
    <2>2. /\ target[l].id # 0 =>
                target[l].id \in DOMAIN comments /\ comments[target[l].id].ours
          /\ at[l] = "found" /\ target[l].id = 0 =>
                /\ target[l].known <= Len(comments)
                /\ excuses = {} => \A i \in Ours : i > target[l].known
      BY DEF Remembered
    <2>3. CASE Added(m)
      <3>1. /\ Len(comments') = Len(comments) + 1
            /\ DOMAIN comments' = 1..Len(comments) + 1
            /\ \A i \in DOMAIN comments : comments'[i] = comments[i]
            /\ Ours' = Ours \cup {Len(comments) + 1}
            /\ excuses' = {} => excuses = {}
        BY <1>1, <2>3, AddedComments
      <3>2. DOMAIN comments \subseteq DOMAIN comments'
        BY <1>2, <3>1
      <3> QED BY <1>2, <2>1, <2>2, <3>1, <3>2
    <2>4. CASE Changed(m)
      <3>1. /\ Len(comments') = Len(comments)
            /\ DOMAIN comments' = DOMAIN comments
            /\ \A i \in DOMAIN comments : comments'[i].ours = comments[i].ours
            /\ Ours' = Ours
            /\ excuses' = excuses
        BY <1>1, <2>4, ChangedComments
      <3> QED BY <2>1, <2>2, <3>1
    <2> QED BY <1>4, <2>3, <2>4
  <1>5. CASE Added(m) \/ Changed(m)
    <2>1. ASSUME NEW l \in Messages
          PROVE  /\ target'[l].id # 0 =>
                       /\ target'[l].id \in DOMAIN comments'
                       /\ comments'[target'[l].id].ours
                 /\ at'[l] = "found" /\ target'[l].id = 0 =>
                       /\ target'[l].known <= Len(comments')
                       /\ excuses' = {} => \A i \in Ours' : i > target'[l].known
      BY <1>1, <1>4, <1>5 DEF Elsewhere
    <2> QED BY <2>1 DEF Remembered
  <1> QED BY <1>3, <1>5 DEF Writes, Written

\* A write.
LEMMA WritesKeeps ==
    ASSUME IInv, NEW m \in Messages, Writes(m)
    PROVE  IInv'
  <1> USE DEF IInv
  <1>1. /\ at[m] = "found" /\ at[m] # "absent"
        /\ UNCHANGED <<service, stage, verdict, status>>
        /\ Elsewhere(m)
    BY DEF Writes, Written, Released, Resends, Elsewhere
  <1>2. m[2] \in Scans
    BY MessageType
  <1>3. \/ Added(m) \/ Changed(m)
        \/ UNCHANGED <<comments, excuses>> /\ spoilt'
    BY DEF Writes, Written
  <1>4. TypeOK'
    <2>1. faults' \in 0..MaxFaults
      BY FaultType DEF Writes, Written
    <2>2. comments' \in Seq(Comment) /\ excuses' \subseteq {"unseen", "crossed"}
      <3>1. CASE Added(m)
        BY <1>1, <3>1, AddedComments
      <3>2. CASE Changed(m)
        BY <1>1, <3>2, ChangedComments DEF TypeOK
      <3>3. CASE UNCHANGED <<comments, excuses>>
        BY <3>3 DEF TypeOK
      <3> QED BY <1>3, <3>1, <3>2, <3>3
    <2> QED BY <1>1, <2>1, <2>2 DEF Writes, Written, Released, Resends, TypeOK
  <1>5. Sent'
    BY <1>1, SentStays
  <1>6. DecorationIsTrue'
    <2>1. Shows(m) \in {"success", "failure"} => Shows(m) = verdict[m[2]]
      BY <1>1, ShowsType
    <2>2. CASE Added(m)
      <3>1. /\ DOMAIN comments' = 1..Len(comments) + 1
            /\ \A i \in DOMAIN comments : comments'[i] = comments[i]
            /\ comments'[Len(comments) + 1] = NewComment(m)
        BY <1>1, <2>2, AddedComments
      <3>2. DOMAIN comments = 1..Len(comments) /\ Len(comments) \in Nat
        BY DEF TypeOK
      <3>3. \A i \in DOMAIN comments' :
               i \in DOMAIN comments \/ i = Len(comments) + 1
        BY <3>1, <3>2
      <3>4. NewComment(m).shows = Shows(m) /\ NewComment(m).scan = m[2]
        BY DEF NewComment
      <3> QED BY <1>1, <2>1, <3>1, <3>3, <3>4 DEF DecorationIsTrue
    <2>3. CASE Changed(m)
      BY <1>1, <2>1, <2>3, ChangedComments DEF DecorationIsTrue
    <2>4. CASE UNCHANGED comments
      BY <1>1, <2>4 DEF DecorationIsTrue
    <2> QED BY <1>3, <2>2, <2>3, <2>4
  <1>7. Remembered'
    BY MemoryOutlastsWrites
  <1>8. AtMostOne'
    <2>1. CASE Added(m)
      <3>1. /\ Ours' = Ours \cup {Len(comments) + 1}
            /\ excuses' = {} => /\ excuses = {}
                                /\ ~\E j \in Ours : j > target[m].known
        BY <1>1, <2>1, AddedComments
      <3>2. excuses' = {} => Ours = {}
        BY <1>1, <2>1, <3>1 DEF Remembered, Added
      <3> QED BY <3>1, <3>2 DEF AtMostOne
    <2>2. CASE Changed(m)
      BY <1>1, <2>2, ChangedComments DEF AtMostOne
    <2>3. CASE UNCHANGED <<comments, excuses>>
      BY <2>3 DEF AtMostOne, Ours
    <2> QED BY <1>3, <2>1, <2>2, <2>3
  <1>9. Undisturbed'
    <2> SUFFICES ASSUME ~spoilt'
                 PROVE  /\ failing' = {}
                        /\ \A i \in DOMAIN comments' : ~comments'[i].closed
      BY DEF Undisturbed
    <2>1. /\ failing = {} /\ \A i \in DOMAIN comments : ~comments[i].closed
          /\ failing' \subseteq failing
      BY DEF Undisturbed, Writes, Written
    <2>2. CASE Added(m)
      <3>1. /\ DOMAIN comments' = 1..Len(comments) + 1
            /\ \A i \in DOMAIN comments : comments'[i] = comments[i]
            /\ comments'[Len(comments) + 1] = NewComment(m)
        BY <1>1, <2>2, AddedComments
      <3>2. DOMAIN comments = 1..Len(comments) /\ Len(comments) \in Nat
        BY DEF TypeOK
      <3>3. \A i \in DOMAIN comments' :
               i \in DOMAIN comments \/ i = Len(comments) + 1
        BY <3>1, <3>2
      <3>4. ~NewComment(m).closed
        BY DEF NewComment
      <3> QED BY <2>1, <3>1, <3>3, <3>4
    <2>3. CASE Changed(m)
      BY <1>1, <2>1, <2>3, ChangedComments
    <2> QED BY <1>3, <2>2, <2>3
  <1>10. NoticeAwaits'
    <2> SUFFICES ASSUME ~spoilt', excuses' = {}, NEW i \in Ours',
                        comments'[i].shows \in Notices
                 PROVE  \A r : comments'[i].scan = r => Awaited(r)'
      BY DEF NoticeAwaits
    <2>1. comments'[i].shows = Shows(m) /\ comments'[i].scan = m[2]
      BY OnlyWritten
    <2>2. ~Overtaken(m)
      BY DEF Writes, Written
    <2>3. m[1] \in Notices
      BY <1>1, <2>1, ShowsType
    <2>4. Ready(m)
      BY <1>1 DEF Sent
    <2>5. ASSUME NEW r, r = m[2] PROVE Awaited(r)'
      <3>1. /\ stage[r] # "idle"
            /\ stage[r] = "reported" => at[<<"feedback", r>>] = "queued"
            /\ stage[r] = "aborted" => at[<<"abort", r>>] = "queued"
        BY <2>2, <2>3, <2>4, <2>5, LaterWaits
      <3>2. stage[r] \in Stages /\ r \in Scans
        BY <1>2, <2>5 DEF TypeOK
      <3>3. Awaited(r)
        BY <3>1, <3>2 DEF Awaited, Stages
      <3>4. m \notin {<<"feedback", r>>, <<"abort", r>>}
        BY <2>3 DEF Notices
      <3> QED BY <1>1, <3>2, <3>3, <3>4, AwaitedStays
    <2> QED BY <2>1, <2>5
  <1>11. StatusAwaits'
    <2>1. ASSUME NEW r \in Scans, StatusAwaited(r) PROVE StatusAwaited(r)'
      BY <1>1, <2>1, StatusAwaitedStays
    <2>2. ~spoilt' => ~spoilt
      BY DEF Writes, Written
    <2> QED BY <1>1, <2>1, <2>2 DEF StatusAwaits, HasStatus
  <1> QED BY <1>4, <1>5, <1>6, <1>7, <1>8, <1>9, <1>10, <1>11

-----------------------------------------------------------------------------
\* The invariant holds at first: there is nothing yet.
LEMMA InitInv == Init => IInv
  <1> SUFFICES ASSUME Init PROVE IInv
    OBVIOUS
  <1>1. TypeOK
    <2>1. NoTarget \in Target
      BY DEF NoTarget, Target
    <2>2. target \in [Messages -> Target]
      BY <2>1 DEF Init
    <2>3. faults \in 0..MaxFaults
      BY CommentsAssumption DEF Init
    <2>4. comments \in Seq(Comment)
      BY DEF Init
    <2>5. /\ stage \in [Scans -> Stages]
          /\ verdict \in [Scans -> {"none", "success", "failure"}]
          /\ at \in [Messages -> {"absent", "queued", "posted", "found"}]
          /\ status \in [Scans -> {"none", "pending", "success", "failure"}]
      BY DEF Init, Stages
    <2>6. /\ service \in Services
          /\ failing \subseteq Messages
          /\ excuses \subseteq {"unseen", "crossed"}
      BY DEF Init
    <2>7. spoilt \in BOOLEAN
      BY Zenon DEF Init
    <2> QED BY <2>2, <2>3, <2>4, <2>5, <2>6, <2>7 DEF TypeOK
  <1>2. Ours = {} /\ DOMAIN comments = {}
    BY DEF Init, Ours
  <1>3. \A m \in Messages : target[m].id = 0 /\ at[m] = "absent"
    BY DEF Init, NoTarget
  <1>4. Sent /\ DecorationIsTrue
    BY <1>2, <1>3 DEF Init, Sent, DecorationIsTrue
  <1>5. Remembered
    BY <1>3 DEF Remembered
  <1>6. AtMostOne /\ Undisturbed /\ NoticeAwaits
    BY <1>2 DEF Init, AtMostOne, Undisturbed, NoticeAwaits
  <1>7. StatusAwaits
    BY DEF Init, StatusAwaits, StatusAwaited
  <1> QED BY <1>1, <1>4, <1>5, <1>6, <1>7 DEF IInv

\* Every step keeps the invariant.
LEMMA NextInv == IInv /\ [Next]_vars => IInv'
  <1> SUFFICES ASSUME IInv, [Next]_vars PROVE IInv'
    OBVIOUS
  <1>1. CASE UNCHANGED vars
    <2>1. UNCHANGED <<service, stage, verdict, at, failing, target, comments,
                      status, excuses, spoilt, faults>>
      BY <1>1 DEF vars
    <2>2. TypeOK' /\ DecorationIsTrue' /\ Undisturbed'
      BY <2>1 DEF IInv, TypeOK, DecorationIsTrue, Undisturbed
    <2>3. Sent'
      BY <2>1 DEF IInv, Sent, Ready
    <2>4. Ours' = Ours
      BY <2>1 DEF Ours
    <2>5. Remembered' /\ AtMostOne'
      BY <2>1, <2>4 DEF IInv, Remembered, AtMostOne
    <2>6. NoticeAwaits'
      BY <2>1, <2>4 DEF IInv, NoticeAwaits, Awaited
    <2>7. StatusAwaits'
      BY <2>1 DEF IInv, StatusAwaits, StatusAwaited, HasStatus
    <2> QED BY <2>2, <2>3, <2>5, <2>6, <2>7 DEF IInv
  <1>2. ASSUME NEW m \in Messages,
               \/ Handle(m) \/ StatusRefused(m) \/ StatusAnswerLost(m)
               \/ AnswerLost(m) \/ HandlerFails(m) \/ AgentLost(m)
        PROVE  IInv'
    <2>1. GivesUp(m) \/ Posts(m) \/ Find(m) \/ Writes(m)
      BY <1>2, HandlerSteps DEF IInv
    <2> QED BY <2>1, GivesUpKeeps, PostsKeeps, FindKeeps, WritesKeeps
  <1> QED BY <1>1, <1>2, WorkflowKeeps, OtherCommentKeeps, CloseCommentKeeps
          DEF Next

\* The invariant holds throughout.
LEMMA Always == Spec => []IInv
  BY InitInv, NextInv, PTL DEF Spec

\* The values of PullRequestComments are of their types: among others, every
\* comment shows something and speaks of a scan, so that no handler decorates
\* with a verdict that does not exist.
THEOREM TypeCorrect == Spec => []TypeOK
  BY Always, PTL DEF IInv

\* Whatever the order in which the queues are served, whatever is delivered
\* again and whichever comment a handler overwrites: no status and no comment
\* claims a verdict other than the one that was reported for its scan.
THEOREM DecorationsAreTrue == Spec => []DecorationIsTrue
  BY Always, PTL DEF IInv

\* Unless a comment was posted on a lookup that was out of date, by a second
\* handler or a second attempt, or a lookup has not seen the comment that was
\* there, a pull request has at most one open comment, for every size of a page
\* and every number of disturbances.
THEOREM CommentIsUnique == Spec => []OneComment
  <1>1. IInv => OneComment
    <2> SUFFICES ASSUME IInv, excuses = {} PROVE Cardinality(Ours) <= 1
      BY DEF OneComment
    <2>1. \A i, j \in Ours : i = j
      BY DEF IInv, AtMostOne
    <2>2. CASE Ours = {}
      <3>1. Cardinality({}) = 0
        BY FS_EmptySet
      <3> QED BY <2>2, <3>1
    <2>3. CASE Ours # {}
      <3>1. PICK i \in Ours : Ours = {i}
        BY <2>1, <2>3
      <3>2. Cardinality({i}) = 1
        BY FS_Singleton
      <3> QED BY <3>1, <3>2
    <2> QED BY <2>2, <2>3
  <1> QED BY <1>1, Always, PTL

\* When all messages have been handled, and nothing was overtaken, failed or
\* closed, no notice is left standing: the comment and the statuses show how
\* the scans ended.
THEOREM LastWordIsFinal == Spec => []FinalWord
  <1>1. IInv => FinalWord
    <2> SUFFICES ASSUME IInv,
                        \A m \in Messages : at[m] = "absent",
                        \A s \in Scans :
                           \/ stage[s] \in {"idle", "reported"}
                           \/ /\ stage[s] = "aborted"
                              /\ service \in {"gh", "bbc", "bbc_checks"},
                        ~spoilt, excuses = {}
                 PROVE  /\ \A i \in Ours : comments[i].shows \in Final
                        /\ \A s \in Scans : HasStatus /\ stage[s] # "idle" =>
                               status[s] \in {"success", "failure"}
      BY DEF FinalWord
    <2>1. ASSUME NEW s \in Scans
          PROVE  at[<<"feedback", s>>] = "absent" /\ at[<<"abort", s>>] = "absent"
      BY DEF Messages
    <2>2. ASSUME NEW i \in Ours PROVE comments[i].shows \in Final
      <3>1. comments[i] \in Comment
        BY DEF IInv, TypeOK, Ours
      <3>2. comments[i].scan \in Scans /\ comments[i].shows \in Shown
        BY <3>1 DEF Comment
      <3>3. ~Awaited(comments[i].scan)
        BY <2>1, <3>2 DEF Awaited
      <3>4. comments[i].shows \notin Notices
        BY <3>3 DEF IInv, NoticeAwaits
      <3> QED BY <3>2, <3>4 DEF Shown, Notices, Final
    <2>3. ASSUME NEW s \in Scans, HasStatus, stage[s] # "idle"
          PROVE  status[s] \in {"success", "failure"}
      <3>1. ~StatusAwaited(s)
        BY <2>1, <2>3 DEF StatusAwaited, HasStatus
      <3> QED BY <2>3, <3>1 DEF IInv, StatusAwaits
    <2> QED BY <2>2, <2>3
  <1> QED BY <1>1, Always, PTL
=============================================================================
