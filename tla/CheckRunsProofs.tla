--------------------------- MODULE CheckRunsProofs ---------------------------
(***************************************************************************)
(* Proofs about CheckRuns, for any number of scans, check runs and faults. *)
(* A green check stays true although handlers overwrite each other's runs, *)
(* because a scan is reported once: nothing can change the verdict that a  *)
(* run has shown.  That the runs conclude is a matter of bookkeeping: as   *)
(* long as nothing is spoilt, the queued runs are at most as many as the   *)
(* follow-ups that prescan notices still expect, and the runs in progress  *)
(* are as many as the scan notices without a feedback.                     *)
(***************************************************************************)
EXTENDS CheckRuns, SequenceTheorems, FiniteSetTheorems, TLAPS

\* A verdict exists only once the workflow has reported.
VerdictReported ==
    \A s \in Scans : verdict[s] # "none" => stage[s] = "reported"

GreenInv == TypeOK /\ VerdictReported /\ GreenIsTrue

\* What a message needs to have been published.
Ready(m) ==
    /\ m[1] = "pending" => m[2] \in Delegated /\ stage[m[2]] # "idle"
    /\ m[1] = "update" => stage[m[2]] \in {"started", "reported"}
    /\ m[1] = "feedback" => stage[m[2]] = "reported"
    /\ m[1] = "abort" => stage[m[2]] = "aborted"

\* Messages come from the workflow, and lookups find runs that exist.
Sent ==
    \A m \in Messages : /\ at[m] # "absent" => Ready(m)
                        /\ target[m] \in 0..Len(runs)

\* The runs with a status.
With(status) == {i \in DOMAIN runs : runs[i].status = status}

\* A handler that has yet to take over a run.
TakesOver(m) ==
    \/ at[m] \in {"queued", "error"}
    \/ at[m] \in {"found", "errorFound"} /\ target[m] # 0

\* Scans whose prescan notice was handled and whose follow-up is to take over
\* a queued run: the scan notice or the prescan failure.
Expecting(s) ==
    /\ s \in Delegated /\ stage[s] # "idle"
    /\ at[<<"pending", s>>] = "absent"
    /\ \/ stage[s] = "delegated"
       \/ stage[s] \in {"started", "reported"} /\ TakesOver(<<"update", s>>)
       \/ stage[s] = "aborted" /\ TakesOver(<<"abort", s>>)

Expected == {s \in Scans : Expecting(s)}

\* Scans whose scan notice, and scans whose feedback, was handled.
Begun == {s \in Scans : /\ stage[s] \in {"started", "reported"}
                        /\ at[<<"update", s>>] = "absent"}

Ended == {s \in Scans : stage[s] = "reported" /\ at[<<"feedback", s>>] = "absent"}

Aborted == {s \in Scans : stage[s] = "aborted" /\ at[<<"abort", s>>] = "absent"}

\* The bookkeeping of an undisturbed commit.
Balanced ==
    /\ Cardinality(With("queued")) <= Cardinality(Expected)
    /\ Cardinality(With("in_progress")) + Cardinality(Ended) = Cardinality(Begun)
    /\ \A s \in Ended \cup Aborted :
          \E i \in With("completed") : runs[i].scan = s

BalanceInv == TypeOK /\ Sent /\ (~spoilt => Balanced)

-----------------------------------------------------------------------------
\* The records of check runs are well typed.
LEMMA RunType ==
    ASSUME NEW st \in {"queued", "in_progress", "completed"},
           NEW c \in Verdicts, NEW s \in Scans
    PROVE  [status |-> st, conclusion |-> c, scan |-> s] \in Run
  BY DEF Run

\* A fault stays within the bound.
LEMMA FaultType ==
    ASSUME TypeOK, UNCHANGED faults \/ Fault
    PROVE  faults' \in 0..MaxFaults
  <1>1. faults \in 0..MaxFaults
    BY DEF TypeOK
  <1> QED BY <1>1, ChecksAssumption DEF Fault

\* What a handler writes into a message's place and a fault counts.
LEMMA HandledType ==
    ASSUME TypeOK, NEW m \in Messages, NEW race \in BOOLEAN, Handled(m, race)
    PROVE  /\ at' \in [Messages -> Places]
           /\ spoilt' \in BOOLEAN
           /\ faults' \in 0..MaxFaults
  <1>1. at' \in [Messages -> Places]
    <2>1. "absent" \in Places /\ "queued" \in Places
      BY DEF Places
    <2> QED BY <2>1 DEF TypeOK, Handled
  <1>2. spoilt' \in BOOLEAN
    <2>1. spoilt' = (spoilt \/ race) \/ spoilt' = (spoilt \/ TRUE)
      BY Zenon DEF Handled, Blame
    <2>2. (spoilt \/ race) \in BOOLEAN /\ (spoilt \/ TRUE) \in BOOLEAN
      OBVIOUS
    <2> QED BY <2>1, <2>2, Zenon
  <1>3. faults' \in 0..MaxFaults
    <2>1. UNCHANGED faults \/ Fault
      BY DEF Handled
    <2> QED BY <2>1, FaultType
  <1> QED BY <1>1, <1>2, <1>3

\* A new run keeps the list well typed and within its bound.
LEMMA CreateRunType ==
    ASSUME TypeOK, NEW st \in {"queued", "in_progress"}, NEW s \in Scans,
           CreateRun(st, s)
    PROVE  runs' \in Seq(Run) /\ Len(runs') <= MaxRuns
  <1>1. [status |-> st, conclusion |-> "none", scan |-> s] \in Run
    BY DEF Run, Verdicts
  <1> QED BY <1>1, ChecksAssumption DEF TypeOK, CreateRun

\* A changed run keeps the list well typed and its length.
LEMMA UpdateRunType ==
    ASSUME TypeOK, NEW i \in Nat, NEW s \in Scans, NEW c \in Verdicts,
           NEW st \in {"queued", "in_progress", "completed"},
           UpdateRun(i, st, c, s)
    PROVE  runs' \in Seq(Run) /\ Len(runs') <= MaxRuns
  <1>1. [status |-> st, conclusion |-> c, scan |-> s] \in Run
    BY DEF Run
  <1>2. runs \in [1..Len(runs) -> Run] /\ Len(runs) \in Nat
    BY DEF TypeOK
  <1>3. runs' \in [1..Len(runs) -> Run]
    BY <1>1, <1>2 DEF UpdateRun
  <1>4. runs' \in Seq(Run) /\ Len(runs') = Len(runs)
    BY <1>2, <1>3, SeqDef, LenProperties
  <1> QED BY <1>4 DEF TypeOK

\* The conclusion of a handler is a verdict.
LEMMA ConclusionType ==
    ASSUME TypeOK, NEW m \in Messages
    PROVE  Conclusion(m) \in Verdicts
  BY DEF TypeOK, Conclusion, Messages, Verdicts

-----------------------------------------------------------------------------
\* Every step keeps the types.
LEMMA TypeStep == TypeOK /\ [Next]_vars => TypeOK'
  <1> SUFFICES ASSUME TypeOK, [Next]_vars PROVE TypeOK'
    OBVIOUS
  <1>1. ASSUME NEW s \in Scans,
               Delegate(s) \/ StartScan(s) \/ AbortPrescan(s) \/ PublishFeedback(s)
        PROVE  TypeOK'
    <2>1. "queued" \in Places
      BY DEF Places
    <2>2. at' \in [Messages -> Places]
      BY <1>1, <2>1 DEF TypeOK, Delegate, StartScan, AbortPrescan, PublishFeedback
    <2>3. stage' \in [Scans -> Stages] /\ verdict' \in [Scans -> Verdicts]
      BY <1>1 DEF TypeOK, Delegate, StartScan, AbortPrescan, PublishFeedback,
                  Stages, Verdicts
    <2>4. UNCHANGED <<target, runs, spoilt, faults>>
      BY <1>1 DEF Delegate, StartScan, AbortPrescan, PublishFeedback
    <2> QED BY <2>2, <2>3, <2>4 DEF TypeOK
  <1>2. ASSUME NEW m \in Messages, m[1] = "pending", Pending(m[2])
        PROVE  TypeOK'
    <2>1. m[2] \in Scans /\ <<"pending", m[2]>> \in Messages
      BY DEF Messages, Kinds
    <2>2. FollowedUp(m[2]) \in BOOLEAN
      BY DEF FollowedUp
    <2>3. /\ CreateRun("queued", m[2])
          /\ Handled(<<"pending", m[2]>>, FollowedUp(m[2]))
          /\ UNCHANGED <<stage, verdict, target>>
      BY <1>2 DEF Pending
    <2>4. runs' \in Seq(Run) /\ Len(runs') <= MaxRuns
      BY <2>1, <2>3, CreateRunType
    <2> QED BY <2>1, <2>2, <2>3, <2>4, HandledType DEF TypeOK
  <1>3. ASSUME NEW m \in Messages, Find(m) PROVE TypeOK'
    <2>1. at' \in [Messages -> Places]
      BY <1>3 DEF Find, TypeOK, Places
    <2>2. DOMAIN runs = 1..Len(runs) /\ Len(runs) \in Nat /\ Len(runs) <= MaxRuns
      BY DEF TypeOK
    <2>3. \A i \in FindRunningCheck(Seeks(m[1])) : i \in 0..MaxRuns
      BY <2>2, ChecksAssumption DEF FindRunningCheck
    <2>4. \E i \in 0..MaxRuns : target' = [target EXCEPT ![m] = i]
      <3>1. 0 \in 0..MaxRuns
        BY ChecksAssumption
      <3> QED BY <1>3, <2>3, <3>1 DEF Find
    <2>5. target' \in [Messages -> 0..MaxRuns]
      BY <2>4 DEF TypeOK
    <2>6. spoilt' \in BOOLEAN
      <3>1. spoilt' = spoilt \/ spoilt' = (spoilt \/ TRUE)
        BY <1>3, Zenon DEF Find, Blame
      <3>2. spoilt \in BOOLEAN /\ (spoilt \/ TRUE) \in BOOLEAN
        BY DEF TypeOK
      <3> QED BY <3>1, <3>2, Zenon
    <2>7. faults' \in 0..MaxFaults
      <3>1. UNCHANGED faults \/ Fault
        BY <1>3 DEF Find
      <3> QED BY <3>1, FaultType
    <2> QED BY <1>3, <2>1, <2>5, <2>6, <2>7 DEF Find, TypeOK
  <1>4. ASSUME NEW m \in Messages, m[1] = "update", Update(m[2])
        PROVE  TypeOK'
    <2> DEFINE u == <<"update", m[2]>>
    <2>1. m[2] \in Scans /\ u \in Messages
      BY DEF Messages, Kinds
    <2>2. /\ target' = [target EXCEPT ![u] = 0]
          /\ \/ CreateRun("in_progress", m[2]) /\ Handled(u, FALSE)
             \/ /\ UpdateRun(target[u], "in_progress", "none", m[2])
                /\ Handled(u, Overtaken(target[u], "queued"))
          /\ UNCHANGED <<stage, verdict>>
      BY <1>4 DEF Update
    <2>3. target[u] \in Nat /\ Overtaken(target[u], "queued") \in BOOLEAN
      BY <2>1 DEF TypeOK, Overtaken
    <2>4. "none" \in Verdicts
      BY DEF Verdicts
    <2> HIDE DEF u
    <2>5. runs' \in Seq(Run) /\ Len(runs') <= MaxRuns
      BY <2>1, <2>2, <2>3, <2>4, CreateRunType, UpdateRunType
    <2>6. at' \in [Messages -> Places] /\ spoilt' \in BOOLEAN /\ faults' \in 0..MaxFaults
      BY <2>1, <2>2, <2>3, HandledType
    <2>7. target' \in [Messages -> 0..MaxRuns]
      BY <2>1, <2>2, ChecksAssumption DEF TypeOK
    <2> QED BY <2>2, <2>5, <2>6, <2>7 DEF TypeOK
  <1>5. ASSUME NEW m \in Messages, Complete(m) PROVE TypeOK'
    <2>1. m[2] \in Scans
      BY DEF Messages
    <2>2. /\ target' = [target EXCEPT ![m] = 0]
          /\ \/ Handled(m, TRUE) /\ UNCHANGED runs
             \/ /\ UpdateRun(target[m], "completed", Conclusion(m), m[2])
                /\ Handled(m, Overtaken(target[m], Seeks(m[1])))
          /\ UNCHANGED <<stage, verdict>>
      BY <1>5 DEF Complete
    <2>3. target[m] \in Nat /\ Overtaken(target[m], Seeks(m[1])) \in BOOLEAN
      BY DEF TypeOK, Overtaken
    <2>4. runs' \in Seq(Run) /\ Len(runs') <= MaxRuns
      <3>1. CASE UNCHANGED runs
        BY <3>1 DEF TypeOK
      <3>2. CASE UpdateRun(target[m], "completed", Conclusion(m), m[2])
        BY <3>2, <2>1, <2>3, UpdateRunType, ConclusionType
      <3> QED BY <2>2, <3>1, <3>2
    <2>5. at' \in [Messages -> Places] /\ spoilt' \in BOOLEAN /\ faults' \in 0..MaxFaults
      BY <2>2, <2>3, HandledType
    <2>6. target' \in [Messages -> 0..MaxRuns]
      BY <2>2, ChecksAssumption DEF TypeOK
    <2> QED BY <2>2, <2>4, <2>5, <2>6 DEF TypeOK
  <1>6. ASSUME NEW m \in Messages, HandlerFails(m) \/ AgentLost(m)
        PROVE  TypeOK'
    <2>1. at' \in [Messages -> Places]
      BY <1>6 DEF HandlerFails, AgentLost, TypeOK, Places
    <2>2. /\ target' = [target EXCEPT ![m] = 0] /\ Blame(TRUE) /\ Fault
          /\ UNCHANGED <<stage, verdict, runs>>
      BY <1>6 DEF HandlerFails, AgentLost
    <2> QED BY <2>1, <2>2, ChecksAssumption DEF TypeOK, Fault, Blame
  <1>7. CASE UNCHANGED vars
    BY <1>7 DEF vars, TypeOK
  <1> QED
    BY <1>1, <1>2, <1>3, <1>4, <1>5, <1>6, <1>7 DEF Next, Handle

-----------------------------------------------------------------------------
\* A run that is created or changed shows no success but a true one.
LEMMA RunsStayTrue ==
    ASSUME TypeOK, TypeOK', GreenIsTrue, UNCHANGED verdict,
           \/ UNCHANGED runs
           \/ \E st \in {"queued", "in_progress"}, s \in Scans : CreateRun(st, s)
           \/ \E i \in Nat, c \in Verdicts, s \in Scans,
                 st \in {"queued", "in_progress", "completed"} :
                /\ UpdateRun(i, st, c, s)
                /\ c = "success" => verdict[s] = "success"
    PROVE  GreenIsTrue'
  <1>0. runs \in Seq(Run) /\ Len(runs) \in Nat
    BY DEF TypeOK
  <1>1. CASE UNCHANGED runs
    BY <1>1 DEF GreenIsTrue
  <1>2. ASSUME NEW st \in {"queued", "in_progress"}, NEW s \in Scans,
               CreateRun(st, s)
        PROVE  GreenIsTrue'
    <2>1. /\ DOMAIN runs' = 1..(Len(runs) + 1)
          /\ \A i \in 1..Len(runs) : runs'[i] = runs[i]
          /\ runs'[Len(runs) + 1].conclusion = "none"
      BY <1>0, <1>2 DEF CreateRun
    <2> QED BY <1>0, <2>1 DEF GreenIsTrue
  <1>3. ASSUME NEW i \in Nat, NEW c \in Verdicts, NEW s \in Scans,
               NEW st \in {"queued", "in_progress", "completed"},
               UpdateRun(i, st, c, s), c = "success" => verdict[s] = "success"
        PROVE  GreenIsTrue'
    <2>1. /\ DOMAIN runs' = DOMAIN runs
          /\ \A j \in DOMAIN runs : j # i => runs'[j] = runs[j]
          /\ i \in DOMAIN runs =>
                runs'[i] = [status |-> st, conclusion |-> c, scan |-> s]
      BY <1>0, <1>3 DEF UpdateRun
    <2> QED BY <1>3, <2>1 DEF GreenIsTrue
  <1> QED BY <1>1, <1>2, <1>3

\* Every step keeps the invariant.
LEMMA GreenStep == GreenInv /\ [Next]_vars => GreenInv'
  <1> SUFFICES ASSUME GreenInv, [Next]_vars PROVE GreenInv'
    OBVIOUS
  <1>0. TypeOK /\ TypeOK' /\ VerdictReported /\ GreenIsTrue
    BY TypeStep DEF GreenInv
  <1>1. ASSUME NEW s \in Scans,
               Delegate(s) \/ StartScan(s) \/ AbortPrescan(s)
        PROVE  VerdictReported' /\ GreenIsTrue'
    <2>1. UNCHANGED <<verdict, runs>> /\ stage[s] # "reported"
      BY <1>1 DEF Delegate, StartScan, AbortPrescan
    <2>2. \A t \in Scans : t # s => stage'[t] = stage[t]
      BY <1>0, <1>1 DEF Delegate, StartScan, AbortPrescan, TypeOK
    <2>3. VerdictReported'
      BY <1>0, <2>1, <2>2 DEF VerdictReported
    <2>4. GreenIsTrue'
      BY <1>0, <2>1 DEF GreenIsTrue
    <2> QED BY <2>3, <2>4
  <1>2. ASSUME NEW s \in Scans, PublishFeedback(s)
        PROVE  VerdictReported' /\ GreenIsTrue'
    <2>1. PICK v \in {"success", "failure"} :
            /\ verdict' = [verdict EXCEPT ![s] = v]
            /\ stage' = [stage EXCEPT ![s] = "reported"]
            /\ stage[s] = "started" /\ UNCHANGED runs
      BY <1>2 DEF PublishFeedback
    <2>2. verdict[s] = "none"
      BY <1>0, <2>1 DEF VerdictReported
    <2>3. \A t \in Scans : verdict[t] = "success" => verdict'[t] = "success"
      BY <1>0, <2>1, <2>2 DEF TypeOK
    <2>4. \A i \in DOMAIN runs : runs[i].scan \in Scans
      <3>1. \A i \in DOMAIN runs : runs[i] \in Run
        BY <1>0 DEF TypeOK
      <3> QED BY <3>1 DEF Run
    <2>5. GreenIsTrue'
      BY <1>0, <2>1, <2>3, <2>4 DEF GreenIsTrue
    <2>6. VerdictReported'
      BY <1>0, <2>1 DEF TypeOK, VerdictReported
    <2> QED BY <2>5, <2>6
  <1>3. ASSUME NEW m \in Messages,
               \/ m[1] = "pending" /\ Pending(m[2])
               \/ Find(m)
               \/ m[1] = "update" /\ Update(m[2])
               \/ HandlerFails(m)
               \/ AgentLost(m)
        PROVE  VerdictReported' /\ GreenIsTrue'
    <2>1. UNCHANGED <<stage, verdict>> /\ m[2] \in Scans
      BY <1>3 DEF Pending, Find, Update, HandlerFails, AgentLost, Messages
    <2>2. VerdictReported'
      BY <1>0, <2>1 DEF VerdictReported
    <2>3. target[<<"update", m[2]>>] \in Nat
      BY <1>0, <2>1 DEF TypeOK, Messages, Kinds
    <2>4. "none" \in Verdicts /\ "none" # "success"
      BY DEF Verdicts
    <2>5. \/ UNCHANGED runs
          \/ CreateRun("queued", m[2])
          \/ CreateRun("in_progress", m[2])
          \/ UpdateRun(target[<<"update", m[2]>>], "in_progress", "none", m[2])
      BY <1>3 DEF Pending, Find, Update, HandlerFails, AgentLost
    <2> QED BY <1>0, <2>1, <2>2, <2>3, <2>4, <2>5, RunsStayTrue
  <1>4. ASSUME NEW m \in Messages, Complete(m)
        PROVE  VerdictReported' /\ GreenIsTrue'
    <2>1. UNCHANGED <<stage, verdict>> /\ m[2] \in Scans /\ target[m] \in Nat
      BY <1>0, <1>4 DEF Complete, Messages, TypeOK
    <2>2. VerdictReported'
      BY <1>0, <2>1 DEF VerdictReported
    <2>3. /\ Conclusion(m) \in Verdicts
          /\ Conclusion(m) = "success" => verdict[m[2]] = "success"
      BY <1>0, ConclusionType DEF Conclusion
    <2>4. \/ UNCHANGED runs
          \/ UpdateRun(target[m], "completed", Conclusion(m), m[2])
      BY <1>4 DEF Complete
    <2> QED BY <1>0, <2>1, <2>2, <2>3, <2>4, RunsStayTrue
  <1>5. CASE UNCHANGED vars
    BY <1>0, <1>5 DEF vars, VerdictReported, GreenIsTrue, GreenInv
  <1> QED
    BY <1>0, <1>1, <1>2, <1>3, <1>4, <1>5 DEF Next, Handle, GreenInv

-----------------------------------------------------------------------------
\* The initial state is well typed and shows nothing.
LEMMA InitGreen == Init => GreenInv
  <1> SUFFICES ASSUME Init PROVE GreenInv
    OBVIOUS
  <1>1. /\ stage \in [Scans -> Stages] /\ verdict \in [Scans -> Verdicts]
        /\ at \in [Messages -> Places]
    BY DEF Init, Stages, Verdicts, Places
  <1>2. target \in [Messages -> 0..MaxRuns] /\ faults \in 0..MaxFaults
    BY ChecksAssumption DEF Init
  <1>3. runs \in Seq(Run) /\ Len(runs) <= MaxRuns
    BY ChecksAssumption DEF Init
  <1>4. spoilt \in BOOLEAN
    BY DEF Init
  <1>5. VerdictReported /\ GreenIsTrue
    BY DEF Init, VerdictReported, GreenIsTrue
  <1> QED BY <1>1, <1>2, <1>3, <1>4, <1>5 DEF GreenInv, TypeOK

\* Every value stays within its type, for any order of the queues and faults.
THEOREM TypeCorrect == Spec => []TypeOK
  <1>1. Init => TypeOK
    BY InitGreen DEF GreenInv
  <1> QED BY <1>1, TypeStep, PTL DEF Spec

\* A check run never shows a success of a scan that was not reported as one,
\* whichever run a lookup returns and however the handlers overtake each other.
THEOREM GreenChecksAreTrue == Spec => []GreenIsTrue
  <1>1. GreenInv => GreenIsTrue
    BY DEF GreenInv
  <1> QED BY <1>1, InitGreen, GreenStep, PTL DEF Spec

-----------------------------------------------------------------------------
(* The bookkeeping.                                                        *)

\* The parts of a message.
LEMMA MessageParts ==
    ASSUME NEW m \in Messages
    PROVE  m[1] \in Kinds /\ m[2] \in Scans /\ m = <<m[1], m[2]>>
  BY DEF Messages

\* The sets of the bookkeeping are finite.
LEMMA Countable ==
    ASSUME TypeOK
    PROVE  /\ \A st : IsFiniteSet(With(st)) /\ Cardinality(With(st)) \in Nat
           /\ IsFiniteSet(Expected) /\ Cardinality(Expected) \in Nat
           /\ IsFiniteSet(Begun) /\ Cardinality(Begun) \in Nat
           /\ IsFiniteSet(Ended) /\ Cardinality(Ended) \in Nat
  <1>1. DOMAIN runs = 1..Len(runs) /\ Len(runs) \in Nat
    BY DEF TypeOK
  <1>2. IsFiniteSet(1..Len(runs)) /\ IsFiniteSet(Scans)
    BY <1>1, FS_Interval, ChecksAssumption
  <1>3. ASSUME NEW st
        PROVE  IsFiniteSet(With(st)) /\ Cardinality(With(st)) \in Nat
    <2>1. With(st) \subseteq 1..Len(runs)
      BY <1>1 DEF With
    <2> QED BY <1>2, <2>1, FS_Subset, FS_CardinalityType
  <1>4. Expected \subseteq Scans /\ Begun \subseteq Scans /\ Ended \subseteq Scans
    BY DEF Expected, Begun, Ended
  <1> QED BY <1>2, <1>3, <1>4, FS_Subset, FS_CardinalityType

\* Without an element a set has at most one element less.
LEMMA OneLess ==
    ASSUME NEW S, NEW x, IsFiniteSet(S)
    PROVE  /\ Cardinality(S \ {x}) \in Nat
           /\ Cardinality(S) - 1 <= Cardinality(S \ {x})
           /\ x \notin S => Cardinality(S \ {x}) = Cardinality(S)
  <1>1. Cardinality(S) \in Nat
    BY FS_CardinalityType
  <1>2. /\ IsFiniteSet(S \ {x})
        /\ Cardinality(S \ {x}) =
              IF x \in S THEN Cardinality(S) - 1 ELSE Cardinality(S)
    BY FS_RemoveElement
  <1>3. Cardinality(S \ {x}) \in Nat
    BY <1>2, FS_CardinalityType
  <1> QED BY <1>1, <1>2, <1>3

\* A new run is counted with its status, and is one more.
LEMMA CreatedRun ==
    ASSUME TypeOK, NEW st \in {"queued", "in_progress"}, NEW s \in Scans,
           CreateRun(st, s)
    PROVE  /\ Len(runs') = Len(runs) + 1
           /\ \A i \in DOMAIN runs : i \in DOMAIN runs' /\ runs'[i] = runs[i]
           /\ Cardinality(With(st)') = Cardinality(With(st)) + 1
           /\ \A t : t # st => With(t)' = With(t)
  <1> DEFINE r == [status |-> st, conclusion |-> "none", scan |-> s]
             n == Len(runs) + 1
  <1>1. r \in Run /\ r.status = st
    BY DEF Run, Verdicts
  <1>2. runs' = Append(runs, r) /\ runs \in Seq(Run) /\ Len(runs) \in Nat
    BY DEF CreateRun, TypeOK
  <1> HIDE DEF r
  <1>3. /\ Len(runs') = n /\ DOMAIN runs' = 1..n
        /\ \A i \in 1..Len(runs) : runs'[i] = runs[i]
        /\ runs'[n] = r
        /\ DOMAIN runs = 1..Len(runs)
    BY <1>1, <1>2, AppendProperties
  <1>4. n \notin 1..Len(runs) /\ 1..n = 1..Len(runs) \cup {n}
    BY <1>2
  <1>5. ASSUME NEW t PROVE With(t)' = With(t) \cup (IF t = st THEN {n} ELSE {})
    <2>1. ASSUME NEW i PROVE i \in With(t)' <=>
                             i \in With(t) \/ (i = n /\ t = st)
      BY <1>1, <1>3, <1>4 DEF With
    <2> QED BY <2>1
  <1>6. n \notin With(st)
    BY <1>3, <1>4 DEF With
  <1>7. Cardinality(With(st)') = Cardinality(With(st)) + 1
    <2>1. With(st)' = With(st) \cup {n}
      BY <1>5
    <2>2. IsFiniteSet(With(st))
      BY Countable
    <2> QED BY <1>6, <2>1, <2>2, FS_AddElement
  <1>8. \A t : t # st => With(t)' = With(t)
    BY <1>5
  <1>9. \A i \in DOMAIN runs : i \in DOMAIN runs' /\ runs'[i] = runs[i]
    BY <1>3, <1>4
  <1> QED BY <1>3, <1>7, <1>8, <1>9

\* A run that changes its status is counted with the new one.
LEMMA UpdatedRun ==
    ASSUME TypeOK, NEW i \in DOMAIN runs, NEW s \in Scans, NEW c \in Verdicts,
           NEW st \in {"in_progress", "completed"}, runs[i].status # st,
           UpdateRun(i, st, c, s)
    PROVE  /\ Len(runs') = Len(runs)
           /\ DOMAIN runs' = DOMAIN runs
           /\ \A j \in DOMAIN runs : j # i => runs'[j] = runs[j]
           /\ runs'[i].status = st /\ runs'[i].scan = s
           /\ Cardinality(With(st)') = Cardinality(With(st)) + 1
           /\ \A t : t = runs[i].status =>
                 Cardinality(With(t)') = Cardinality(With(t)) - 1
           /\ \A t : t \notin {st, runs[i].status} => With(t)' = With(t)
  <1> DEFINE r == [status |-> st, conclusion |-> c, scan |-> s]
  <1>1. r \in Run /\ r.status = st /\ r.scan = s
    BY DEF Run
  <1>2. /\ runs' = [runs EXCEPT ![i] = r]
        /\ runs \in [1..Len(runs) -> Run] /\ Len(runs) \in Nat
        /\ DOMAIN runs = 1..Len(runs)
    BY DEF UpdateRun, TypeOK
  <1> HIDE DEF r
  <1>3. runs' \in [1..Len(runs) -> Run]
    BY <1>1, <1>2
  <1>4. Len(runs') = Len(runs) /\ DOMAIN runs' = DOMAIN runs
    BY <1>2, <1>3, SeqDef, LenProperties
  <1>5. (\A j \in DOMAIN runs : j # i => runs'[j] = runs[j]) /\ runs'[i] = r
    BY <1>2
  <1>6. With(st)' = With(st) \cup {i} /\ i \notin With(st)
    <2>1. ASSUME NEW j PROVE j \in With(st)' <=> j \in With(st) \/ j = i
      BY <1>1, <1>4, <1>5 DEF With
    <2>2. i \notin With(st)
      BY DEF With
    <2> QED BY <2>1, <2>2
  <1>7. Cardinality(With(st)') = Cardinality(With(st)) + 1
    BY <1>6, Countable, FS_AddElement
  <1>8. ASSUME NEW t, t = runs[i].status
        PROVE  Cardinality(With(t)') = Cardinality(With(t)) - 1
    <2>1. ASSUME NEW j PROVE j \in With(t)' <=> j \in With(t) /\ j # i
      BY <1>1, <1>4, <1>5, <1>8 DEF With
    <2>2. With(t)' = With(t) \ {i}
      BY <2>1
    <2>3. i \in With(t)
      BY <1>8 DEF With
    <2> QED BY <2>2, <2>3, Countable, FS_RemoveElement
  <1>9. ASSUME NEW t, t \notin {st, runs[i].status}
        PROVE  With(t)' = With(t)
    <2>1. ASSUME NEW j PROVE j \in With(t)' <=> j \in With(t)
      BY <1>1, <1>4, <1>5, <1>9 DEF With
    <2> QED BY <2>1
  <1> QED BY <1>1, <1>4, <1>5, <1>7, <1>8, <1>9

\* The other messages are where they were.
Elsewhere(m) ==
    \A l \in Messages : l # m => at'[l] = at[l] /\ target'[l] = target[l]

\* A step of a handler changes the books only of its scan, and only those
\* that are about its kind of message.
LEMMA BooksOfOthers ==
    ASSUME NEW m \in Messages, Elsewhere(m), UNCHANGED stage, NEW r \in Scans
    PROVE  /\ r # m[2] \/ m[1] = "feedback" =>
                 (r \in Expected' <=> r \in Expected)
           /\ r # m[2] \/ m[1] # "update" => (r \in Begun' <=> r \in Begun)
           /\ r # m[2] \/ m[1] # "feedback" => (r \in Ended' <=> r \in Ended)
           /\ r # m[2] \/ m[1] # "abort" => (r \in Aborted' <=> r \in Aborted)
  <1>1. \A k \in Kinds : <<k, r>> \in Messages
    BY DEF Messages
  <1>2. ASSUME NEW k \in Kinds, r # m[2] \/ m[1] # k
        PROVE  at'[<<k, r>>] = at[<<k, r>>] /\ target'[<<k, r>>] = target[<<k, r>>]
    <2>1. <<k, r>> # m
      BY <1>2
    <2> QED BY <1>1, <2>1 DEF Elsewhere
  <1>3. Kinds = {"pending", "update", "feedback", "abort"}
    BY DEF Kinds
  <1>4. r # m[2] \/ m[1] = "feedback" => (r \in Expected' <=> r \in Expected)
    BY <1>2, <1>3 DEF Expected, Expecting, TakesOver
  <1>5. r # m[2] \/ m[1] # "update" => (r \in Begun' <=> r \in Begun)
    BY <1>2, <1>3 DEF Begun
  <1>6. r # m[2] \/ m[1] # "feedback" => (r \in Ended' <=> r \in Ended)
    BY <1>2, <1>3 DEF Ended
  <1>7. r # m[2] \/ m[1] # "abort" => (r \in Aborted' <=> r \in Aborted)
    BY <1>2, <1>3 DEF Aborted
  <1> QED BY <1>4, <1>5, <1>6, <1>7

\* The steps of a handler that spoil nothing.
CalmPending(m) ==
    /\ m[1] = "pending" /\ at[m] = "queued" /\ at'[m] = "absent"
    /\ ~FollowedUp(m[2])
    /\ CreateRun("queued", m[2])

CalmFind(m) ==
    /\ m[1] # "pending"
    /\ at[m] \in {"queued", "error"} /\ at'[m] \in {"found", "errorFound"}
    /\ target'[m] \in FindRunningCheck(Seeks(m[1]))
    /\ UNCHANGED runs

CalmUpdate(m) ==
    /\ m[1] = "update" /\ at[m] = "found" /\ at'[m] = "absent"
    /\ \/ target[m] = 0 /\ CreateRun("in_progress", m[2])
       \/ /\ target[m] # 0 /\ runs[target[m]].status = "queued"
          /\ UpdateRun(target[m], "in_progress", "none", m[2])

CalmComplete(m) ==
    /\ m[1] \in {"feedback", "abort"}
    /\ at[m] \in {"found", "errorFound"} /\ at'[m] = "absent"
    /\ target[m] # 0 /\ runs[target[m]].status = Seeks(m[1])
    /\ UpdateRun(target[m], "completed", Conclusion(m), m[2])

Calm(m) == CalmPending(m) \/ CalmFind(m) \/ CalmUpdate(m) \/ CalmComplete(m)

\* The end of a handler: a race or a fault spoils the commit.
LEMMA HandledCalmly ==
    ASSUME TypeOK, NEW m \in Messages, NEW race \in BOOLEAN, Handled(m, race)
    PROVE  /\ \A l \in Messages : l # m => at'[l] = at[l]
           /\ ~spoilt' => ~spoilt /\ ~race /\ at'[m] = "absent"
  <1>1. at \in [Messages -> Places]
    BY DEF TypeOK
  <1>2. at' = [at EXCEPT ![m] = "absent"] \/ at' = [at EXCEPT ![m] = "queued"]
    BY DEF Handled
  <1>3. \A l \in Messages : l # m => at'[l] = at[l]
    BY <1>1, <1>2
  <1>4. ~spoilt' => /\ ~spoilt /\ ~race
                    /\ at' = [at EXCEPT ![m] = "absent"]
    BY Zenon DEF Handled, Blame
  <1>5. ~spoilt' => at'[m] = "absent"
    BY <1>1, <1>4
  <1> QED BY <1>3, <1>4, <1>5

\* Every step of a handler spoils the commit or is one of these four.
LEMMA HandlerSteps ==
    ASSUME TypeOK, Sent, NEW m \in Messages,
           Handle(m) \/ HandlerFails(m) \/ AgentLost(m)
    PROVE  /\ at[m] # "absent"
           /\ Elsewhere(m)
           /\ UNCHANGED stage
           /\ target'[m] \in 0..Len(runs) /\ Len(runs) <= Len(runs')
           /\ ~spoilt' => ~spoilt /\ Calm(m)
  <1>1. /\ at \in [Messages -> Places]
        /\ target \in [Messages -> 0..MaxRuns]
        /\ DOMAIN runs = 1..Len(runs) /\ Len(runs) \in Nat
        /\ target[m] \in 0..Len(runs)
    BY DEF TypeOK, Sent
  <1>2. m[1] \in Kinds /\ m[2] \in Scans /\ m = <<m[1], m[2]>>
    BY MessageParts
  <1>3. CASE m[1] = "pending" /\ Pending(m[2])
    <2>1. /\ at[m] = "queued" /\ CreateRun("queued", m[2])
          /\ Handled(m, FollowedUp(m[2]))
          /\ UNCHANGED <<stage, verdict, target>>
      BY <1>2, <1>3 DEF Pending
    <2>2. FollowedUp(m[2]) \in BOOLEAN
      BY DEF FollowedUp
    <2>3. /\ \A l \in Messages : l # m => at'[l] = at[l]
          /\ ~spoilt' => ~spoilt /\ ~FollowedUp(m[2]) /\ at'[m] = "absent"
      BY <2>1, <2>2, HandledCalmly
    <2>4. Len(runs') = Len(runs) + 1
      BY <1>2, <2>1, CreatedRun
    <2> QED BY <1>1, <1>3, <2>1, <2>3, <2>4 DEF Elsewhere, Calm, CalmPending
  <1>4. CASE Find(m)
    <2>1. /\ m[1] # "pending" /\ at[m] \in {"queued", "error"}
          /\ at' = [at EXCEPT ![m] = IF @ = "queued" THEN "found" ELSE "errorFound"]
          /\ UNCHANGED <<stage, verdict, runs>>
      BY <1>4 DEF Find
    <2>2. /\ \A l \in Messages : l # m => at'[l] = at[l]
          /\ at'[m] \in {"found", "errorFound"}
      BY <1>1, <2>1
    <2>3. FindRunningCheck(Seeks(m[1])) \subseteq 0..Len(runs)
      BY <1>1 DEF FindRunningCheck
    <2>4. CASE /\ \E i \in FindRunningCheck(Seeks(m[1])) :
                     target' = [target EXCEPT ![m] = i]
               /\ UNCHANGED <<spoilt, faults>>
      <3>1. /\ target'[m] \in FindRunningCheck(Seeks(m[1]))
            /\ \A l \in Messages : l # m => target'[l] = target[l]
        BY <1>1, <2>4
      <3>2. target'[m] \in 0..Len(runs)
        BY <2>3, <3>1
      <3> QED BY <1>1, <2>1, <2>2, <2>4, <3>1, <3>2 DEF Elsewhere, Calm, CalmFind
    <2>5. CASE /\ Fault
               /\ target' = [target EXCEPT ![m] = 0]
               /\ Blame(TRUE)
      <3>1. target'[m] = 0 /\ \A l \in Messages : l # m => target'[l] = target[l]
        BY <1>1, <2>5
      <3>2. spoilt'
        BY <2>5 DEF Blame
      <3> QED BY <1>1, <2>1, <2>2, <3>1, <3>2 DEF Elsewhere
    <2> QED BY <1>4, <2>4, <2>5 DEF Find
  <1>5. CASE m[1] = "update" /\ Update(m[2])
    <2>1. /\ at[m] = "found"
          /\ target' = [target EXCEPT ![m] = 0]
          /\ UNCHANGED <<stage, verdict>>
      BY <1>2, <1>5 DEF Update
    <2>2. target'[m] = 0 /\ \A l \in Messages : l # m => target'[l] = target[l]
      BY <1>1, <2>1
    <2>3. CASE /\ target[m] = 0
               /\ CreateRun("in_progress", m[2])
               /\ Handled(m, FALSE)
      <3>1. /\ \A l \in Messages : l # m => at'[l] = at[l]
            /\ ~spoilt' => ~spoilt /\ at'[m] = "absent"
        BY <2>3, HandledCalmly
      <3>2. Len(runs') = Len(runs) + 1
        BY <1>2, <2>3, CreatedRun
      <3> QED BY <1>1, <1>5, <2>1, <2>2, <2>3, <3>1, <3>2
              DEF Elsewhere, Calm, CalmUpdate
    <2>4. CASE /\ target[m] # 0
               /\ UpdateRun(target[m], "in_progress", "none", m[2])
               /\ Handled(m, Overtaken(target[m], "queued"))
      <3>1. Overtaken(target[m], "queued") \in BOOLEAN
        BY DEF Overtaken
      <3>2. /\ \A l \in Messages : l # m => at'[l] = at[l]
            /\ ~spoilt' => /\ ~spoilt /\ at'[m] = "absent"
                           /\ runs[target[m]].status = "queued"
        BY <2>4, <3>1, HandledCalmly DEF Overtaken
      <3>3. Len(runs') = Len(runs)
        BY <1>1, <2>4, LenProperties DEF UpdateRun, TypeOK
      <3> QED BY <1>1, <1>5, <2>1, <2>2, <2>4, <3>2, <3>3
              DEF Elsewhere, Calm, CalmUpdate
    <2> QED BY <1>2, <1>5, <2>3, <2>4 DEF Update
  <1>6. CASE Complete(m)
    <2>1. /\ m[1] \in {"feedback", "abort"} /\ at[m] \in {"found", "errorFound"}
          /\ target' = [target EXCEPT ![m] = 0]
          /\ UNCHANGED <<stage, verdict>>
      BY <1>6 DEF Complete
    <2>2. target'[m] = 0 /\ \A l \in Messages : l # m => target'[l] = target[l]
      BY <1>1, <2>1
    <2>3. CASE target[m] = 0 /\ Handled(m, TRUE) /\ UNCHANGED runs
      <3>1. (\A l \in Messages : l # m => at'[l] = at[l]) /\ spoilt'
        BY <2>3, HandledCalmly
      <3> QED BY <1>1, <2>1, <2>2, <2>3, <3>1 DEF Elsewhere
    <2>4. CASE /\ target[m] # 0
               /\ UpdateRun(target[m], "completed", Conclusion(m), m[2])
               /\ Handled(m, Overtaken(target[m], Seeks(m[1])))
      <3>1. Overtaken(target[m], Seeks(m[1])) \in BOOLEAN
        BY DEF Overtaken
      <3>2. /\ \A l \in Messages : l # m => at'[l] = at[l]
            /\ ~spoilt' => /\ ~spoilt /\ at'[m] = "absent"
                           /\ runs[target[m]].status = Seeks(m[1])
        BY <2>4, <3>1, HandledCalmly DEF Overtaken
      <3>3. Len(runs') = Len(runs)
        BY <1>1, <2>4, LenProperties DEF UpdateRun, TypeOK
      <3> QED BY <1>1, <2>1, <2>2, <2>4, <3>2, <3>3
              DEF Elsewhere, Calm, CalmComplete
    <2> QED BY <1>6, <2>3, <2>4 DEF Complete
  <1>7. CASE HandlerFails(m) \/ AgentLost(m)
    <2>1. /\ at[m] # "absent" /\ UNCHANGED <<stage, runs>> /\ Blame(TRUE)
          /\ target' = [target EXCEPT ![m] = 0]
          /\ \E p \in Places : at' = [at EXCEPT ![m] = p]
      BY <1>7 DEF HandlerFails, AgentLost, Places
    <2>2. /\ target'[m] = 0
          /\ \A l \in Messages : l # m => target'[l] = target[l] /\ at'[l] = at[l]
      BY <1>1, <2>1
    <2>3. spoilt'
      BY <2>1 DEF Blame
    <2> QED BY <1>1, <2>1, <2>2, <2>3 DEF Elsewhere
  <1> QED BY <1>3, <1>4, <1>5, <1>6, <1>7 DEF Handle

\* A prescan notice: one more queued run, one more that is to take it over.
LEMMA PendingBalances ==
    ASSUME TypeOK, Sent, Balanced, NEW m \in Messages, Elsewhere(m),
           UNCHANGED stage, CalmPending(m)
    PROVE  Balanced'
  <1>1. m[2] \in Scans /\ m = <<"pending", m[2]>>
    BY MessageParts DEF CalmPending
  <1>2. /\ m[1] = "pending" /\ at[m] = "queued" /\ at'[m] = "absent"
        /\ ~FollowedUp(m[2])
        /\ CreateRun("queued", m[2])
    BY DEF CalmPending
  <1>3. /\ \A i \in DOMAIN runs : i \in DOMAIN runs' /\ runs'[i] = runs[i]
        /\ Cardinality(With("queued")') = Cardinality(With("queued")) + 1
        /\ With("in_progress")' = With("in_progress")
        /\ With("completed")' = With("completed")
    BY <1>1, <1>2, CreatedRun
  <1>4. Begun' = Begun /\ Ended' = Ended /\ Aborted' = Aborted
    <2>1. \A r \in Scans : /\ r \in Begun' <=> r \in Begun
                           /\ r \in Ended' <=> r \in Ended
                           /\ r \in Aborted' <=> r \in Aborted
      BY <1>2, BooksOfOthers
    <2> QED BY <2>1 DEF Begun, Ended, Aborted
  <1>5. m[2] \notin Expected
    BY <1>1, <1>2 DEF Expected, Expecting
  <1>6. Expecting(m[2])'
    <2>1. m[2] \in Delegated /\ stage[m[2]] # "idle" /\ stage[m[2]] \in Stages
      BY <1>1, <1>2 DEF Sent, Ready, TypeOK
    <2>2. \A k \in {"update", "abort"} : at'[<<k, m[2]>>] = at[<<k, m[2]>>]
      <3>1. \A k \in {"update", "abort"} :
               <<k, m[2]>> \in Messages /\ <<k, m[2]>> # m
        BY <1>1 DEF Messages, Kinds
      <3> QED BY <3>1 DEF Elsewhere
    <2>3. \/ stage[m[2]] = "delegated"
          \/ /\ stage[m[2]] \in {"started", "reported"}
             /\ at[<<"update", m[2]>>] = "queued"
          \/ stage[m[2]] = "aborted" /\ at[<<"abort", m[2]>>] = "queued"
      BY <1>2, <2>1 DEF FollowedUp, Stages
    <2> QED BY <1>1, <1>2, <2>1, <2>2, <2>3 DEF Expecting, TakesOver
  <1>7. Expected' = Expected \cup {m[2]}
    <2>1. \A r \in Scans : r # m[2] => (r \in Expected' <=> r \in Expected)
      BY BooksOfOthers
    <2>2. m[2] \in Expected'
      BY <1>1, <1>6 DEF Expected
    <2> QED BY <1>1, <2>1, <2>2 DEF Expected
  <1>8. Cardinality(Expected') = Cardinality(Expected) + 1
    BY <1>5, <1>7, Countable, FS_AddElement
  <1>9. \A i \in With("completed") : i \in DOMAIN runs
    BY DEF With
  <1> QED BY <1>3, <1>4, <1>8, <1>9, Countable DEF Balanced

\* A lookup: a follow-up that finds no run will not take one over, and then
\* there is none.
LEMMA FindBalances ==
    ASSUME TypeOK, Sent, Balanced, NEW m \in Messages, Elsewhere(m),
           UNCHANGED stage, CalmFind(m)
    PROVE  Balanced'
  <1>1. m[1] \in {"update", "feedback", "abort"} /\ m[2] \in Scans
        /\ m = <<m[1], m[2]>>
    BY MessageParts DEF CalmFind, Kinds
  <1>2. /\ at[m] \in {"queued", "error"} /\ at'[m] \in {"found", "errorFound"}
        /\ target'[m] \in FindRunningCheck(Seeks(m[1]))
        /\ UNCHANGED runs
    BY DEF CalmFind
  <1>3. \A st : With(st)' = With(st)
    BY <1>2 DEF With
  <1>4. Begun' = Begun /\ Ended' = Ended /\ Aborted' = Aborted
    <2>1. ASSUME NEW r \in Scans
          PROVE  /\ r \in Begun' <=> r \in Begun
                 /\ r \in Ended' <=> r \in Ended
                 /\ r \in Aborted' <=> r \in Aborted
      <3>1. CASE r # m[2]
        BY <3>1, BooksOfOthers
      <3>2. CASE r = m[2] /\ m[1] = "update"
        <4>1. r \notin Begun /\ r \notin Begun'
          BY <1>1, <1>2, <3>2 DEF Begun
        <4> QED BY <3>2, <4>1, BooksOfOthers
      <3>3. CASE r = m[2] /\ m[1] = "feedback"
        <4>1. r \notin Ended /\ r \notin Ended'
          BY <1>1, <1>2, <3>3 DEF Ended
        <4> QED BY <3>3, <4>1, BooksOfOthers
      <3>4. CASE r = m[2] /\ m[1] = "abort"
        <4>1. r \notin Aborted /\ r \notin Aborted'
          BY <1>1, <1>2, <3>4 DEF Aborted
        <4> QED BY <3>4, <4>1, BooksOfOthers
      <3> QED BY <1>1, <3>1, <3>2, <3>3, <3>4
    <2> QED BY <2>1 DEF Begun, Ended, Aborted
  <1>5. Cardinality(With("queued")) <= Cardinality(Expected')
    <2>1. \A r \in Scans : r # m[2] => (r \in Expected' <=> r \in Expected)
      BY BooksOfOthers
    <2>2. CASE m[2] \in Expected' <=> m[2] \in Expected
      <3>1. Expected' = Expected
        BY <2>1, <2>2 DEF Expected
      <3> QED BY <3>1 DEF Balanced
    <2>3. CASE m[1] \in {"update", "abort"} /\ target'[m] = 0
      <3>1. With("queued") = {}
        <4>1. Seeks(m[1]) = "queued"
          BY <2>3 DEF Seeks
        <4>2. 0 \notin With("queued")
          BY DEF With, TypeOK
        <4>3. 0 \in FindRunningCheck("queued")
          BY <1>2, <2>3, <4>1
        <4> QED BY <4>2, <4>3 DEF FindRunningCheck, With
      <3>2. Cardinality(With("queued")) = 0
        BY <3>1, FS_EmptySet
      <3>3. Expected' \subseteq Scans
        BY DEF Expected
      <3>4. Cardinality(Expected') \in Nat
        BY <3>3, ChecksAssumption, FS_Subset, FS_CardinalityType
      <3> QED BY <3>2, <3>4
    <2>4. CASE m[1] \in {"update", "abort"} /\ target'[m] # 0
      <3>1. TakesOver(m) /\ TakesOver(m)'
        BY <1>2, <2>4 DEF TakesOver
      <3>2. \A k \in Kinds :
               k # m[1] => /\ at'[<<k, m[2]>>] = at[<<k, m[2]>>]
                           /\ target'[<<k, m[2]>>] = target[<<k, m[2]>>]
        <4>1. \A k \in Kinds :
                 k # m[1] => <<k, m[2]>> \in Messages /\ <<k, m[2]>> # m
          BY <1>1 DEF Messages
        <4> QED BY <4>1 DEF Elsewhere
      <3>3. CASE m[1] = "update"
        <4>1. m = <<"update", m[2]>>
          BY <1>1, <3>3
        <4> QED BY <1>1, <2>2, <3>1, <3>2, <3>3, <4>1
                DEF Expected, Expecting, TakesOver, Kinds
      <3>4. CASE m[1] = "abort"
        <4>1. m = <<"abort", m[2]>>
          BY <1>1, <3>4
        <4> QED BY <1>1, <2>2, <3>1, <3>2, <3>4, <4>1
                DEF Expected, Expecting, TakesOver, Kinds
      <3> QED BY <2>4, <3>3, <3>4
    <2>5. CASE m[1] = "feedback"
      BY <1>1, <2>2, <2>5, BooksOfOthers
    <2> QED BY <1>1, <2>3, <2>4, <2>5
  <1>6. \A s \in Ended \cup Aborted : \E i \in With("completed") : runs[i].scan = s
    BY DEF Balanced
  <1> QED BY <1>2, <1>3, <1>4, <1>5, <1>6 DEF Balanced

\* Who takes over a run is no longer expected to.
LEMMA FollowUpEnds ==
    ASSUME TypeOK, Sent, NEW m \in Messages, Elsewhere(m), UNCHANGED stage,
           m[1] \in {"update", "abort"}, at[m] # "absent", at'[m] = "absent"
    PROVE  /\ Expected' = Expected \ {m[2]}
           /\ ~TakesOver(m) => m[2] \notin Expected
  <1>1. m[2] \in Scans /\ m = <<m[1], m[2]>>
    BY MessageParts
  <1>2. Ready(m)
    BY DEF Sent
  <1>3. \A r \in Scans : r # m[2] => (r \in Expected' <=> r \in Expected)
    BY BooksOfOthers
  <1>4. m[2] \notin Expected' /\ (~TakesOver(m) => m[2] \notin Expected)
    <2>1. CASE m[1] = "update"
      <3>1. m = <<"update", m[2]>> /\ stage[m[2]] \in {"started", "reported"}
        BY <1>1, <1>2, <2>1 DEF Ready
      <3> QED BY <3>1 DEF Expected, Expecting, TakesOver
    <2>2. CASE m[1] = "abort"
      <3>1. m = <<"abort", m[2]>> /\ stage[m[2]] = "aborted"
        BY <1>1, <1>2, <2>2 DEF Ready
      <3> QED BY <3>1 DEF Expected, Expecting, TakesOver
    <2> QED BY <2>1, <2>2
  <1> QED BY <1>3, <1>4 DEF Expected

\* A scan notice: one more run in progress, and, if it was a queued one, one
\* less of those.
LEMMA UpdateBalances ==
    ASSUME TypeOK, Sent, Balanced, NEW m \in Messages, Elsewhere(m),
           UNCHANGED stage, CalmUpdate(m)
    PROVE  Balanced'
  <1>1. m[2] \in Scans /\ m = <<"update", m[2]>> /\ m[1] = "update"
    BY MessageParts DEF CalmUpdate
  <1>2. at[m] = "found" /\ at[m] # "absent" /\ at'[m] = "absent"
    BY DEF CalmUpdate
  <1>3. stage[m[2]] \in {"started", "reported"}
    BY <1>1, <1>2 DEF Sent, Ready
  <1>4. Ended' = Ended /\ Aborted' = Aborted
    <2>1. \A r \in Scans : /\ r \in Ended' <=> r \in Ended
                           /\ r \in Aborted' <=> r \in Aborted
      BY <1>1, BooksOfOthers
    <2> QED BY <2>1 DEF Ended, Aborted
  <1>5. Cardinality(Begun') = Cardinality(Begun) + 1
    <2>1. \A r \in Scans : r # m[2] => (r \in Begun' <=> r \in Begun)
      BY BooksOfOthers
    <2>2. m[2] \in Begun' /\ m[2] \notin Begun
      BY <1>1, <1>2, <1>3 DEF Begun
    <2>3. Begun' = Begun \cup {m[2]}
      BY <1>1, <2>1, <2>2 DEF Begun
    <2> QED BY <2>2, <2>3, Countable, FS_AddElement
  <1>6. /\ Expected' = Expected \ {m[2]}
        /\ ~TakesOver(m) => m[2] \notin Expected
    BY <1>1, <1>2, FollowUpEnds
  <1>7. /\ Cardinality(Expected') \in Nat
        /\ Cardinality(Expected) - 1 <= Cardinality(Expected')
        /\ m[2] \notin Expected => Cardinality(Expected') = Cardinality(Expected)
    BY <1>6, Countable, OneLess
  <1>8. \A i \in With("completed") : i \in DOMAIN runs /\ runs[i].status = "completed"
    BY DEF With
  <1>9. CASE target[m] = 0 /\ CreateRun("in_progress", m[2])
    <2>1. /\ \A i \in DOMAIN runs : i \in DOMAIN runs' /\ runs'[i] = runs[i]
          /\ Cardinality(With("in_progress")') = Cardinality(With("in_progress")) + 1
          /\ With("queued")' = With("queued")
          /\ With("completed")' = With("completed")
      BY <1>1, <1>9, CreatedRun
    <2>2. m[2] \notin Expected
      BY <1>2, <1>6, <1>9 DEF TakesOver
    <2>3. Cardinality(With("queued")') <= Cardinality(Expected')
      BY <1>7, <2>1, <2>2 DEF Balanced
    <2>4. Cardinality(With("in_progress")') + Cardinality(Ended')
              = Cardinality(Begun')
      BY <1>4, <1>5, <2>1, Countable DEF Balanced
    <2> QED BY <1>4, <1>8, <2>1, <2>3, <2>4 DEF Balanced
  <1>10. CASE /\ target[m] # 0 /\ runs[target[m]].status = "queued"
              /\ UpdateRun(target[m], "in_progress", "none", m[2])
    <2>1. target[m] \in DOMAIN runs /\ "none" \in Verdicts
      BY <1>10 DEF Sent, TypeOK, Verdicts
    <2>2. /\ DOMAIN runs' = DOMAIN runs
          /\ \A j \in DOMAIN runs : j # target[m] => runs'[j] = runs[j]
          /\ Cardinality(With("in_progress")') = Cardinality(With("in_progress")) + 1
          /\ Cardinality(With("queued")') = Cardinality(With("queued")) - 1
          /\ With("completed")' = With("completed")
      BY <1>1, <1>10, <2>1, UpdatedRun
    <2>3. Cardinality(With("queued")') <= Cardinality(Expected')
      BY <1>7, <2>2, Countable DEF Balanced
    <2>4. Cardinality(With("in_progress")') + Cardinality(Ended')
              = Cardinality(Begun')
      BY <1>4, <1>5, <2>2, Countable DEF Balanced
    <2>5. \A i \in With("completed") : runs'[i] = runs[i]
      BY <1>8, <1>10, <2>2
    <2> QED BY <1>4, <2>2, <2>3, <2>4, <2>5 DEF Balanced
  <1> QED BY <1>9, <1>10 DEF CalmUpdate

\* A feedback or a prescan failure: the run it looked for is completed and
\* speaks of its scan.
LEMMA CompleteBalances ==
    ASSUME TypeOK, Sent, Balanced, NEW m \in Messages, Elsewhere(m),
           UNCHANGED stage, CalmComplete(m)
    PROVE  Balanced'
  <1>1. m[2] \in Scans /\ m = <<m[1], m[2]>> /\ m[1] \in {"feedback", "abort"}
    BY MessageParts DEF CalmComplete
  <1>2. /\ at[m] # "absent" /\ at'[m] = "absent"
        /\ target[m] # 0 /\ runs[target[m]].status = Seeks(m[1])
        /\ UpdateRun(target[m], "completed", Conclusion(m), m[2])
    BY DEF CalmComplete
  <1>3. target[m] \in DOMAIN runs /\ Conclusion(m) \in Verdicts
    BY <1>2, ConclusionType DEF Sent, TypeOK
  <1>4. Seeks(m[1]) # "completed"
    BY DEF Seeks
  <1>5. /\ DOMAIN runs' = DOMAIN runs
        /\ \A j \in DOMAIN runs : j # target[m] => runs'[j] = runs[j]
        /\ runs'[target[m]].status = "completed"
        /\ runs'[target[m]].scan = m[2]
        /\ \A t : t = Seeks(m[1]) =>
              Cardinality(With(t)') = Cardinality(With(t)) - 1
        /\ \A t : t \notin {"completed", Seeks(m[1])} => With(t)' = With(t)
    BY <1>1, <1>2, <1>3, <1>4, UpdatedRun
  <1>6. Begun' = Begun
    <2>1. \A r \in Scans : r \in Begun' <=> r \in Begun
      BY <1>1, BooksOfOthers
    <2> QED BY <2>1 DEF Begun
  <1>7. ASSUME NEW s \in Ended' \cup Aborted'
        PROVE  \E i \in With("completed")' : runs'[i].scan = s
    <2>1. s \in Scans
      BY DEF Ended, Aborted
    <2>2. CASE s = m[2]
      <3>1. target[m] \in With("completed")'
        BY <1>3, <1>5 DEF With
      <3> QED BY <1>5, <2>2, <3>1
    <2>3. CASE s # m[2]
      <3>1. s \in Ended \cup Aborted
        BY <2>1, <2>3, BooksOfOthers
      <3>2. PICK i \in With("completed") : runs[i].scan = s
        BY <3>1 DEF Balanced
      <3>3. i \in DOMAIN runs /\ i # target[m]
        BY <1>2, <1>4 DEF With
      <3>4. i \in With("completed")' /\ runs'[i] = runs[i]
        BY <1>5, <3>3 DEF With
      <3> QED BY <3>2, <3>4
    <2> QED BY <2>2, <2>3
  <1>8. CASE m[1] = "feedback"
    <2>1. Seeks(m[1]) = "in_progress"
      BY <1>8 DEF Seeks
    <2>2. /\ Cardinality(With("in_progress")') = Cardinality(With("in_progress")) - 1
          /\ With("queued")' = With("queued")
      BY <1>5, <2>1
    <2>3. stage[m[2]] = "reported"
      BY <1>2, <1>8 DEF Sent, Ready
    <2>4. Cardinality(Ended') = Cardinality(Ended) + 1
      <3>1. \A r \in Scans : r # m[2] => (r \in Ended' <=> r \in Ended)
        BY BooksOfOthers
      <3>2. m = <<"feedback", m[2]>>
        BY <1>1, <1>8
      <3>3. m[2] \in Ended' /\ m[2] \notin Ended
        BY <1>1, <1>2, <2>3, <3>2 DEF Ended
      <3>4. Ended' = Ended \cup {m[2]}
        BY <1>1, <3>1, <3>3 DEF Ended
      <3> QED BY <3>3, <3>4, Countable, FS_AddElement
    <2>5. Expected' = Expected
      <3>1. \A r \in Scans : r \in Expected' <=> r \in Expected
        BY <1>8, BooksOfOthers
      <3> QED BY <3>1 DEF Expected
    <2>6. Cardinality(With("in_progress")') + Cardinality(Ended')
              = Cardinality(Begun')
      BY <1>6, <2>2, <2>4, Countable DEF Balanced
    <2> QED BY <1>7, <2>2, <2>5, <2>6 DEF Balanced
  <1>9. CASE m[1] = "abort"
    <2>1. Seeks(m[1]) = "queued"
      BY <1>9 DEF Seeks
    <2>2. /\ Cardinality(With("queued")') = Cardinality(With("queued")) - 1
          /\ With("in_progress")' = With("in_progress")
      BY <1>5, <2>1
    <2>3. Ended' = Ended
      <3>1. \A r \in Scans : r \in Ended' <=> r \in Ended
        BY <1>9, BooksOfOthers
      <3> QED BY <3>1 DEF Ended
    <2>4. Expected' = Expected \ {m[2]}
      BY <1>2, <1>9, FollowUpEnds
    <2>5. Cardinality(Expected) - 1 <= Cardinality(Expected')
          /\ Cardinality(Expected') \in Nat
      BY <2>4, Countable, OneLess
    <2>6. Cardinality(With("queued")') <= Cardinality(Expected')
      BY <2>2, <2>5, Countable DEF Balanced
    <2> QED BY <1>6, <1>7, <2>2, <2>3, <2>6 DEF Balanced
  <1> QED BY <1>1, <1>8, <1>9

-----------------------------------------------------------------------------
\* Steps of the workflow bring a message that waits in its queue; the books
\* stay as they are.
LEMMA WorkflowBalances ==
    ASSUME BalanceInv, NEW s \in Scans,
           Delegate(s) \/ StartScan(s) \/ AbortPrescan(s) \/ PublishFeedback(s)
    PROVE  Sent' /\ (~spoilt' => Balanced')
  <1> USE DEF BalanceInv
  <1>1. /\ UNCHANGED <<target, runs, spoilt>>
        /\ \A r \in Scans : r # s => stage'[r] = stage[r]
    BY DEF Delegate, StartScan, AbortPrescan, PublishFeedback, TypeOK
  <1>2. PICK k \in Kinds :
            /\ at' = [at EXCEPT ![<<k, s>>] = "queued"]
            /\ k = "pending" => /\ s \in Delegated
                                /\ stage[s] = "idle" /\ stage'[s] = "delegated"
            /\ k = "update" => /\ stage[s] \in {"idle", "delegated"}
                               /\ s \in Delegated => stage[s] = "delegated"
                               /\ stage'[s] = "started"
            /\ k = "abort" => stage[s] = "delegated" /\ stage'[s] = "aborted"
            /\ k = "feedback" => stage[s] = "started" /\ stage'[s] = "reported"
    <2>1. {"pending", "update", "feedback", "abort"} = Kinds
      BY DEF Kinds
    <2>2. CASE Delegate(s)
      BY <2>1, <2>2 DEF Delegate, TypeOK
    <2>3. CASE StartScan(s)
      BY <2>1, <2>3 DEF StartScan, TypeOK
    <2>4. CASE AbortPrescan(s)
      BY <2>1, <2>4 DEF AbortPrescan, TypeOK
    <2>5. CASE PublishFeedback(s)
      BY <2>1, <2>5 DEF PublishFeedback, TypeOK
    <2> QED BY <2>2, <2>3, <2>4, <2>5
  <1>3. <<k, s>> \in Messages
    BY DEF Messages
  <1>4. /\ at'[<<k, s>>] = "queued"
        /\ \A l \in Messages : l # <<k, s>> => at'[l] = at[l]
    BY <1>2, <1>3 DEF TypeOK
  <1>5. ASSUME NEW r \in Scans, NEW h \in Kinds, <<h, r>> # <<k, s>>
        PROVE  at'[<<h, r>>] = at[<<h, r>>]
    <2>1. <<h, r>> \in Messages
      BY DEF Messages
    <2> QED BY <1>4, <1>5, <2>1
  <1>6. k \in {"pending", "update", "feedback", "abort"}
        /\ Kinds = {"pending", "update", "feedback", "abort"}
    BY DEF Kinds
  <1>7. Sent'
    <2>1. ASSUME NEW l \in Messages, at'[l] # "absent" PROVE Ready(l)'
      <3>1. l[1] \in Kinds /\ l[2] \in Scans /\ l = <<l[1], l[2]>>
        BY MessageParts
      <3>2. CASE l = <<k, s>>
        <4>1. l[1] = k /\ l[2] = s
          BY <3>2
        <4> QED BY <1>2, <1>6, <4>1 DEF Ready
      <3>3. CASE l # <<k, s>>
        <4>1. Ready(l)
          BY <1>4, <2>1, <3>3 DEF Sent
        <4>2. CASE l[2] # s
          BY <1>1, <3>1, <4>1, <4>2 DEF Ready
        <4>3. CASE l[2] = s
          BY <1>2, <1>6, <3>1, <4>1, <4>3 DEF Ready
        <4> QED BY <4>2, <4>3
      <3> QED BY <3>2, <3>3
    <2>2. ASSUME NEW l \in Messages PROVE target'[l] \in 0..Len(runs')
      BY <1>1 DEF Sent
    <2> QED BY <2>1, <2>2 DEF Sent
  <1>8. ASSUME NEW r \in Scans
        PROVE  /\ r \in Expected' <=> r \in Expected
               /\ r \in Begun' <=> r \in Begun
               /\ r \in Ended' <=> r \in Ended
               /\ r \in Aborted' <=> r \in Aborted
    <2>1. CASE r # s
      <3>1. \A h \in Kinds : at'[<<h, r>>] = at[<<h, r>>]
        BY <1>5, <2>1
      <3>2. stage'[r] = stage[r]
        BY <1>1, <2>1
      <3> QED BY <1>1, <1>6, <3>1, <3>2
              DEF Expected, Expecting, TakesOver, Begun, Ended, Aborted
    <2>2. CASE r = s
      <3>1. \A h \in Kinds : h # k => at'[<<h, s>>] = at[<<h, s>>]
        BY <1>5
      <3>2. CASE k = "pending"
        BY <1>1, <1>2, <1>4, <1>6, <2>2, <3>1, <3>2
           DEF Expected, Expecting, TakesOver, Begun, Ended, Aborted
      <3>3. CASE k = "update"
        BY <1>1, <1>2, <1>4, <1>6, <2>2, <3>1, <3>3
           DEF Expected, Expecting, TakesOver, Begun, Ended, Aborted
      <3>4. CASE k = "feedback"
        BY <1>1, <1>2, <1>4, <1>6, <2>2, <3>1, <3>4
           DEF Expected, Expecting, TakesOver, Begun, Ended, Aborted
      <3>5. CASE k = "abort"
        BY <1>1, <1>2, <1>4, <1>6, <2>2, <3>1, <3>5
           DEF Expected, Expecting, TakesOver, Begun, Ended, Aborted
      <3> QED BY <1>6, <3>2, <3>3, <3>4, <3>5
    <2> QED BY <2>1, <2>2
  <1>9. /\ Expected' = Expected /\ Begun' = Begun
        /\ Ended' = Ended /\ Aborted' = Aborted
    BY <1>8 DEF Expected, Begun, Ended, Aborted
  <1>10. \A st : With(st)' = With(st)
    BY <1>1 DEF With
  <1>11. Balanced => Balanced'
    BY <1>1, <1>9, <1>10 DEF Balanced
  <1> QED BY <1>1, <1>7, <1>11

\* Every step keeps the books balanced.
LEMMA BalanceStep == BalanceInv /\ [Next]_vars => BalanceInv'
  <1> SUFFICES ASSUME BalanceInv, [Next]_vars PROVE BalanceInv'
    OBVIOUS
  <1> USE DEF BalanceInv
  <1>1. TypeOK'
    BY TypeStep
  <1>2. CASE UNCHANGED vars
    <2>1. UNCHANGED <<stage, at, target, runs, spoilt>>
      BY <1>2 DEF vars
    <2>2. Sent'
      BY <2>1 DEF Sent, Ready
    <2>3. \A st : With(st)' = With(st)
      BY <2>1 DEF With
    <2>4. /\ Expected' = Expected /\ Begun' = Begun
          /\ Ended' = Ended /\ Aborted' = Aborted
      BY <2>1 DEF Expected, Expecting, TakesOver, Begun, Ended, Aborted
    <2> QED BY <1>1, <2>1, <2>2, <2>3, <2>4 DEF Balanced
  <1>3. ASSUME NEW s \in Scans,
               Delegate(s) \/ StartScan(s) \/ AbortPrescan(s) \/ PublishFeedback(s)
        PROVE  BalanceInv'
    BY <1>1, <1>3, WorkflowBalances
  <1>4. ASSUME NEW m \in Messages, Handle(m) \/ HandlerFails(m) \/ AgentLost(m)
        PROVE  BalanceInv'
    <2>1. /\ at[m] # "absent" /\ Elsewhere(m) /\ UNCHANGED stage
          /\ target'[m] \in 0..Len(runs) /\ Len(runs) <= Len(runs')
          /\ ~spoilt' => ~spoilt /\ Calm(m)
      BY <1>4, HandlerSteps
    <2>2. Sent'
      <3>1. ASSUME NEW l \in Messages, at'[l] # "absent" PROVE Ready(l)'
        <4>1. Ready(l)
          BY <2>1, <3>1 DEF Sent, Elsewhere
        <4> QED BY <2>1, <4>1 DEF Ready
      <3>2. ASSUME NEW l \in Messages PROVE target'[l] \in 0..Len(runs')
        <4>1. target'[l] \in 0..Len(runs)
          BY <2>1 DEF Sent, Elsewhere
        <4>2. Len(runs) \in Nat /\ Len(runs') \in Nat
          BY <1>1 DEF TypeOK
        <4> QED BY <2>1, <4>1, <4>2
      <3> QED BY <3>1, <3>2 DEF Sent
    <2>3. ~spoilt' => Balanced'
      BY <2>1, PendingBalances, FindBalances, UpdateBalances, CompleteBalances
         DEF Calm
    <2> QED BY <1>1, <2>2, <2>3
  <1> QED BY <1>2, <1>3, <1>4 DEF Next

\* At first there is nothing to balance.
LEMMA InitBalance == Init => BalanceInv
  <1> SUFFICES ASSUME Init PROVE BalanceInv
    OBVIOUS
  <1>1. TypeOK
    BY InitGreen DEF GreenInv
  <1>2. Sent
    BY DEF Init, Sent
  <1>3. /\ \A st : With(st) = {}
        /\ Expected = {} /\ Begun = {} /\ Ended = {} /\ Aborted = {}
    BY DEF Init, With, Expected, Expecting, Begun, Ended, Aborted
  <1>4. Balanced
    BY <1>3, FS_EmptySet DEF Balanced
  <1> QED BY <1>1, <1>2, <1>4 DEF BalanceInv

\* When all messages about a commit have been handled, every workflow is over
\* and nothing was spoilt, all its check runs are completed and every workflow
\* has one that speaks of it, for any number of scans of the commit, whichever
\* runs their handlers took from each other.
THEOREM CheckRunsConclude == Spec => []ChecksConclude
  <1>1. BalanceInv => ChecksConclude
    <2> SUFFICES ASSUME BalanceInv, Quiet, ~spoilt,
                        \A s \in Scans : stage[s] \in {"idle", "reported", "aborted"}
                 PROVE  /\ \A i \in DOMAIN runs : runs[i].status = "completed"
                        /\ \A s \in Scans : stage[s] # "idle" =>
                              \E i \in DOMAIN runs : runs[i].scan = s
      BY DEF ChecksConclude
    <2>1. \A s \in Scans, k \in Kinds : at[<<k, s>>] = "absent"
      BY DEF Quiet, Messages
    <2>2. Kinds = {"pending", "update", "feedback", "abort"}
      BY DEF Kinds
    <2>3. Expected = {}
      BY <2>1, <2>2 DEF Expected, Expecting, TakesOver
    <2>4. Begun = Ended
      BY <2>1, <2>2 DEF Begun, Ended
    <2>5. TypeOK /\ Balanced
      BY DEF BalanceInv
    <2>6. With("queued") = {}
      <3>1. Cardinality(Expected) = 0
        BY <2>3, FS_EmptySet
      <3>2. Cardinality(With("queued")) = 0 /\ IsFiniteSet(With("queued"))
        BY <2>5, <3>1, Countable DEF Balanced
      <3> QED BY <3>2, FS_EmptySet
    <2>7. With("in_progress") = {}
      <3>1. Cardinality(With("in_progress")) = 0 /\ IsFiniteSet(With("in_progress"))
        BY <2>4, <2>5, Countable DEF Balanced
      <3> QED BY <3>1, FS_EmptySet
    <2>8. ASSUME NEW i \in DOMAIN runs PROVE runs[i].status = "completed"
      <3>1. runs[i] \in Run
        BY <2>5 DEF TypeOK
      <3>2. runs[i].status \in {"queued", "in_progress", "completed"}
        BY <3>1 DEF Run
      <3> QED BY <2>6, <2>7, <3>2 DEF With
    <2>9. ASSUME NEW s \in Scans, stage[s] # "idle"
          PROVE  \E i \in DOMAIN runs : runs[i].scan = s
      <3>1. s \in Ended \cup Aborted
        BY <2>1, <2>2, <2>9 DEF Ended, Aborted
      <3> QED BY <2>5, <3>1 DEF Balanced, With
    <2> QED BY <2>8, <2>9
  <1> QED BY <1>1, InitBalance, BalanceStep, PTL DEF Spec
=============================================================================
