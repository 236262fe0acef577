-------------------------- MODULE ScanPollingProofs --------------------------
(***************************************************************************)
(* Proofs about ScanPolling, for every set of scans and copies, every      *)
(* workflow assignment and every polling configuration.                    *)
(***************************************************************************)
EXTENDS ScanPolling, TLAPS

-----------------------------------------------------------------------------
(* Type correctness.                                                       *)

\* A fault is counted and the count stays within its bound.
LEMMA FaultCounted ==
    ASSUME TypeOK, Fault
    PROVE  faults' \in 0..MaxFaults
BY IntervalAssumption DEF TypeOK, Fault

\* Publishing feedback keeps the counters natural numbers.
LEMMA FeedbackTyped ==
    ASSUME TypeOK, NEW s \in Scans, NEW k \in Copy
    PROVE  WithFeedback(s, k) \in [Scans -> [Services \X Outcomes -> Nat]]
<1> DEFINE f == [p \in Services \X Outcomes |->
                    IF Handles(p[1], s) /\ p[2] = OutcomeOf(s, k)
                    THEN sent[s][p] + 1
                    ELSE sent[s][p]]
<1>1. sent[s] \in [Services \X Outcomes -> Nat]
  BY DEF TypeOK
<1>2. f \in [Services \X Outcomes -> Nat]
  BY <1>1
<1> HIDE DEF f
<1>3. [sent EXCEPT ![s] = f] \in [Scans -> [Services \X Outcomes -> Nat]]
  BY <1>2 DEF TypeOK
<1> QED BY <1>3 DEF WithFeedback, f

\* Forgetting a copy keeps its place, its TTL and its handler typed.
LEMMA DiscardTyped ==
    ASSUME TypeOK, NEW s \in Scans, NEW k \in Copy, Discard(s, k)
    PROVE  /\ loc' \in [Scans -> [Copy -> Locations]]
           /\ ttl' \in [Scans -> [Copy -> Nat]]
           /\ stale' \in [Scans -> SUBSET Copy]
BY DEF TypeOK, Discard, Locations

\* So does moving it.
LEMMA MoveTyped ==
    ASSUME TypeOK, NEW s \in Scans, NEW k \in Copy, NEW l \in Locations, Move(s, k, l)
    PROVE  /\ loc' \in [Scans -> [Copy -> Locations]]
           /\ ttl' \in [Scans -> [Copy -> Nat]]
           /\ stale' \in [Scans -> SUBSET Copy]
BY DEF TypeOK, Move

\* The reason for giving up a copy is recorded, unless its handler is stale.
LEMMA StopTyped ==
    ASSUME TypeOK, NEW s \in Scans, NEW k \in Copy, NEW e \in Reasons, Stop(s, k, e)
    PROVE  /\ stops' \in [Scans -> SUBSET Reasons]
           /\ stops[s] \subseteq stops'[s]
           /\ k \in stale[s] => stops' = stops
           /\ k \notin stale[s] => stops'[s] = stops[s] \cup {e}
           /\ \A r \in Scans \ {s} : stops'[r] = stops[r]
BY DEF TypeOK, Stop

\* A publish puts at most its own scan in doubt.
LEMMA PublishesTyped ==
    ASSUME TypeOK, NEW s \in Scans, NEW k \in Copy, Publishes(s, k)
    PROVE  /\ ambiguous' \in SUBSET Scans
           /\ ambiguous \subseteq ambiguous'
           /\ k \in stale[s] => s \in ambiguous'
           /\ k \notin stale[s] => ambiguous' = ambiguous
           /\ \A r \in Scans \ {s} : r \in ambiguous' <=> r \in ambiguous
BY DEF TypeOK, Publishes

\* The steps leave the rest alone.
LEMMA RestTyped ==
    ASSUME TypeOK, UNCHANGED environment,
           loc' \in [Scans -> [Copy -> Locations]],
           ttl' \in [Scans -> [Copy -> Nat]],
           stale' \in [Scans -> SUBSET Copy],
           sent' \in [Scans -> [Services \X Outcomes -> Nat]],
           stops' \in [Scans -> SUBSET Reasons],
           ambiguous' \in SUBSET Scans,
           faults' \in 0..MaxFaults
    PROVE  TypeOK'
BY DEF TypeOK, environment

\* Every step of the orchestrator, the broker and process_poll keeps the
\* variables in their types.
LEMMA TypeInductive ==
    ASSUME TypeOK, [Next]_vars
    PROVE  TypeOK'
<1>0. /\ sent \in [Scans -> [Services \X Outcomes -> Nat]]
      /\ stops \in [Scans -> SUBSET Reasons]
      /\ ambiguous \in SUBSET Scans
      /\ faults \in 0..MaxFaults
      /\ loc \in [Scans -> [Copy -> Locations]]
      /\ ttl \in [Scans -> [Copy -> Nat]]
      /\ stale \in [Scans -> SUBSET Copy]
  BY DEF TypeOK
<1>a. /\ {"await", "polling", "received", "loading", "deciding", "breaking", "requeue",
           "reported", "republished", "free"} \subseteq Locations
      /\ {"expired", "response", "lost"} \subseteq Reasons
  BY DEF Locations, Reasons
<1>b. ASSUME NEW s \in Scans, NEW k \in Copy PROVE NextTTL(ttl[s][k]) \in Nat
  BY <1>0, IntervalAssumption DEF NextTTL, Minimum
<1>1. ASSUME NEW s \in Scans, Submit(s) PROVE TypeOK'
  BY <1>1 DEF Submit, monitor, TypeOK, ScanStates, Phases
<1>2. ASSUME NEW s \in Scans, StartDisabled(s) PROVE TypeOK'
  BY <1>2 DEF StartDisabled, monitor, TypeOK, Phases
<1>3. ASSUME NEW s \in Scans, NEW k \in Copy, WorkflowStart(s, k) PROVE TypeOK'
  <2>1. /\ phase' \in [Scans -> Phases]
        /\ scanState' = scanState /\ breakBuild' = breakBuild /\ swayed' = swayed
        /\ overdue' = overdue /\ sent' = sent /\ ambiguous' = ambiguous
        /\ config' = config /\ stale' = stale
    BY <1>3 DEF WorkflowStart, TypeOK, Phases
  <2>2. CASE /\ loc' = [loc EXCEPT ![s][k] = "await"]
             /\ ttl' = [ttl EXCEPT ![s][k] = Interval]
             /\ UNCHANGED <<stops, faults>>
    <3>1. loc' \in [Scans -> [Copy -> Locations]] /\ ttl' \in [Scans -> [Copy -> Nat]]
      BY <1>0, <1>a, <2>2, IntervalAssumption
    <3> QED BY <2>1, <2>2, <3>1 DEF TypeOK
  <2>3. CASE Fault /\ Stop(s, k, "lost") /\ UNCHANGED <<loc, ttl>>
    <3>1. stops' \in [Scans -> SUBSET Reasons] /\ faults' \in 0..MaxFaults
      BY <1>a, <2>3, FaultCounted, StopTyped
    <3> QED BY <2>1, <2>3, <3>1 DEF TypeOK
  <2> QED BY <1>3, <2>2, <2>3 DEF WorkflowStart
<1>4. ASSUME NEW s \in Scans, FinishScan(s) PROVE TypeOK'
  <2>1. PICK result \in {"successful", "failed"}, b \in BOOLEAN :
           /\ scanState' = [scanState EXCEPT ![s] = result]
           /\ breakBuild' = [breakBuild EXCEPT ![s] = b]
    BY <1>4 DEF FinishScan
  <2>2. scanState' \in [Scans -> ScanStates] /\ breakBuild' \in [Scans -> BOOLEAN]
    BY <2>1 DEF TypeOK, ScanStates
  <2> QED BY <1>4, <2>2 DEF FinishScan, monitor, TypeOK
<1>5. ASSUME NEW s \in Scans, EvaluateAgain(s) PROVE TypeOK'
  <2>1. breakBuild' \in [Scans -> BOOLEAN]
    BY <1>5 DEF EvaluateAgain, TypeOK
  <2>2. swayed' \in SUBSET Scans
    BY <1>5 DEF EvaluateAgain, TypeOK
  <2> QED BY <1>5, <2>1, <2>2 DEF EvaluateAgain, monitor, TypeOK
<1>6. ASSUME NEW s \in Scans, PassDeadline(s) PROVE TypeOK'
  BY <1>6 DEF PassDeadline, monitor, TypeOK
<1>7. ASSUME NEW s \in Scans, NEW k \in Copy, Expire(s, k) \/ Deliver(s, k)
      PROVE  TypeOK'
  BY <1>0, <1>a, <1>7, MoveTyped, RestTyped DEF Expire, Deliver
<1>8. ASSUME NEW s \in Scans, NEW k \in Copy, HandlerStep(s, k) PROVE TypeOK'
  <2>1. CASE DropExpired(s, k)
    BY <1>0, <1>a, <2>1, DiscardTyped, StopTyped, RestTyped DEF DropExpired
  <2>2. CASE OpenChannel(s, k)
    BY <1>0, <1>a, <2>2, MoveTyped, RestTyped DEF OpenChannel
  <2>3. CASE LoadInspector(s, k)
    <3>1. CASE Finished(s)
      BY <1>0, <1>a, <2>3, <3>1, MoveTyped, RestTyped DEF LoadInspector
    <3>2. CASE ~Finished(s)
      BY <1>0, <1>a, <2>3, <3>2, MoveTyped, RestTyped DEF LoadInspector
    <3> QED BY <3>1, <3>2
  <2>4. CASE PolicyBroken(s, k)
    BY <1>0, <1>a, <2>4, MoveTyped, RestTyped DEF PolicyBroken
  <2>5. CASE Report(s, k)
    <3>0. Move(s, k, "reported") /\ UNCHANGED environment
      BY <2>5 DEF Report
    <3>1. CASE sent' = WithFeedback(s, k) /\ Publishes(s, k) /\ UNCHANGED <<stops, faults>>
      BY <1>0, <1>a, <3>0, <3>1, FeedbackTyped, MoveTyped, PublishesTyped, RestTyped
    <3>2. CASE Fault /\ Stop(s, k, "lost") /\ UNCHANGED <<sent, ambiguous>>
      BY <1>0, <1>a, <3>0, <3>2, FaultCounted, MoveTyped, StopTyped, RestTyped
    <3> QED BY <2>5, <3>1, <3>2 DEF Report
  <2>6. ASSUME NEW n \in Copy, Republish(s, k, n) PROVE TypeOK'
    <3>1. loc' \in [Scans -> [Copy -> Locations]] /\ ttl' \in [Scans -> [Copy -> Nat]]
      BY <1>0, <1>a, <1>b, <2>6 DEF Republish
    <3> QED BY <1>0, <2>6, <3>1, PublishesTyped, RestTyped DEF Republish
  <2>7. CASE Acknowledge(s, k)
    BY <1>0, <2>7, DiscardTyped, RestTyped DEF Acknowledge
  <2> QED BY <1>8, <2>1, <2>2, <2>3, <2>4, <2>5, <2>6, <2>7 DEF HandlerStep, Fresh
<1>9. ASSUME NEW s \in Scans, NEW k \in Copy, HandlerFault(s, k) PROVE TypeOK'
  <2>1. CASE OpenChannelFails(s, k)
    BY <1>0, <1>a, <2>1, FaultCounted, DiscardTyped, StopTyped, RestTyped
    DEF OpenChannelFails
  <2>2. CASE LoadRefused(s, k)
    BY <1>0, <1>a, <2>2, FaultCounted, DiscardTyped, StopTyped, RestTyped DEF LoadRefused
  <2>3. CASE LoadFails(s, k)
    BY <1>0, <1>a, <2>3, FaultCounted, MoveTyped, RestTyped DEF LoadFails
  <2>4. CASE ReportFails(s, k)
    <3>0. Move(s, k, "requeue") /\ UNCHANGED <<environment, stops>>
          /\ faults' \in 0..MaxFaults
      BY <2>4, FaultCounted DEF ReportFails
    <3>1. CASE sent' = WithFeedback(s, k) /\ ambiguous' = ambiguous \cup {s}
      BY <1>0, <1>a, <3>0, <3>1, FeedbackTyped, MoveTyped, RestTyped
    <3>2. CASE UNCHANGED <<sent, ambiguous>>
      BY <1>0, <1>a, <3>0, <3>2, MoveTyped, RestTyped
    <3> QED BY <2>4, <3>1, <3>2 DEF ReportFails
  <2>5. CASE RepublishReturned(s, k)
    BY <1>0, <1>a, <2>5, FaultCounted, DiscardTyped, MoveTyped, RestTyped
    DEF RepublishReturned
  <2>6. ASSUME NEW n \in Copy, RepublishFails(s, k, n) PROVE TypeOK'
    <3>0. UNCHANGED <<environment, sent>> /\ faults' \in 0..MaxFaults
      BY <2>6, FaultCounted DEF RepublishFails
    <3>1. CASE /\ loc' = [loc EXCEPT ![s][k] = "free", ![s][n] = "await"]
               /\ ttl' = [ttl EXCEPT ![s][k] = 0, ![s][n] = NextTTL(ttl[s][k])]
               /\ stale' = [stale EXCEPT ![s] = @ \ {k}]
               /\ Publishes(s, k)
               /\ UNCHANGED stops
      <4>1. /\ loc' \in [Scans -> [Copy -> Locations]]
            /\ ttl' \in [Scans -> [Copy -> Nat]]
            /\ stale' \in [Scans -> SUBSET Copy]
        BY <1>0, <1>a, <1>b, <3>1
      <4> QED BY <1>0, <3>0, <3>1, <4>1, PublishesTyped, RestTyped
    <3>2. CASE Discard(s, k) /\ Stop(s, k, "lost") /\ UNCHANGED ambiguous
      BY <1>0, <1>a, <3>0, <3>2, DiscardTyped, StopTyped, RestTyped
    <3> QED BY <2>6, <3>1, <3>2 DEF RepublishFails
  <2> QED BY <1>9, <2>1, <2>2, <2>3, <2>4, <2>5, <2>6 DEF HandlerFault, Fresh
<1>10. ASSUME NEW s \in Scans, NEW k \in Copy, ConsumerLost(s, k) PROVE TypeOK'
  <2>0. UNCHANGED <<environment, sent, stops>> /\ faults' \in 0..MaxFaults
        /\ ambiguous' \in SUBSET Scans
    BY <1>0, <1>10, FaultCounted DEF ConsumerLost
  <2>1. Discard(s, k) \/ Move(s, k, "polling")
    BY <1>10 DEF ConsumerLost
  <2> QED BY <1>0, <1>a, <2>0, <2>1, DiscardTyped, MoveTyped, RestTyped
<1>11. ASSUME NEW s \in Scans, NEW k \in Copy, NEW n \in Copy, ChannelLost(s, k, n)
       PROVE  TypeOK'
  <2>0. UNCHANGED <<environment, sent, stops>> /\ faults' \in 0..MaxFaults
        /\ ambiguous' \in SUBSET Scans
    BY <1>0, <1>11, FaultCounted DEF ChannelLost
  <2>1. /\ loc' \in [Scans -> [Copy -> Locations]]
        /\ ttl' \in [Scans -> [Copy -> Nat]]
        /\ stale' \in [Scans -> SUBSET Copy]
    BY <1>0, <1>a, <1>11 DEF ChannelLost
  <2> QED BY <1>0, <2>0, <2>1, RestTyped
<1>12. CASE UNCHANGED vars
  BY <1>12 DEF vars, environment, monitor, TypeOK
<1> QED
  BY <1>1, <1>2, <1>3, <1>4, <1>5, <1>6, <1>7, <1>8, <1>9, <1>10, <1>11, <1>12
  DEF Next, Fresh

\* The variables of the polling loop keep their types in every behaviour.
THEOREM TypeCorrect == Spec => []TypeOK
<1>1. Init => TypeOK
  BY IntervalAssumption
  DEF Init, TypeOK, ScanStates, Phases, Locations, Reasons
<1>2. TypeOK /\ [Next]_vars => TypeOK'
  BY TypeInductive
<1>3. QED
  BY <1>1, <1>2, PTL DEF Spec

-----------------------------------------------------------------------------
(* The safety invariants.                                                  *)

\* The invariants scan by scan.  Nothing was published about a scan before its
\* workflow was started.
Untouched(s) ==
    phase[s] # "awaited" =>
        /\ \A k \in Copy : loc[s][k] = "free"
        /\ \A p \in Services \X Outcomes : sent[s][p] = 0

\* Only a handler can be stale.
StaleHeld(s) == \A k \in stale[s] : loc[s][k] \in Held

\* A handler that decides has seen the end of the scan; one that reads the
\* policy evaluation again has seen it ask for breaking the build.
DecidesAfterEnd(s) ==
    \A k \in Copy :
        /\ loc[s][k] = "deciding" => Finished(s)
        /\ loc[s][k] = "breaking" =>
              scanState[s] = "successful" /\ (breakBuild[s] \/ s \in swayed)

\* What may be said of scan s.
Apt(s, o) ==
    /\ (o = "failure") <=> (scanState[s] = "failed")
    /\ s \notin swayed =>
          /\ (o = "completed") <=> (scanState[s] = "successful" /\ ~breakBuild[s])
          /\ o # "unspecified"

TrueAt(s) ==
    \A svc \in Services, o \in Outcomes :
        sent[s][<<svc, o>>] > 0 => svc = Workflow[s] /\ Finished(s) /\ Apt(s, o)

KeptAt(s) ==
    phase[s] = "awaited" /\ stops[s] = {} =>
        Reported(s) \/ PendingCopies(s) # {}

OnceAt(s) ==
    s \notin ambiguous =>
        /\ \A p, q \in Services \X Outcomes :
              sent[s][p] <= 1 /\ (sent[s][p] > 0 /\ sent[s][q] > 0 => p = q)
        /\ \A j, k \in PendingCopies(s) : j = k
        /\ Reported(s) => PendingCopies(s) = {}

PacedAt(s) ==
    \A k \in Copy :
        loc[s][k] # "free" =>
            /\ Minimum(Interval, MaxInterval) <= ttl[s][k]
            /\ ttl[s][k] <= MaxInterval \/ ttl[s][k] = Interval

ScanInv(s) ==
    /\ Untouched(s)
    /\ StaleHeld(s)
    /\ DecidesAfterEnd(s)
    /\ TrueAt(s)
    /\ KeptAt(s)
    /\ OnceAt(s)
    /\ PacedAt(s)

\* The inductive invariant.
IInv == TypeOK /\ \A s \in Scans : ScanInv(s)

\* Backing off never shortens an interval below the smaller of the two
\* configured ones and never exceeds the maximum.
LEMMA BackoffBounds ==
    ASSUME NEW t \in Nat, Minimum(Interval, MaxInterval) <= t
    PROVE  /\ NextTTL(t) \in Nat
           /\ Minimum(Interval, MaxInterval) <= NextTTL(t)
           /\ NextTTL(t) <= MaxInterval
<1>1. t * Backoff \in Nat /\ t <= t * Backoff
  BY IntervalAssumption
<1> QED BY <1>1, IntervalAssumption DEF NextTTL, Minimum

\* A handler that has decided says what may be said of its scan.
LEMMA DecisionIsApt ==
    ASSUME TypeOK, NEW s \in Scans, NEW k \in Copy, ScanInv(s), Decided(s, k)
    PROVE  /\ Finished(s)
           /\ OutcomeOf(s, k) \in Outcomes
           /\ Apt(s, OutcomeOf(s, k))
<1>0. scanState[s] \in ScanStates /\ breakBuild[s] \in BOOLEAN
  BY DEF TypeOK
<1>1. CASE loc[s][k] = "deciding"
  <2>1. Finished(s) /\ ~(scanState[s] = "successful" /\ breakBuild[s])
    BY <1>1 DEF ScanInv, DecidesAfterEnd, Decided
  <2>2. OutcomeOf(s, k) =
          IF scanState[s] = "successful" THEN "completed" ELSE "failure"
    BY <1>0, <1>1, <2>1 DEF OutcomeOf, Outcome
  <2> QED BY <2>1, <2>2 DEF Apt, Finished, Outcomes
<1>2. CASE loc[s][k] = "breaking"
  <2>1. scanState[s] = "successful" /\ (breakBuild[s] \/ s \in swayed)
    BY <1>2 DEF ScanInv, DecidesAfterEnd
  <2>2. OutcomeOf(s, k) = IF breakBuild[s] THEN "policy" ELSE "unspecified"
    BY <1>0, <1>2, <2>1 DEF OutcomeOf, Outcome
  <2> QED BY <2>1, <2>2 DEF Apt, Finished, Outcomes
<1> QED BY <1>1, <1>2 DEF Decided

\* Feedback adds one message, to the scan's own workflow.
LEMMA FeedbackAdded ==
    ASSUME TypeOK, NEW s \in Scans, NEW k \in Copy,
           NEW o \in Outcomes, o = OutcomeOf(s, k)
    PROVE  /\ <<Workflow[s], o>> \in Services \X Outcomes
           /\ WithFeedback(s, k)[s][<<Workflow[s], o>>] = sent[s][<<Workflow[s], o>>] + 1
           /\ \A p \in Services \X Outcomes :
                 p # <<Workflow[s], o>> => WithFeedback(s, k)[s][p] = sent[s][p]
           /\ \A r \in Scans \ {s} : WithFeedback(s, k)[r] = sent[r]
<1>2. <<Workflow[s], o>> \in Services \X Outcomes
  BY WorkflowAssumption
<1>3. \A p \in Services \X Outcomes :
        (Handles(p[1], s) /\ p[2] = o) <=> p = <<Workflow[s], o>>
  BY <1>2 DEF Handles
<1>4. \A p \in Services \X Outcomes :
        WithFeedback(s, k)[s][p] =
            IF p = <<Workflow[s], o>> THEN sent[s][p] + 1 ELSE sent[s][p]
  BY <1>3 DEF WithFeedback, TypeOK
<1>5. \A r \in Scans \ {s} : WithFeedback(s, k)[r] = sent[r]
  BY DEF WithFeedback, TypeOK
<1> QED BY <1>2, <1>4, <1>5

-----------------------------------------------------------------------------
(* How the invariant of one scan survives each kind of step.               *)

\* What is said of a scan depends on that scan's part of the state only.
LEMMA Frame ==
    ASSUME NEW r \in Scans, ScanInv(r),
           scanState'[r] = scanState[r], breakBuild'[r] = breakBuild[r],
           (r \in swayed') <=> (r \in swayed),
           phase'[r] = phase[r], loc'[r] = loc[r], ttl'[r] = ttl[r],
           stale'[r] = stale[r],
           sent'[r] = sent[r], stops'[r] = stops[r],
           (r \in ambiguous') <=> (r \in ambiguous)
    PROVE  ScanInv(r)'
<1>1. PendingCopies(r)' = PendingCopies(r)
  BY DEF PendingCopies
<1>2. Reported(r)' <=> Reported(r)
  BY DEF Reported
<1>3. Finished(r)' <=> Finished(r)
  BY DEF Finished
<1>4. Untouched(r)' /\ StaleHeld(r)'
  BY DEF ScanInv, Untouched, StaleHeld
<1>5. DecidesAfterEnd(r)'
  BY <1>3 DEF ScanInv, DecidesAfterEnd
<1>6. TrueAt(r)'
  BY <1>3 DEF ScanInv, TrueAt, Apt
<1>7. KeptAt(r)'
  BY <1>1, <1>2 DEF ScanInv, KeptAt
<1>8. OnceAt(r)'
  BY <1>1, <1>2 DEF ScanInv, OnceAt
<1>9. PacedAt(r)'
  BY DEF ScanInv, PacedAt
<1> QED BY <1>4, <1>5, <1>6, <1>7, <1>8, <1>9 DEF ScanInv

\* A pending copy moves to another pending place: the TTL runs out, the copy is
\* delivered, its handler gets to the next await point, or it is requeued.
LEMMA Advance ==
    ASSUME TypeOK, NEW s \in Scans, NEW k \in Copy, NEW l \in Pending,
           ScanInv(s), loc[s][k] \in Pending, Move(s, k, l),
           k \notin stale[s] \/ l \in Held,
           l = "deciding" => Finished(s),
           l = "breaking" => scanState[s] = "successful" /\ breakBuild[s],
           UNCHANGED <<environment, sent, stops, ambiguous>>
    PROVE  ScanInv(s)'
<1>1. /\ loc'[s][k] = l
      /\ \A j \in Copy : j # k => loc'[s][j] = loc[s][j]
      /\ ttl' = ttl /\ stale' = stale
  BY DEF Move, TypeOK
<1>2. "free" \notin Pending /\ stale[s] \subseteq Copy
  BY DEF Pending, TypeOK
<1>3. /\ scanState' = scanState /\ breakBuild' = breakBuild /\ phase' = phase
      /\ swayed' = swayed
      /\ sent' = sent /\ stops' = stops /\ ambiguous' = ambiguous
  BY DEF environment
<1>4. PendingCopies(s)' = PendingCopies(s)
  BY <1>1 DEF PendingCopies
<1>5. Reported(s)' <=> Reported(s)
  BY <1>3 DEF Reported
<1>6. Finished(s)' <=> Finished(s)
  BY <1>3 DEF Finished
<1>7. Untouched(s)' /\ StaleHeld(s)'
  BY <1>1, <1>2, <1>3 DEF ScanInv, Untouched, StaleHeld
<1>8. DecidesAfterEnd(s)'
  BY <1>1, <1>3, <1>6 DEF ScanInv, DecidesAfterEnd
<1>9. TrueAt(s)'
  BY <1>3, <1>6 DEF ScanInv, TrueAt, Apt
<1>10. KeptAt(s)'
  BY <1>3, <1>4, <1>5 DEF ScanInv, KeptAt
<1>11. OnceAt(s)'
  BY <1>3, <1>4, <1>5 DEF ScanInv, OnceAt
<1>12. PacedAt(s)'
  BY <1>1, <1>2 DEF ScanInv, PacedAt
<1> QED BY <1>7, <1>8, <1>9, <1>10, <1>11, <1>12 DEF ScanInv

\* A copy is forgotten: it was no longer pending, or its handler was stale, or
\* a reason for giving the scan up is on record.
LEMMA Forget ==
    ASSUME TypeOK, NEW s \in Scans, NEW k \in Copy, ScanInv(s), Discard(s, k),
           loc[s][k] \notin Pending \/ k \in stale[s] \/ stops'[s] # {},
           stops[s] \subseteq stops'[s],
           UNCHANGED <<environment, sent, ambiguous>>
    PROVE  ScanInv(s)'
<1>1. /\ loc'[s][k] = "free"
      /\ \A j \in Copy : j # k => loc'[s][j] = loc[s][j] /\ ttl'[s][j] = ttl[s][j]
      /\ stale'[s] = stale[s] \ {k}
  BY DEF Discard, TypeOK
<1>2. "free" \notin Pending /\ stale[s] \subseteq Copy
  BY DEF Pending, TypeOK
<1>3. /\ scanState' = scanState /\ breakBuild' = breakBuild /\ phase' = phase
      /\ swayed' = swayed /\ sent' = sent /\ ambiguous' = ambiguous
  BY DEF environment
<1>4. PendingCopies(s)' = PendingCopies(s) \ {k}
  BY <1>1, <1>2 DEF PendingCopies
<1>5. Reported(s)' <=> Reported(s)
  BY <1>3 DEF Reported
<1>6. Finished(s)' <=> Finished(s)
  BY <1>3 DEF Finished
<1>7. Untouched(s)' /\ StaleHeld(s)'
  BY <1>1, <1>2, <1>3 DEF ScanInv, Untouched, StaleHeld
<1>8. DecidesAfterEnd(s)'
  BY <1>1, <1>3, <1>6 DEF ScanInv, DecidesAfterEnd
<1>9. TrueAt(s)'
  BY <1>3, <1>6 DEF ScanInv, TrueAt, Apt
<1>10. KeptAt(s)'
  <2>1. CASE loc[s][k] \notin Pending \/ k \in stale[s]
    <3>1. PendingCopies(s)' = PendingCopies(s)
      BY <2>1, <1>4 DEF PendingCopies
    <3>2. stops'[s] = {} => stops[s] = {}
      OBVIOUS
    <3> QED BY <1>3, <1>5, <3>1, <3>2 DEF ScanInv, KeptAt
  <2>2. CASE stops'[s] # {}
    BY <2>2 DEF KeptAt
  <2> QED BY <2>1, <2>2
<1>11. OnceAt(s)'
  BY <1>3, <1>4, <1>5 DEF ScanInv, OnceAt
<1>12. PacedAt(s)'
  BY <1>1 DEF ScanInv, PacedAt
<1> QED BY <1>7, <1>8, <1>9, <1>10, <1>11, <1>12 DEF ScanInv

\* A copy is given up, if it was the handler's to give up.
LEMMA GiveUp ==
    ASSUME TypeOK, NEW s \in Scans, NEW k \in Copy, NEW e \in Reasons, ScanInv(s),
           Discard(s, k), Stop(s, k, e), UNCHANGED <<environment, sent, ambiguous>>
    PROVE  ScanInv(s)'
<1>1. stops[s] \subseteq stops'[s] /\ (k \in stale[s] \/ stops'[s] # {})
  BY StopTyped
<1> QED BY <1>1, Forget

\* The finally clause adds a copy with the backed-off TTL to the one it answers.
LEMMA HandOver ==
    ASSUME TypeOK, NEW s \in Scans, NEW k \in Copy, NEW n \in Copy, ScanInv(s),
           NEW l \in {"republished", "free"},
           loc[s][k] = "requeue", loc[s][n] = "free",
           loc' = [loc EXCEPT ![s][k] = l, ![s][n] = "await"],
           ttl'[s][n] = NextTTL(ttl[s][k]),
           l = "free" \/ ttl'[s][k] = ttl[s][k],
           \A j \in Copy \ {k, n} : ttl'[s][j] = ttl[s][j],
           stale'[s] = IF l = "free" THEN stale[s] \ {k} ELSE stale[s],
           Publishes(s, k),
           UNCHANGED <<environment, sent, stops>>
    PROVE  ScanInv(s)'
<1>1. /\ k # n
      /\ loc'[s][k] = l
      /\ loc'[s][n] = "await"
      /\ \A j \in Copy \ {k, n} : loc'[s][j] = loc[s][j]
  BY DEF TypeOK
<1>2. "await" \in Pending /\ "requeue" \in Pending
      /\ "free" \notin Pending /\ "republished" \notin Pending
      /\ "free" \notin Held /\ "republished" \in Held
  BY DEF Pending, Held, Locations
<1>a. stale[s] \subseteq Copy /\ n \notin stale[s] /\ n \notin stale'[s]
  BY <1>2 DEF ScanInv, StaleHeld, TypeOK
<1>3. /\ scanState' = scanState /\ breakBuild' = breakBuild /\ phase' = phase
      /\ swayed' = swayed /\ sent' = sent /\ stops' = stops
  BY DEF environment
<1>4. /\ n \in PendingCopies(s)'
      /\ PendingCopies(s)' = (PendingCopies(s) \ {k}) \cup {n}
      /\ k \notin stale[s] => k \in PendingCopies(s)
  BY <1>1, <1>2, <1>a DEF PendingCopies
<1>5. Reported(s)' <=> Reported(s)
  BY <1>3 DEF Reported
<1>6. Finished(s)' <=> Finished(s)
  BY <1>3 DEF Finished
<1>7. Untouched(s)' /\ StaleHeld(s)'
  BY <1>1, <1>2, <1>3, <1>a DEF ScanInv, Untouched, StaleHeld
<1>8. DecidesAfterEnd(s)'
  BY <1>1, <1>3, <1>6 DEF ScanInv, DecidesAfterEnd
<1>9. TrueAt(s)'
  BY <1>3, <1>6 DEF ScanInv, TrueAt, Apt
<1>10. KeptAt(s)'
  BY <1>4 DEF KeptAt
<1>11. OnceAt(s)'
  <2>1. CASE k \in stale[s]
    BY <2>1, PublishesTyped DEF OnceAt
  <2>2. CASE k \notin stale[s]
    <3>1. ambiguous' = ambiguous
      BY <2>2, PublishesTyped
    <3> QED BY <1>3, <1>4, <1>5, <2>2, <3>1 DEF ScanInv, OnceAt
  <2> QED BY <2>1, <2>2
<1>12. PacedAt(s)'
  <2>1. /\ Minimum(Interval, MaxInterval) <= ttl[s][k]
        /\ ttl[s][k] \in Nat
    BY DEF ScanInv, PacedAt, TypeOK
  <2>2. /\ Minimum(Interval, MaxInterval) <= NextTTL(ttl[s][k])
        /\ NextTTL(ttl[s][k]) <= MaxInterval
    BY <2>1, BackoffBounds
  <2> QED BY <1>1, <2>2 DEF ScanInv, PacedAt
<1> QED BY <1>7, <1>8, <1>9, <1>10, <1>11, <1>12 DEF ScanInv

\* Feedback of a handler that has decided keeps what is said of feedback, and
\* leaves no doubt that the scan was reported.
LEMMA FeedbackKeepsTruth ==
    ASSUME TypeOK, NEW s \in Scans, NEW k \in Copy, ScanInv(s), Decided(s, k),
           sent' = WithFeedback(s, k), UNCHANGED environment
    PROVE  /\ TrueAt(s)'
           /\ Reported(s)'
           /\ ~Reported(s) =>
                 \A p, q \in Services \X Outcomes :
                    sent'[s][p] <= 1 /\ (sent'[s][p] > 0 /\ sent'[s][q] > 0 => p = q)
<1>1. PICK o \in Outcomes : o = OutcomeOf(s, k) /\ Apt(s, o) /\ Finished(s)
  BY DecisionIsApt
<1>2. /\ sent'[s][<<Workflow[s], o>>] = sent[s][<<Workflow[s], o>>] + 1
      /\ \A p \in Services \X Outcomes :
            p # <<Workflow[s], o>> => sent'[s][p] = sent[s][p]
      /\ <<Workflow[s], o>> \in Services \X Outcomes
  BY <1>1, FeedbackAdded
<1>3. /\ \A x \in Outcomes : Apt(s, x)' <=> Apt(s, x)
      /\ Finished(s)'
  BY <1>1 DEF environment, Finished, Apt
<1>4. \A p \in Services \X Outcomes : sent[s][p] \in Nat
  BY DEF TypeOK
<1>5. TrueAt(s)'
  <2> SUFFICES ASSUME NEW svc \in Services, NEW x \in Outcomes,
                      sent'[s][<<svc, x>>] > 0
               PROVE  svc = Workflow[s] /\ Apt(s, x)
    BY <1>3 DEF TrueAt
  <2>1. CASE <<svc, x>> = <<Workflow[s], o>>
    BY <1>1, <2>1
  <2>2. CASE <<svc, x>> # <<Workflow[s], o>>
    <3>1. sent[s][<<svc, x>>] > 0
      BY <1>2, <2>2
    <3> QED BY <3>1 DEF ScanInv, TrueAt
  <2> QED BY <2>1, <2>2
<1>6. Reported(s)'
  BY <1>2, <1>4 DEF Reported
<1>7. ASSUME ~Reported(s)
      PROVE  \A p, q \in Services \X Outcomes :
                sent'[s][p] <= 1 /\ (sent'[s][p] > 0 /\ sent'[s][q] > 0 => p = q)
  <2>1. \A p \in Services \X Outcomes : sent[s][p] = 0
    BY <1>4, <1>7 DEF Reported
  <2> QED BY <1>2, <2>1
<1> QED BY <1>5, <1>6, <1>7

\* The handler publishes, or thinks it does, and its copy is answered.
LEMMA Answer ==
    ASSUME TypeOK, NEW s \in Scans, NEW k \in Copy, ScanInv(s), Report(s, k)
    PROVE  ScanInv(s)'
<1>0. Decided(s, k) /\ UNCHANGED environment
  BY DEF Report
<1>1. /\ loc'[s][k] = "reported"
      /\ \A j \in Copy : j # k => loc'[s][j] = loc[s][j]
      /\ ttl' = ttl /\ stale' = stale
      /\ loc[s][k] \in {"deciding", "breaking"}
  BY DEF Report, Decided, Move, TypeOK
<1>2. /\ loc[s][k] \in Pending /\ "reported" \notin Pending
      /\ "reported" \in Held
      /\ stale[s] \subseteq Copy
  BY <1>1 DEF Pending, Held, Locations, TypeOK
<1>3. /\ scanState' = scanState /\ breakBuild' = breakBuild /\ phase' = phase
      /\ swayed' = swayed
  BY <1>0 DEF environment
<1>4. /\ PendingCopies(s)' = PendingCopies(s) \ {k}
      /\ k \notin stale[s] => k \in PendingCopies(s)
  BY <1>1, <1>2 DEF PendingCopies
<1>5. Finished(s) /\ Finished(s)'
  BY <1>0, <1>3, DecisionIsApt DEF Finished
<1>6. phase[s] = "awaited"
  BY <1>1 DEF ScanInv, Untouched
<1>7. Untouched(s)' /\ StaleHeld(s)' /\ PacedAt(s)'
  BY <1>1, <1>2, <1>3, <1>6 DEF ScanInv, Untouched, StaleHeld, PacedAt
<1>8. DecidesAfterEnd(s)'
  BY <1>1, <1>3, <1>5 DEF ScanInv, DecidesAfterEnd
<1>9. CASE sent' = WithFeedback(s, k) /\ Publishes(s, k) /\ UNCHANGED <<stops, faults>>
  <2>1. /\ TrueAt(s)'
        /\ Reported(s)'
        /\ ~Reported(s) =>
              \A p, q \in Services \X Outcomes :
                 sent'[s][p] <= 1 /\ (sent'[s][p] > 0 /\ sent'[s][q] > 0 => p = q)
    BY <1>0, <1>9, FeedbackKeepsTruth
  <2>2. KeptAt(s)'
    BY <2>1 DEF KeptAt
  <2>3. OnceAt(s)'
    <3>1. CASE k \in stale[s]
      BY <1>9, <3>1, PublishesTyped DEF OnceAt
    <3>2. CASE k \notin stale[s]
      <4>1. ambiguous' = ambiguous
        BY <1>9, <3>2, PublishesTyped
      <4>2. s \notin ambiguous => ~Reported(s) /\ PendingCopies(s)' = {}
        BY <1>4, <3>2 DEF ScanInv, OnceAt
      <4> QED BY <2>1, <4>1, <4>2 DEF OnceAt
    <3> QED BY <3>1, <3>2
  <2> QED BY <1>7, <1>8, <2>1, <2>2, <2>3 DEF ScanInv
<1>10. CASE Fault /\ Stop(s, k, "lost") /\ UNCHANGED <<sent, ambiguous>>
  <2>1. /\ k \notin stale[s] => stops'[s] # {}
        /\ k \in stale[s] => stops' = stops
    BY <1>10, StopTyped DEF Reasons
  <2>2. Reported(s)' <=> Reported(s)
    BY <1>10 DEF Reported
  <2>3. TrueAt(s)'
    BY <1>3, <1>5, <1>10 DEF ScanInv, TrueAt, Apt
  <2>4. KeptAt(s)'
    <3>1. CASE k \in stale[s]
      <4>1. PendingCopies(s)' = PendingCopies(s)
        BY <1>4, <3>1 DEF PendingCopies
      <4> QED BY <1>3, <2>1, <2>2, <3>1, <4>1 DEF ScanInv, KeptAt
    <3>2. CASE k \notin stale[s]
      BY <2>1, <3>2 DEF KeptAt
    <3> QED BY <3>1, <3>2
  <2>5. OnceAt(s)'
    BY <1>4, <1>10, <2>2 DEF ScanInv, OnceAt
  <2> QED BY <1>7, <1>8, <2>3, <2>4, <2>5 DEF ScanInv
<1> QED BY <1>9, <1>10 DEF Report

\* The publish raised after it took effect: the scan is marked ambiguous.
LEMMA AnswerTwice ==
    ASSUME TypeOK, NEW s \in Scans, NEW k \in Copy, ScanInv(s),
           Decided(s, k), Move(s, k, "requeue"),
           sent' = WithFeedback(s, k), ambiguous' = ambiguous \cup {s},
           UNCHANGED <<environment, stops>>
    PROVE  ScanInv(s)'
<1>1. /\ loc'[s][k] = "requeue"
      /\ \A j \in Copy : j # k => loc'[s][j] = loc[s][j]
      /\ ttl' = ttl /\ stale' = stale
      /\ loc[s][k] \in {"deciding", "breaking"}
  BY DEF Decided, Move, TypeOK
<1>2. /\ scanState' = scanState /\ breakBuild' = breakBuild /\ phase' = phase
      /\ swayed' = swayed
      /\ "requeue" \in Held /\ stale[s] \subseteq Copy
  BY DEF environment, Held, Locations, TypeOK
<1>3. Finished(s) /\ Finished(s)' /\ phase[s] = "awaited"
  BY <1>1, <1>2, DecisionIsApt DEF ScanInv, Untouched, Finished
<1>4. Untouched(s)' /\ StaleHeld(s)' /\ PacedAt(s)'
  BY <1>1, <1>2, <1>3 DEF ScanInv, Untouched, StaleHeld, PacedAt
<1>5. DecidesAfterEnd(s)'
  BY <1>1, <1>2, <1>3 DEF ScanInv, DecidesAfterEnd
<1>6. TrueAt(s)' /\ Reported(s)'
  BY FeedbackKeepsTruth
<1>7. KeptAt(s)' /\ OnceAt(s)'
  BY <1>6 DEF KeptAt, OnceAt
<1> QED BY <1>4, <1>5, <1>6, <1>7 DEF ScanInv

\* The await message is published, or the orchestrator believes it was.
LEMMA Start ==
    ASSUME TypeOK, NEW s \in Scans, NEW k \in Copy, ScanInv(s), WorkflowStart(s, k)
    PROVE  ScanInv(s)'
<1>1. /\ \A j \in Copy : loc[s][j] = "free"
      /\ \A p \in Services \X Outcomes : sent[s][p] = 0
  BY DEF ScanInv, Untouched, WorkflowStart
<1>a. stale[s] = {}
  BY <1>1 DEF ScanInv, StaleHeld, Held, TypeOK
<1>2. /\ phase'[s] = "awaited" /\ scanState' = scanState /\ breakBuild' = breakBuild
      /\ sent' = sent /\ ambiguous' = ambiguous /\ stale'[s] = {}
  BY <1>a DEF WorkflowStart, TypeOK
<1>3. /\ \A j \in Copy \ {k} : loc'[s][j] = "free"
      /\ \/ loc'[s][k] = "await" /\ ttl'[s][k] = Interval
         \/ loc'[s][k] = "free" /\ stops'[s] # {}
  <2>1. CASE /\ loc' = [loc EXCEPT ![s][k] = "await"]
             /\ ttl' = [ttl EXCEPT ![s][k] = Interval]
    BY <1>1, <2>1 DEF TypeOK
  <2>2. CASE Stop(s, k, "lost") /\ UNCHANGED <<loc, ttl>>
    <3>1. stops'[s] # {}
      BY <1>a, <2>2, StopTyped DEF Reasons
    <3> QED BY <1>1, <2>2, <3>1
  <2> QED BY <2>1, <2>2 DEF WorkflowStart
<1>4. ~Reported(s)'
  BY <1>1, <1>2 DEF Reported
<1>5. /\ PendingCopies(s)' \subseteq {k}
      /\ loc'[s][k] = "await" => PendingCopies(s)' = {k}
  BY <1>2, <1>3 DEF PendingCopies, Pending
<1>6. Untouched(s)' /\ StaleHeld(s)' /\ DecidesAfterEnd(s)' /\ TrueAt(s)'
  BY <1>1, <1>2, <1>3 DEF Untouched, StaleHeld, DecidesAfterEnd, TrueAt
<1>7. KeptAt(s)'
  BY <1>3, <1>5 DEF KeptAt
<1>8. OnceAt(s)'
  BY <1>1, <1>2, <1>4, <1>5 DEF OnceAt
<1>9. PacedAt(s)'
  BY <1>3, IntervalAssumption DEF PacedAt, Minimum
<1> QED BY <1>6, <1>7, <1>8, <1>9 DEF ScanInv

\* An agent dies: its copy goes back to the polling queue, or nothing but the
\* stale handler is gone.
LEMMA Redeliver ==
    ASSUME TypeOK, NEW s \in Scans, NEW k \in Copy, ScanInv(s), ConsumerLost(s, k)
    PROVE  ScanInv(s)'
<1>0. /\ UNCHANGED <<environment, sent, stops>>
      /\ loc[s][k] \in Held
  BY DEF ConsumerLost
<1>a. /\ "polling" \in Pending
      /\ "free" \notin Held
      /\ \A l \in Held : l \in Pending \/ l \in Answered
      /\ \A l \in Answered : l \notin Pending
  BY DEF Pending, Held, Locations, Answered
<1>1. CASE k \in stale[s]
  <2>1. Discard(s, k) /\ UNCHANGED ambiguous
    BY <1>1 DEF ConsumerLost
  <2> QED BY <1>0, <1>1, <2>1, Forget
<1>2. CASE k \notin stale[s] /\ loc[s][k] \notin Answered
  <2>1. Move(s, k, "polling") /\ UNCHANGED ambiguous
    BY <1>2 DEF ConsumerLost
  <2> QED BY <1>0, <1>a, <1>2, <2>1, Advance
<1>3. CASE k \notin stale[s] /\ loc[s][k] \in Answered
  <2>1. Move(s, k, "polling") /\ s \in ambiguous'
    BY <1>3 DEF ConsumerLost
  <2>2. /\ loc'[s][k] = "polling"
        /\ \A j \in Copy : j # k => loc'[s][j] = loc[s][j]
        /\ ttl' = ttl /\ stale' = stale /\ stale[s] \subseteq Copy
    BY <2>1 DEF Move, TypeOK
  <2>3. /\ scanState' = scanState /\ breakBuild' = breakBuild /\ phase' = phase
        /\ swayed' = swayed /\ sent' = sent /\ stops' = stops
    BY <1>0 DEF environment
  <2>4. phase[s] = "awaited" /\ loc[s][k] # "free"
    BY <1>0, <1>a DEF ScanInv, Untouched
  <2>5. Finished(s)' <=> Finished(s)
    BY <2>3 DEF Finished
  <2>6. Untouched(s)' /\ StaleHeld(s)' /\ PacedAt(s)'
    BY <1>3, <2>2, <2>3, <2>4 DEF ScanInv, Untouched, StaleHeld, PacedAt
  <2>7. DecidesAfterEnd(s)'
    BY <2>2, <2>3, <2>5 DEF ScanInv, DecidesAfterEnd
  <2>8. TrueAt(s)'
    BY <2>3, <2>5 DEF ScanInv, TrueAt, Apt
  <2>9. k \in PendingCopies(s)'
    BY <1>a, <1>3, <2>2 DEF PendingCopies
  <2>10. KeptAt(s)' /\ OnceAt(s)'
    BY <2>1, <2>9 DEF KeptAt, OnceAt
  <2> QED BY <2>6, <2>7, <2>8, <2>10 DEF ScanInv
<1> QED BY <1>1, <1>2, <1>3

\* A handler outlives its channel: its copy is replaced by a queued one.
LEMMA Outlive ==
    ASSUME TypeOK, NEW s \in Scans, NEW k \in Copy, NEW n \in Copy, ScanInv(s),
           ChannelLost(s, k, n)
    PROVE  ScanInv(s)'
<1>0. /\ UNCHANGED <<environment, sent, stops>>
      /\ loc[s][k] \in Held /\ loc[s][n] = "free" /\ k \notin stale[s]
  BY DEF ChannelLost
<1>a. /\ "polling" \in Pending /\ "free" \notin Pending
      /\ "free" \notin Held
      /\ \A l \in Held : l \in Pending \/ l \in Answered
      /\ stale[s] \subseteq Copy
  BY DEF Pending, Held, Locations, Answered, TypeOK
<1>1. /\ k # n /\ n \notin stale[s]
      /\ loc'[s][n] = "polling"
      /\ ttl'[s][n] = ttl[s][k]
      /\ \A j \in Copy : j # n => loc'[s][j] = loc[s][j] /\ ttl'[s][j] = ttl[s][j]
      /\ stale'[s] = stale[s] \cup {k}
  BY <1>0, <1>a DEF ChannelLost, ScanInv, StaleHeld, TypeOK
<1>2. /\ scanState' = scanState /\ breakBuild' = breakBuild /\ phase' = phase
      /\ swayed' = swayed /\ sent' = sent /\ stops' = stops
  BY <1>0 DEF environment
<1>3. /\ n \in PendingCopies(s)'
      /\ PendingCopies(s)' = (PendingCopies(s) \ {k}) \cup {n}
  BY <1>a, <1>0, <1>1 DEF PendingCopies
<1>4. phase[s] = "awaited" /\ loc[s][k] # "free"
  BY <1>0, <1>a DEF ScanInv, Untouched
<1>5. Finished(s)' <=> Finished(s)
  BY <1>2 DEF Finished
<1>6. Reported(s)' <=> Reported(s)
  BY <1>2 DEF Reported
<1>7. Untouched(s)' /\ StaleHeld(s)'
  <2>1. Untouched(s)'
    BY <1>2, <1>4 DEF Untouched
  <2>2. \A j \in stale'[s] : j \in Copy /\ j # n /\ loc[s][j] \in Held
    BY <1>0, <1>1, <1>a DEF ScanInv, StaleHeld
  <2> QED BY <1>1, <2>1, <2>2 DEF StaleHeld
<1>8. PacedAt(s)'
  BY <1>1, <1>4 DEF ScanInv, PacedAt
<1>9. DecidesAfterEnd(s)'
  BY <1>1, <1>2, <1>5 DEF ScanInv, DecidesAfterEnd
<1>10. TrueAt(s)'
  BY <1>2, <1>5 DEF ScanInv, TrueAt, Apt
<1>11. KeptAt(s)'
  BY <1>3 DEF KeptAt
<1>12. OnceAt(s)'
  <2>1. CASE loc[s][k] \in Answered
    BY <2>1 DEF ChannelLost, OnceAt
  <2>2. CASE loc[s][k] \notin Answered
    <3>1. ambiguous' = ambiguous /\ k \in PendingCopies(s)
      BY <1>0, <1>a, <2>2 DEF ChannelLost, PendingCopies
    <3> QED BY <1>2, <1>3, <1>6, <3>1 DEF ScanInv, OnceAt
  <2> QED BY <2>1, <2>2
<1> QED BY <1>7, <1>8, <1>9, <1>10, <1>11, <1>12 DEF ScanInv

\* Checkmarx One and the orchestrator move on; the monitoring is not concerned.
LEMMA Surroundings ==
    ASSUME TypeOK, NEW s \in Scans, ScanInv(s),
           \/ Submit(s)
           \/ StartDisabled(s)
           \/ FinishScan(s)
           \/ EvaluateAgain(s)
           \/ PassDeadline(s)
    PROVE  ScanInv(s)'
<1>1. loc' = loc /\ ttl' = ttl /\ stale' = stale /\ sent' = sent /\ stops' = stops
      /\ ambiguous' = ambiguous
  BY DEF Submit, StartDisabled, FinishScan, EvaluateAgain, PassDeadline, monitor
<1>2. PendingCopies(s)' = PendingCopies(s)
  BY <1>1 DEF PendingCopies
<1>3. Reported(s)' <=> Reported(s)
  BY <1>1 DEF Reported
<1>4. phase'[s] = phase[s] \/ (phase[s] # "awaited" /\ phase'[s] # "awaited")
  BY DEF Submit, StartDisabled, FinishScan, EvaluateAgain, PassDeadline, TypeOK
<1>5. \/ /\ scanState'[s] = scanState[s] /\ breakBuild'[s] = breakBuild[s]
         /\ swayed' = swayed
      \/ scanState' = scanState /\ s \in swayed'
      \/ phase[s] # "awaited"
      \/ ~Finished(s)
  BY DEF Submit, StartDisabled, FinishScan, EvaluateAgain, PassDeadline, Finished, TypeOK
<1>6. Untouched(s)' /\ StaleHeld(s)' /\ PacedAt(s)'
  BY <1>1, <1>4 DEF ScanInv, Untouched, StaleHeld, PacedAt
<1>7. DecidesAfterEnd(s)' /\ TrueAt(s)'
  <2>1. CASE scanState'[s] = scanState[s] /\ breakBuild'[s] = breakBuild[s]
             /\ swayed' = swayed
    BY <1>1, <2>1 DEF ScanInv, DecidesAfterEnd, TrueAt, Apt, Finished
  <2>2. CASE scanState' = scanState /\ s \in swayed'
    BY <1>1, <2>2 DEF ScanInv, DecidesAfterEnd, TrueAt, Apt, Finished
  <2>3. CASE phase[s] # "awaited"
    BY <1>1, <2>3 DEF ScanInv, Untouched, DecidesAfterEnd, TrueAt
  <2>4. CASE ~Finished(s)
    BY <1>1, <2>4 DEF ScanInv, DecidesAfterEnd, TrueAt, Finished
  <2> QED BY <1>5, <2>1, <2>2, <2>3, <2>4
<1>8. KeptAt(s)'
  BY <1>1, <1>2, <1>3, <1>4 DEF ScanInv, KeptAt
<1>9. OnceAt(s)'
  BY <1>1, <1>2, <1>3 DEF ScanInv, OnceAt
<1> QED BY <1>6, <1>7, <1>8, <1>9 DEF ScanInv

-----------------------------------------------------------------------------
(* The inductive step.                                                     *)

\* Only scan s is concerned by the step.
Concerns(s) ==
    \A r \in Scans \ {s} :
        /\ scanState'[r] = scanState[r] /\ breakBuild'[r] = breakBuild[r]
        /\ (r \in swayed') <=> (r \in swayed)
        /\ phase'[r] = phase[r] /\ loc'[r] = loc[r] /\ ttl'[r] = ttl[r]
        /\ stale'[r] = stale[r]
        /\ sent'[r] = sent[r] /\ stops'[r] = stops[r]
        /\ (r \in ambiguous') <=> (r \in ambiguous)

\* Moving or forgetting a copy concerns its scan only.
LEMMA CopiesConcernOneScan ==
    ASSUME TypeOK, NEW s \in Scans, NEW k \in Copy,
           Discard(s, k) \/ (\E l \in Locations : Move(s, k, l)),
           UNCHANGED environment,
           \A r \in Scans \ {s} :
               /\ sent'[r] = sent[r] /\ stops'[r] = stops[r]
               /\ (r \in ambiguous') <=> (r \in ambiguous)
    PROVE  Concerns(s)
BY DEF Discard, Move, environment, Concerns, TypeOK

\* Steps that concern one scan: the ones that name a copy.
CopyStep(s, k) ==
    \/ WorkflowStart(s, k)
    \/ Expire(s, k)
    \/ Deliver(s, k)
    \/ HandlerStep(s, k)
    \/ HandlerFault(s, k)
    \/ ConsumerLost(s, k)
    \/ \E n \in Copy : ChannelLost(s, k, n)

\* Every step that names a copy concerns one scan.
LEMMA StepsConcernOneScan ==
    ASSUME TypeOK, NEW s \in Scans, NEW k \in Copy, CopyStep(s, k)
    PROVE  Concerns(s)
<1>0. {"polling", "received", "loading", "deciding", "breaking", "requeue", "reported"}
        \subseteq Locations
      /\ {"expired", "response", "lost"} \subseteq Reasons
  BY DEF Locations, Reasons
<1>f. ASSUME sent' = WithFeedback(s, k) \/ sent' = sent
      PROVE  \A r \in Scans \ {s} : sent'[r] = sent[r]
  BY <1>f DEF WithFeedback, TypeOK
<1>1. CASE WorkflowStart(s, k)
  <2>1. CASE /\ loc' = [loc EXCEPT ![s][k] = "await"]
             /\ ttl' = [ttl EXCEPT ![s][k] = Interval]
             /\ UNCHANGED <<stops, faults>>
    BY <1>1, <2>1 DEF WorkflowStart, Concerns, TypeOK
  <2>2. CASE Fault /\ Stop(s, k, "lost") /\ UNCHANGED <<loc, ttl>>
    <3>1. \A r \in Scans \ {s} : stops'[r] = stops[r]
      BY <1>0, <2>2, StopTyped
    <3> QED BY <1>1, <2>2, <3>1 DEF WorkflowStart, Concerns, TypeOK
  <2> QED BY <1>1, <2>1, <2>2 DEF WorkflowStart
<1>2. CASE Expire(s, k) \/ Deliver(s, k)
  BY <1>0, <1>2, CopiesConcernOneScan DEF Expire, Deliver
<1>3. CASE DropExpired(s, k)
  BY <1>0, <1>3, StopTyped, CopiesConcernOneScan DEF DropExpired
<1>4. CASE OpenChannel(s, k)
  BY <1>0, <1>4, CopiesConcernOneScan DEF OpenChannel
<1>5. CASE LoadInspector(s, k)
  BY <1>0, <1>5, CopiesConcernOneScan DEF LoadInspector
<1>6. CASE PolicyBroken(s, k)
  BY <1>0, <1>6, CopiesConcernOneScan DEF PolicyBroken
<1>7. CASE Report(s, k)
  <2>0. Move(s, k, "reported") /\ UNCHANGED environment
    BY <1>7 DEF Report
  <2>1. CASE sent' = WithFeedback(s, k) /\ Publishes(s, k) /\ UNCHANGED <<stops, faults>>
    BY <1>0, <1>f, <2>0, <2>1, PublishesTyped, CopiesConcernOneScan
  <2>2. CASE Fault /\ Stop(s, k, "lost") /\ UNCHANGED <<sent, ambiguous>>
    BY <1>0, <2>0, <2>2, StopTyped, CopiesConcernOneScan
  <2> QED BY <1>7, <2>1, <2>2 DEF Report
<1>8. ASSUME NEW n \in Copy, Republish(s, k, n) PROVE Concerns(s)
  <2>1. \A r \in Scans \ {s} : r \in ambiguous' <=> r \in ambiguous
    BY <1>8, PublishesTyped DEF Republish
  <2> QED BY <1>8, <2>1 DEF Republish, environment, Concerns, TypeOK
<1>9. CASE Acknowledge(s, k)
  BY <1>9, CopiesConcernOneScan DEF Acknowledge
<1>10. CASE OpenChannelFails(s, k)
  BY <1>0, <1>10, StopTyped, CopiesConcernOneScan DEF OpenChannelFails
<1>11. CASE LoadRefused(s, k)
  BY <1>0, <1>11, StopTyped, CopiesConcernOneScan DEF LoadRefused
<1>12. CASE LoadFails(s, k)
  BY <1>0, <1>12, CopiesConcernOneScan DEF LoadFails
<1>13. CASE ReportFails(s, k)
  <2>1. /\ sent' = WithFeedback(s, k) \/ sent' = sent
        /\ \A r \in Scans \ {s} : (r \in ambiguous') <=> (r \in ambiguous)
        /\ Move(s, k, "requeue") /\ UNCHANGED <<environment, stops>>
    BY <1>13 DEF ReportFails
  <2> QED BY <1>0, <1>f, <2>1, CopiesConcernOneScan
<1>14. CASE RepublishReturned(s, k)
  BY <1>0, <1>14, CopiesConcernOneScan DEF RepublishReturned
<1>15. ASSUME NEW n \in Copy, RepublishFails(s, k, n) PROVE Concerns(s)
  <2>0. UNCHANGED <<environment, sent>>
    BY <1>15 DEF RepublishFails
  <2>1. CASE /\ loc' = [loc EXCEPT ![s][k] = "free", ![s][n] = "await"]
             /\ ttl' = [ttl EXCEPT ![s][k] = 0, ![s][n] = NextTTL(ttl[s][k])]
             /\ stale' = [stale EXCEPT ![s] = @ \ {k}]
             /\ Publishes(s, k)
             /\ UNCHANGED stops
    <3>1. \A r \in Scans \ {s} : r \in ambiguous' <=> r \in ambiguous
      BY <2>1, PublishesTyped
    <3> QED BY <2>0, <2>1, <3>1 DEF environment, Concerns, TypeOK
  <2>2. CASE Discard(s, k) /\ Stop(s, k, "lost") /\ UNCHANGED ambiguous
    BY <1>0, <2>0, <2>2, StopTyped, CopiesConcernOneScan
  <2> QED BY <1>15, <2>1, <2>2 DEF RepublishFails
<1>16. CASE ConsumerLost(s, k)
  <2>1. /\ Discard(s, k) \/ Move(s, k, "polling")
        /\ UNCHANGED <<environment, sent, stops>>
        /\ \A r \in Scans \ {s} : (r \in ambiguous') <=> (r \in ambiguous)
    BY <1>16 DEF ConsumerLost
  <2> QED BY <1>0, <2>1, CopiesConcernOneScan
<1>17. ASSUME NEW n \in Copy, ChannelLost(s, k, n) PROVE Concerns(s)
  BY <1>17 DEF ChannelLost, environment, Concerns, TypeOK
<1> QED
  BY <1>1, <1>2, <1>3, <1>4, <1>5, <1>6, <1>7, <1>8, <1>9, <1>10, <1>11, <1>12,
     <1>13, <1>14, <1>15, <1>16, <1>17
  DEF CopyStep, HandlerStep, HandlerFault, Fresh

\* Every step that names a copy keeps the invariant of its scan.
LEMMA StepsKeepScan ==
    ASSUME TypeOK, NEW s \in Scans, NEW k \in Copy, ScanInv(s), CopyStep(s, k)
    PROVE  ScanInv(s)'
<1>0. /\ {"await", "polling", "received", "loading", "deciding", "breaking", "requeue"}
           = Pending
      /\ "reported" \notin Pending /\ "republished" \notin Pending
      /\ {"received", "loading", "deciding", "breaking", "requeue"} \subseteq Held
      /\ "await" \notin Held /\ "polling" \notin Held
      /\ {"expired", "response", "lost"} \subseteq Reasons
  BY DEF Pending, Held, Locations, Reasons
<1>a. ASSUME loc[s][k] \notin Held PROVE k \notin stale[s]
  BY <1>a DEF ScanInv, StaleHeld
<1>1. CASE Expire(s, k)
  BY <1>0, <1>a, <1>1, Advance DEF Expire
<1>2. CASE Deliver(s, k)
  BY <1>0, <1>a, <1>2, Advance DEF Deliver
<1>3. CASE DropExpired(s, k)
  BY <1>0, <1>3, GiveUp DEF DropExpired
<1>4. CASE OpenChannel(s, k)
  BY <1>0, <1>4, Advance DEF OpenChannel
<1>5. CASE LoadInspector(s, k)
  <2>1. CASE Finished(s)
    BY <1>0, <1>5, <2>1, Advance DEF LoadInspector
  <2>2. CASE ~Finished(s)
    BY <1>0, <1>5, <2>2, Advance DEF LoadInspector
  <2> QED BY <2>1, <2>2
<1>6. CASE PolicyBroken(s, k)
  BY <1>0, <1>6, Advance DEF PolicyBroken
<1>7. CASE Report(s, k)
  BY <1>7, Answer
<1>8. ASSUME NEW n \in Copy, Republish(s, k, n) PROVE ScanInv(s)'
  <2>1. loc[s][k] = "requeue" /\ loc[s][n] = "free" /\ stale' = stale
    BY <1>8 DEF Republish
  <2>2. /\ ttl'[s][n] = NextTTL(ttl[s][k])
        /\ ttl'[s][k] = ttl[s][k]
        /\ \A j \in Copy \ {k, n} : ttl'[s][j] = ttl[s][j]
    BY <1>8, <2>1 DEF Republish, TypeOK
  <2> QED BY <1>8, <2>1, <2>2, HandOver DEF Republish
<1>9. CASE Acknowledge(s, k)
  BY <1>0, <1>9, Forget DEF Acknowledge, Answered
<1>10. CASE OpenChannelFails(s, k)
  BY <1>0, <1>10, GiveUp DEF OpenChannelFails
<1>11. CASE LoadRefused(s, k)
  BY <1>0, <1>11, GiveUp DEF LoadRefused
<1>12. CASE LoadFails(s, k)
  BY <1>0, <1>12, Advance DEF LoadFails
<1>13. CASE ReportFails(s, k)
  <2>0. /\ loc[s][k] \in {"deciding", "breaking"} /\ Move(s, k, "requeue")
        /\ UNCHANGED <<environment, stops>>
    BY <1>13 DEF ReportFails
  <2>1. CASE Decided(s, k) /\ sent' = WithFeedback(s, k) /\ ambiguous' = ambiguous \cup {s}
    BY <2>0, <2>1, AnswerTwice
  <2>2. CASE UNCHANGED <<sent, ambiguous>>
    BY <1>0, <2>0, <2>2, Advance
  <2> QED BY <1>13, <2>1, <2>2 DEF ReportFails
<1>14. CASE RepublishReturned(s, k)
  <2>0. loc[s][k] = "requeue" /\ UNCHANGED <<environment, sent, stops, ambiguous>>
    BY <1>14 DEF RepublishReturned
  <2>1. CASE k \in stale[s] /\ Discard(s, k)
    BY <2>0, <2>1, Forget
  <2>2. CASE k \notin stale[s] /\ Move(s, k, "polling")
    BY <1>0, <2>0, <2>2, Advance
  <2> QED BY <1>14, <2>1, <2>2 DEF RepublishReturned
<1>15. ASSUME NEW n \in Copy, RepublishFails(s, k, n) PROVE ScanInv(s)'
  <2>1. loc[s][k] = "requeue" /\ loc[s][n] = "free" /\ k # n
        /\ UNCHANGED <<environment, sent>>
    BY <1>15 DEF RepublishFails
  <2>2. CASE /\ loc' = [loc EXCEPT ![s][k] = "free", ![s][n] = "await"]
             /\ ttl' = [ttl EXCEPT ![s][k] = 0, ![s][n] = NextTTL(ttl[s][k])]
             /\ stale' = [stale EXCEPT ![s] = @ \ {k}]
             /\ Publishes(s, k)
             /\ UNCHANGED stops
    <3>1. /\ ttl'[s][n] = NextTTL(ttl[s][k])
          /\ \A j \in Copy \ {k, n} : ttl'[s][j] = ttl[s][j]
          /\ stale'[s] = stale[s] \ {k}
      BY <2>1, <2>2 DEF TypeOK
    <3> QED BY <2>1, <2>2, <3>1, HandOver
  <2>3. CASE Discard(s, k) /\ Stop(s, k, "lost") /\ UNCHANGED ambiguous
    BY <1>0, <2>1, <2>3, GiveUp
  <2> QED BY <1>15, <2>2, <2>3 DEF RepublishFails
<1>16. CASE WorkflowStart(s, k)
  BY <1>16, Start
<1>17. CASE ConsumerLost(s, k)
  BY <1>17, Redeliver
<1>18. ASSUME NEW n \in Copy, ChannelLost(s, k, n) PROVE ScanInv(s)'
  BY <1>18, Outlive
<1> QED
  BY <1>1, <1>2, <1>3, <1>4, <1>5, <1>6, <1>7, <1>8, <1>9, <1>10, <1>11, <1>12,
     <1>13, <1>14, <1>15, <1>16, <1>17, <1>18
  DEF CopyStep, HandlerStep, HandlerFault, Fresh

\* The steps of the orchestrator and of Checkmarx One.
EnvironmentStep(s) ==
    \/ Submit(s)
    \/ StartDisabled(s)
    \/ FinishScan(s)
    \/ EvaluateAgain(s)
    \/ PassDeadline(s)

\* They concern one scan, too.
LEMMA SurroundingsConcernOneScan ==
    ASSUME TypeOK, NEW s \in Scans, EnvironmentStep(s)
    PROVE  Concerns(s)
<1>1. CASE Submit(s)
  BY <1>1 DEF Submit, monitor, Concerns, TypeOK
<1>2. CASE StartDisabled(s)
  BY <1>2 DEF StartDisabled, monitor, Concerns, TypeOK
<1>3. CASE FinishScan(s)
  BY <1>3 DEF FinishScan, monitor, Concerns, TypeOK
<1>4. CASE EvaluateAgain(s)
  BY <1>4 DEF EvaluateAgain, monitor, Concerns, TypeOK
<1>5. CASE PassDeadline(s)
  BY <1>5 DEF PassDeadline, monitor, Concerns, TypeOK
<1> QED BY <1>1, <1>2, <1>3, <1>4, <1>5 DEF EnvironmentStep

\* Every step is one or the other.
LEMMA StepsOfOneScan ==
    ASSUME Next
    PROVE  \E s \in Scans : EnvironmentStep(s) \/ \E k \in Copy : CopyStep(s, k)
BY DEF Next, EnvironmentStep, CopyStep, Fresh

\* The invariant is inductive.
LEMMA Inductive ==
    IInv /\ [Next]_vars => IInv'
<1> SUFFICES ASSUME IInv, [Next]_vars PROVE IInv'
  OBVIOUS
<1>1. TypeOK /\ TypeOK'
  BY TypeInductive DEF IInv
<1>2. \A s \in Scans : ScanInv(s)
  BY DEF IInv
<1>3. ASSUME NEW s \in Scans, Concerns(s), ScanInv(s)'
      PROVE  \A r \in Scans : ScanInv(r)'
  <2> SUFFICES ASSUME NEW r \in Scans, r # s PROVE ScanInv(r)'
    BY <1>3
  <2> QED BY <1>2, <1>3, Frame DEF Concerns
<1>4. ASSUME NEW s \in Scans, EnvironmentStep(s)
      PROVE  ScanInv(s)' /\ Concerns(s)
  BY <1>1, <1>2, <1>4, Surroundings, SurroundingsConcernOneScan DEF EnvironmentStep
<1>5. ASSUME NEW s \in Scans, NEW k \in Copy, CopyStep(s, k)
      PROVE  ScanInv(s)' /\ Concerns(s)
  BY <1>1, <1>2, <1>5, StepsKeepScan, StepsConcernOneScan
<1>6. CASE UNCHANGED vars
  <2> SUFFICES ASSUME NEW r \in Scans PROVE ScanInv(r)'
    BY <1>1 DEF IInv
  <2> QED BY <1>2, <1>6, Frame DEF vars, environment, monitor
<1>7. CASE Next
  <2>1. \A r \in Scans : ScanInv(r)'
    BY <1>3, <1>4, <1>5, <1>7, StepsOfOneScan
  <2> QED BY <1>1, <2>1 DEF IInv
<1> QED BY <1>6, <1>7

\* The invariant holds before any scan is started.
LEMMA Initially ==
    Init => IInv
<1> SUFFICES ASSUME Init PROVE IInv
  OBVIOUS
<1>1. TypeOK
  BY IntervalAssumption
  DEF Init, TypeOK, ScanStates, Phases, Locations, Reasons
<1>2. ASSUME NEW s \in Scans PROVE ScanInv(s)
  <2>1. /\ phase[s] = "idle" /\ stale[s] = {}
        /\ \A k \in Copy : loc[s][k] = "free"
        /\ \A p \in Services \X Outcomes : sent[s][p] = 0
    BY DEF Init
  <2>2. PendingCopies(s) = {} /\ ~Reported(s)
    BY <2>1 DEF PendingCopies, Pending, Reported
  <2> QED BY <2>1, <2>2
          DEF ScanInv, Untouched, StaleHeld, DecidesAfterEnd, TrueAt, KeptAt, OnceAt,
              PacedAt
<1> QED BY <1>1, <1>2 DEF IInv

\* The invariant holds in every reachable state.
LEMMA Always ==
    Spec => []IInv
BY Initially, Inductive, PTL DEF Spec

\* Feedback is only ever published for a finished scan, to the workflow that
\* started it, with the outcome the scan and its policies call for, for any
\* number of scans, copies, stale handlers and faults.
THEOREM FeedbackIsAlwaysTrue ==
    Spec => []FeedbackIsTrue
<1>1. IInv => FeedbackIsTrue
  BY DEF IInv, ScanInv, TrueAt, Apt, FeedbackIsTrue
<1> QED BY <1>1, Always, PTL

\* No awaited scan is dropped by a redelivery, by a handler that outlived its
\* channel or by a failed republish without a recorded reason.
THEOREM MonitoringIsNotLost ==
    Spec => []NoSilentLoss
<1>1. IInv => NoSilentLoss
  BY DEF IInv, ScanInv, KeptAt, NoSilentLoss
<1> QED BY <1>1, Always, PTL

\* Feedback is sent at most once unless a publish that took effect was followed
\* by a redelivery or an exception, or was made by a stale handler.
THEOREM FeedbackAtMostOnce ==
    Spec => []AtMostOnce
<1>1. IInv => AtMostOnce
  BY DEF IInv, ScanInv, OnceAt, AtMostOnce
<1> QED BY <1>1, Always, PTL

\* The expiration of every poll message stays between the two configured
\* intervals, for every interval, backoff and maximum.
THEOREM BackoffStaysInRange ==
    Spec => []BackoffInRange
<1>1. IInv => BackoffInRange
  BY DEF IInv, ScanInv, PacedAt, BackoffInRange
<1> QED BY <1>1, Always, PTL

-----------------------------------------------------------------------------
(* The poller implements ScanMonitor.                                      *)

\* What ScanMonitor sees of scan s stays as it is.
SameAbstract(s) ==
    /\ Verdicts(s)' = Verdicts(s)
    /\ WatchOf(s)' = WatchOf(s)
    /\ ReportsOf(s)' = ReportsOf(s)
    /\ stops'[s] = stops[s]

\* What ScanMonitor sees of scan s changes as one of its steps says.
Concluded(s) ==
    /\ \E v \in {"pass", "reject"} : Verdicts(s)' = Verdicts(s) \cup {v}
    /\ WatchOf(s)' = WatchOf(s) /\ ReportsOf(s)' = ReportsOf(s) /\ stops'[s] = stops[s]

Watched(s) ==
    /\ WatchOf(s) = "off" /\ WatchOf(s)' = "on"
    /\ Verdicts(s)' = Verdicts(s) /\ ReportsOf(s)' = ReportsOf(s) /\ stops'[s] = stops[s]

Announced(s) ==
    /\ WatchOf(s) = "on"
    /\ \E v \in Verdicts(s) : ReportsOf(s)' = ReportsOf(s) \cup {v}
    /\ Verdicts(s)' = Verdicts(s) /\ WatchOf(s)' = WatchOf(s) /\ stops'[s] = stops[s]

Excused(s) ==
    /\ WatchOf(s) # "ended"
    /\ \E e \in Reasons : stops'[s] = stops[s] \cup {e}
    /\ WatchOf(s)' = WatchOf(s) \/ (ReportsOf(s) = {} /\ WatchOf(s)' = "ended")
    /\ Verdicts(s)' = Verdicts(s) /\ ReportsOf(s)' = ReportsOf(s)

WatchEnded(s) ==
    /\ WatchOf(s) = "on" /\ ReportsOf(s) = {} /\ stops[s] # {}
    /\ WatchOf(s)' = "ended"
    /\ Verdicts(s)' = Verdicts(s) /\ ReportsOf(s)' = ReportsOf(s) /\ stops'[s] = stops[s]

AbstractStep(s) ==
    \/ SameAbstract(s)
    \/ Concluded(s)
    \/ Watched(s)
    \/ Announced(s)
    \/ Excused(s)
    \/ WatchEnded(s)

\* A step of the poller that concerns one scan, and looks like a step of
\* ScanMonitor there, is a step of ScanMonitor.
LEMMA StepsCorrespond ==
    ASSUME TypeOK, TypeOK', NEW s \in Scans, AbstractStep(s),
           \A r \in Scans : r # s => SameAbstract(r)
    PROVE  [Monitor!Next]_(Monitor!vars)
<1> DEFINE V == [r \in Scans |-> Verdicts(r)]
           W == [r \in Scans |-> WatchOf(r)]
           R == [r \in Scans |-> ReportsOf(r)]
<1>1. /\ V' = [V EXCEPT ![s] = Verdicts(s)']
      /\ W' = [W EXCEPT ![s] = WatchOf(s)']
      /\ R' = [R EXCEPT ![s] = ReportsOf(s)']
      /\ stops' = [stops EXCEPT ![s] = stops'[s]]
  <2>1. /\ \A r \in Scans : r # s => V'[r] = V[r] /\ W'[r] = W[r] /\ R'[r] = R[r]
        /\ \A r \in Scans : r # s => stops'[r] = stops[r]
    BY DEF SameAbstract
  <2>2. V'[s] = Verdicts(s)' /\ W'[s] = WatchOf(s)' /\ R'[s] = ReportsOf(s)'
    OBVIOUS
  <2>3. stops = [r \in Scans |-> stops[r]] /\ stops' = [r \in Scans |-> stops'[r]]
    BY DEF TypeOK
  <2> QED BY <2>1, <2>2, <2>3
<1>2. /\ Verdicts(s)' = Verdicts(s) => V' = V
      /\ WatchOf(s)' = WatchOf(s) => W' = W
      /\ ReportsOf(s)' = ReportsOf(s) => R' = R
      /\ stops'[s] = stops[s] => stops' = stops
  <2>1. /\ Verdicts(s)' = Verdicts(s) => \A r \in Scans : Verdicts(r)' = Verdicts(r)
        /\ WatchOf(s)' = WatchOf(s) => \A r \in Scans : WatchOf(r)' = WatchOf(r)
        /\ ReportsOf(s)' = ReportsOf(s) => \A r \in Scans : ReportsOf(r)' = ReportsOf(r)
        /\ stops'[s] = stops[s] => \A r \in Scans : stops'[r] = stops[r]
    BY DEF SameAbstract
  <2>2. stops = [r \in Scans |-> stops[r]] /\ stops' = [r \in Scans |-> stops'[r]]
    BY DEF TypeOK
  <2> QED BY <2>1, <2>2
<1>3. V[s] = Verdicts(s) /\ W[s] = WatchOf(s) /\ R[s] = ReportsOf(s)
  OBVIOUS
<1> HIDE DEF V, W, R
<1>4. CASE SameAbstract(s)
  BY <1>2, <1>4 DEF SameAbstract, Monitor!vars, V, W, R
<1>5. CASE Concluded(s)
  <2>1. Monitor!Conclude(s)
    BY <1>1, <1>2, <1>3, <1>5 DEF Concluded, Monitor!Conclude, Monitor!Verdicts, V, W, R
  <2> QED BY <2>1 DEF Monitor!Next
<1>6. CASE Watched(s)
  <2>1. Monitor!Watch(s)
    BY <1>1, <1>2, <1>3, <1>6 DEF Watched, Monitor!Watch, V, W, R
  <2> QED BY <2>1 DEF Monitor!Next
<1>7. CASE Announced(s)
  <2>1. Monitor!Announce(s)
    BY <1>1, <1>2, <1>3, <1>7 DEF Announced, Monitor!Announce, V, W, R
  <2> QED BY <2>1 DEF Monitor!Next
<1>8. CASE Excused(s)
  <2>1. Monitor!Excuse(s)
    BY <1>1, <1>2, <1>3, <1>8 DEF Excused, Monitor!Excuse, V, W, R
  <2> QED BY <2>1 DEF Monitor!Next
<1>9. CASE WatchEnded(s)
  <2>1. Monitor!End(s)
    BY <1>1, <1>2, <1>3, <1>9 DEF WatchEnded, Monitor!End, V, W, R
  <2> QED BY <2>1 DEF Monitor!Next
<1> QED BY <1>4, <1>5, <1>6, <1>7, <1>8, <1>9 DEF AbstractStep

\* Something was reported if and only if some verdict was.
LEMMA ReportsAreVerdicts ==
    ASSUME NEW s \in Scans
    PROVE  Reported(s) <=> ReportsOf(s) # {}
BY DEF Reported, ReportsOf, VerdictOf

\* What ScanMonitor sees of Checkmarx One, and what was reported, depends on
\* the environment and on what was sent.
LEMMA SeenOf ==
    ASSUME NEW s \in Scans,
           scanState'[s] = scanState[s], breakBuild'[s] = breakBuild[s],
           (s \in swayed') <=> (s \in swayed)
    PROVE  /\ Verdicts(s)' = Verdicts(s)
           /\ sent'[s] = sent[s] =>
                 ReportsOf(s)' = ReportsOf(s) /\ (Reported(s)' <=> Reported(s))
<1>1. Verdicts(s)' = Verdicts(s)
  BY DEF Verdicts, Finished
<1>2. ASSUME sent'[s] = sent[s]
      PROVE  ReportsOf(s)' = ReportsOf(s) /\ (Reported(s)' <=> Reported(s))
  BY <1>2 DEF ReportsOf, Reported
<1> QED BY <1>1, <1>2

\* ScanMonitor sees nothing of a step that keeps what was reported and why not,
\* and leaves a copy of the poll message if there was one.
LEMMA Unseen ==
    ASSUME NEW s \in Scans,
           scanState'[s] = scanState[s], breakBuild'[s] = breakBuild[s],
           (s \in swayed') <=> (s \in swayed),
           phase'[s] = phase[s], sent'[s] = sent[s], stops'[s] = stops[s],
           LiveCopies(s)' = {} <=> LiveCopies(s) = {}
    PROVE  SameAbstract(s)
<1>1. /\ Verdicts(s)' = Verdicts(s)
      /\ ReportsOf(s)' = ReportsOf(s) /\ (Reported(s)' <=> Reported(s))
  BY SeenOf
<1>2. WatchOf(s)' = WatchOf(s)
  BY <1>1 DEF WatchOf
<1> QED BY <1>1, <1>2 DEF SameAbstract

\* A copy moves from one place to another.
LEMMA MoveUnseen ==
    ASSUME TypeOK, NEW s \in Scans, NEW k \in Copy, NEW l \in Locations,
           loc[s][k] # "free", l # "free", Move(s, k, l),
           UNCHANGED <<environment, sent, stops>>
    PROVE  SameAbstract(s)
<1>1. loc'[s][k] = l
  BY DEF Move, TypeOK
<1>2. LiveCopies(s)' # {} /\ LiveCopies(s) # {}
  BY <1>1 DEF LiveCopies
<1> QED BY <1>2, Unseen DEF environment

\* A watched scan with a copy, before and after a step that keeps the scan.
LEMMA StillWatched ==
    ASSUME NEW s \in Scans, NEW k \in Copy, ScanInv(s), loc[s][k] # "free",
           UNCHANGED environment
    PROVE  /\ phase[s] = "awaited" /\ phase'[s] = "awaited"
           /\ WatchOf(s) = "on"
           /\ Reported(s)' \/ LiveCopies(s)' # {} => WatchOf(s)' = "on"
           /\ ~Reported(s)' /\ LiveCopies(s)' = {} => WatchOf(s)' = "ended"
<1>1. phase[s] = "awaited" /\ phase'[s] = "awaited"
  BY DEF ScanInv, Untouched, environment
<1>2. WatchOf(s) = "on"
  BY <1>1 DEF WatchOf, LiveCopies
<1> QED BY <1>1, <1>2 DEF WatchOf

\* The last copy of an unreported scan goes, unless it was the handler's to
\* answer, only if there is an excuse: KeptAt is what makes the end of the watch
\* a step of ScanMonitor.
LEMMA DiscardEnds ==
    ASSUME TypeOK, NEW s \in Scans, NEW k \in Copy, ScanInv(s), Discard(s, k),
           loc[s][k] # "free",
           k \in stale[s] \/ loc[s][k] \notin Pending,
           UNCHANGED <<environment, sent, stops>>
    PROVE  SameAbstract(s) \/ WatchEnded(s)
<1>1. /\ loc'[s][k] = "free"
      /\ \A j \in Copy : j # k => loc'[s][j] = loc[s][j]
  BY DEF Discard, TypeOK
<1>2. CASE LiveCopies(s)' # {}
  <2>1. LiveCopies(s) # {}
    BY DEF LiveCopies
  <2> QED BY <1>2, <2>1, Unseen DEF environment
<1>3. CASE LiveCopies(s)' = {}
  <2>0. "free" \notin Pending
    BY DEF Pending
  <2>1. PendingCopies(s) = {}
    BY <1>1, <1>3, <2>0 DEF LiveCopies, PendingCopies
  <2>2. /\ Verdicts(s)' = Verdicts(s)
        /\ ReportsOf(s)' = ReportsOf(s) /\ (Reported(s)' <=> Reported(s))
    BY SeenOf DEF environment
  <2>3. CASE Reported(s)
    BY <2>2, <2>3, StillWatched DEF SameAbstract
  <2>4. CASE ~Reported(s)
    <3>1. stops[s] # {}
      BY <2>1, <2>4, StillWatched DEF ScanInv, KeptAt
    <3> QED BY <1>3, <2>2, <2>4, <3>1, StillWatched, ReportsAreVerdicts DEF WatchEnded
  <2> QED BY <2>3, <2>4
<1> QED BY <1>2, <1>3

\* A copy is given up for a recorded reason, or it was in other hands already.
LEMMA GivenUpExcused ==
    ASSUME TypeOK, NEW s \in Scans, NEW k \in Copy, NEW e \in Reasons, ScanInv(s),
           loc[s][k] # "free", Discard(s, k), Stop(s, k, e),
           UNCHANGED <<environment, sent>>
    PROVE  AbstractStep(s)
<1>1. CASE k \in stale[s]
  <2>1. stops' = stops
    BY <1>1, StopTyped
  <2> QED BY <1>1, <2>1, DiscardEnds DEF AbstractStep
<1>2. CASE k \notin stale[s]
  <2>1. stops'[s] = stops[s] \cup {e}
    BY <1>2, StopTyped
  <2>2. /\ Verdicts(s)' = Verdicts(s)
        /\ ReportsOf(s)' = ReportsOf(s) /\ (Reported(s)' <=> Reported(s))
    BY SeenOf DEF environment
  <2>3. WatchOf(s)' = "on" \/ (ReportsOf(s) = {} /\ WatchOf(s)' = "ended")
    BY <2>2, StillWatched, ReportsAreVerdicts
  <2>4. WatchOf(s) = "on"
    BY StillWatched
  <2>5. Excused(s)
    BY <2>1, <2>2, <2>3, <2>4 DEF Excused
  <2> QED BY <2>5 DEF AbstractStep
<1> QED BY <1>1, <1>2

\* Feedback announces a verdict Checkmarx One has given.
LEMMA FeedbackAnnounces ==
    ASSUME TypeOK, NEW s \in Scans, NEW k \in Copy, NEW l \in Locations,
           ScanInv(s), Decided(s, k), l # "free", Move(s, k, l),
           sent' = WithFeedback(s, k), UNCHANGED <<environment, stops>>
    PROVE  Announced(s)
<1>0. loc[s][k] # "free" /\ loc'[s][k] = l
  BY DEF Decided, Move, TypeOK
<1>1. PICK o \in Outcomes : o = OutcomeOf(s, k) /\ Apt(s, o) /\ Finished(s)
  BY DecisionIsApt
<1>2. VerdictOf(o) \in Verdicts(s)
  <2>0. scanState[s] \in ScanStates /\ breakBuild[s] \in BOOLEAN
    BY DEF TypeOK
  <2>1. CASE scanState[s] = "failed"
    BY <1>1, <2>1 DEF Apt, VerdictOf, Verdicts, Finished
  <2>2. CASE scanState[s] = "successful" /\ s \in swayed
    BY <1>1, <2>2 DEF VerdictOf, Verdicts, Finished
  <2>3. CASE scanState[s] = "successful" /\ s \notin swayed
    BY <1>1, <2>0, <2>3 DEF Apt, VerdictOf, Verdicts, Finished
  <2> QED BY <1>1, <2>1, <2>2, <2>3 DEF Finished
<1>3. /\ sent'[s][<<Workflow[s], o>>] = sent[s][<<Workflow[s], o>>] + 1
      /\ \A p \in Services \X Outcomes :
            p # <<Workflow[s], o>> => sent'[s][p] = sent[s][p]
      /\ <<Workflow[s], o>> \in Services \X Outcomes
      /\ \A p \in Services \X Outcomes : sent[s][p] \in Nat
  BY <1>1, FeedbackAdded DEF TypeOK
<1>4. \A p \in Services \X Outcomes :
         sent'[s][p] > 0 <=> (sent[s][p] > 0 \/ p = <<Workflow[s], o>>)
  BY <1>3
<1>5. ReportsOf(s)' = ReportsOf(s) \cup {VerdictOf(o)}
  <2>1. VerdictOf(o) \in {"pass", "reject"} /\ <<Workflow[s], o>>[2] = o
    BY DEF VerdictOf
  <2> QED BY <1>3, <1>4, <2>1 DEF ReportsOf
<1>6. Verdicts(s)' = Verdicts(s)
  BY SeenOf DEF environment
<1>7. LiveCopies(s)' # {}
  BY <1>0 DEF LiveCopies
<1>8. WatchOf(s) = "on" /\ WatchOf(s)' = "on"
  BY <1>0, <1>7, StillWatched
<1> QED BY <1>2, <1>5, <1>6, <1>8 DEF Announced

\* The watch begins, or ends before it began because the await message was not
\* taken.
LEMMA StartWatches ==
    ASSUME TypeOK, NEW s \in Scans, NEW k \in Copy, ScanInv(s), WorkflowStart(s, k)
    PROVE  Watched(s) \/ Excused(s)
<1>1. /\ phase[s] = "submitted" /\ phase'[s] = "awaited"
      /\ scanState' = scanState /\ breakBuild' = breakBuild /\ swayed' = swayed
      /\ sent' = sent
  BY DEF WorkflowStart, TypeOK
<1>2. /\ ~Reported(s) /\ LiveCopies(s) = {} /\ stale[s] = {}
  BY <1>1 DEF ScanInv, Untouched, Reported, LiveCopies, StaleHeld, Held, TypeOK
<1>3. /\ Verdicts(s)' = Verdicts(s)
      /\ ReportsOf(s)' = ReportsOf(s) /\ (Reported(s)' <=> Reported(s))
  BY <1>1, SeenOf
<1>4. WatchOf(s) = "off" /\ ReportsOf(s) = {}
  BY <1>1, <1>2, ReportsAreVerdicts DEF WatchOf
<1>5. CASE loc' = [loc EXCEPT ![s][k] = "await"] /\ UNCHANGED stops
  <2>0. loc'[s][k] = "await"
    BY <1>5 DEF TypeOK
  <2>1. LiveCopies(s)' # {}
    BY <2>0 DEF LiveCopies
  <2>2. WatchOf(s)' = "on"
    BY <1>1, <1>2, <2>1 DEF WatchOf
  <2> QED BY <1>3, <1>4, <1>5, <2>2 DEF Watched
<1>6. CASE Stop(s, k, "lost") /\ UNCHANGED loc
  <2>1. stops'[s] = stops[s] \cup {"lost"} /\ "lost" \in Reasons
    BY <1>2, <1>6, StopTyped DEF Reasons
  <2>2. LiveCopies(s)' = {}
    BY <1>2, <1>6 DEF LiveCopies
  <2>3. WatchOf(s)' = "ended"
    BY <1>1, <1>2, <1>3, <2>2 DEF WatchOf
  <2> QED BY <1>3, <1>4, <2>1, <2>3 DEF Excused
<1> QED BY <1>5, <1>6 DEF WorkflowStart

\* The scan has not begun in Checkmarx One before it was submitted, and only the
\* evaluation of a successful scan changes.
InOrder ==
    \A s \in Scans :
        /\ phase[s] = "idle" => scanState[s] = "none"
        /\ s \in swayed => scanState[s] = "successful"

\* The scan is submitted, ends, is evaluated again or gets overdue.
LEMMA SurroundingsConclude ==
    ASSUME TypeOK, NEW s \in Scans, ScanInv(s), InOrder, EnvironmentStep(s)
    PROVE  SameAbstract(s) \/ Concluded(s)
<1>0. scanState[s] \in ScanStates /\ breakBuild[s] \in BOOLEAN
  BY DEF TypeOK
<1>1. loc' = loc /\ sent' = sent /\ stops' = stops
  BY DEF EnvironmentStep, Submit, StartDisabled, FinishScan, EvaluateAgain, PassDeadline,
         monitor
<1>2. LiveCopies(s)' = LiveCopies(s) /\ (Reported(s)' <=> Reported(s))
      /\ ReportsOf(s)' = ReportsOf(s)
  BY <1>1 DEF LiveCopies, Reported, ReportsOf
<1>3. WatchOf(s)' = WatchOf(s)
  <2>1. phase'[s] = phase[s] \/ (phase[s] # "awaited" /\ phase'[s] # "awaited")
    BY DEF EnvironmentStep, Submit, StartDisabled, FinishScan, EvaluateAgain,
           PassDeadline, TypeOK
  <2> QED BY <1>2, <2>1 DEF WatchOf
<1>4. CASE FinishScan(s)
  <2>1. /\ scanState[s] = "executing" /\ s \notin swayed /\ swayed' = swayed
        /\ scanState'[s] \in {"successful", "failed"}
    BY <1>4 DEF FinishScan, InOrder, TypeOK
  <2>2. Verdicts(s) = {}
    BY <2>1 DEF Verdicts, Finished
  <2>3. \E v \in {"pass", "reject"} : Verdicts(s)' = {v}
    BY <2>1 DEF Verdicts, Finished
  <2> QED BY <1>1, <1>2, <1>3, <2>2, <2>3 DEF Concluded
<1>5. CASE EvaluateAgain(s)
  <2>1. /\ scanState[s] = "successful" /\ s \notin swayed /\ s \in swayed'
        /\ scanState' = scanState
    BY <1>5 DEF EvaluateAgain
  <2>2. Verdicts(s) = {IF breakBuild[s] THEN "reject" ELSE "pass"}
    BY <2>1 DEF Verdicts, Finished
  <2>3. Verdicts(s)' = {"pass", "reject"}
    BY <2>1 DEF Verdicts, Finished
  <2>4. CASE breakBuild[s]
    <3>1. Verdicts(s)' = Verdicts(s) \cup {"pass"}
      BY <2>2, <2>3, <2>4
    <3> QED BY <1>1, <1>2, <1>3, <3>1 DEF Concluded
  <2>5. CASE ~breakBuild[s]
    <3>1. Verdicts(s)' = Verdicts(s) \cup {"reject"}
      BY <2>2, <2>3, <2>5
    <3> QED BY <1>1, <1>2, <1>3, <3>1 DEF Concluded
  <2> QED BY <2>4, <2>5
<1>6. CASE Submit(s)
  <2>1. ~Finished(s) /\ ~Finished(s)'
    BY <1>6 DEF Submit, InOrder, Finished, TypeOK
  <2>2. Verdicts(s)' = Verdicts(s)
    BY <2>1 DEF Verdicts, Finished
  <2> QED BY <1>1, <1>2, <1>3, <2>2 DEF SameAbstract
<1>7. CASE StartDisabled(s) \/ PassDeadline(s)
  <2>1. Verdicts(s)' = Verdicts(s)
    BY <1>7, SeenOf DEF StartDisabled, PassDeadline
  <2> QED BY <1>1, <1>2, <1>3, <2>1 DEF SameAbstract
<1> QED BY <1>4, <1>5, <1>6, <1>7 DEF EnvironmentStep

\* Every step that names a copy is seen as a step of ScanMonitor.
LEMMA StepsAbstract ==
    ASSUME TypeOK, NEW s \in Scans, NEW k \in Copy, ScanInv(s), CopyStep(s, k)
    PROVE  AbstractStep(s)
<1> USE DEF AbstractStep
<1>0. /\ {"await", "polling", "received", "loading", "deciding", "breaking", "requeue",
           "reported"} \subseteq Locations
      /\ {"expired", "response", "lost"} \subseteq Reasons
      /\ "free" \notin Held /\ \A l \in Answered : l # "free" /\ l \notin Pending
  BY DEF Locations, Reasons, Held, Answered, Pending
<1>1. CASE Expire(s, k)
  BY <1>0, <1>1, MoveUnseen DEF Expire
<1>2. CASE Deliver(s, k)
  BY <1>0, <1>2, MoveUnseen DEF Deliver
<1>3. CASE DropExpired(s, k)
  BY <1>0, <1>3, GivenUpExcused DEF DropExpired
<1>4. CASE OpenChannel(s, k)
  BY <1>0, <1>4, MoveUnseen DEF OpenChannel
<1>5. CASE LoadInspector(s, k)
  <2>1. CASE Finished(s)
    BY <1>0, <1>5, <2>1, MoveUnseen DEF LoadInspector
  <2>2. CASE ~Finished(s)
    BY <1>0, <1>5, <2>2, MoveUnseen DEF LoadInspector
  <2> QED BY <2>1, <2>2
<1>6. CASE PolicyBroken(s, k)
  BY <1>0, <1>6, MoveUnseen DEF PolicyBroken
<1>7. CASE Report(s, k)
  <2>0. /\ Decided(s, k) /\ Move(s, k, "reported") /\ UNCHANGED environment
        /\ loc[s][k] # "free"
    BY <1>7 DEF Report, Decided
  <2>1. CASE sent' = WithFeedback(s, k) /\ UNCHANGED stops
    BY <1>0, <2>0, <2>1, FeedbackAnnounces
  <2>2. CASE Stop(s, k, "lost") /\ UNCHANGED sent
    <3>1. CASE k \in stale[s]
      <4>1. stops' = stops
        BY <1>0, <2>2, <3>1, StopTyped
      <4> QED BY <1>0, <2>0, <2>2, <4>1, MoveUnseen
    <3>2. CASE k \notin stale[s]
      <4>1. stops'[s] = stops[s] \cup {"lost"}
        BY <1>0, <2>2, <3>2, StopTyped
      <4>2. /\ Verdicts(s)' = Verdicts(s)
            /\ ReportsOf(s)' = ReportsOf(s)
        BY <2>0, <2>2, SeenOf DEF environment
      <4>3. loc'[s][k] = "reported"
        BY <2>0 DEF Move, TypeOK
      <4>4. LiveCopies(s)' # {}
        BY <4>3 DEF LiveCopies
      <4>5. WatchOf(s) = "on" /\ WatchOf(s)' = "on"
        BY <2>0, <4>4, StillWatched
      <4>6. Excused(s)
        BY <1>0, <4>1, <4>2, <4>5 DEF Excused
      <4> QED BY <4>6
    <3> QED BY <3>1, <3>2
  <2> QED BY <1>7, <2>1, <2>2 DEF Report
<1>8. ASSUME NEW n \in Copy, Republish(s, k, n) PROVE AbstractStep(s)
  <2>1. loc[s][k] # "free" /\ loc'[s][n] = "await"
    BY <1>8 DEF Republish, TypeOK
  <2>2. LiveCopies(s)' # {} /\ LiveCopies(s) # {}
    BY <2>1 DEF LiveCopies
  <2> QED BY <1>8, <2>2, Unseen DEF Republish, environment
<1>9. CASE Acknowledge(s, k)
  BY <1>0, <1>9, DiscardEnds DEF Acknowledge
<1>10. CASE OpenChannelFails(s, k)
  BY <1>0, <1>10, GivenUpExcused DEF OpenChannelFails
<1>11. CASE LoadRefused(s, k)
  BY <1>0, <1>11, GivenUpExcused DEF LoadRefused
<1>12. CASE LoadFails(s, k)
  BY <1>0, <1>12, MoveUnseen DEF LoadFails
<1>13. CASE ReportFails(s, k)
  <2>0. /\ loc[s][k] # "free" /\ Move(s, k, "requeue")
        /\ UNCHANGED <<environment, stops>>
    BY <1>13 DEF ReportFails
  <2>1. CASE Decided(s, k) /\ sent' = WithFeedback(s, k)
    BY <1>0, <2>0, <2>1, FeedbackAnnounces
  <2>2. CASE UNCHANGED sent
    BY <1>0, <2>0, <2>2, MoveUnseen
  <2> QED BY <1>13, <2>1, <2>2 DEF ReportFails
<1>14. CASE RepublishReturned(s, k)
  <2>0. loc[s][k] # "free" /\ UNCHANGED <<environment, sent, stops>>
    BY <1>14 DEF RepublishReturned
  <2>1. CASE k \in stale[s] /\ Discard(s, k)
    BY <2>0, <2>1, DiscardEnds
  <2>2. CASE Move(s, k, "polling")
    BY <1>0, <2>0, <2>2, MoveUnseen
  <2> QED BY <1>14, <2>1, <2>2 DEF RepublishReturned
<1>15. ASSUME NEW n \in Copy, RepublishFails(s, k, n) PROVE AbstractStep(s)
  <2>1. loc[s][k] = "requeue" /\ UNCHANGED <<environment, sent>>
    BY <1>15 DEF RepublishFails
  <2>2. CASE /\ loc' = [loc EXCEPT ![s][k] = "free", ![s][n] = "await"]
             /\ UNCHANGED stops
    <3>1. loc'[s][n] = "await"
      BY <2>2 DEF TypeOK
    <3>2. LiveCopies(s)' # {} /\ LiveCopies(s) # {}
      BY <2>1, <3>1 DEF LiveCopies
    <3> QED BY <2>1, <2>2, <3>2, Unseen DEF environment
  <2>3. CASE Discard(s, k) /\ Stop(s, k, "lost")
    BY <1>0, <2>1, <2>3, GivenUpExcused
  <2> QED BY <1>15, <2>2, <2>3 DEF RepublishFails
<1>16. CASE WorkflowStart(s, k)
  BY <1>16, StartWatches
<1>17. CASE ConsumerLost(s, k)
  <2>0. loc[s][k] # "free" /\ UNCHANGED <<environment, sent, stops>>
    BY <1>0, <1>17 DEF ConsumerLost
  <2>1. CASE k \in stale[s] /\ Discard(s, k)
    BY <2>0, <2>1, DiscardEnds
  <2>2. CASE Move(s, k, "polling")
    BY <1>0, <2>0, <2>2, MoveUnseen
  <2> QED BY <1>17, <2>1, <2>2 DEF ConsumerLost
<1>18. ASSUME NEW n \in Copy, ChannelLost(s, k, n) PROVE AbstractStep(s)
  <2>1. loc[s][k] # "free" /\ loc'[s][n] = "polling"
        /\ UNCHANGED <<environment, sent, stops>>
    BY <1>0, <1>18 DEF ChannelLost, TypeOK
  <2>2. LiveCopies(s)' # {} /\ LiveCopies(s) # {}
    BY <2>1 DEF LiveCopies
  <2> QED BY <2>1, <2>2, Unseen DEF environment
<1> QED
  BY <1>1, <1>2, <1>3, <1>4, <1>5, <1>6, <1>7, <1>8, <1>9, <1>10, <1>11, <1>12,
     <1>13, <1>14, <1>15, <1>16, <1>17, <1>18
  DEF CopyStep, HandlerStep, HandlerFault, Fresh

\* Scans that are not concerned look the same.
LEMMA OthersUnseen ==
    ASSUME NEW s \in Scans, Concerns(s), NEW r \in Scans, r # s
    PROVE  SameAbstract(r)
<1>1. LiveCopies(r)' = LiveCopies(r)
  BY DEF Concerns, LiveCopies
<1> QED BY <1>1, Unseen DEF Concerns

\* A copy's step leaves Checkmarx One alone, and only Submit ends the time
\* before the scan.
LEMMA InOrderStep ==
    ASSUME TypeOK, InOrder, [Next]_vars
    PROVE  InOrder'
<1>1. CASE UNCHANGED <<scanState, phase, swayed>>
  BY <1>1 DEF InOrder
<1>2. ASSUME NEW s \in Scans, Submit(s) PROVE InOrder'
  <2>1. /\ scanState[s] = "none" /\ s \notin swayed /\ swayed' = swayed
        /\ phase'[s] = "submitted"
    BY <1>2 DEF Submit, InOrder, TypeOK
  <2>2. \A r \in Scans : r # s => scanState'[r] = scanState[r] /\ phase'[r] = phase[r]
    BY <1>2 DEF Submit, TypeOK
  <2> QED BY <2>1, <2>2 DEF InOrder
<1>3. ASSUME NEW s \in Scans, StartDisabled(s) PROVE InOrder'
  BY <1>3 DEF StartDisabled, InOrder, TypeOK
<1>4. ASSUME NEW s \in Scans, NEW k \in Copy, WorkflowStart(s, k) PROVE InOrder'
  BY <1>4 DEF WorkflowStart, InOrder, TypeOK
<1>5. ASSUME NEW s \in Scans, FinishScan(s) PROVE InOrder'
  <2>1. phase[s] # "idle" /\ phase' = phase /\ swayed' = swayed /\ s \notin swayed
    BY <1>5 DEF FinishScan, InOrder
  <2>2. \A r \in Scans : r # s => scanState'[r] = scanState[r]
    BY <1>5 DEF FinishScan, TypeOK
  <2> QED BY <2>1, <2>2 DEF InOrder
<1>6. ASSUME NEW s \in Scans, EvaluateAgain(s) PROVE InOrder'
  BY <1>6 DEF EvaluateAgain, InOrder
<1>7. ASSUME NEW s \in Scans, PassDeadline(s) PROVE InOrder'
  BY <1>1, <1>7 DEF PassDeadline
<1>8. ASSUME NEW s \in Scans, NEW k \in Copy, CopyStep(s, k), ~WorkflowStart(s, k)
      PROVE  InOrder'
  <2>1. UNCHANGED environment
    BY <1>8 DEF CopyStep, Expire, Deliver, HandlerStep, HandlerFault, DropExpired,
       OpenChannel, LoadInspector, PolicyBroken, Report, Republish, Acknowledge,
       OpenChannelFails, LoadRefused, LoadFails, ReportFails, RepublishReturned,
       RepublishFails, ConsumerLost, ChannelLost
  <2> QED BY <1>1, <2>1 DEF environment
<1>9. CASE UNCHANGED vars
  BY <1>1, <1>9 DEF vars, environment
<1>10. CASE Next
  BY <1>2, <1>3, <1>4, <1>5, <1>6, <1>7, <1>8, <1>10, StepsOfOneScan
  DEF EnvironmentStep
<1> QED BY <1>9, <1>10

\* Every step of the poller is a step of ScanMonitor or is not seen by it.
LEMMA NextAbstract ==
    ASSUME IInv, InOrder, [Next]_vars
    PROVE  [Monitor!Next]_(Monitor!vars)
<1>1. TypeOK /\ TypeOK' /\ \A s \in Scans : ScanInv(s)
  BY TypeInductive DEF IInv
<1>2. ASSUME NEW s \in Scans, Concerns(s), AbstractStep(s)
      PROVE  [Monitor!Next]_(Monitor!vars)
  BY <1>1, <1>2, OthersUnseen, StepsCorrespond
<1>3. ASSUME NEW s \in Scans, EnvironmentStep(s)
      PROVE  [Monitor!Next]_(Monitor!vars)
  <2>1. AbstractStep(s)
    BY <1>1, <1>3, SurroundingsConclude DEF AbstractStep
  <2> QED BY <1>1, <1>2, <1>3, <2>1, SurroundingsConcernOneScan
<1>4. ASSUME NEW s \in Scans, NEW k \in Copy, CopyStep(s, k)
      PROVE  [Monitor!Next]_(Monitor!vars)
  BY <1>1, <1>2, <1>4, StepsAbstract, StepsConcernOneScan
<1>5. CASE UNCHANGED vars
  <2>1. \A s \in Scans : SameAbstract(s)
    BY <1>5, Unseen DEF vars, environment, monitor, LiveCopies
  <2>2. /\ [s \in Scans |-> Verdicts(s)]' = [s \in Scans |-> Verdicts(s)]
        /\ [s \in Scans |-> WatchOf(s)]' = [s \in Scans |-> WatchOf(s)]
        /\ [s \in Scans |-> ReportsOf(s)]' = [s \in Scans |-> ReportsOf(s)]
    BY <2>1 DEF SameAbstract
  <2> QED BY <1>5, <2>2 DEF Monitor!vars, vars, monitor
<1> QED BY <1>3, <1>4, <1>5, StepsOfOneScan

\* The poller starts as ScanMonitor does.
LEMMA InitAbstract ==
    ASSUME Init
    PROVE  Monitor!Init /\ InOrder
<1>1. ASSUME NEW s \in Scans
      PROVE  Verdicts(s) = {} /\ WatchOf(s) = "off" /\ ReportsOf(s) = {}
  BY DEF Init, Verdicts, Finished, WatchOf, ReportsOf
<1>2. InOrder
  BY DEF Init, InOrder
<1> QED BY <1>1, <1>2 DEF Init, Monitor!Init

\* The queues, the redeliveries, the handlers that outlive their channel and the
\* finally clause of execute_poll_scan_workflow implement the monitoring of
\* ScanMonitor, for any number of scans, copies and faults and any prefetch count.
THEOREM PollerImplementsMonitor ==
    Spec => ImplementsMonitor
<1>1. Init => Monitor!Init /\ InOrder
  BY InitAbstract
<1>2. IInv /\ InOrder /\ [Next]_vars => InOrder'
  BY InOrderStep DEF IInv
<1>3. IInv /\ InOrder /\ [Next]_vars => [Monitor!Next]_(Monitor!vars)
  BY NextAbstract
<1> QED BY <1>1, <1>2, <1>3, Always, PTL DEF Spec, ImplementsMonitor, Monitor!Spec
=============================================================================
