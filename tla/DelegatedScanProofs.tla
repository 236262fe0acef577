------------------------ MODULE DelegatedScanProofs ------------------------
(***************************************************************************)
(* Proofs about DelegatedScan, for any number of requests, agents, copies, *)
(* scans and faults: the type invariant, and that no request is lost, that *)
(* it has one outcome, that the retry header is a budget, and that every   *)
(* scan an agent makes is watched.                                         *)
(*                                                                         *)
(* The inductive invariant speaks of one request at a time: a step changes *)
(* what belongs to one request and leaves the others alone.                *)
(***************************************************************************)
EXTENDS DelegatedScan, TLAPS

-----------------------------------------------------------------------------
(* The inductive invariant.                                                *)

\* A request not yet made has left no trace.
Untouched(r) ==
    phase[r] = "idle" =>
        /\ \A k \in Copy : loc[r][k] = "free"
        /\ \A a \in Agents : ~WorksOn(a, r)
        /\ scans[r] = 0
        /\ \A x \in Results : inbox[r][x] = 0 /\ acted[r][x] = 0
        /\ answered[r] = {}
        /\ published[r] = 0
        /\ r \notin gaveUp

\* A delivery that still counts is of a copy the broker takes for held, and it
\* is the only delivery of that copy.
HeldOnce(r) ==
    \A a \in Agents : WorksOn(a, r) /\ worker[a].holds =>
        /\ loc[r][worker[a].k] = "held"
        /\ \A b \in Agents :
              WorksOn(b, r) /\ worker[b].holds /\ worker[b].k = worker[a].k => a = b

\* A handler that has published what it had to say.
Done(a) == worker[a].at \in {"settled", "rejecting"}

\* Somebody has the request: the broker, or a handler that holds its copy.
Backed(r) ==
    \/ \E k \in Copy : loc[r][k] \in {"queued", "expired"}
    \/ \E a \in Agents : WorksOn(a, r) /\ worker[a].holds /\ ~Done(a)

\* NoSilentLoss, without the handlers whose delivery was taken back.
KeptAt(r) ==
    phase[r] = "delegated" /\ r \notin lost => Backed(r) \/ Known(r) # {}

\* Results speak of scans that exist; a scan somebody acted upon is watched or
\* was a push scan that had ended.
TrueAt(r) ==
    /\ \A a \in Agents : WorksOn(a, r) => worker[a].scan <= scans[r]
    /\ \A x \in Known(r) : x <= scans[r]
    /\ \A x \in Results : acted[r][x] > 0 => x \in answered[r]
    /\ \A x \in answered[r] \ {Failure} :
          x \in watched[r] \/ (r \notin PullRequests /\ x \in ended[r])

\* The request is in one place: every handler holds its copy, and one copy is
\* still to be taken, judged or acknowledged.
OnePlace(r) ==
    /\ \A a \in Agents : WorksOn(a, r) => worker[a].holds
    /\ \A j, k \in LiveCopies(r) : j = k

\* The scan is made by the one handler; the request is not taken again.
OneScan(r) ==
    /\ scans[r] <= 1
    /\ scans[r] > 0 =>
          /\ \A k \in Copy : loc[r][k] \notin {"queued", "expired"}
          /\ \A a \in Agents : WorksOn(a, r) =>
                worker[a].at \notin {"received", "working", "refusing"}

\* After a result nobody works on the request, and nobody will.
OneResult(r) ==
    /\ \A x \in Known(r) : inbox[r][x] + acted[r][x] <= 1
    /\ \A x, y \in Known(r) : x = y
    /\ Known(r) # {} =>
          /\ \A k \in Copy : loc[r][k] \notin {"queued", "expired"}
          /\ \A a \in Agents : WorksOn(a, r) => Done(a)

\* What a copy carries in its header and what was published add up.
BudgetAt(r) ==
    /\ published[r] <= Attempts
    /\ \A k \in LiveCopies(r) :
          IF ScanRetries > 0
          THEN retries[r][k] > 0 /\ retries[r][k] + published[r] = ScanRetries + 1
          ELSE retries[r][k] = 0 /\ published[r] = 1
    /\ r \in gaveUp => published[r] = Attempts /\ LiveCopies(r) = {}

\* A scan is followed by a handler that will report it or by a result.
FollowedAt(r) ==
    r \notin lost /\ scans[r] > 0 =>
        \/ \E a \in Agents : WorksOn(a, r) /\ ~Done(a)
        \/ Known(r) # {}

\* What holds as long as nothing was redelivered.
Calm(r) == OnePlace(r) /\ OneScan(r) /\ OneResult(r) /\ BudgetAt(r) /\ FollowedAt(r)

RequestInv(r) ==
    /\ Untouched(r)
    /\ HeldOnce(r)
    /\ KeptAt(r)
    /\ TrueAt(r)
    /\ r \notin ambiguous => Calm(r)

IInv == TypeOK /\ \A r \in Requests : RequestInv(r)

-----------------------------------------------------------------------------
(* The type invariant.                                                     *)

\* A handler that runs has the record of one.
LEMMA BusyAt ==
    ASSUME TypeOK, NEW a \in Agents,
           worker[a].at \in Stages \/ worker[a] # Idle
    PROVE  /\ worker[a] \in Busy /\ worker[a] # Idle
           /\ worker[a].at \in Stages
           /\ worker[a].r \in Requests
           /\ worker[a].k \in Copy
           /\ worker[a].holds \in BOOLEAN
           /\ worker[a].scan \in Results
  <1>1. worker[a] \in Busy \cup {Idle}
    BY DEF TypeOK
  <1>2. Idle.at \notin Stages
    BY DEF Idle, Stages
  <1>3. worker[a] \in Busy
    BY <1>1, <1>2
  <1>4. worker[a].at \in Stages
    BY <1>3 DEF Busy
  <1>5. worker[a] # Idle
    BY <1>2, <1>4
  <1> QED BY <1>3, <1>4, <1>5 DEF Busy

\* The records that the steps of a handler make.
LEMMA BusyUpdate ==
    ASSUME NEW w \in Busy
    PROVE  /\ \A stage \in Stages : [w EXCEPT !.at = stage] \in Busy
           /\ \A x \in Results : [w EXCEPT !.at = "submitted", !.scan = x] \in Busy
           /\ [w EXCEPT !.holds = FALSE] \in Busy
  BY DEF Busy, Stages

\* One entry of a table of tables is given another value.
LEMMA TableUpdate ==
    ASSUME NEW I, NEW J, NEW S, NEW f \in [I -> [J -> S]], NEW i \in I, NEW j \in J,
           NEW v \in S
    PROVE  /\ [f EXCEPT ![i][j] = v] \in [I -> [J -> S]]
           /\ [f EXCEPT ![i][j] = v][i] = [f[i] EXCEPT ![j] = v]
           /\ [f EXCEPT ![i][j] = v][i][j] = v
           /\ \A q \in I : q # i => [f EXCEPT ![i][j] = v][q] = f[q]
           /\ \A l \in J : l # j => [f EXCEPT ![i][j] = v][i][l] = f[i][l]
  OBVIOUS

\* Faults are counted up to their bound.
LEMMA FaultType ==
    ASSUME TypeOK, UNCHANGED faults \/ Fault
    PROVE  faults' \in 0..MaxFaults
  BY DelegationAssumption DEF TypeOK, Fault

\* What a step of handler a to another stage leaves of the handlers.
LEMMA SettleType ==
    ASSUME TypeOK, NEW a \in Agents, worker[a].at \in Stages, NEW stage \in Stages,
           Settle(a, stage)
    PROVE  /\ worker' \in [Agents -> Busy \cup {Idle}]
           /\ worker'[a] = [worker[a] EXCEPT !.at = stage]
           /\ worker'[a] \in Busy
           /\ \A b \in Agents : b # a => worker'[b] = worker[b]
  <1>1. worker[a] \in Busy
    BY BusyAt
  <1>2. [worker[a] EXCEPT !.at = stage] \in Busy
    BY <1>1, BusyUpdate
  <1>3. worker' = [worker EXCEPT ![a] = [worker[a] EXCEPT !.at = stage]]
    BY DEF Settle
  <1> QED BY <1>2, <1>3 DEF TypeOK

\* A result more in the inbox.
LEMMA ResultType ==
    ASSUME TypeOK, NEW r \in Requests, NEW x \in Results, Result(r, x)
    PROVE  /\ inbox' \in [Requests -> [Results -> Nat]]
           /\ inbox'[r] = [inbox[r] EXCEPT ![x] = inbox[r][x] + 1]
           /\ \A q \in Requests : q # r => inbox'[q] = inbox[q]
  <1>1. inbox[r][x] + 1 \in Nat
    BY DEF TypeOK
  <1>2. inbox' = [inbox EXCEPT ![r][x] = inbox[r][x] + 1]
    BY DEF Result
  <1> QED BY <1>1, <1>2, TableUpdate DEF TypeOK

\* The end of a delivery, as the broker sees it.
LEMMA GiveBackType ==
    ASSUME TypeOK, NEW a \in Agents, worker[a] # Idle,
           NEW l \in Locations, GiveBack(a, l)
    PROVE  /\ loc' \in [Requests -> [Copy -> Locations]]
           /\ retries' \in [Requests -> [Copy -> Nat]]
           /\ \A q \in Requests : q # worker[a].r =>
                 loc'[q] = loc[q] /\ retries'[q] = retries[q]
           /\ loc'[worker[a].r] =
                 IF worker[a].holds THEN [loc[worker[a].r] EXCEPT ![worker[a].k] = l]
                                    ELSE loc[worker[a].r]
           /\ \A k \in Copy : k # worker[a].k =>
                 retries'[worker[a].r][k] = retries[worker[a].r][k]
  <1> DEFINE r == worker[a].r
             k == worker[a].k
  <1>1. r \in Requests /\ k \in Copy
    BY BusyAt
  <1>2. loc \in [Requests -> [Copy -> Locations]] /\ retries \in [Requests -> [Copy -> Nat]]
    BY DEF TypeOK
  <1>3. CASE ~worker[a].holds
    <2>1. UNCHANGED <<loc, retries>>
      BY <1>3 DEF GiveBack
    <2> QED BY <1>1, <1>2, <1>3, <2>1
  <1>4. CASE worker[a].holds
    <2>1. /\ loc' = [loc EXCEPT ![r][k] = l]
          /\ retries' = [retries EXCEPT ![r][k] = 0] \/ retries' = retries
      BY <1>4 DEF GiveBack
    <2> HIDE DEF r, k
    <2>2. 0 \in Nat
      OBVIOUS
    <2>3. /\ loc' \in [Requests -> [Copy -> Locations]]
          /\ \A q \in Requests : q # r => loc'[q] = loc[q]
          /\ loc'[r] = [loc[r] EXCEPT ![k] = l]
      BY <1>1, <1>2, <2>1, TableUpdate
    <2>4. /\ retries' \in [Requests -> [Copy -> Nat]]
          /\ \A q \in Requests : q # r => retries'[q] = retries[q]
          /\ \A j \in Copy : j # k => retries'[r][j] = retries[r][j]
      <3>1. CASE retries' = retries
        BY <1>2, <3>1
      <3>2. CASE retries' = [retries EXCEPT ![r][k] = 0]
        BY <1>1, <1>2, <2>2, <3>2, TableUpdate
      <3> QED BY <2>1, <3>1, <3>2
    <2> QED BY <1>4, <2>3, <2>4 DEF r, k
  <1> QED BY <1>3, <1>4

\* A copy queued with a retry count.
LEMMA EnqueueType ==
    ASSUME TypeOK, NEW r \in Requests, NEW n \in Copy, NEW count \in Int,
           Enqueue(r, n, count)
    PROVE  /\ loc' \in [Requests -> [Copy -> Locations]]
           /\ retries' \in [Requests -> [Copy -> Nat]]
           /\ published' \in [Requests -> Nat]
           /\ loc'[r] = [loc[r] EXCEPT ![n] = "queued"]
           /\ retries'[r] = [retries[r] EXCEPT ![n] = AtLeastZero(count)]
           /\ published'[r] = published[r] + 1
           /\ \A q \in Requests : q # r =>
                 /\ loc'[q] = loc[q]
                 /\ retries'[q] = retries[q]
                 /\ published'[q] = published[q]
  <1>1. AtLeastZero(count) \in Nat /\ "queued" \in Locations
    BY DEF AtLeastZero, Locations
  <1>2. /\ loc' = [loc EXCEPT ![r][n] = "queued"]
        /\ retries' = [retries EXCEPT ![r][n] = AtLeastZero(count)]
        /\ published' = [published EXCEPT ![r] = published[r] + 1]
    BY DEF Enqueue
  <1>3. /\ loc \in [Requests -> [Copy -> Locations]]
        /\ retries \in [Requests -> [Copy -> Nat]]
        /\ published \in [Requests -> Nat]
    BY DEF TypeOK
  <1>4. /\ loc' \in [Requests -> [Copy -> Locations]]
        /\ loc'[r] = [loc[r] EXCEPT ![n] = "queued"]
        /\ \A q \in Requests : q # r => loc'[q] = loc[q]
    BY <1>1, <1>2, <1>3, TableUpdate
  <1>5. /\ retries' \in [Requests -> [Copy -> Nat]]
        /\ retries'[r] = [retries[r] EXCEPT ![n] = AtLeastZero(count)]
        /\ \A q \in Requests : q # r => retries'[q] = retries[q]
    BY <1>1, <1>2, <1>3, TableUpdate
  <1>6. /\ published' \in [Requests -> Nat]
        /\ published'[r] = published[r] + 1
        /\ \A q \in Requests : q # r => published'[q] = published[q]
    BY <1>2, <1>3
  <1> QED BY <1>4, <1>5, <1>6

\* A copy moved by the broker or by ResolverTimeoutAgent.
LEMMA MoveType ==
    ASSUME TypeOK, NEW r \in Requests, NEW k \in Copy, NEW l \in Locations,
           loc' = [loc EXCEPT ![r][k] = l]
    PROVE  /\ loc' \in [Requests -> [Copy -> Locations]]
           /\ loc'[r] = [loc[r] EXCEPT ![k] = l]
           /\ \A q \in Requests : q # r => loc'[q] = loc[q]
  BY TableUpdate DEF TypeOK

\* A copy the broker forgets.
LEMMA ForgetType ==
    ASSUME TypeOK, NEW r \in Requests, NEW k \in Copy,
           retries' = [retries EXCEPT ![r][k] = 0]
    PROVE  /\ retries' \in [Requests -> [Copy -> Nat]]
           /\ retries'[r] = [retries[r] EXCEPT ![k] = 0]
           /\ \A q \in Requests : q # r => retries'[q] = retries[q]
  <1>1. 0 \in Nat
    OBVIOUS
  <1> QED BY <1>1, TableUpdate DEF TypeOK

\* Counters of result messages.
LEMMA CountType ==
    ASSUME NEW f \in [Requests -> [Results -> Nat]], NEW r \in Requests,
           NEW x \in Results
    PROVE  /\ [f EXCEPT ![r][x] = f[r][x] + 1] \in [Requests -> [Results -> Nat]]
           /\ [f EXCEPT ![r][x] = f[r][x] + 1][r] = [f[r] EXCEPT ![x] = f[r][x] + 1]
           /\ f[r][x] > 0 =>
                 /\ [f EXCEPT ![r][x] = f[r][x] - 1] \in [Requests -> [Results -> Nat]]
                 /\ [f EXCEPT ![r][x] = f[r][x] - 1][r] =
                        [f[r] EXCEPT ![x] = f[r][x] - 1]
  <1>1. f[r][x] + 1 \in Nat
    OBVIOUS
  <1>2. f[r][x] > 0 => f[r][x] - 1 \in Nat
    OBVIOUS
  <1> QED BY <1>1, <1>2, TableUpdate

\* The steps of the orchestrator.
LEMMA RequestTypes ==
    ASSUME TypeOK, NEW r \in Requests, NEW k \in Copy,
           RequestScan(r, k) \/ RequestRaises(r, k)
    PROVE  TypeOK'
  <1>1. phase' \in [Requests -> Phases]
    BY DEF TypeOK, RequestScan, RequestRaises, Phases
  <1>2. UNCHANGED broker \/ Enqueue(r, k, ScanRetries)
    BY DEF RequestScan, RequestRaises
  <1>3. /\ loc' \in [Requests -> [Copy -> Locations]]
        /\ retries' \in [Requests -> [Copy -> Nat]]
        /\ published' \in [Requests -> Nat]
    <2>1. CASE UNCHANGED broker
      BY <2>1 DEF TypeOK, broker
    <2>2. CASE Enqueue(r, k, ScanRetries)
      BY <2>2, EnqueueType, DelegationAssumption
    <2> QED BY <1>2, <2>1, <2>2
  <1>4. faults' \in 0..MaxFaults
    BY FaultType DEF RequestScan, RequestRaises, history
  <1>5. UNCHANGED <<worker, checkmarx, outcome, gaveUp, lost, ambiguous>>
    BY DEF RequestScan, RequestRaises, history
  <1> QED BY <1>1, <1>3, <1>4, <1>5 DEF TypeOK, checkmarx, outcome

\* The steps of the broker, of Checkmarx One, and of the orchestrator that gets
\* its request back.
LEMMA ExpireTypes ==
    ASSUME TypeOK, NEW r \in Requests, NEW k \in Copy, Expire(r, k)
    PROVE  TypeOK'
  <1>1. loc' \in [Requests -> [Copy -> Locations]]
    BY MoveType DEF Expire, Locations
  <1> QED BY <1>1 DEF Expire, TypeOK, checkmarx, outcome, history

\* A scan agent takes a request.
LEMMA DeliverTypes ==
    ASSUME TypeOK, NEW a \in Agents, NEW r \in Requests, NEW k \in Copy,
           Deliver(a, r, k)
    PROVE  TypeOK'
  <1>1. loc' \in [Requests -> [Copy -> Locations]]
    BY MoveType DEF Deliver, Locations
  <1>2. [at |-> "received", r |-> r, k |-> k, holds |-> TRUE, scan |-> Failure] \in Busy
    BY DelegationAssumption DEF Busy, Stages, Results, Failure
  <1>3. worker' \in [Agents -> Busy \cup {Idle}]
    BY <1>2 DEF Deliver, TypeOK
  <1> QED BY <1>1, <1>3 DEF Deliver, TypeOK, checkmarx, outcome, history

\* Checkmarx One ends a scan.
LEMMA FinishTypes ==
    ASSUME TypeOK, NEW r \in Requests, NEW x \in 1..MaxScans, FinishScan(r, x)
    PROVE  TypeOK'
  <1>1. ended' \in [Requests -> SUBSET (1..MaxScans)]
    BY DEF FinishScan, TypeOK
  <1> QED BY <1>1 DEF FinishScan, TypeOK, broker, outcome, history

\* The broker returns a request that no queue takes.
LEMMA ReturnedTypes ==
    ASSUME TypeOK, NEW r \in Requests, RequestReturned(r)
    PROVE  TypeOK'
  <1>1. faults' \in 0..MaxFaults
    BY FaultType DEF RequestReturned
  <1>2. phase' \in [Requests -> Phases]
    BY DEF RequestReturned, TypeOK, Phases
  <1> QED BY <1>1, <1>2 DEF RequestReturned, TypeOK, broker, checkmarx, outcome

\* The steps that take a delivery back or end it.
LEMMA DeliveryTypes ==
    ASSUME TypeOK, NEW a \in Agents,
           AgentLost(a) \/ AckTimeout(a) \/ ReleaseWedged(a) \/ Acknowledge(a)
    PROVE  TypeOK'
  <1>1. worker[a] # Idle
    BY BusyAt DEF AgentLost, AckTimeout, ReleaseWedged, Acknowledge, Stages
  <1>2. worker[a] \in Busy /\ worker[a].r \in Requests
    BY <1>1, BusyAt
  <1>3. \E l \in Locations : GiveBack(a, l)
    BY DEF AgentLost, AckTimeout, ReleaseWedged, Acknowledge, Locations
  <1>4. /\ loc' \in [Requests -> [Copy -> Locations]]
        /\ retries' \in [Requests -> [Copy -> Nat]]
    BY <1>1, <1>3, GiveBackType
  <1>5. worker' \in [Agents -> Busy \cup {Idle}]
    <2>1. \/ worker' = [worker EXCEPT ![a] = Idle]
          \/ worker' = [worker EXCEPT ![a] = [worker[a] EXCEPT !.holds = FALSE]]
      BY DEF AgentLost, AckTimeout, ReleaseWedged, Acknowledge
    <2>2. [worker[a] EXCEPT !.holds = FALSE] \in Busy
      BY <1>2, BusyUpdate
    <2> QED BY <2>1, <2>2 DEF TypeOK
  <1>6. ambiguous' \in SUBSET Requests
    BY <1>2 DEF AgentLost, AckTimeout, ReleaseWedged, Acknowledge, Doubt, history,
                TypeOK
  <1>7. faults' \in 0..MaxFaults
    BY FaultType DEF AgentLost, AckTimeout, ReleaseWedged, Acknowledge, history
  <1>8. UNCHANGED <<phase, published, checkmarx, outcome, gaveUp, lost>>
    BY DEF AgentLost, AckTimeout, ReleaseWedged, Acknowledge, history
  <1> QED BY <1>4, <1>5, <1>6, <1>7, <1>8 DEF TypeOK, checkmarx, outcome

\* The steps of ResolverRunnerAgent that go to another stage.
LEMMA RunnerTypes ==
    ASSUME TypeOK, NEW a \in Agents,
           \/ ExecutorFails(a) \/ Examine(a) \/ SubmitScan(a) \/ WorkFails(a)
           \/ DeliverResult(a) \/ DeliverRaises(a) \/ RespondFailure(a)
           \/ RespondRaises(a)
    PROVE  TypeOK'
  <1> DEFINE r == worker[a].r
  <1>1. worker[a].at \in Stages
    BY DEF ExecutorFails, Examine, SubmitScan, WorkFails, DeliverResult, DeliverRaises,
           RespondFailure, RespondRaises, Stages
  <1>2. worker[a] \in Busy /\ r \in Requests /\ worker[a].scan \in Results
    BY <1>1, BusyAt
  <1>3. scans' \in [Requests -> Results]
    <2>1. \/ UNCHANGED scans
          \/ scans[r] < MaxScans /\ scans' = [scans EXCEPT ![r] = scans[r] + 1]
      BY DEF ExecutorFails, Examine, SubmitScan, WorkFails, DeliverResult,
             DeliverRaises, RespondFailure, RespondRaises, checkmarx
    <2> HIDE DEF r
    <2>2. scans[r] \in Results
      BY <1>2 DEF TypeOK
    <2>3. scans[r] < MaxScans => scans[r] + 1 \in Results
      BY <2>2, DelegationAssumption DEF Results
    <2>4. CASE UNCHANGED scans
      BY <2>4 DEF TypeOK
    <2>5. CASE scans[r] < MaxScans /\ scans' = [scans EXCEPT ![r] = scans[r] + 1]
      BY <1>2, <2>3, <2>5 DEF TypeOK
    <2> QED BY <2>1, <2>4, <2>5
  <1>4. worker' \in [Agents -> Busy \cup {Idle}]
    <2>1. CASE SubmitScan(a)
      <3>1. scans[r] + 1 \in Results
        BY <1>2, <2>1, DelegationAssumption DEF SubmitScan, TypeOK, Results
      <3>2. worker' = [worker EXCEPT ![a] =
                [worker[a] EXCEPT !.at = "submitted", !.scan = scans[r] + 1]]
        BY <2>1 DEF SubmitScan
      <3>3. [worker[a] EXCEPT !.at = "submitted", !.scan = scans[r] + 1] \in Busy
        BY <1>2, <3>1, BusyUpdate
      <3> QED BY <3>2, <3>3 DEF TypeOK
    <2>2. CASE ~SubmitScan(a)
      <3>1. \E stage \in Stages : Settle(a, stage)
        BY <2>2 DEF ExecutorFails, Examine, WorkFails, DeliverResult, DeliverRaises,
                    RespondFailure, RespondRaises, Stages
      <3> QED BY <1>1, <3>1, SettleType
    <2> QED BY <2>1, <2>2
  <1>5. inbox' \in [Requests -> [Results -> Nat]]
    <2>1. Failure \in Results
      BY DelegationAssumption DEF Failure, Results
    <2>2. UNCHANGED inbox \/ \E x \in Results : Result(r, x)
      BY <1>2, <2>1 DEF ExecutorFails, Examine, SubmitScan, WorkFails, DeliverResult,
             DeliverRaises, RespondFailure, RespondRaises, outcome
    <2> HIDE DEF r
    <2>3. CASE UNCHANGED inbox
      BY <2>3 DEF TypeOK
    <2>4. CASE \E x \in Results : Result(r, x)
      BY <1>2, <2>4, ResultType
    <2> QED BY <2>2, <2>3, <2>4
  <1>6. lost' \in SUBSET Requests /\ ambiguous' \in SUBSET Requests
    BY <1>2 DEF ExecutorFails, Examine, SubmitScan, WorkFails, DeliverResult,
                DeliverRaises, RespondFailure, RespondRaises, Lose, Doubt, history,
                TypeOK
  <1>7. faults' \in 0..MaxFaults
    BY FaultType DEF ExecutorFails, Examine, SubmitScan, WorkFails, DeliverResult,
                     DeliverRaises, RespondFailure, RespondRaises, history
  <1>8. UNCHANGED <<phase, broker, ended, acted, answered, watched, gaveUp>>
    BY DEF ExecutorFails, Examine, SubmitScan, WorkFails, DeliverResult, DeliverRaises,
           RespondFailure, RespondRaises, outcome, checkmarx, history
  <1> QED BY <1>3, <1>4, <1>5, <1>6, <1>7, <1>8 DEF TypeOK, broker

\* The steps of ResolverTimeoutAgent.
LEMMA TimeoutTypes ==
    ASSUME TypeOK, NEW r \in Requests, NEW k \in Copy, NEW n \in Copy,
           \/ Resubmit(r, k, n) \/ GiveUp(r, k) \/ TimeoutRaises(r, k)
           \/ ForgetCopy(r, k) \/ TimeoutAgentLost(r, k)
    PROVE  TypeOK'
  <1>1. {"judged", "queued", "free", "expired"} \subseteq Locations
    BY DEF Locations
  <1>2. loc' \in [Requests -> [Copy -> Locations]]
    <2>1. CASE \E l \in Locations : loc' = [loc EXCEPT ![r][k] = l]
      BY <2>1, MoveType
    <2>2. CASE loc' = [loc EXCEPT ![r][k] = "judged", ![r][n] = "queued"]
      <3> DEFINE judged == [loc EXCEPT ![r][k] = "judged"]
      <3>1. judged \in [Requests -> [Copy -> Locations]]
        BY <1>1, TableUpdate DEF TypeOK
      <3>2. loc' = [judged EXCEPT ![r][n] = "queued"]
        BY <2>2
      <3> HIDE DEF judged
      <3> QED BY <1>1, <3>1, <3>2, TableUpdate
    <2> QED BY <1>1, <2>1, <2>2 DEF Resubmit, GiveUp, TimeoutRaises, ForgetCopy,
                                    TimeoutAgentLost
  <1>3. retries' \in [Requests -> [Copy -> Nat]]
    <2>1. \/ UNCHANGED retries
          \/ retries' = [retries EXCEPT ![r][k] = 0]
          \/ retries' = [retries EXCEPT ![r][n] = AtLeastZero(ResubmitCount(r, k))]
      BY DEF Resubmit, GiveUp, TimeoutRaises, ForgetCopy, TimeoutAgentLost
    <2>2. AtLeastZero(ResubmitCount(r, k)) \in Nat
      BY DEF AtLeastZero, ResubmitCount, TypeOK
    <2>3. CASE retries' = [retries EXCEPT ![r][n] = AtLeastZero(ResubmitCount(r, k))]
      BY <2>2, <2>3, TableUpdate DEF TypeOK
    <2>4. CASE UNCHANGED retries
      BY <2>4 DEF TypeOK
    <2>5. CASE retries' = [retries EXCEPT ![r][k] = 0]
      BY <2>5, ForgetType
    <2> QED BY <2>1, <2>3, <2>4, <2>5
  <1>4. published' \in [Requests -> Nat]
    <2>1. UNCHANGED published \/ published' = [published EXCEPT ![r] = published[r] + 1]
      BY DEF Resubmit, GiveUp, TimeoutRaises, ForgetCopy, TimeoutAgentLost
    <2>2. CASE UNCHANGED published
      BY <2>2 DEF TypeOK
    <2>3. CASE published' = [published EXCEPT ![r] = published[r] + 1]
      BY <2>3 DEF TypeOK
    <2> QED BY <2>1, <2>2, <2>3
  <1>5. inbox' \in [Requests -> [Results -> Nat]]
    <2>1. UNCHANGED inbox \/ Result(r, Failure)
      BY DEF Resubmit, GiveUp, TimeoutRaises, ForgetCopy, TimeoutAgentLost, outcome
    <2>2. Failure \in Results
      BY DelegationAssumption DEF Failure, Results
    <2>3. CASE UNCHANGED inbox
      BY <2>3 DEF TypeOK
    <2>4. CASE Result(r, Failure)
      BY <2>2, <2>4, ResultType
    <2> QED BY <2>1, <2>3, <2>4
  <1>6. /\ gaveUp' \in SUBSET Requests
        /\ lost' \in SUBSET Requests
        /\ ambiguous' \in SUBSET Requests
    BY DEF Resubmit, GiveUp, TimeoutRaises, ForgetCopy, TimeoutAgentLost, Lose, Doubt,
           history, TypeOK
  <1>7. faults' \in 0..MaxFaults
    BY FaultType DEF Resubmit, GiveUp, TimeoutRaises, ForgetCopy, TimeoutAgentLost,
                     history
  <1>8. UNCHANGED <<phase, worker, checkmarx, acted, answered, watched>>
    BY DEF Resubmit, GiveUp, TimeoutRaises, ForgetCopy, TimeoutAgentLost, outcome
  <1> QED BY <1>2, <1>3, <1>4, <1>5, <1>6, <1>7, <1>8 DEF TypeOK, checkmarx

\* The steps of ResolverResultsAgent.
LEMMA ResultsTypes ==
    ASSUME TypeOK, NEW r \in Requests, NEW x \in Results,
           \/ Act(r, x) \/ ActFails(r, x) \/ AckResult(r, x)
           \/ ResultsAgentLost(r, x)
    PROVE  TypeOK'
  <1>1. inbox' \in [Requests -> [Results -> Nat]]
    <2>1. \/ UNCHANGED inbox
          \/ inbox[r][x] > 0 /\ inbox' = [inbox EXCEPT ![r][x] = inbox[r][x] - 1]
          \/ inbox' = [inbox EXCEPT ![r][x] = inbox[r][x] + 1]
      BY DEF Act, ActFails, AckResult, ResultsAgentLost
    <2>2. inbox \in [Requests -> [Results -> Nat]]
      BY DEF TypeOK
    <2>3. CASE UNCHANGED inbox
      BY <2>2, <2>3
    <2>4. CASE inbox[r][x] > 0 /\ inbox' = [inbox EXCEPT ![r][x] = inbox[r][x] - 1]
      BY <2>2, <2>4, CountType
    <2>5. CASE inbox' = [inbox EXCEPT ![r][x] = inbox[r][x] + 1]
      BY <2>2, <2>5, CountType
    <2> QED BY <2>1, <2>3, <2>4, <2>5
  <1>2. acted' \in [Requests -> [Results -> Nat]]
    <2>1. \/ UNCHANGED acted
          \/ acted[r][x] > 0 /\ acted' = [acted EXCEPT ![r][x] = acted[r][x] - 1]
          \/ acted' = [acted EXCEPT ![r][x] = acted[r][x] + 1]
      BY DEF Act, ActFails, AckResult, ResultsAgentLost
    <2>2. acted \in [Requests -> [Results -> Nat]]
      BY DEF TypeOK
    <2>3. CASE UNCHANGED acted
      BY <2>2, <2>3
    <2>4. CASE acted[r][x] > 0 /\ acted' = [acted EXCEPT ![r][x] = acted[r][x] - 1]
      BY <2>2, <2>4, CountType
    <2>5. CASE acted' = [acted EXCEPT ![r][x] = acted[r][x] + 1]
      BY <2>2, <2>5, CountType
    <2> QED BY <2>1, <2>3, <2>4, <2>5
  <1>3. answered' \in [Requests -> SUBSET Results]
    <2>1. UNCHANGED answered \/ answered' = [answered EXCEPT ![r] = answered[r] \cup {x}]
      BY DEF Act, ActFails, AckResult, ResultsAgentLost
    <2>2. CASE UNCHANGED answered
      BY <2>2 DEF TypeOK
    <2>3. CASE answered' = [answered EXCEPT ![r] = answered[r] \cup {x}]
      BY <2>3 DEF TypeOK
    <2> QED BY <2>1, <2>2, <2>3
  <1>4. watched' \in [Requests -> SUBSET (1..MaxScans)]
    <2>1. UNCHANGED watched
          \/ watched' = [watched EXCEPT ![r] = watched[r] \cup Starts(r, x)]
      BY DEF Act, ActFails, AckResult, ResultsAgentLost
    <2>2. Starts(r, x) \subseteq 1..MaxScans
      BY DelegationAssumption DEF Starts, Failure, Results
    <2>3. CASE UNCHANGED watched
      BY <2>3 DEF TypeOK
    <2>4. CASE watched' = [watched EXCEPT ![r] = watched[r] \cup Starts(r, x)]
      BY <2>2, <2>4 DEF TypeOK
    <2> QED BY <2>1, <2>3, <2>4
  <1>5. lost' \in SUBSET Requests /\ ambiguous' \in SUBSET Requests
    BY DEF Act, ActFails, AckResult, ResultsAgentLost, Lose, Doubt, history, TypeOK
  <1>6. faults' \in 0..MaxFaults
    BY FaultType DEF Act, ActFails, AckResult, ResultsAgentLost, history
  <1>7. UNCHANGED <<phase, broker, worker, checkmarx, gaveUp>>
    BY DEF Act, ActFails, AckResult, ResultsAgentLost, history
  <1> QED BY <1>1, <1>2, <1>3, <1>4, <1>5, <1>6, <1>7
          DEF TypeOK, broker, checkmarx

\* Every step keeps the types.
LEMMA TypeStep == TypeOK /\ [Next]_vars => TypeOK'
  <1> SUFFICES ASSUME TypeOK, [Next]_vars
               PROVE  TypeOK'
    OBVIOUS
  <1>1. CASE UNCHANGED vars
    BY <1>1 DEF vars, broker, checkmarx, outcome, history, TypeOK
  <1>2. CASE Next
    BY <1>2, RequestTypes, ReturnedTypes, ExpireTypes, DeliverTypes, FinishTypes,
       DeliveryTypes, RunnerTypes, TimeoutTypes, ResultsTypes
       DEF Next, TimeoutStep, RunnerStep, RunnerFault
  <1> QED BY <1>1, <1>2

-----------------------------------------------------------------------------
(* A step concerns one request.                                            *)

\* Handlers of request q go on as they are.
SameHandlers(q) ==
    \A a \in Agents : WorksOn(a, q) \/ WorksOn(a, q)' => worker'[a] = worker[a]

\* The step leaves request q alone.
LeftAlone(q) ==
    /\ phase'[q] = phase[q]
    /\ loc'[q] = loc[q] /\ retries'[q] = retries[q] /\ published'[q] = published[q]
    /\ scans'[q] = scans[q] /\ ended'[q] = ended[q]
    /\ inbox'[q] = inbox[q] /\ acted'[q] = acted[q]
    /\ answered'[q] = answered[q] /\ watched'[q] = watched[q]
    /\ q \in gaveUp' <=> q \in gaveUp
    /\ q \in lost' <=> q \in lost
    /\ q \in ambiguous' <=> q \in ambiguous
    /\ SameHandlers(q)

\* Then its part of the invariant stays.
LEMMA Frame ==
    ASSUME NEW q \in Requests, RequestInv(q), LeftAlone(q)
    PROVE  RequestInv(q)'
  <1>1. /\ \A a \in Agents : WorksOn(a, q)' <=> WorksOn(a, q)
        /\ \A a \in Agents : WorksOn(a, q) => worker'[a] = worker[a]
    BY DEF LeftAlone, SameHandlers, WorksOn
  <1>2. Known(q)' = Known(q) /\ LiveCopies(q)' = LiveCopies(q)
    BY DEF LeftAlone, Known, LiveCopies
  <1>3. Untouched(q)'
    BY <1>1 DEF LeftAlone, RequestInv, Untouched
  <1>4. HeldOnce(q)'
    BY <1>1 DEF LeftAlone, RequestInv, HeldOnce
  <1>5. KeptAt(q)'
    BY <1>1, <1>2 DEF LeftAlone, RequestInv, KeptAt, Backed, Done
  <1>6. TrueAt(q)'
    BY <1>1, <1>2 DEF LeftAlone, RequestInv, TrueAt
  <1>7. ASSUME q \notin ambiguous
        PROVE  Calm(q)'
    <2>1. OnePlace(q)'
      BY <1>1, <1>2, <1>7 DEF LeftAlone, RequestInv, Calm, OnePlace
    <2>2. OneScan(q)'
      BY <1>1, <1>7 DEF LeftAlone, RequestInv, Calm, OneScan
    <2>3. OneResult(q)'
      BY <1>1, <1>2, <1>7 DEF LeftAlone, RequestInv, Calm, OneResult, Done
    <2>4. BudgetAt(q)'
      BY <1>2, <1>7 DEF LeftAlone, RequestInv, Calm, BudgetAt
    <2>5. FollowedAt(q)'
      BY <1>1, <1>2, <1>7 DEF LeftAlone, RequestInv, Calm, FollowedAt, Done
    <2> QED BY <2>1, <2>2, <2>3, <2>4, <2>5 DEF Calm
  <1> QED BY <1>3, <1>4, <1>5, <1>6, <1>7 DEF LeftAlone, RequestInv

\* A handler of another request changes.
LEMMA OtherHandlers ==
    ASSUME TypeOK, NEW q \in Requests, NEW a \in Agents, NEW w \in Busy \cup {Idle},
           worker' = [worker EXCEPT ![a] = w],
           ~WorksOn(a, q), w = Idle \/ w.r # q
    PROVE  SameHandlers(q)
  BY DEF SameHandlers, WorksOn, TypeOK

\* The steps of the orchestrator.
LEMMA RequestLocal ==
    ASSUME TypeOK, NEW r \in Requests, NEW k \in Copy, NEW q \in Requests, q # r,
           RequestScan(r, k) \/ RequestRaises(r, k)
    PROVE  LeftAlone(q)
  <1>1. phase'[q] = phase[q]
    BY DEF TypeOK, RequestScan, RequestRaises
  <1>2. UNCHANGED broker \/ Enqueue(r, k, ScanRetries)
    BY DEF RequestScan, RequestRaises
  <1>3. loc'[q] = loc[q] /\ retries'[q] = retries[q] /\ published'[q] = published[q]
    BY <1>2, EnqueueType, DelegationAssumption DEF broker
  <1>4. UNCHANGED <<worker, checkmarx, outcome, gaveUp, lost, ambiguous>>
    BY DEF RequestScan, RequestRaises, history
  <1> QED BY <1>1, <1>3, <1>4 DEF LeftAlone, SameHandlers, checkmarx, outcome

\* A returned request ends the request it belongs to.
LEMMA ReturnedLocal ==
    ASSUME TypeOK, NEW r \in Requests, NEW q \in Requests, q # r, RequestReturned(r)
    PROVE  LeftAlone(q)
  BY DEF RequestReturned, TypeOK, LeftAlone, SameHandlers, broker, checkmarx, outcome

\* The steps of the broker and of Checkmarx One.
LEMMA ExpireLocal ==
    ASSUME TypeOK, NEW r \in Requests, NEW k \in Copy, NEW q \in Requests, q # r,
           Expire(r, k)
    PROVE  LeftAlone(q)
  <1>1. loc'[q] = loc[q]
    BY DEF Expire, TypeOK
  <1> QED BY <1>1 DEF Expire, LeftAlone, SameHandlers, checkmarx, outcome, history

\* The agent that takes a request was idle and worked for nobody.
LEMMA DeliverLocal ==
    ASSUME TypeOK, NEW a \in Agents, NEW r \in Requests, NEW k \in Copy,
           NEW q \in Requests, q # r, Deliver(a, r, k)
    PROVE  LeftAlone(q)
  <1>1. loc'[q] = loc[q]
    BY DEF Deliver, TypeOK
  <1>2. SameHandlers(q)
    BY DEF Deliver, TypeOK, SameHandlers, WorksOn
  <1> QED BY <1>1, <1>2 DEF Deliver, LeftAlone, checkmarx, outcome, history

\* A scan belongs to one request.
LEMMA FinishLocal ==
    ASSUME TypeOK, NEW r \in Requests, NEW x \in 1..MaxScans, NEW q \in Requests,
           q # r, FinishScan(r, x)
    PROVE  LeftAlone(q)
  <1>1. ended'[q] = ended[q]
    BY DEF FinishScan, TypeOK
  <1> QED BY <1>1 DEF FinishScan, LeftAlone, SameHandlers, broker, outcome, history

\* The steps that take a delivery back or end it.
LEMMA DeliveryLocal ==
    ASSUME TypeOK, NEW a \in Agents, NEW q \in Requests, q # worker[a].r,
           AgentLost(a) \/ AckTimeout(a) \/ ReleaseWedged(a) \/ Acknowledge(a)
    PROVE  LeftAlone(q)
  <1>1. worker[a] # Idle
    BY BusyAt DEF AgentLost, AckTimeout, ReleaseWedged, Acknowledge, Stages
  <1>2. worker[a] \in Busy
    BY <1>1, BusyAt
  <1>3. \E l \in Locations : GiveBack(a, l)
    BY DEF AgentLost, AckTimeout, ReleaseWedged, Acknowledge, Locations
  <1>4. loc'[q] = loc[q] /\ retries'[q] = retries[q]
    BY <1>1, <1>3, GiveBackType
  <1>5. SameHandlers(q)
    <2>1. \/ worker' = [worker EXCEPT ![a] = Idle]
          \/ worker' = [worker EXCEPT ![a] = [worker[a] EXCEPT !.holds = FALSE]]
      BY DEF AgentLost, AckTimeout, ReleaseWedged, Acknowledge
    <2>2. /\ [worker[a] EXCEPT !.holds = FALSE] \in Busy
          /\ [worker[a] EXCEPT !.holds = FALSE].r # q
      BY <1>2, BusyUpdate DEF Busy
    <2>3. ~WorksOn(a, q)
      BY DEF WorksOn
    <2> QED BY <2>1, <2>2, <2>3, OtherHandlers
  <1>6. q \in ambiguous' <=> q \in ambiguous
    BY DEF AgentLost, AckTimeout, ReleaseWedged, Acknowledge, Doubt, history
  <1>7. UNCHANGED <<phase, published, checkmarx, outcome, gaveUp, lost>>
    BY DEF AgentLost, AckTimeout, ReleaseWedged, Acknowledge, history
  <1> QED BY <1>4, <1>5, <1>6, <1>7 DEF LeftAlone, checkmarx, outcome

\* The steps of ResolverRunnerAgent that go to another stage.
LEMMA RunnerLocal ==
    ASSUME TypeOK, NEW a \in Agents, NEW q \in Requests, q # worker[a].r,
           \/ ExecutorFails(a) \/ Examine(a) \/ SubmitScan(a) \/ WorkFails(a)
           \/ DeliverResult(a) \/ DeliverRaises(a) \/ RespondFailure(a)
           \/ RespondRaises(a)
    PROVE  LeftAlone(q)
  <1> DEFINE r == worker[a].r
  <1>1. worker[a].at \in Stages
    BY DEF ExecutorFails, Examine, SubmitScan, WorkFails, DeliverResult, DeliverRaises,
           RespondFailure, RespondRaises, Stages
  <1>2. worker[a] \in Busy /\ r \in Requests /\ worker[a].scan \in Results
    BY <1>1, BusyAt
  <1>3. scans'[q] = scans[q]
    <2>1. UNCHANGED scans \/ scans' = [scans EXCEPT ![r] = scans[r] + 1]
      BY DEF ExecutorFails, Examine, SubmitScan, WorkFails, DeliverResult,
             DeliverRaises, RespondFailure, RespondRaises, checkmarx
    <2> QED BY <2>1 DEF TypeOK
  <1>4. SameHandlers(q)
    <2>1. /\ \A b \in Agents : b # a => worker'[b] = worker[b]
          /\ worker'[a].r = r
      <3>1. CASE SubmitScan(a)
        <4>1. worker' = [worker EXCEPT ![a] =
                  [worker[a] EXCEPT !.at = "submitted", !.scan = scans[r] + 1]]
          BY <3>1 DEF SubmitScan
        <4> QED BY <1>2, <4>1 DEF TypeOK, Busy
      <3>2. CASE ~SubmitScan(a)
        <4>1. \E stage \in Stages : Settle(a, stage)
          BY <3>2 DEF ExecutorFails, Examine, WorkFails, DeliverResult, DeliverRaises,
                      RespondFailure, RespondRaises, Stages
        <4> QED BY <1>1, <1>2, <4>1, SettleType DEF Busy
      <3> QED BY <3>1, <3>2
    <2> QED BY <2>1 DEF SameHandlers, WorksOn
  <1>5. inbox'[q] = inbox[q]
    <2>1. UNCHANGED inbox \/ \E x \in Results : Result(r, x)
      BY <1>2, DelegationAssumption
         DEF ExecutorFails, Examine, SubmitScan, WorkFails, DeliverResult,
             DeliverRaises, RespondFailure, RespondRaises, outcome, Failure, Results
    <2> QED BY <1>2, <2>1, ResultType
  <1>6. /\ q \in lost' <=> q \in lost
        /\ q \in ambiguous' <=> q \in ambiguous
    BY DEF ExecutorFails, Examine, SubmitScan, WorkFails, DeliverResult,
           DeliverRaises, RespondFailure, RespondRaises, Lose, Doubt, history
  <1>7. UNCHANGED <<phase, broker, ended, acted, answered, watched, gaveUp>>
    BY DEF ExecutorFails, Examine, SubmitScan, WorkFails, DeliverResult, DeliverRaises,
           RespondFailure, RespondRaises, outcome, checkmarx, history
  <1> QED BY <1>3, <1>4, <1>5, <1>6, <1>7 DEF LeftAlone, broker

\* The steps of ResolverTimeoutAgent.
LEMMA TimeoutLocal ==
    ASSUME TypeOK, NEW r \in Requests, NEW k \in Copy, NEW n \in Copy,
           NEW q \in Requests, q # r,
           \/ Resubmit(r, k, n) \/ GiveUp(r, k) \/ TimeoutRaises(r, k)
           \/ ForgetCopy(r, k) \/ TimeoutAgentLost(r, k)
    PROVE  LeftAlone(q)
  <1>1. loc'[q] = loc[q]
    BY DEF Resubmit, GiveUp, TimeoutRaises, ForgetCopy, TimeoutAgentLost, TypeOK
  <1>2. retries'[q] = retries[q]
    BY DEF Resubmit, GiveUp, TimeoutRaises, ForgetCopy, TimeoutAgentLost, TypeOK
  <1>3. published'[q] = published[q]
    BY DEF Resubmit, GiveUp, TimeoutRaises, ForgetCopy, TimeoutAgentLost, TypeOK
  <1>4. inbox'[q] = inbox[q]
    BY DEF Resubmit, GiveUp, TimeoutRaises, ForgetCopy, TimeoutAgentLost, outcome,
           Result, TypeOK
  <1>5. /\ q \in gaveUp' <=> q \in gaveUp
        /\ q \in lost' <=> q \in lost
        /\ q \in ambiguous' <=> q \in ambiguous
    BY DEF Resubmit, GiveUp, TimeoutRaises, ForgetCopy, TimeoutAgentLost, Lose, Doubt,
           history
  <1>6. UNCHANGED <<phase, worker, checkmarx, acted, answered, watched>>
    BY DEF Resubmit, GiveUp, TimeoutRaises, ForgetCopy, TimeoutAgentLost, outcome
  <1> QED BY <1>1, <1>2, <1>3, <1>4, <1>5, <1>6 DEF LeftAlone, SameHandlers, checkmarx

\* The steps of ResolverResultsAgent.
LEMMA ResultsLocal ==
    ASSUME TypeOK, NEW r \in Requests, NEW x \in Results, NEW q \in Requests, q # r,
           \/ Act(r, x) \/ ActFails(r, x) \/ AckResult(r, x)
           \/ ResultsAgentLost(r, x)
    PROVE  LeftAlone(q)
  <1>1. inbox'[q] = inbox[q] /\ acted'[q] = acted[q]
    BY DEF Act, ActFails, AckResult, ResultsAgentLost, TypeOK
  <1>2. answered'[q] = answered[q] /\ watched'[q] = watched[q]
    BY DEF Act, ActFails, AckResult, ResultsAgentLost, TypeOK
  <1>3. /\ q \in lost' <=> q \in lost
        /\ q \in ambiguous' <=> q \in ambiguous
    BY DEF Act, ActFails, AckResult, ResultsAgentLost, Lose, Doubt, history
  <1>4. UNCHANGED <<phase, broker, worker, checkmarx, gaveUp>>
    BY DEF Act, ActFails, AckResult, ResultsAgentLost, history
  <1> QED BY <1>1, <1>2, <1>3, <1>4
          DEF LeftAlone, SameHandlers, broker, checkmarx

-----------------------------------------------------------------------------
(* The steps keep the invariant of the request they concern.               *)

\* A request that has left a trace has been made.
LEMMA Made ==
    ASSUME NEW r \in Requests, RequestInv(r),
           \/ \E k \in Copy : loc[r][k] # "free"
           \/ \E a \in Agents : WorksOn(a, r)
           \/ \E x \in Results : inbox[r][x] # 0 \/ acted[r][x] # 0
           \/ scans[r] # 0
    PROVE  phase[r] # "idle"
  BY DEF RequestInv, Untouched

\* As long as nothing was redelivered, a handler is the only one of its request,
\* and no copy of the request is queued or expired.
LEMMA OnlyHandler ==
    ASSUME TypeOK, NEW r \in Requests, RequestInv(r), r \notin ambiguous,
           NEW a \in Agents, WorksOn(a, r)
    PROVE  /\ worker[a].holds
           /\ loc[r][worker[a].k] = "held"
           /\ \A b \in Agents : WorksOn(b, r) => b = a
           /\ \A k \in Copy : loc[r][k] \notin {"queued", "expired"}
  <1>1. /\ \A b \in Agents : WorksOn(b, r) => worker[b].holds
        /\ \A j, k \in LiveCopies(r) : j = k
    BY DEF RequestInv, Calm, OnePlace
  <1>2. \A b \in Agents : WorksOn(b, r) =>
           worker[b].k \in Copy /\ loc[r][worker[b].k] = "held"
    BY <1>1, BusyAt DEF RequestInv, HeldOnce, WorksOn
  <1>3. worker[a].k \in LiveCopies(r)
    BY <1>2 DEF LiveCopies
  <1>4. \A k \in Copy : loc[r][k] \notin {"queued", "expired"}
    BY <1>1, <1>2, <1>3 DEF LiveCopies
  <1>5. ASSUME NEW b \in Agents, WorksOn(b, r)
        PROVE  b = a
    <2>1. worker[b].k \in LiveCopies(r)
      BY <1>2, <1>5 DEF LiveCopies
    <2>2. worker[b].k = worker[a].k
      BY <1>1, <1>3, <2>1
    <2> QED BY <1>1, <1>5, <2>2 DEF RequestInv, HeldOnce
  <1> QED BY <1>1, <1>2, <1>4, <1>5

\* A queued copy of such a request is its only one, and nobody works on it.
LEMMA OnlyCopy ==
    ASSUME TypeOK, NEW r \in Requests, RequestInv(r), r \notin ambiguous,
           NEW k \in Copy, loc[r][k] \in {"queued", "expired"}
    PROVE  /\ LiveCopies(r) = {k}
           /\ \A a \in Agents : ~WorksOn(a, r)
           /\ scans[r] = 0
           /\ Known(r) = {}
  <1>1. LiveCopies(r) = {k}
    BY DEF RequestInv, Calm, OnePlace, LiveCopies
  <1>2. \A a \in Agents : ~WorksOn(a, r)
    BY OnlyHandler
  <1>3. scans[r] = 0
    BY DEF RequestInv, Calm, OneScan, TypeOK, Results
  <1>4. Known(r) = {}
    BY DEF RequestInv, Calm, OneResult
  <1> QED BY <1>1, <1>2, <1>3, <1>4

\* What stays of a request while neither handlers nor results change.
SameWork(r) ==
    /\ worker' = worker
    /\ scans'[r] = scans[r] /\ ended'[r] = ended[r]
    /\ inbox'[r] = inbox[r] /\ acted'[r] = acted[r]
    /\ answered'[r] = answered[r] /\ watched'[r] = watched[r]

\* Then the facts about handlers and results stay too.
LEMMA SameWorkKeeps ==
    ASSUME NEW r \in Requests, RequestInv(r), SameWork(r)
    PROVE  /\ TrueAt(r)'
           /\ Known(r)' = Known(r)
           /\ \A a \in Agents : WorksOn(a, r)' <=> WorksOn(a, r)
  <1>1. \A a \in Agents : WorksOn(a, r)' <=> WorksOn(a, r)
    BY DEF SameWork, WorksOn
  <1>2. Known(r)' = Known(r)
    BY DEF SameWork, Known
  <1>3. TrueAt(r)'
    BY <1>1, <1>2 DEF SameWork, RequestInv, TrueAt
  <1> QED BY <1>1, <1>2, <1>3

\* Copies move, but not the held ones.
LEMMA CopiesMove ==
    ASSUME TypeOK, NEW r \in Requests, RequestInv(r), SameWork(r),
           phase'[r] = phase[r], phase[r] # "idle",
           \A j \in Copy : loc[r][j] = "held" => loc'[r][j] = "held"
    PROVE  /\ Untouched(r)' /\ HeldOnce(r)' /\ TrueAt(r)'
           /\ Known(r)' = Known(r)
           /\ \A a \in Agents : WorksOn(a, r)' <=> WorksOn(a, r)
  <1>1. \A a \in Agents : WorksOn(a, r) => worker[a].k \in Copy
    BY BusyAt DEF WorksOn
  <1>2. HeldOnce(r)'
    BY <1>1, SameWorkKeeps DEF SameWork, RequestInv, HeldOnce
  <1> QED BY <1>2, SameWorkKeeps DEF Untouched

\* The request stays in one place when its copies move: either no copy appears
\* that has to be taken or judged, or there was one and it is replaced.
LEMMA CopiesMoveCalm ==
    ASSUME TypeOK, NEW r \in Requests, RequestInv(r), SameWork(r), r \notin ambiguous,
           r \in lost => r \in lost',
           \/ /\ LiveCopies(r)' \subseteq LiveCopies(r)
              /\ \A j \in Copy : loc'[r][j] \in {"queued", "expired"} =>
                    loc[r][j] \in {"queued", "expired"}
           \/ /\ \E k \in Copy : loc[r][k] \in {"queued", "expired"}
              /\ \A i, j \in LiveCopies(r)' : i = j
    PROVE  OnePlace(r)' /\ OneScan(r)' /\ OneResult(r)' /\ FollowedAt(r)'
  <1>1. /\ Known(r)' = Known(r)
        /\ \A a \in Agents : WorksOn(a, r)' <=> WorksOn(a, r)
    BY SameWorkKeeps
  <1>2. Calm(r)
    BY DEF RequestInv
  <1>3. OnePlace(r)'
    BY <1>1, <1>2 DEF Calm, OnePlace, SameWork
  <1>4. CASE \E k \in Copy : loc[r][k] \in {"queued", "expired"}
    <2>1. /\ scans'[r] = 0 /\ Known(r)' = {}
          /\ \A a \in Agents : ~WorksOn(a, r)'
      BY <1>1, <1>4, OnlyCopy DEF SameWork
    <2> QED BY <1>3, <2>1 DEF OneScan, OneResult, FollowedAt
  <1>5. CASE \A k \in Copy : loc[r][k] \notin {"queued", "expired"}
    <2>1. \A k \in Copy : loc'[r][k] \notin {"queued", "expired"}
      BY <1>5
    <2>2. OneScan(r)'
      BY <1>1, <1>2, <2>1 DEF Calm, OneScan, SameWork
    <2>3. OneResult(r)'
      BY <1>1, <1>2, <2>1 DEF Calm, OneResult, SameWork, Done
    <2>4. FollowedAt(r)'
      BY <1>1, <1>2 DEF Calm, FollowedAt, SameWork, Done
    <2> QED BY <1>3, <2>2, <2>3, <2>4
  <1> QED BY <1>4, <1>5

\* The broker moves a copy that nobody took to the dead letters.
LEMMA ExpireKeeps ==
    ASSUME TypeOK, NEW r \in Requests, NEW k \in Copy, RequestInv(r), Expire(r, k)
    PROVE  RequestInv(r)'
  <1>1. loc[r][k] = "queued" /\ loc'[r] = [loc[r] EXCEPT ![k] = "expired"]
    BY MoveType DEF Expire, Locations
  <1>2. /\ loc'[r][k] = "expired"
        /\ \A j \in Copy : j # k => loc'[r][j] = loc[r][j]
    BY <1>1 DEF TypeOK
  <1>3. /\ SameWork(r)
        /\ UNCHANGED <<phase, retries, published, gaveUp, lost, ambiguous>>
    BY DEF Expire, SameWork, checkmarx, outcome, history
  <1>4. phase[r] # "idle"
    BY <1>1, Made
  <1>5. Untouched(r)' /\ HeldOnce(r)' /\ TrueAt(r)'
    BY <1>1, <1>2, <1>3, <1>4, CopiesMove
  <1>6. KeptAt(r)'
    BY <1>2 DEF KeptAt, Backed
  <1>7. ASSUME r \notin ambiguous
        PROVE  Calm(r)'
    <2>1. LiveCopies(r)' = {k} /\ LiveCopies(r) = {k}
      BY <1>1, <1>2, <1>7, OnlyCopy DEF LiveCopies
    <2>2. OnePlace(r)' /\ OneScan(r)' /\ OneResult(r)' /\ FollowedAt(r)'
      BY <1>1, <1>3, <1>7, <2>1, CopiesMoveCalm
    <2>3. BudgetAt(r)'
      BY <1>3, <1>7, <2>1 DEF RequestInv, Calm, BudgetAt
    <2> QED BY <2>2, <2>3 DEF Calm
  <1> QED BY <1>3, <1>5, <1>6, <1>7 DEF RequestInv

\* A rejected or judged copy is forgotten.
LEMMA ForgetKeeps ==
    ASSUME TypeOK, NEW r \in Requests, NEW k \in Copy, RequestInv(r), ForgetCopy(r, k)
    PROVE  RequestInv(r)'
  <1>1. /\ loc[r][k] \in {"rejected", "judged"}
        /\ loc'[r] = [loc[r] EXCEPT ![k] = "free"]
        /\ retries'[r] = [retries[r] EXCEPT ![k] = 0]
    BY MoveType, ForgetType DEF ForgetCopy, Locations
  <1>2. /\ loc'[r][k] = "free"
        /\ \A j \in Copy : j # k =>
              loc'[r][j] = loc[r][j] /\ retries'[r][j] = retries[r][j]
    BY <1>1 DEF TypeOK
  <1>3. /\ SameWork(r)
        /\ UNCHANGED <<phase, published, gaveUp, lost, ambiguous>>
    BY DEF ForgetCopy, SameWork, checkmarx, outcome, history
  <1>4. phase[r] # "idle"
    BY <1>1, Made
  <1>5. /\ Untouched(r)' /\ HeldOnce(r)' /\ TrueAt(r)'
        /\ Known(r)' = Known(r)
        /\ \A a \in Agents : WorksOn(a, r)' <=> WorksOn(a, r)
    BY <1>1, <1>2, <1>3, <1>4, CopiesMove
  <1>6. KeptAt(r)'
    BY <1>1, <1>2, <1>3, <1>5 DEF SameWork, RequestInv, KeptAt, Backed, Done
  <1>7. ASSUME r \notin ambiguous
        PROVE  Calm(r)'
    <2>1. LiveCopies(r)' = LiveCopies(r)
      BY <1>1, <1>2 DEF LiveCopies
    <2>2. OnePlace(r)' /\ OneScan(r)' /\ OneResult(r)' /\ FollowedAt(r)'
      BY <1>1, <1>2, <1>3, <1>7, <2>1, CopiesMoveCalm
    <2>3. BudgetAt(r)'
      <3>1. \A j \in LiveCopies(r) : retries'[r][j] = retries[r][j]
        BY <1>1, <1>2 DEF LiveCopies
      <3> QED BY <1>3, <1>7, <2>1, <3>1 DEF RequestInv, Calm, BudgetAt
    <2> QED BY <2>2, <2>3 DEF Calm
  <1> QED BY <1>3, <1>5, <1>6, <1>7 DEF RequestInv

\* The timed-out copy is rejected because a publish raised.
LEMMA TimeoutRaisesKeeps ==
    ASSUME TypeOK, NEW r \in Requests, NEW k \in Copy, RequestInv(r),
           TimeoutRaises(r, k)
    PROVE  RequestInv(r)'
  <1>1. /\ loc[r][k] = "expired"
        /\ loc'[r] = [loc[r] EXCEPT ![k] = "free"]
    BY MoveType DEF TimeoutRaises, Locations
  <1>2. /\ loc'[r][k] = "free"
        /\ \A j \in Copy : j # k => loc'[r][j] = loc[r][j]
    BY <1>1 DEF TypeOK
  <1>3. /\ SameWork(r)
        /\ r \in lost'
        /\ UNCHANGED <<phase, published, gaveUp, ambiguous>>
    BY DEF TimeoutRaises, SameWork, checkmarx, outcome, Lose
  <1>4. phase[r] # "idle"
    BY <1>1, Made
  <1>5. Untouched(r)' /\ HeldOnce(r)' /\ TrueAt(r)'
    BY <1>1, <1>2, <1>3, <1>4, CopiesMove
  <1>6. KeptAt(r)'
    BY <1>3 DEF KeptAt
  <1>7. ASSUME r \notin ambiguous
        PROVE  Calm(r)'
    <2>1. LiveCopies(r)' = {} /\ LiveCopies(r) = {k}
      BY <1>1, <1>2, <1>7, OnlyCopy DEF LiveCopies
    <2>2. OnePlace(r)' /\ OneScan(r)' /\ OneResult(r)' /\ FollowedAt(r)'
      BY <1>1, <1>3, <1>7, <2>1, CopiesMoveCalm
    <2>3. BudgetAt(r)'
      BY <1>3, <1>7, <2>1 DEF RequestInv, Calm, BudgetAt
    <2> QED BY <2>2, <2>3 DEF Calm
  <1> QED BY <1>3, <1>5, <1>6, <1>7 DEF RequestInv

\* ResolverTimeoutAgent dies with a judged copy in its hands.
LEMMA TimeoutAgentLostKeeps ==
    ASSUME TypeOK, NEW r \in Requests, NEW k \in Copy, RequestInv(r),
           TimeoutAgentLost(r, k)
    PROVE  RequestInv(r)'
  <1>1. loc[r][k] = "judged" /\ loc'[r] = [loc[r] EXCEPT ![k] = "expired"]
    BY MoveType DEF TimeoutAgentLost, Locations
  <1>2. /\ loc'[r][k] = "expired"
        /\ \A j \in Copy : j # k => loc'[r][j] = loc[r][j]
    BY <1>1 DEF TypeOK
  <1>3. /\ SameWork(r)
        /\ r \in ambiguous'
        /\ UNCHANGED phase
    BY DEF TimeoutAgentLost, SameWork, checkmarx, outcome, Doubt
  <1>4. phase[r] # "idle"
    BY <1>1, Made
  <1>5. Untouched(r)' /\ HeldOnce(r)' /\ TrueAt(r)'
    BY <1>1, <1>2, <1>3, <1>4, CopiesMove
  <1>6. KeptAt(r)'
    BY <1>2 DEF KeptAt, Backed
  <1> QED BY <1>3, <1>5, <1>6 DEF RequestInv

\* The header of the copy that replaces a timed-out one.
LEMMA BudgetSpent ==
    ASSUME TypeOK, NEW r \in Requests, NEW k \in LiveCopies(r), BudgetAt(r)
    PROVE  /\ ResubmitCount(r, k) \in Int
           /\ ResubmitCount(r, k) > 0 =>
                 /\ AtLeastZero(ResubmitCount(r, k)) > 0
                 /\ AtLeastZero(ResubmitCount(r, k)) + published[r] + 1 = ScanRetries + 1
                 /\ ScanRetries > 0
                 /\ published[r] + 1 <= Attempts
           /\ ResubmitCount(r, k) <= 0 => published[r] = Attempts
  <1>1. k \in Copy /\ retries[r][k] \in Nat /\ published[r] \in Nat
    BY DEF LiveCopies, TypeOK
  <1>2. IF ScanRetries > 0
        THEN retries[r][k] > 0 /\ retries[r][k] + published[r] = ScanRetries + 1
        ELSE retries[r][k] = 0 /\ published[r] = 1
    BY DEF BudgetAt
  <1> QED BY <1>1, <1>2, DelegationAssumption DEF ResubmitCount, AtLeastZero, Attempts

\* The timed-out request is published again, or lost to the broker.
LEMMA ResubmitKeeps ==
    ASSUME TypeOK, NEW r \in Requests, NEW k \in Copy, NEW n \in Copy, RequestInv(r),
           Resubmit(r, k, n)
    PROVE  RequestInv(r)'
  <1>1. loc[r][k] = "expired" /\ ResubmitCount(r, k) > 0
    BY DEF Resubmit
  <1>2. SameWork(r) /\ UNCHANGED <<phase, gaveUp, ambiguous>>
    BY DEF Resubmit, SameWork, checkmarx, outcome
  <1>3. phase[r] # "idle"
    BY <1>1, Made
  <1>4. CASE /\ loc[r][n] = "free"
             /\ loc' = [loc EXCEPT ![r][k] = "judged", ![r][n] = "queued"]
             /\ retries' = [retries EXCEPT
                              ![r][n] = AtLeastZero(ResubmitCount(r, k))]
             /\ published' = [published EXCEPT ![r] = published[r] + 1]
             /\ UNCHANGED <<lost, faults>>
    <2>1. /\ n # k /\ loc'[r][k] = "judged" /\ loc'[r][n] = "queued"
          /\ \A j \in Copy : j # k /\ j # n => loc'[r][j] = loc[r][j]
      BY <1>1, <1>4 DEF TypeOK
    <2>2. retries'[r][n] = AtLeastZero(ResubmitCount(r, k))
      BY <1>4 DEF TypeOK
    <2>3. published'[r] = published[r] + 1
      BY <1>4 DEF TypeOK
    <2>4. Untouched(r)' /\ HeldOnce(r)' /\ TrueAt(r)'
      BY <1>1, <1>2, <1>3, <1>4, <2>1, CopiesMove
    <2>5. KeptAt(r)'
      BY <2>1 DEF KeptAt, Backed
    <2>6. ASSUME r \notin ambiguous
          PROVE  Calm(r)'
      <3>1. LiveCopies(r)' = {n} /\ LiveCopies(r) = {k}
        <4>1. LiveCopies(r) = {k}
          BY <1>1, <2>6, OnlyCopy
        <4> QED BY <2>1, <4>1 DEF LiveCopies
      <3>2. OnePlace(r)' /\ OneScan(r)' /\ OneResult(r)' /\ FollowedAt(r)'
        BY <1>1, <1>2, <1>4, <2>6, <3>1, CopiesMoveCalm
      <3>3. BudgetAt(r)'
        <4>1. BudgetAt(r) /\ k \in LiveCopies(r)
          BY <2>6, <3>1 DEF RequestInv, Calm
        <4>2. /\ retries'[r][n] > 0
              /\ retries'[r][n] + published'[r] = ScanRetries + 1
              /\ ScanRetries > 0
              /\ published'[r] <= Attempts
          <5>1. /\ AtLeastZero(ResubmitCount(r, k)) > 0
                /\ AtLeastZero(ResubmitCount(r, k)) + published[r] + 1
                       = ScanRetries + 1
                /\ ScanRetries > 0
                /\ published[r] + 1 <= Attempts
            BY <1>1, <4>1, BudgetSpent
          <5>2. AtLeastZero(ResubmitCount(r, k)) \in Int /\ published[r] \in Nat
            BY <4>1, BudgetSpent DEF AtLeastZero, TypeOK
          <5> QED BY <2>2, <2>3, <5>1, <5>2
        <4>3. r \notin gaveUp
          BY <4>1 DEF BudgetAt
        <4> QED BY <1>2, <3>1, <4>2, <4>3 DEF BudgetAt
      <3> QED BY <3>2, <3>3 DEF Calm
    <2> QED BY <1>2, <2>4, <2>5, <2>6 DEF RequestInv
  <1>5. CASE /\ loc' = [loc EXCEPT ![r][k] = "judged"]
             /\ Lose(r)
             /\ UNCHANGED <<retries, published>>
    <2>1. /\ loc'[r][k] = "judged"
          /\ \A j \in Copy : j # k => loc'[r][j] = loc[r][j]
      BY <1>5 DEF TypeOK
    <2>2. r \in lost'
      BY <1>5 DEF Lose
    <2>3. Untouched(r)' /\ HeldOnce(r)' /\ TrueAt(r)'
      BY <1>1, <1>2, <1>3, <2>1, CopiesMove
    <2>4. KeptAt(r)'
      BY <2>2 DEF KeptAt
    <2>5. ASSUME r \notin ambiguous
          PROVE  Calm(r)'
      <3>1. LiveCopies(r)' = {} /\ LiveCopies(r) = {k}
        BY <1>1, <2>1, <2>5, OnlyCopy DEF LiveCopies
      <3>2. OnePlace(r)' /\ OneScan(r)' /\ OneResult(r)' /\ FollowedAt(r)'
        BY <1>1, <1>2, <2>2, <2>5, <3>1, CopiesMoveCalm
      <3>3. BudgetAt(r)'
        BY <1>2, <1>5, <2>5, <3>1 DEF RequestInv, Calm, BudgetAt
      <3> QED BY <3>2, <3>3 DEF Calm
    <2> QED BY <1>2, <2>3, <2>4, <2>5 DEF RequestInv
  <1> QED BY <1>4, <1>5 DEF Resubmit

\* A result more is known; if it is the first, there is one message of it.
LEMMA FirstResult ==
    ASSUME TypeOK, NEW r \in Requests, NEW x \in Results, RequestInv(r),
           Result(r, x), acted'[r] = acted[r], answered'[r] = answered[r]
    PROVE  /\ Known(r)' = Known(r) \cup {x}
           /\ inbox'[r][x] = inbox[r][x] + 1
           /\ Known(r) = {} => inbox'[r][x] + acted'[r][x] <= 1
  <1>1. inbox'[r] = [inbox[r] EXCEPT ![x] = inbox[r][x] + 1] /\ inbox[r] \in [Results -> Nat]
    BY ResultType DEF TypeOK
  <1>2. /\ inbox'[r][x] = inbox[r][x] + 1
        /\ \A y \in Results : y # x => inbox'[r][y] = inbox[r][y]
        /\ inbox[r][x] \in Nat
    BY <1>1
  <1>3. Known(r)' = Known(r) \cup {x}
    BY <1>2 DEF Known
  <1>4. ASSUME Known(r) = {}
        PROVE  inbox'[r][x] + acted'[r][x] <= 1
    <2>1. ~(inbox[r][x] > 0) /\ x \notin answered[r]
      BY <1>4 DEF Known
    <2>2. inbox[r][x] = 0
      BY <1>2, <2>1
    <2>3. ~(acted[r][x] > 0) /\ acted[r][x] \in Nat
      BY <2>1 DEF RequestInv, TrueAt, TypeOK
    <2> QED BY <1>2, <2>2, <2>3
  <1> QED BY <1>2, <1>3, <1>4

\* The timed-out request has used up its retries: it fails.
LEMMA GiveUpKeeps ==
    ASSUME TypeOK, NEW r \in Requests, NEW k \in Copy, RequestInv(r), GiveUp(r, k)
    PROVE  RequestInv(r)'
  <1>1. /\ loc[r][k] = "expired" /\ ResubmitCount(r, k) <= 0
        /\ loc'[r] = [loc[r] EXCEPT ![k] = "judged"]
    BY MoveType DEF GiveUp, Locations
  <1>2. /\ loc'[r][k] = "judged"
        /\ \A j \in Copy : j # k => loc'[r][j] = loc[r][j]
    BY <1>1 DEF TypeOK
  <1>3. /\ UNCHANGED <<phase, retries, published, worker, checkmarx, acted, answered,
                       watched, ambiguous>>
        /\ r \in gaveUp'
        /\ r \in lost => r \in lost'
    BY DEF GiveUp, Lose
  <1>4. phase[r] # "idle"
    BY <1>1, Made
  <1>5. \A a \in Agents : WorksOn(a, r)' <=> WorksOn(a, r)
    BY <1>3 DEF WorksOn
  <1>6. Failure \in Results
    BY DelegationAssumption DEF Failure, Results
  <1>7. \/ Result(r, Failure) /\ Known(r)' = Known(r) \cup {Failure}
        \/ r \in lost' /\ UNCHANGED inbox /\ Known(r)' = Known(r)
    <2>1. CASE Result(r, Failure)
      BY <1>3, <1>6, <2>1, FirstResult
    <2>2. CASE Lose(r) /\ UNCHANGED inbox
      BY <1>3, <2>2 DEF Known, Lose
    <2> QED BY <2>1, <2>2 DEF GiveUp
  <1>8. Untouched(r)'
    BY <1>3, <1>4 DEF Untouched
  <1>9. HeldOnce(r)'
    <2>1. \A a \in Agents : WorksOn(a, r) => worker[a].k \in Copy
      BY BusyAt DEF WorksOn
    <2> QED BY <1>1, <1>2, <1>3, <1>5, <2>1 DEF RequestInv, HeldOnce
  <1>10. KeptAt(r)'
    BY <1>7 DEF KeptAt
  <1>11. TrueAt(r)'
    <2>1. \A x \in Known(r)' : x <= scans[r]
      BY <1>7 DEF RequestInv, TrueAt, Failure, TypeOK, Results
    <2> QED BY <1>3, <1>5, <2>1 DEF RequestInv, TrueAt, checkmarx
  <1>12. ASSUME r \notin ambiguous
         PROVE  Calm(r)'
    <2>1. /\ LiveCopies(r) = {k}
          /\ \A a \in Agents : ~WorksOn(a, r)
          /\ scans[r] = 0
          /\ Known(r) = {}
      BY <1>1, <1>12, OnlyCopy
    <2>2. LiveCopies(r)' = {}
      BY <1>2, <2>1 DEF LiveCopies
    <2>3. OnePlace(r)'
      BY <1>5, <2>1, <2>2 DEF OnePlace
    <2>4. OneScan(r)' /\ FollowedAt(r)'
      BY <1>3, <2>1 DEF OneScan, FollowedAt, checkmarx
    <2>5. OneResult(r)'
      <3>1. \A j \in Copy : loc'[r][j] \notin {"queued", "expired"}
        BY <2>2 DEF LiveCopies
      <3>2. \A x \in Known(r)' : x = Failure /\ inbox'[r][x] + acted'[r][x] <= 1
        BY <1>3, <1>6, <1>7, <2>1, FirstResult
      <3> QED BY <1>5, <2>1, <3>1, <3>2 DEF OneResult
    <2>6. BudgetAt(r)'
      <3>1. BudgetAt(r) /\ k \in LiveCopies(r)
        BY <1>12, <2>1 DEF RequestInv, Calm
      <3>2. published[r] = Attempts
        BY <1>1, <3>1, BudgetSpent
      <3> QED BY <1>3, <2>2, <3>1, <3>2 DEF BudgetAt
    <2> QED BY <2>3, <2>4, <2>5, <2>6 DEF Calm
  <1> QED BY <1>3, <1>8, <1>9, <1>10, <1>11, <1>12 DEF RequestInv

\* The request is published, or may have been.
LEMMA RequestKeeps ==
    ASSUME TypeOK, NEW r \in Requests, NEW k \in Copy, RequestInv(r),
           RequestScan(r, k) \/ RequestRaises(r, k)
    PROVE  RequestInv(r)'
  <1>1. /\ phase[r] = "idle" /\ phase'[r] # "idle"
        /\ phase'[r] = "delegated" => Enqueue(r, k, ScanRetries)
        /\ Enqueue(r, k, ScanRetries) \/ UNCHANGED broker
    BY DEF RequestScan, RequestRaises, TypeOK
  <1>2. SameWork(r) /\ UNCHANGED <<gaveUp, lost, ambiguous>>
    BY DEF RequestScan, RequestRaises, SameWork, checkmarx, outcome, history
  <1>3. /\ \A j \in Copy : loc[r][j] = "free"
        /\ \A a \in Agents : ~WorksOn(a, r)
        /\ scans[r] = 0
        /\ \A x \in Results : inbox[r][x] = 0
        /\ answered[r] = {}
        /\ published[r] = 0
        /\ r \notin gaveUp
    BY <1>1 DEF RequestInv, Untouched
  <1>4. Known(r)' = {} /\ TrueAt(r)' /\ \A a \in Agents : ~WorksOn(a, r)'
    BY <1>2, <1>3, SameWorkKeeps DEF Known
  <1>5. \/ UNCHANGED broker
        \/ /\ loc'[r][k] = "queued"
           /\ \A j \in Copy : j # k => loc'[r][j] = "free"
           /\ retries'[r][k] = AtLeastZero(ScanRetries)
           /\ published'[r] = 1
    <2>1. CASE Enqueue(r, k, ScanRetries)
      <3>1. /\ loc'[r] = [loc[r] EXCEPT ![k] = "queued"]
            /\ retries'[r] = [retries[r] EXCEPT ![k] = AtLeastZero(ScanRetries)]
            /\ published'[r] = published[r] + 1
        BY <2>1, EnqueueType, DelegationAssumption
      <3> QED BY <1>3, <3>1 DEF TypeOK
    <2> QED BY <1>1, <2>1
  <1>6. Untouched(r)' /\ HeldOnce(r)'
    BY <1>1, <1>4 DEF Untouched, HeldOnce
  <1>7. KeptAt(r)'
    <2>1. Enqueue(r, k, ScanRetries) => loc'[r] = [loc[r] EXCEPT ![k] = "queued"]
      BY EnqueueType, DelegationAssumption
    <2>2. phase'[r] = "delegated" => loc'[r][k] = "queued"
      BY <1>1, <2>1 DEF TypeOK
    <2> QED BY <2>2 DEF KeptAt, Backed
  <1>8. ASSUME r \notin ambiguous
        PROVE  Calm(r)'
    <2>1. LiveCopies(r)' = {} \/ LiveCopies(r)' = {k}
      BY <1>3, <1>5 DEF LiveCopies, broker
    <2>2. OnePlace(r)'
      BY <1>4, <2>1 DEF OnePlace
    <2>3. OneScan(r)' /\ FollowedAt(r)' /\ OneResult(r)'
      BY <1>2, <1>3, <1>4 DEF SameWork, OneScan, FollowedAt, OneResult
    <2>4. BudgetAt(r)'
      <3>1. Attempts >= 1 /\ r \notin gaveUp'
        BY <1>2, <1>3, DelegationAssumption DEF Attempts
      <3>2. CASE UNCHANGED broker
        <4>1. LiveCopies(r)' = {} /\ published'[r] = 0
          BY <1>3, <3>2 DEF LiveCopies, broker
        <4> QED BY <3>1, <4>1, DelegationAssumption DEF BudgetAt, Attempts
      <3>3. CASE /\ retries'[r][k] = AtLeastZero(ScanRetries)
                 /\ published'[r] = 1
        BY <2>1, <3>1, <3>3, DelegationAssumption DEF BudgetAt, AtLeastZero, Attempts
      <3> QED BY <1>5, <3>2, <3>3
    <2> QED BY <2>2, <2>3, <2>4 DEF Calm
  <1> QED BY <1>2, <1>4, <1>6, <1>7, <1>8 DEF RequestInv

\* The broker does not take the request.
LEMMA ReturnedKeeps ==
    ASSUME TypeOK, NEW r \in Requests, RequestInv(r), RequestReturned(r)
    PROVE  RequestInv(r)'
  <1>1. /\ phase'[r] = "cloned"
        /\ UNCHANGED <<broker, worker, checkmarx, outcome, gaveUp, lost, ambiguous>>
    BY DEF RequestReturned, TypeOK
  <1>2. Known(r)' = Known(r) /\ LiveCopies(r)' = LiveCopies(r)
    BY <1>1 DEF Known, LiveCopies, broker, outcome
  <1>3. \A a \in Agents : WorksOn(a, r)' <=> WorksOn(a, r)
    BY <1>1 DEF WorksOn
  <1>4. Untouched(r)' /\ KeptAt(r)'
    BY <1>1 DEF Untouched, KeptAt
  <1>5. HeldOnce(r)' /\ TrueAt(r)'
    BY <1>1, <1>2, <1>3 DEF RequestInv, HeldOnce, TrueAt, broker, checkmarx, outcome
  <1>6. ASSUME r \notin ambiguous
        PROVE  Calm(r)'
    BY <1>1, <1>2, <1>3, <1>6 DEF RequestInv, Calm, OnePlace, OneScan, OneResult,
       BudgetAt, FollowedAt, Done, broker, checkmarx, outcome
  <1> QED BY <1>1, <1>4, <1>5, <1>6 DEF RequestInv

\* A scan ends in Checkmarx One.
LEMMA FinishKeeps ==
    ASSUME TypeOK, NEW r \in Requests, NEW x \in 1..MaxScans, RequestInv(r),
           FinishScan(r, x)
    PROVE  RequestInv(r)'
  <1>1. /\ ended[r] \subseteq ended'[r]
        /\ UNCHANGED <<phase, broker, worker, scans, outcome, history>>
    BY DEF FinishScan, TypeOK
  <1>2. Known(r)' = Known(r) /\ LiveCopies(r)' = LiveCopies(r)
    BY <1>1 DEF Known, LiveCopies, broker, outcome
  <1>3. \A a \in Agents : WorksOn(a, r)' <=> WorksOn(a, r)
    BY <1>1 DEF WorksOn
  <1>4. Untouched(r)' /\ KeptAt(r)'
    BY <1>1, <1>2, <1>3 DEF RequestInv, Untouched, KeptAt, Backed, Done, broker, outcome,
                            history
  <1>5. HeldOnce(r)' /\ TrueAt(r)'
    BY <1>1, <1>2, <1>3 DEF RequestInv, HeldOnce, TrueAt, broker, outcome
  <1>6. ASSUME r \notin ambiguous
        PROVE  Calm(r)'
    BY <1>1, <1>2, <1>3, <1>6 DEF RequestInv, Calm, OnePlace, OneScan, OneResult,
       BudgetAt, FollowedAt, Done, broker, outcome, history
  <1> QED BY <1>1, <1>4, <1>5, <1>6 DEF RequestInv, history

\* An agent takes a queued copy.
LEMMA DeliverKeeps ==
    ASSUME TypeOK, NEW a \in Agents, NEW r \in Requests, NEW k \in Copy,
           RequestInv(r), Deliver(a, r, k)
    PROVE  RequestInv(r)'
  <1>1. /\ loc[r][k] = "queued" /\ worker[a] = Idle
        /\ loc'[r] = [loc[r] EXCEPT ![k] = "held"]
    BY MoveType DEF Deliver, Locations
  <1>2. /\ loc'[r][k] = "held"
        /\ \A j \in Copy : j # k => loc'[r][j] = loc[r][j]
    BY <1>1 DEF TypeOK
  <1>3. /\ worker'[a] = [at |-> "received", r |-> r, k |-> k, holds |-> TRUE,
                         scan |-> Failure]
        /\ \A b \in Agents : b # a => worker'[b] = worker[b]
    BY DEF Deliver, TypeOK
  <1>4. /\ WorksOn(a, r)' /\ ~WorksOn(a, r)
        /\ \A b \in Agents : b # a => (WorksOn(b, r)' <=> WorksOn(b, r))
    <2>1. worker'[a] # Idle
      <3>1. worker'[a].at # Idle.at
        BY <1>3 DEF Idle
      <3> QED BY <3>1
    <2> QED BY <1>1, <1>3, <2>1 DEF WorksOn
  <1>5. UNCHANGED <<phase, retries, published, checkmarx, outcome, history>>
    BY DEF Deliver
  <1>6. Known(r)' = Known(r)
    BY <1>5 DEF Known, outcome
  <1>7. phase[r] # "idle"
    BY <1>1, Made
  <1>8. \A b \in Agents : WorksOn(b, r) => worker[b].k \in Copy
    BY BusyAt DEF WorksOn
  <1>9. Untouched(r)'
    BY <1>5, <1>7 DEF Untouched
  <1>10. HeldOnce(r)'
    <2>1. \A b \in Agents : WorksOn(b, r) /\ worker[b].holds => worker[b].k # k
      BY <1>1, <1>8 DEF RequestInv, HeldOnce
    <2> QED BY <1>2, <1>3, <1>4, <1>8, <2>1 DEF RequestInv, HeldOnce
  <1>11. KeptAt(r)'
    <2>1. WorksOn(a, r)' /\ worker'[a].holds /\ ~Done(a)'
      BY <1>3, <1>4 DEF Done
    <2> QED BY <2>1 DEF KeptAt, Backed
  <1>12. TrueAt(r)'
    <2>1. worker'[a].scan <= scans[r]
      BY <1>3 DEF Failure, TypeOK, Results
    <2> QED BY <1>3, <1>4, <1>5, <1>6, <2>1
            DEF RequestInv, TrueAt, checkmarx, outcome
  <1>13. ASSUME r \notin ambiguous
         PROVE  Calm(r)'
    <2>1. /\ LiveCopies(r) = {k}
          /\ \A b \in Agents : ~WorksOn(b, r)
          /\ scans[r] = 0
          /\ Known(r) = {}
      BY <1>1, <1>13, OnlyCopy
    <2>2. LiveCopies(r)' = {k}
      BY <1>2, <2>1 DEF LiveCopies
    <2>3. OnePlace(r)'
      BY <1>3, <1>4, <2>1, <2>2 DEF OnePlace
    <2>4. OneScan(r)' /\ FollowedAt(r)' /\ OneResult(r)'
      BY <1>5, <1>6, <2>1 DEF OneScan, FollowedAt, OneResult, checkmarx
    <2>5. BudgetAt(r)'
      BY <1>5, <1>13, <2>1, <2>2 DEF RequestInv, Calm, BudgetAt, history
    <2> QED BY <2>3, <2>4, <2>5 DEF Calm
  <1> QED BY <1>5, <1>9, <1>10, <1>11, <1>12, <1>13 DEF RequestInv, history

\* A step that deals with results only: none appears, and none vanishes unless
\* the loss is recorded.
LEMMA DealWithResults ==
    ASSUME TypeOK, TypeOK', NEW r \in Requests, RequestInv(r),
           UNCHANGED <<phase, broker, worker, checkmarx, gaveUp>>,
           phase[r] # "idle", TrueAt(r)',
           Known(r)' \subseteq Known(r),
           r \in lost => r \in lost',
           r \notin lost' => Known(r)' = Known(r),
           r \in ambiguous => r \in ambiguous',
           r \notin ambiguous' =>
               \A x \in Known(r)' : inbox'[r][x] + acted'[r][x] <= inbox[r][x] + acted[r][x]
    PROVE  RequestInv(r)'
  <1>1. LiveCopies(r)' = LiveCopies(r)
    BY DEF LiveCopies, broker
  <1>2. \A a \in Agents : WorksOn(a, r)' <=> WorksOn(a, r)
    BY DEF WorksOn
  <1>3. Untouched(r)'
    BY DEF Untouched
  <1>4. HeldOnce(r)'
    BY <1>2 DEF RequestInv, HeldOnce, broker
  <1>5. KeptAt(r)'
    BY <1>2 DEF RequestInv, KeptAt, Backed, Done, broker
  <1>6. ASSUME r \notin ambiguous'
        PROVE  Calm(r)'
    <2>1. Calm(r)
      BY <1>6 DEF RequestInv
    <2>2. OnePlace(r)' /\ OneScan(r)' /\ BudgetAt(r)'
      BY <1>1, <1>2, <2>1 DEF Calm, OnePlace, OneScan, BudgetAt, broker, checkmarx
    <2>3. OneResult(r)'
      <3>1. \A x \in Known(r)' : inbox'[r][x] + acted'[r][x] <= 1
        <4> SUFFICES ASSUME NEW x \in Known(r)'
                     PROVE  inbox'[r][x] + acted'[r][x] <= 1
          OBVIOUS
        <4>1. inbox[r][x] + acted[r][x] <= 1
          BY <2>1 DEF Calm, OneResult
        <4>2. inbox'[r][x] + acted'[r][x] <= inbox[r][x] + acted[r][x]
          BY <1>6
        <4>3. x \in Results
          BY DEF Known
        <4>4. inbox[r][x] \in Nat /\ acted[r][x] \in Nat
          BY <4>3 DEF TypeOK
        <4>5. inbox'[r][x] \in Nat /\ acted'[r][x] \in Nat
          BY <4>3 DEF TypeOK
        <4> QED BY <4>1, <4>2, <4>4, <4>5
      <3> QED BY <1>2, <2>1, <3>1 DEF Calm, OneResult, Done, broker
    <2>4. FollowedAt(r)'
      BY <1>2, <2>1 DEF Calm, FollowedAt, Done, checkmarx
    <2> QED BY <2>2, <2>3, <2>4 DEF Calm
  <1> QED BY <1>3, <1>4, <1>5, <1>6 DEF RequestInv

\* Result x is acted upon.
LEMMA ActKeeps ==
    ASSUME TypeOK, TypeOK', NEW r \in Requests, NEW x \in Results, RequestInv(r),
           Act(r, x)
    PROVE  RequestInv(r)'
  <1>1. inbox[r][x] > 0 /\ inbox[r][x] \in Nat /\ acted[r][x] \in Nat
    BY DEF Act, TypeOK
  <1>2. /\ inbox'[r][x] = inbox[r][x] - 1 /\ acted'[r][x] = acted[r][x] + 1
        /\ \A y \in Results : y # x =>
              inbox'[r][y] = inbox[r][y] /\ acted'[r][y] = acted[r][y]
    BY <1>1 DEF Act, TypeOK
  <1>3. /\ answered'[r] = answered[r] \cup {x}
        /\ watched'[r] = watched[r] \cup Starts(r, x)
    BY DEF Act, TypeOK
  <1>4. /\ UNCHANGED <<phase, broker, worker, checkmarx, gaveUp>>
        /\ UNCHANGED <<lost, ambiguous>>
    BY DEF Act, history
  <1>5. phase[r] # "idle"
    BY <1>1, Made
  <1>6. Known(r)' = Known(r)
    BY <1>1, <1>2, <1>3 DEF Known
  <1>7. TrueAt(r)'
    <2>1. \A a \in Agents : WorksOn(a, r)' <=> WorksOn(a, r)
      BY <1>4 DEF WorksOn
    <2>2. \A y \in Results : acted'[r][y] > 0 => y \in answered'[r]
      BY <1>2, <1>3 DEF RequestInv, TrueAt
    <2>3. \A y \in answered'[r] \ {Failure} :
             y \in watched'[r] \/ (r \notin PullRequests /\ y \in ended'[r])
      BY <1>3, <1>4 DEF RequestInv, TrueAt, Starts, checkmarx
    <2> QED BY <1>4, <1>6, <2>1, <2>2, <2>3 DEF RequestInv, TrueAt, checkmarx
  <1>8. \A y \in Known(r)' : inbox'[r][y] + acted'[r][y] <= inbox[r][y] + acted[r][y]
    <2>1. \A y \in Results : inbox[r][y] \in Nat /\ acted[r][y] \in Nat
      BY DEF TypeOK
    <2> QED BY <1>1, <1>2, <2>1 DEF Known
  <1> QED BY <1>4, <1>5, <1>6, <1>7, <1>8, DealWithResults

\* Result x is dropped after an exception.
LEMMA ActFailsKeeps ==
    ASSUME TypeOK, TypeOK', NEW r \in Requests, NEW x \in Results, RequestInv(r),
           ActFails(r, x)
    PROVE  RequestInv(r)'
  <1>1. inbox[r][x] > 0 /\ inbox[r][x] \in Nat
    BY DEF ActFails, TypeOK
  <1>2. /\ inbox'[r][x] = inbox[r][x] - 1 /\ acted' = acted
        /\ \A y \in Results : y # x => inbox'[r][y] = inbox[r][y]
    BY <1>1 DEF ActFails, TypeOK
  <1>3. \/ /\ answered'[r] = answered[r] \cup {x}
           /\ watched'[r] = watched[r] \cup Starts(r, x)
        \/ answered'[r] = answered[r] /\ watched'[r] = watched[r]
    BY DEF ActFails, TypeOK
  <1>4. /\ UNCHANGED <<phase, broker, worker, checkmarx, gaveUp>>
        /\ r \in lost' /\ UNCHANGED ambiguous
    BY DEF ActFails, Lose
  <1>5. phase[r] # "idle"
    BY <1>1, Made
  <1>6. Known(r)' \subseteq Known(r)
    BY <1>1, <1>2, <1>3 DEF Known
  <1>7. TrueAt(r)'
    <2>1. \A a \in Agents : WorksOn(a, r)' <=> WorksOn(a, r)
      BY <1>4 DEF WorksOn
    <2>2. \A y \in Results : acted'[r][y] > 0 => y \in answered'[r]
      BY <1>2, <1>3 DEF RequestInv, TrueAt
    <2>3. \A y \in answered'[r] \ {Failure} :
             y \in watched'[r] \/ (r \notin PullRequests /\ y \in ended'[r])
      BY <1>3, <1>4 DEF RequestInv, TrueAt, Starts, checkmarx
    <2> QED BY <1>4, <1>6, <2>1, <2>2, <2>3 DEF RequestInv, TrueAt, checkmarx
  <1>8. \A y \in Known(r)' : inbox'[r][y] + acted'[r][y] <= inbox[r][y] + acted[r][y]
    <2>1. \A y \in Results : inbox[r][y] \in Nat /\ acted[r][y] \in Nat
      BY DEF TypeOK
    <2> QED BY <1>1, <1>2, <2>1 DEF Known
  <1> QED BY <1>4, <1>5, <1>6, <1>7, <1>8, DealWithResults

\* Result x is acknowledged, or delivered again.
LEMMA AckResultKeeps ==
    ASSUME TypeOK, TypeOK', NEW r \in Requests, NEW x \in Results, RequestInv(r),
           AckResult(r, x) \/ ResultsAgentLost(r, x)
    PROVE  RequestInv(r)'
  <1>1. acted[r][x] > 0 /\ inbox[r][x] \in Nat /\ acted[r][x] \in Nat
    BY DEF AckResult, ResultsAgentLost, TypeOK
  <1>2. /\ acted'[r][x] = acted[r][x] - 1
        /\ \A y \in Results : y # x => acted'[r][y] = acted[r][y]
    BY <1>1 DEF AckResult, ResultsAgentLost, TypeOK
  <1>3. /\ \/ inbox' = inbox
           \/ inbox'[r][x] = inbox[r][x] + 1 /\ r \in ambiguous'
        /\ \A y \in Results : y # x => inbox'[r][y] = inbox[r][y]
    <2>1. CASE AckResult(r, x)
      BY <2>1 DEF AckResult
    <2>2. CASE ResultsAgentLost(r, x)
      <3>1. r \in ambiguous'
        BY <2>2 DEF ResultsAgentLost, Doubt
      <3>2. inbox'[r][x] = inbox[r][x] + 1
        BY <2>2 DEF ResultsAgentLost, TypeOK
      <3>3. \A y \in Results : y # x => inbox'[r][y] = inbox[r][y]
        BY <2>2 DEF ResultsAgentLost, TypeOK
      <3> QED BY <3>1, <3>2, <3>3
    <2> QED BY <2>1, <2>2
  <1>4. /\ UNCHANGED <<phase, broker, worker, checkmarx, gaveUp>>
        /\ UNCHANGED <<answered, watched, lost>>
        /\ r \in ambiguous => r \in ambiguous'
    BY DEF AckResult, ResultsAgentLost, Doubt, history
  <1>5. phase[r] # "idle"
    BY <1>1, Made
  <1>6. x \in answered[r]
    BY <1>1 DEF RequestInv, TrueAt
  <1>7. Known(r)' = Known(r)
    BY <1>3, <1>4, <1>6 DEF Known
  <1>8. TrueAt(r)'
    <2>1. \A a \in Agents : WorksOn(a, r)' <=> WorksOn(a, r)
      BY <1>4 DEF WorksOn
    <2>2. \A y \in Results : acted'[r][y] > 0 => y \in answered'[r]
      BY <1>2, <1>4, <1>6 DEF RequestInv, TrueAt
    <2> QED BY <1>4, <1>7, <2>1, <2>2 DEF RequestInv, TrueAt, checkmarx
  <1>9. r \notin ambiguous' =>
           \A y \in Known(r)' : inbox'[r][y] + acted'[r][y] <= inbox[r][y] + acted[r][y]
    <2>1. \A y \in Results : inbox[r][y] \in Nat /\ acted[r][y] \in Nat
      BY DEF TypeOK
    <2> QED BY <1>1, <1>2, <1>3, <2>1 DEF Known
  <1> QED BY <1>4, <1>5, <1>7, <1>8, <1>9, DealWithResults

\* The stages in which a handler has not yet tried to create the scan.
Early == {"received", "working", "refusing"}

\* Handler a of r goes on with the same delivery; the other handlers stand still.
HandlerMoves(a, r) ==
    /\ WorksOn(a, r) /\ WorksOn(a, r)'
    /\ worker'[a].k = worker[a].k
    /\ worker'[a].holds = worker[a].holds
    /\ \A b \in Agents : b # a => worker'[b] = worker[b]

\* A move to another stage is such a step.
LEMMA SettleMoves ==
    ASSUME TypeOK, NEW a \in Agents, worker[a].at \in Stages, NEW stage \in Stages,
           NEW r \in Requests, worker[a].r = r, Settle(a, stage)
    PROVE  /\ HandlerMoves(a, r)
           /\ worker'[a].at = stage
           /\ worker'[a].scan = worker[a].scan
  <1>1. worker[a] \in Busy /\ worker[a] # Idle
    BY BusyAt
  <1>2. /\ worker'[a] = [worker[a] EXCEPT !.at = stage]
        /\ \A b \in Agents : b # a => worker'[b] = worker[b]
    BY SettleType
  <1>3. /\ worker'[a].at = stage
        /\ worker'[a].r = worker[a].r
        /\ worker'[a].k = worker[a].k
        /\ worker'[a].holds = worker[a].holds
        /\ worker'[a].scan = worker[a].scan
    BY <1>1, <1>2 DEF Busy
  <1>4. worker'[a] # Idle
    BY <1>3 DEF Idle, Stages
  <1> QED BY <1>1, <1>2, <1>3, <1>4 DEF HandlerMoves, WorksOn

\* A handler that was not done goes on: what it may do to the request.
LEMMA HandlerKeeps ==
    ASSUME TypeOK, TypeOK', NEW r \in Requests, NEW a \in Agents, RequestInv(r),
           HandlerMoves(a, r), ~Done(a),
           UNCHANGED <<phase, broker, ended, acted, answered, watched, gaveUp>>,
           worker'[a].scan <= scans'[r], scans[r] <= scans'[r],
           r \in lost => r \in lost', r \in ambiguous => r \in ambiguous',
           \/ Known(r)' = Known(r) /\ inbox'[r] = inbox[r]
           \/ \E x \in Results : x <= scans'[r] /\ Result(r, x),
           Done(a)' => r \in lost' \/ Known(r)' # {},
           r \notin ambiguous' =>
               /\ \/ scans'[r] = scans[r]
                  \/ /\ worker[a].at = "working"
                     /\ scans'[r] = scans[r] + 1
                     /\ worker'[a].at \notin Early
               /\ worker'[a].at \in Early => worker[a].at \in Early
               /\ inbox'[r] # inbox[r] => Done(a)'
    PROVE  RequestInv(r)'
  <1>1. /\ \A b \in Agents : WorksOn(b, r)' <=> WorksOn(b, r)
        /\ \A b \in Agents : WorksOn(b, r) =>
              worker'[b].k = worker[b].k /\ worker'[b].holds = worker[b].holds
    BY DEF HandlerMoves, WorksOn
  <1>2. LiveCopies(r)' = LiveCopies(r)
    BY DEF LiveCopies, broker
  <1>3. phase[r] # "idle"
    BY Made DEF HandlerMoves
  <1>4. Known(r) \subseteq Known(r)' /\ \A x \in Known(r)' : x <= scans'[r]
    <2>1. \A x \in Known(r) : x <= scans'[r]
      <3>1. \A x \in Known(r) : x <= scans[r] /\ x \in Int
        BY DEF RequestInv, TrueAt, Known, Results
      <3>2. scans[r] \in Int /\ scans'[r] \in Int
        BY DEF TypeOK, Results
      <3> QED BY <3>1, <3>2
    <2>2. CASE Known(r)' = Known(r)
      BY <2>1, <2>2
    <2>3. CASE \E x \in Results : x <= scans'[r] /\ Result(r, x)
      <3>1. PICK x \in Results : x <= scans'[r] /\ Result(r, x)
        BY <2>3
      <3>2. Known(r)' = Known(r) \cup {x}
        BY <3>1, FirstResult
      <3> QED BY <2>1, <3>1, <3>2
    <2> QED BY <2>2, <2>3
  <1>5. Untouched(r)'
    BY <1>3 DEF Untouched
  <1>6. HeldOnce(r)'
    BY <1>1 DEF RequestInv, HeldOnce, broker
  <1>7. KeptAt(r)'
    <2>1. CASE Done(a)'
      BY <2>1 DEF KeptAt
    <2>2. CASE ~Done(a)'
      <3>1. Backed(r) => Backed(r)'
        BY <1>1, <2>2 DEF Backed, Done, HandlerMoves, broker
      <3> QED BY <1>4, <3>1 DEF RequestInv, KeptAt
    <2> QED BY <2>1, <2>2
  <1>8. TrueAt(r)'
    <2>1. \A b \in Agents : WorksOn(b, r)' => worker'[b].scan <= scans'[r]
      <3> SUFFICES ASSUME NEW b \in Agents, WorksOn(b, r), b # a
                   PROVE  worker'[b].scan <= scans'[r]
        BY <1>1
      <3>1. worker[b].scan <= scans[r] /\ worker[b].scan \in Int
        BY BusyAt DEF RequestInv, TrueAt, WorksOn, Results
      <3>2. scans[r] \in Int /\ scans'[r] \in Int
        BY DEF TypeOK, Results
      <3>3. worker'[b] = worker[b]
        BY DEF HandlerMoves
      <3> QED BY <3>1, <3>2, <3>3
    <2> QED BY <1>4, <2>1 DEF RequestInv, TrueAt
  <1>9. ASSUME r \notin ambiguous'
        PROVE  Calm(r)'
    <2>1. /\ Calm(r)
          /\ \A b \in Agents : WorksOn(b, r) => b = a
          /\ \A k \in Copy : loc[r][k] \notin {"queued", "expired"}
      BY <1>9, OnlyHandler DEF RequestInv, HandlerMoves
    <2>2. Known(r) = {}
      BY <2>1 DEF Calm, OneResult, HandlerMoves
    <2>3. OnePlace(r)' /\ BudgetAt(r)'
      BY <1>1, <1>2, <2>1 DEF Calm, OnePlace, BudgetAt, broker
    <2>4. OneScan(r)'
      <3>1. scans[r] \in Nat /\ scans[r] <= 1
        BY <2>1 DEF Calm, OneScan, TypeOK, Results
      <3>2. scans[r] > 0 => worker[a].at \notin Early
        BY <2>1 DEF Calm, OneScan, HandlerMoves, Early
      <3>3. scans'[r] <= 1 /\ (scans'[r] > 0 => worker'[a].at \notin Early)
        <4>1. CASE scans'[r] = scans[r]
          BY <1>9, <3>1, <3>2, <4>1
        <4>2. CASE /\ worker[a].at = "working" /\ scans'[r] = scans[r] + 1
                   /\ worker'[a].at \notin Early
          BY <3>1, <3>2, <4>2 DEF Early
        <4> QED BY <1>9, <4>1, <4>2
      <3> QED BY <1>1, <2>1, <3>3 DEF OneScan, Early, broker
    <2>5. OneResult(r)'
      <3>1. CASE Known(r)' = {}
        BY <3>1 DEF OneResult
      <3>2. CASE Known(r)' # {}
        <4>1. PICK x \in Results : Result(r, x)
          BY <2>2, <3>2
        <4>2. Known(r)' = {x} /\ inbox'[r][x] + acted'[r][x] <= 1
          BY <2>2, <4>1, FirstResult
        <4>3. inbox'[r] # inbox[r]
          <5>1. inbox'[r][x] = inbox[r][x] + 1 /\ inbox[r][x] \in Nat
            BY <4>1, FirstResult DEF TypeOK
          <5> QED BY <5>1
        <4>4. Done(a)'
          BY <1>9, <4>3
        <4> QED BY <1>1, <2>1, <4>2, <4>4 DEF OneResult, broker
      <3> QED BY <3>1, <3>2
    <2>6. FollowedAt(r)'
      BY <1>1 DEF FollowedAt, HandlerMoves
    <2> QED BY <2>3, <2>4, <2>5, <2>6 DEF Calm
  <1> QED BY <1>5, <1>6, <1>7, <1>8, <1>9 DEF RequestInv

\* The steps of ResolverRunnerAgent keep the invariant of the request they work
\* on.
LEMMA RunnerKeeps ==
    ASSUME TypeOK, TypeOK', NEW a \in Agents, NEW r \in Requests,
           worker[a].r = r, RequestInv(r),
           \/ ExecutorFails(a) \/ Examine(a) \/ SubmitScan(a) \/ WorkFails(a)
           \/ DeliverResult(a) \/ DeliverRaises(a) \/ RespondFailure(a)
           \/ RespondRaises(a)
    PROVE  RequestInv(r)'
  <1>1. worker[a].at \in {"received", "working", "submitted", "refusing", "failing"}
    BY DEF ExecutorFails, Examine, SubmitScan, WorkFails, DeliverResult, DeliverRaises,
           RespondFailure, RespondRaises
  <1>2. /\ worker[a] \in Busy /\ r \in Requests /\ worker[a].scan \in Results
        /\ WorksOn(a, r)
    BY <1>1, BusyAt DEF Stages, WorksOn
  <1>3. ~Done(a)
    BY <1>1 DEF Done
  <1>4. UNCHANGED <<phase, broker, ended, acted, answered, watched, gaveUp>>
    BY DEF ExecutorFails, Examine, SubmitScan, WorkFails, DeliverResult, DeliverRaises,
           RespondFailure, RespondRaises, outcome, checkmarx, history
  <1>5. (r \in lost => r \in lost') /\ (r \in ambiguous => r \in ambiguous')
    BY DEF ExecutorFails, Examine, SubmitScan, WorkFails, DeliverResult,
           DeliverRaises, RespondFailure, RespondRaises, Lose, Doubt, history
  <1>6. /\ scans[r] \in Nat /\ worker[a].scan <= scans[r]
        /\ Failure \in Results /\ Failure <= scans[r]
    <2>1. scans[r] \in Results
      BY <1>2 DEF TypeOK
    <2> QED BY <1>2, <2>1, DelegationAssumption
            DEF RequestInv, TrueAt, Results, Failure
  <1>7. UNCHANGED inbox => Known(r)' = Known(r) /\ inbox'[r] = inbox[r]
    BY <1>4 DEF Known
  <1>8. \A x \in Results : Result(r, x) => Known(r)' # {}
    BY <1>2, <1>4, FirstResult
  <1>9. ASSUME NEW stage \in Stages, Settle(a, stage)
        PROVE  /\ HandlerMoves(a, r)
               /\ worker'[a].at = stage
               /\ worker'[a].scan = worker[a].scan
    <2>1. worker[a].at \in Stages
      BY <1>1 DEF Stages
    <2> QED BY <1>6, <1>9, <2>1, SettleMoves
  <1>10. ASSUME NEW stage \in Stages, Settle(a, stage), UNCHANGED <<scans, inbox>>,
                stage \notin {"settled", "rejecting"} \/ r \in lost',
                stage \in Early => worker[a].at \in Early
         PROVE  RequestInv(r)'
    <2>1. /\ HandlerMoves(a, r)
          /\ worker'[a].at = stage
          /\ worker'[a].scan <= scans'[r]
          /\ scans[r] <= scans'[r]
      BY <1>6, <1>9, <1>10
    <2>2. Done(a)' => r \in lost'
      BY <1>10, <2>1 DEF Done
    <2> QED BY <1>2, <1>3, <1>4, <1>5, <1>7, <1>10, <2>1, <2>2, HandlerKeeps
  <1>11. ASSUME NEW stage \in Stages, Settle(a, stage), UNCHANGED scans,
                NEW x \in Results, x <= scans[r], Result(r, x),
                stage \notin Early,
                stage \in {"settled", "rejecting"} \/ r \in ambiguous'
         PROVE  RequestInv(r)'
    <2>1. /\ HandlerMoves(a, r)
          /\ worker'[a].at = stage
          /\ worker'[a].scan <= scans'[r]
          /\ scans[r] <= scans'[r]
      BY <1>6, <1>9, <1>11
    <2>2. Known(r)' # {}
      BY <1>8, <1>11
    <2>3. r \notin ambiguous' => Done(a)'
      BY <1>11, <2>1 DEF Done
    <2>4. x <= scans'[r]
      BY <1>11
    <2> QED BY <1>2, <1>3, <1>4, <1>5, <1>11, <2>1, <2>2, <2>3, <2>4, HandlerKeeps
  <1>12. CASE ExecutorFails(a)
    BY <1>10, <1>12 DEF ExecutorFails, Stages, Early, checkmarx, outcome
  <1>13. CASE Examine(a)
    BY <1>10, <1>13 DEF Examine, Stages, Early, Lose, checkmarx, outcome
  <1>14. CASE WorkFails(a) /\ UNCHANGED <<scans, ambiguous>>
    BY <1>10, <1>14 DEF WorkFails, Stages, Early, outcome
  <1>15. CASE /\ WorkFails(a)
              /\ scans' = [scans EXCEPT ![r] = scans[r] + 1]
              /\ Doubt(r)
    <2>1. /\ HandlerMoves(a, r)
          /\ worker'[a].at = "failing"
          /\ worker'[a].scan = worker[a].scan
      BY <1>9, <1>15 DEF WorkFails, Stages
    <2>2. UNCHANGED inbox /\ r \in ambiguous'
      BY <1>15 DEF WorkFails, outcome, Doubt
    <2>3. ~Done(a)'
      BY <2>1 DEF Done
    <2>4. scans'[r] = scans[r] + 1
      BY <1>2, <1>15 DEF TypeOK
    <2>5. worker'[a].scan <= scans'[r] /\ scans[r] <= scans'[r]
      BY <1>2, <1>6, <2>1, <2>4 DEF Results
    <2> QED BY <1>2, <1>3, <1>4, <1>5, <1>7, <2>1, <2>2, <2>3, <2>5, HandlerKeeps
  <1>16. CASE SubmitScan(a)
    <2>1. /\ worker[a].at = "working"
          /\ scans'[r] = scans[r] + 1
          /\ worker' = [worker EXCEPT ![a] =
                [worker[a] EXCEPT !.at = "submitted", !.scan = scans[r] + 1]]
          /\ UNCHANGED inbox
      BY <1>2, <1>16 DEF SubmitScan, TypeOK, outcome
    <2>2. /\ worker'[a].at = "submitted"
          /\ worker'[a].scan = scans'[r]
          /\ worker'[a].r = r
          /\ worker'[a].k = worker[a].k
          /\ worker'[a].holds = worker[a].holds
      BY <1>2, <2>1 DEF TypeOK, Busy
    <2>3. HandlerMoves(a, r)
      <3>1. worker'[a] # Idle
        BY <2>2 DEF Idle
      <3>2. \A b \in Agents : b # a => worker'[b] = worker[b]
        BY <2>1 DEF TypeOK
      <3> QED BY <1>2, <2>2, <3>1, <3>2 DEF HandlerMoves, WorksOn
    <2>4. /\ worker'[a].scan <= scans'[r] /\ scans[r] <= scans'[r]
          /\ ~Done(a)'
          /\ worker'[a].at \notin Early
      BY <1>6, <2>1, <2>2 DEF Done, Early
    <2> QED BY <1>2, <1>3, <1>4, <1>5, <1>7, <2>1, <2>3, <2>4, HandlerKeeps
  <1>17. CASE DeliverResult(a)
    <2>1. CASE Result(r, worker[a].scan)
      BY <1>2, <1>6, <1>11, <1>17, <2>1 DEF DeliverResult, Stages, Early, checkmarx
    <2>2. CASE Lose(r) /\ UNCHANGED inbox
      BY <1>10, <1>17, <2>2 DEF DeliverResult, Stages, Early, checkmarx, Lose
    <2> QED BY <1>17, <2>1, <2>2 DEF DeliverResult
  <1>18. CASE DeliverRaises(a)
    <2>1. CASE Result(r, worker[a].scan) /\ Doubt(r)
      BY <1>2, <1>6, <1>11, <1>18, <2>1
         DEF DeliverRaises, Stages, Early, checkmarx, Doubt
    <2>2. CASE UNCHANGED <<inbox, ambiguous>>
      BY <1>10, <1>18, <2>2 DEF DeliverRaises, Stages, Early, checkmarx
    <2> QED BY <1>18, <2>1, <2>2 DEF DeliverRaises
  <1>19. CASE RespondFailure(a)
    <2>1. CASE Result(r, Failure)
      BY <1>6, <1>11, <1>19, <2>1 DEF RespondFailure, Stages, Early, checkmarx
    <2>2. CASE Lose(r) /\ UNCHANGED inbox
      BY <1>10, <1>19, <2>2 DEF RespondFailure, Stages, Early, checkmarx, Lose
    <2> QED BY <1>19, <2>1, <2>2 DEF RespondFailure
  <1>20. CASE RespondRaises(a)
    <2>1. CASE Result(r, Failure) /\ Doubt(r)
      BY <1>6, <1>11, <1>20, <2>1
         DEF RespondRaises, Stages, Early, checkmarx, Doubt
    <2>2. CASE UNCHANGED <<inbox, ambiguous>>
      BY <1>10, <1>20, <2>2 DEF RespondRaises, Stages, Early, checkmarx
    <2> QED BY <1>20, <2>1, <2>2 DEF RespondRaises
  <1> QED BY <1>12, <1>13, <1>14, <1>15, <1>16, <1>17, <1>18, <1>19, <1>20
          DEF WorkFails

\* A delivery that is taken back goes to the queue again.
LEMMA TakenBackKeeps ==
    ASSUME TypeOK, NEW a \in Agents, NEW r \in Requests,
           worker[a].r = r, RequestInv(r),
           AgentLost(a) \/ AckTimeout(a) \/ ReleaseWedged(a)
    PROVE  RequestInv(r)'
  <1> DEFINE k == worker[a].k
  <1>1. worker[a] # Idle
    BY BusyAt DEF AgentLost, AckTimeout, ReleaseWedged, Stages
  <1>2. worker[a] \in Busy /\ r \in Requests /\ k \in Copy /\ WorksOn(a, r)
    BY <1>1, BusyAt DEF WorksOn
  <1>3. GiveBack(a, "queued")
    BY DEF AgentLost, AckTimeout, ReleaseWedged
  <1>4. loc'[r] = IF worker[a].holds THEN [loc[r] EXCEPT ![k] = "queued"] ELSE loc[r]
    BY <1>1, <1>3, GiveBackType DEF Locations
  <1>5. /\ worker[a].holds => loc'[r][k] = "queued" /\ loc[r][k] = "held"
        /\ ~worker[a].holds => loc'[r] = loc[r]
        /\ \A j \in Copy : j # k => loc'[r][j] = loc[r][j]
    BY <1>2, <1>4 DEF TypeOK, RequestInv, HeldOnce
  <1>6. /\ r \in ambiguous'
        /\ UNCHANGED <<phase, checkmarx, outcome, lost>>
    BY DEF AgentLost, AckTimeout, ReleaseWedged, Doubt
  <1>7. /\ WorksOn(a, r)' => ~worker'[a].holds /\ worker'[a].scan = worker[a].scan
        /\ \A b \in Agents : b # a => worker'[b] = worker[b]
    <2>1. CASE worker' = [worker EXCEPT ![a] = Idle]
      BY <2>1 DEF WorksOn, TypeOK
    <2>2. CASE worker' = [worker EXCEPT ![a] = [worker[a] EXCEPT !.holds = FALSE]]
      BY <1>2, <2>2 DEF TypeOK, Busy
    <2> QED BY <2>1, <2>2 DEF AgentLost, AckTimeout, ReleaseWedged
  <1>8. \A b \in Agents : b # a => (WorksOn(b, r)' <=> WorksOn(b, r))
    BY <1>7 DEF WorksOn
  <1>9. Known(r)' = Known(r)
    BY <1>6 DEF Known, outcome
  <1>10. phase[r] # "idle"
    BY <1>2, Made
  <1>11. \A b \in Agents : WorksOn(b, r) => worker[b].k \in Copy
    BY BusyAt DEF WorksOn
  <1> HIDE DEF k
  <1>12. Untouched(r)'
    BY <1>6, <1>10 DEF Untouched
  <1>13. HeldOnce(r)'
    <2>1. \A b \in Agents : b # a /\ WorksOn(b, r) /\ worker[b].holds =>
             loc'[r][worker[b].k] = "held"
      BY <1>2, <1>5, <1>11 DEF RequestInv, HeldOnce, k
    <2> QED BY <1>7, <1>8, <2>1 DEF RequestInv, HeldOnce
  <1>14. KeptAt(r)'
    <2>1. Backed(r) => Backed(r)'
      <3>1. CASE worker[a].holds
        BY <1>2, <1>5, <3>1 DEF Backed
      <3>2. CASE ~worker[a].holds
        BY <1>5, <1>7, <1>8, <3>2 DEF Backed, Done
      <3> QED BY <3>1, <3>2
    <2> QED BY <1>6, <1>9, <2>1 DEF RequestInv, KeptAt
  <1>15. TrueAt(r)'
    BY <1>2, <1>6, <1>7, <1>8, <1>9 DEF RequestInv, TrueAt, checkmarx, outcome
  <1> QED BY <1>6, <1>12, <1>13, <1>14, <1>15 DEF RequestInv

\* A delivery that is acknowledged or rejected was of a handler that is done.
LEMMA AcknowledgeKeeps ==
    ASSUME TypeOK, NEW a \in Agents, NEW r \in Requests, worker[a].r = r,
           RequestInv(r), Acknowledge(a)
    PROVE  RequestInv(r)'
  <1> DEFINE k == worker[a].k
  <1>1. Done(a) /\ worker[a] # Idle
    BY BusyAt DEF Acknowledge, Stages, Done
  <1>2. k \in Copy /\ WorksOn(a, r)
    BY <1>1, BusyAt DEF WorksOn
  <1>3. PICK l \in {"free", "rejected"} : GiveBack(a, l)
    BY DEF Acknowledge
  <1>4. /\ loc'[r] = IF worker[a].holds THEN [loc[r] EXCEPT ![k] = l] ELSE loc[r]
        /\ \A j \in Copy : j # k => retries'[r][j] = retries[r][j]
    BY <1>1, <1>3, GiveBackType DEF Locations
  <1>5. /\ worker[a].holds => loc'[r][k] = l /\ loc[r][k] = "held"
        /\ ~worker[a].holds => loc'[r] = loc[r]
        /\ \A j \in Copy : j # k => loc'[r][j] = loc[r][j]
    BY <1>2, <1>4 DEF TypeOK, RequestInv, HeldOnce
  <1>6. UNCHANGED <<phase, published, checkmarx, outcome, history>>
    BY DEF Acknowledge
  <1>7. /\ ~WorksOn(a, r)'
        /\ \A b \in Agents : b # a => worker'[b] = worker[b]
    BY DEF Acknowledge, WorksOn, TypeOK
  <1>8. \A b \in Agents : b # a => (WorksOn(b, r)' <=> WorksOn(b, r))
    BY <1>7 DEF WorksOn
  <1>9. Known(r)' = Known(r)
    BY <1>6 DEF Known, outcome
  <1>10. phase[r] # "idle"
    BY <1>2, Made
  <1>11. \A b \in Agents : WorksOn(b, r) => worker[b].k \in Copy
    BY BusyAt DEF WorksOn
  <1> HIDE DEF k
  <1>12. Untouched(r)'
    BY <1>6, <1>10 DEF Untouched
  <1>13. HeldOnce(r)'
    <2>1. \A b \in Agents : b # a /\ WorksOn(b, r) /\ worker[b].holds =>
             loc'[r][worker[b].k] = "held"
      BY <1>2, <1>5, <1>11 DEF RequestInv, HeldOnce, k
    <2> QED BY <1>7, <1>8, <2>1 DEF RequestInv, HeldOnce
  <1>14. KeptAt(r)'
    <2>1. Backed(r) => Backed(r)'
      <3>1. \A j \in Copy : loc[r][j] \in {"queued", "expired"} => loc'[r][j] = loc[r][j]
        BY <1>2, <1>5
      <3> QED BY <1>1, <1>7, <1>8, <3>1 DEF Backed, Done
    <2> QED BY <1>6, <1>9, <2>1 DEF RequestInv, KeptAt, history
  <1>15. TrueAt(r)'
    BY <1>6, <1>7, <1>8, <1>9 DEF RequestInv, TrueAt, checkmarx, outcome
  <1>16. ASSUME r \notin ambiguous
         PROVE  Calm(r)'
    <2>1. /\ Calm(r)
          /\ worker[a].holds
          /\ \A b \in Agents : ~WorksOn(b, r)'
          /\ \A j \in Copy : loc[r][j] \notin {"queued", "expired"}
      BY <1>2, <1>7, <1>8, <1>16, OnlyHandler DEF RequestInv
    <2>2. LiveCopies(r) = {k}
      BY <1>2, <1>5, <2>1 DEF Calm, OnePlace, LiveCopies
    <2>3. LiveCopies(r)' = {}
      BY <1>3, <1>5, <2>1, <2>2 DEF LiveCopies
    <2>4. \A j \in Copy : loc'[r][j] \notin {"queued", "expired"}
      BY <2>3 DEF LiveCopies
    <2>5. OnePlace(r)'
      BY <2>1, <2>3 DEF OnePlace
    <2>6. OneScan(r)'
      BY <1>6, <2>1, <2>4 DEF Calm, OneScan, checkmarx
    <2>7. OneResult(r)'
      BY <1>6, <1>9, <2>1, <2>4 DEF Calm, OneResult, outcome
    <2>8. BudgetAt(r)'
      BY <1>6, <2>1, <2>2, <2>3 DEF Calm, BudgetAt, history
    <2>9. FollowedAt(r)'
      <3>1. \A b \in Agents : WorksOn(b, r) => Done(b)
        BY <1>1, <1>2, <1>16, OnlyHandler
      <3> QED BY <1>6, <1>9, <2>1, <3>1 DEF Calm, FollowedAt, checkmarx, history
    <2> QED BY <2>1, <2>5, <2>6, <2>7, <2>8, <2>9 DEF Calm
  <1> QED BY <1>6, <1>12, <1>13, <1>14, <1>15, <1>16 DEF RequestInv, history

-----------------------------------------------------------------------------
(* The invariant is inductive.                                             *)

\* Every step keeps the invariant of every request.
LEMMA RequestStep ==
    ASSUME TypeOK, TypeOK', \A r \in Requests : RequestInv(r), Next,
           NEW q \in Requests
    PROVE  RequestInv(q)'
  <1> USE Frame
  <1>1. ASSUME NEW r \in Requests, RequestReturned(r)
        PROVE  RequestInv(q)'
    BY <1>1, ReturnedLocal, ReturnedKeeps
  <1>2. ASSUME NEW r \in Requests, NEW k \in Copy,
               RequestScan(r, k) \/ RequestRaises(r, k)
        PROVE  RequestInv(q)'
    BY <1>2, RequestLocal, RequestKeeps
  <1>3. ASSUME NEW r \in Requests, NEW k \in Copy, Expire(r, k)
        PROVE  RequestInv(q)'
    BY <1>3, ExpireLocal, ExpireKeeps
  <1>4. ASSUME NEW r \in Requests, NEW k \in Copy, NEW n \in Copy,
               \/ Resubmit(r, k, n) \/ GiveUp(r, k) \/ TimeoutRaises(r, k)
               \/ ForgetCopy(r, k) \/ TimeoutAgentLost(r, k)
        PROVE  RequestInv(q)'
    BY <1>4, TimeoutLocal, ResubmitKeeps, GiveUpKeeps, TimeoutRaisesKeeps,
       ForgetKeeps, TimeoutAgentLostKeeps
  <1>5. ASSUME NEW r \in Requests, NEW k \in Copy, NEW a \in Agents, Deliver(a, r, k)
        PROVE  RequestInv(q)'
    BY <1>5, DeliverLocal, DeliverKeeps
  <1>6. ASSUME NEW r \in Requests, NEW x \in 1..MaxScans, FinishScan(r, x)
        PROVE  RequestInv(q)'
    BY <1>6, FinishLocal, FinishKeeps
  <1>7. ASSUME NEW r \in Requests, NEW x \in Results,
               \/ Act(r, x) \/ ActFails(r, x) \/ AckResult(r, x)
               \/ ResultsAgentLost(r, x)
        PROVE  RequestInv(q)'
    BY <1>7, ResultsLocal, ActKeeps, ActFailsKeeps, AckResultKeeps
  <1>8. ASSUME NEW a \in Agents, RunnerStep(a) \/ RunnerFault(a)
        PROVE  RequestInv(q)'
    <2>1. CASE AgentLost(a) \/ AckTimeout(a) \/ ReleaseWedged(a)
      BY <2>1, DeliveryLocal, TakenBackKeeps
    <2>2. CASE Acknowledge(a)
      BY <2>2, DeliveryLocal, AcknowledgeKeeps
    <2>3. CASE \/ ExecutorFails(a) \/ Examine(a) \/ SubmitScan(a) \/ WorkFails(a)
               \/ DeliverResult(a) \/ DeliverRaises(a) \/ RespondFailure(a)
               \/ RespondRaises(a)
      BY <2>3, RunnerLocal, RunnerKeeps
    <2> QED BY <1>8, <2>1, <2>2, <2>3 DEF RunnerStep, RunnerFault
  <1> QED BY <1>1, <1>2, <1>3, <1>4, <1>5, <1>6, <1>7, <1>8 DEF Next, TimeoutStep

\* At first no request was made.
LEMMA InitIInv == Init => IInv
  <1> SUFFICES ASSUME Init
               PROVE  IInv
    OBVIOUS
  <1>1. TypeOK
    BY DelegationAssumption DEF Init, TypeOK, Phases, Locations, Results
  <1>2. ASSUME NEW r \in Requests
        PROVE  RequestInv(r)
    <2>1. /\ phase[r] = "idle" /\ scans[r] = 0 /\ answered[r] = {} /\ published[r] = 0
          /\ r \notin gaveUp
      BY DEF Init
    <2>2. \A k \in Copy : loc[r][k] = "free"
      BY DEF Init
    <2>3. \A a \in Agents : ~WorksOn(a, r)
      BY DEF Init, WorksOn
    <2>4. \A x \in Results : inbox[r][x] = 0 /\ acted[r][x] = 0
      BY DEF Init
    <2>5. Known(r) = {} /\ LiveCopies(r) = {}
      BY <2>1, <2>2, <2>4 DEF Known, LiveCopies
    <2>6. Attempts \in Nat /\ 0 <= Attempts
      BY DelegationAssumption DEF Attempts
    <2>7. Untouched(r) /\ HeldOnce(r) /\ KeptAt(r) /\ TrueAt(r)
      BY <2>1, <2>2, <2>3, <2>4, <2>5 DEF Untouched, HeldOnce, KeptAt, TrueAt
    <2>8. Calm(r)
      BY <2>1, <2>2, <2>3, <2>5, <2>6
         DEF Calm, OnePlace, OneScan, OneResult, BudgetAt, FollowedAt
    <2> QED BY <2>7, <2>8 DEF RequestInv
  <1> QED BY <1>1, <1>2 DEF IInv

\* A step keeps the invariant of the request it is about by the lemmas above,
\* and that of the others because it leaves them alone.
LEMMA NextIInv == IInv /\ [Next]_vars => IInv'
  <1> SUFFICES ASSUME IInv, [Next]_vars
               PROVE  IInv'
    OBVIOUS
  <1>1. TypeOK /\ TypeOK' /\ \A r \in Requests : RequestInv(r)
    BY TypeStep DEF IInv
  <1>2. CASE Next
    BY <1>1, <1>2, RequestStep DEF IInv
  <1>3. CASE UNCHANGED vars
    <2>1. \A q \in Requests : LeftAlone(q)
      BY <1>3 DEF vars, broker, checkmarx, outcome, history, LeftAlone, SameHandlers
    <2> QED BY <1>1, <2>1, Frame DEF IInv
  <1> QED BY <1>2, <1>3

\* The invariant implies the properties.
LEMMA IInvEnough == IInv => NoSilentLoss /\ OneOutcome /\ RetryBudget /\ PullRequestsWatched
  <1> SUFFICES ASSUME IInv
               PROVE  NoSilentLoss /\ OneOutcome /\ RetryBudget /\ PullRequestsWatched
    OBVIOUS
  <1>1. \A r \in Requests : RequestInv(r)
    BY DEF IInv
  <1>2. NoSilentLoss
    BY <1>1 DEF NoSilentLoss, RequestInv, KeptAt, Backed, Working, Done
  <1>3. OneOutcome
    BY <1>1 DEF OneOutcome, RequestInv, Calm, OneScan, OneResult, Working, Done
  <1>4. RetryBudget
    <2>1. \A r \in Requests : published[r] \in Nat
      BY DEF IInv, TypeOK
    <2>2. Attempts <= Allowed /\ Attempts \in Nat /\ Allowed \in Nat
      BY DelegationAssumption DEF Attempts, Allowed, AtLeastZero
    <2> QED BY <1>1, <2>1, <2>2 DEF RetryBudget, RequestInv, Calm, BudgetAt
  <1>5. PullRequestsWatched
    <2> SUFFICES ASSUME NEW r \in PullRequests \ (lost \cup ambiguous), Settled(r),
                        NEW x \in 1..scans[r]
                 PROVE  x \in watched[r] \/ Failure \in answered[r]
      BY DEF PullRequestsWatched
    <2>0. r \in Requests
      BY DelegationAssumption
    <2>1. scans[r] \in Nat
      BY <2>0 DEF IInv, TypeOK, Results
    <2>2. scans[r] = 1 /\ x = 1
      BY <1>1, <2>0, <2>1 DEF RequestInv, Calm, OneScan
    <2>3. Known(r) # {}
      BY <1>1, <2>0, <2>2 DEF RequestInv, Calm, FollowedAt, Settled
    <2>4. PICK y \in Known(r) : TRUE
      BY <2>3
    <2>5. y \in answered[r] /\ y <= 1 /\ y \in Nat
      BY <1>1, <2>0, <2>2 DEF RequestInv, TrueAt, Known, Settled, Results
    <2>6. CASE y = Failure
      BY <2>5, <2>6
    <2>7. CASE y = x
      BY <1>1, <2>0, <2>2, <2>5, <2>7 DEF RequestInv, TrueAt, Failure
    <2> QED BY <2>2, <2>5, <2>6, <2>7 DEF Failure
  <1> QED BY <1>2, <1>3, <1>4, <1>5

\* The invariant holds of every behaviour.
LEMMA Always == Spec => []IInv
  BY InitIInv, NextIInv, PTL DEF Spec

-----------------------------------------------------------------------------
\* Types: the variables of the broker, of the three agents and of Checkmarx One
\* stay in their domains, for any number of requests, agents and retries.
THEOREM TypeCorrect == Spec => []TypeOK
  <1>1. IInv => TypeOK
    BY DEF IInv
  <1> QED BY <1>1, Always, PTL

\* A delegated scan is not forgotten, however many agents die, time out or are
\* missing: the request is with the broker, with an agent or answered, or one
\* of the agents logged that it dropped a message.
THEOREM RequestsAreNotLost == Spec => []NoSilentLoss
  BY Always, IInvEnough, PTL

\* A delegated scan that was never redelivered has one outcome: one scan at
\* most, one result at most, and no handler left once there is a result.
THEOREM OutcomeIsUnique == Spec => []OneOutcome
  BY Always, IInvEnough, PTL

\* The retry header is a budget, for every setting of scan-retries: the request
\* is published no more often than the manual allows, and failed only when no
\* other copy of it is left.
THEOREM BudgetIsKept == Spec => []RetryBudget
  BY Always, IInvEnough, PTL

\* The scan that an agent made for a pull request is watched, or the request was
\* answered as failed, once nothing of it is left in the broker or in an agent.
THEOREM NoScanUnwatched == Spec => []PullRequestsWatched
  BY Always, IInvEnough, PTL
=============================================================================
