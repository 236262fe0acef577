------------------------- MODULE SarifDeliveryProofs -------------------------
(***************************************************************************)
(* Proofs about SarifDelivery, for any scans, destinations, retries and    *)
(* faults.  The budget of a destination is not inductive by itself: what a *)
(* new pass may send is reserved from the moment the message is received,  *)
(* before any task exists, and an accepted request ends its task.          *)
(***************************************************************************)
EXTENDS SarifDelivery, TLAPS

\* What a destination may be sent each time the message is handled.
PerPass(d) == IF d \in Http THEN Budget + 1 ELSE 1

\* What the task of a destination may still send.
Left(s, d) ==
    IF task[s][d] # "trying" THEN 0
    ELSE IF d \in Http THEN remaining[s][d] + 1 ELSE 1

\* The requests a destination has had and may still get in this pass: all of a
\* pass while the log is generated.
Reserved(s, d) == IF mail[s] = "generating" THEN PerPass(d) ELSE Left(s, d)

\* A task is unfinished only while the handler waits for it.
TryingWaited ==
    \A s \in Scans, d \in Destinations :
        task[s][d] \in Unfinished => mail[s] = "delivering"

\* The requests sent and those reserved fit in the budget.
SentBounded ==
    \A s \in Scans, d \in Destinations :
        posts[s][d] + Reserved(s, d) <= passes[s] * PerPass(d)

\* A pass that has not ended has accepted nothing yet.
AcceptedBounded ==
    \A s \in Scans, d \in Destinations :
        received[s][d]
          + (IF mail[s] = "generating" \/ task[s][d] = "trying" THEN 1 ELSE 0)
            <= passes[s]

\* The task of a destination has been created, and has sent something when it
\* ended.
TaskTried(s, d) ==
    /\ task[s][d] # "none"
    /\ task[s][d] # "trying" => posts[s][d] >= 1
    /\ task[s][d] = "delivered" => received[s][d] >= 1

\* The handler waits for the tasks, or has acknowledged the message after them.
Tended(s) == mail[s] = "delivering" \/ (mail[s] = "gone" /\ s \notin aborted)

TasksTried ==
    \A s \in Scans : Tended(s) => \A d \in Destinations : TaskTried(s, d)

IInv == TypeOK /\ TryingWaited /\ SentBounded /\ AcceptedBounded /\ TasksTried

\* One more pass adds one budget to the product.
LEMMA OneMorePass ==
    ASSUME NEW n \in Nat, NEW p \in Nat
    PROVE  /\ n * p \in Nat
           /\ (n + 1) * p = n * p + p
  OBVIOUS

\* The type of a table survives the change of one of its entries.
LEMMA TableUpdate ==
    ASSUME NEW S, NEW D, NEW T, NEW f \in [S -> [D -> T]],
           NEW s \in S, NEW d \in D, NEW v \in T
    PROVE  [f EXCEPT ![s][d] = v] \in [S -> [D -> T]]
  <1>1. [f[s] EXCEPT ![d] = v] \in [D -> T]
    OBVIOUS
  <1>2. [f EXCEPT ![s][d] = v] = [f EXCEPT ![s] = [f[s] EXCEPT ![d] = v]]
    OBVIOUS
  <1> QED BY <1>1, <1>2

\* The budget of a pass is a positive number.
LEMMA BudgetType ==
    /\ Budget \in Nat
    /\ \A d \in Destinations : PerPass(d) \in Nat /\ PerPass(d) >= 1
  BY DeliveryAssumption DEF Budget, PerPass

-----------------------------------------------------------------------------
\* The invariant holds initially.
LEMMA InitIInv == Init => IInv
  <1> SUFFICES ASSUME Init PROVE IInv
    OBVIOUS
  <1>1. TypeOK
    BY BudgetType, DeliveryAssumption DEF Init, TypeOK, Places, TaskStates
  <1>2. TryingWaited /\ AcceptedBounded /\ TasksTried
    BY DEF Init, TryingWaited, Unfinished, AcceptedBounded, TasksTried, Tended
  <1>3. SentBounded
    BY BudgetType, OneMorePass DEF Init, SentBounded, Reserved, Left
  <1> QED BY <1>1, <1>2, <1>3 DEF IInv

\* Every step keeps the types.
LEMMA TypeStep == TypeOK /\ [Next]_vars => TypeOK'
  <1> SUFFICES ASSUME TypeOK, [Next]_vars PROVE TypeOK'
    OBVIOUS
  <1> USE BudgetType, DeliveryAssumption DEF TypeOK, Places, TaskStates
  <1>1. ASSUME NEW s \in Scans, Publish(s) PROVE TypeOK'
    BY <1>1 DEF Publish, delivery
  <1>2. ASSUME NEW s \in Scans, Receive(s) PROVE TypeOK'
    BY <1>2 DEF Receive, delivery
  <1>3. ASSUME NEW s \in Scans, StartDelivery(s) PROVE TypeOK'
    BY <1>3 DEF StartDelivery
  <1>4. ASSUME NEW s \in Scans, Acknowledge(s) PROVE TypeOK'
    BY <1>4 DEF Acknowledge, delivery
  <1>5. ASSUME NEW s \in Scans, GenerateRefused(s) PROVE TypeOK'
    BY <1>5 DEF GenerateRefused, Fault, delivery
  <1>6. ASSUME NEW s \in Scans, GenerateFails(s) PROVE TypeOK'
    BY <1>6 DEF GenerateFails, Fault, delivery
  <1>7. ASSUME NEW s \in Scans, AgentLost(s) PROVE TypeOK'
    BY <1>7 DEF AgentLost, Fault
  <1>8. ASSUME NEW s \in Scans, NEW d \in Destinations,
               TaskStep(s, d) \/ PostHangs(s, d)
        PROVE  TypeOK'
    <2>1. /\ posts' = [posts EXCEPT ![s][d] = @ + 1]
          /\ UNCHANGED <<mail, passes, aborted, faults>>
      BY <1>8 DEF TaskStep, Deliver, PostRejected, DeliveryRaises, PostHangs, Attempt
    <2>2. posts' \in [Scans -> [Destinations -> Nat]]
      <3>1. posts[s][d] + 1 \in Nat
        OBVIOUS
      <3>2. posts' = [posts EXCEPT ![s][d] = posts[s][d] + 1]
        BY <2>1
      <3> HIDE DEF TypeOK
      <3> QED BY <3>1, <3>2, TableUpdate DEF TypeOK
    <2>3. received' \in [Scans -> [Destinations -> Nat]]
      <3>1. \/ UNCHANGED received
            \/ received' = [received EXCEPT ![s][d] = received[s][d] + 1]
        BY <1>8 DEF TaskStep, Deliver, PostRejected, DeliveryRaises, PostHangs, Accepted
      <3>2. received[s][d] + 1 \in Nat
        OBVIOUS
      <3>3. received \in [Scans -> [Destinations -> Nat]]
        OBVIOUS
      <3> HIDE BudgetType, DeliveryAssumption DEF TypeOK, TaskStates, Places
      <3>4. [received EXCEPT ![s][d] = received[s][d] + 1]
              \in [Scans -> [Destinations -> Nat]]
        BY <3>2, <3>3, TableUpdate
      <3> QED BY <3>1, <3>3, <3>4
    <2>4. task' \in [Scans -> [Destinations -> TaskStates]]
      <3>1. \/ UNCHANGED task
            \/ task' = [task EXCEPT ![s][d] = "delivered"]
            \/ task' = [task EXCEPT ![s][d] = "failed"]
            \/ task' = [task EXCEPT ![s][d] = "hung"]
        BY <1>8 DEF TaskStep, Deliver, PostRejected, DeliveryRaises, PostHangs, End
      <3>2. {"delivered", "failed", "hung"} \subseteq TaskStates
        BY DEF TaskStates
      <3>3. task \in [Scans -> [Destinations -> TaskStates]]
        OBVIOUS
      <3> HIDE BudgetType, DeliveryAssumption DEF TypeOK, TaskStates, Places
      <3>4. \A r \in TaskStates :
              [task EXCEPT ![s][d] = r] \in [Scans -> [Destinations -> TaskStates]]
        BY <3>3, TableUpdate
      <3> QED BY <3>1, <3>2, <3>3, <3>4
    <2>5. remaining' \in [Scans -> [Destinations -> 0..Budget]]
      <3>1. \/ UNCHANGED remaining
            \/ remaining' = [remaining EXCEPT ![s][d] = 0]
            \/ /\ remaining[s][d] - 1 >= 0
               /\ remaining' = [remaining EXCEPT ![s][d] = remaining[s][d] - 1]
        BY <1>8 DEF TaskStep, Deliver, PostRejected, DeliveryRaises, PostHangs, End
      <3>2. 0 \in 0..Budget
        OBVIOUS
      <3>3. remaining[s][d] - 1 >= 0 => remaining[s][d] - 1 \in 0..Budget
        OBVIOUS
      <3>4. remaining \in [Scans -> [Destinations -> 0..Budget]]
        OBVIOUS
      <3> HIDE BudgetType, DeliveryAssumption DEF TypeOK, TaskStates, Places
      <3>5. \A r \in 0..Budget :
              [remaining EXCEPT ![s][d] = r]
                \in [Scans -> [Destinations -> 0..Budget]]
        BY <3>4, TableUpdate
      <3> QED BY <3>1, <3>2, <3>3, <3>4, <3>5
    <2> QED BY <2>1, <2>2, <2>3, <2>4, <2>5
  <1>9. CASE UNCHANGED vars
    BY <1>9 DEF vars, delivery
  <1> QED
    BY <1>1, <1>2, <1>3, <1>4, <1>5, <1>6, <1>7, <1>8, <1>9
       DEF Next, HandlerStep

-----------------------------------------------------------------------------
\* A step about one scan leaves the records of the others alone.
LEMMA OthersUntouched ==
    ASSUME TypeOK, NEW s \in Scans, NEW t \in Scans, t # s,
           \/ Publish(s) \/ HandlerStep(s) \/ GenerateRefused(s)
           \/ GenerateFails(s) \/ AgentLost(s)
           \/ \E d \in Destinations : TaskStep(s, d) \/ PostHangs(s, d)
    PROVE  /\ mail'[t] = mail[t] /\ task'[t] = task[t]
           /\ remaining'[t] = remaining[t] /\ posts'[t] = posts[t]
           /\ received'[t] = received[t] /\ passes'[t] = passes[t]
           /\ t \in aborted' <=> t \in aborted
  <1> USE DEF TypeOK
  <1>1. CASE Publish(s) \/ GenerateRefused(s) \/ GenerateFails(s)
    BY <1>1 DEF Publish, GenerateRefused, GenerateFails, delivery
  <1>2. CASE HandlerStep(s)
    BY <1>2 DEF HandlerStep, Receive, StartDelivery, Acknowledge, delivery
  <1>3. CASE AgentLost(s)
    BY <1>3 DEF AgentLost
  <1>4. ASSUME NEW d \in Destinations, TaskStep(s, d) \/ PostHangs(s, d)
        PROVE  /\ mail'[t] = mail[t] /\ task'[t] = task[t]
               /\ remaining'[t] = remaining[t] /\ posts'[t] = posts[t]
               /\ received'[t] = received[t] /\ passes'[t] = passes[t]
               /\ t \in aborted' <=> t \in aborted
    <2>1. CASE Deliver(s, d)
      BY <2>1 DEF Deliver, Attempt, Accepted, End
    <2>2. CASE PostRejected(s, d)
      BY <2>2 DEF PostRejected, Attempt, End
    <2>3. CASE DeliveryRaises(s, d)
      BY <2>3 DEF DeliveryRaises, Attempt, Accepted, End
    <2>4. CASE PostHangs(s, d)
      BY <2>4 DEF PostHangs, Attempt, Accepted, End
    <2> QED BY <1>4, <2>1, <2>2, <2>3, <2>4 DEF TaskStep
  <1> QED BY <1>1, <1>2, <1>3, <1>4

\* The parts of the invariant, for one scan.
ScanInv(s) ==
    /\ \A d \in Destinations :
          /\ task[s][d] \in Unfinished => mail[s] = "delivering"
          /\ posts[s][d] + Reserved(s, d) <= passes[s] * PerPass(d)
          /\ received[s][d]
               + (IF mail[s] = "generating" \/ task[s][d] = "trying" THEN 1 ELSE 0)
                 <= passes[s]
    /\ Tended(s) => \A d \in Destinations : TaskTried(s, d)

\* The invariant speaks of each scan on its own.
LEMMA IInvByScan == IInv <=> TypeOK /\ \A s \in Scans : ScanInv(s)
  BY DEF IInv, TryingWaited, SentBounded, AcceptedBounded, TasksTried, ScanInv

\* The message moves on, or the agent that handles it is lost.
LEMMA HandlerKeeps ==
    ASSUME TypeOK, TypeOK', NEW s \in Scans, ScanInv(s),
           \/ Publish(s) \/ HandlerStep(s) \/ GenerateRefused(s)
           \/ GenerateFails(s) \/ AgentLost(s)
    PROVE  ScanInv(s)'
  <1>0. \A d \in Destinations :
           /\ PerPass(d) \in Nat /\ PerPass(d) >= 1
           /\ passes[s] * PerPass(d) \in Nat
           /\ (passes[s] + 1) * PerPass(d) = passes[s] * PerPass(d) + PerPass(d)
    BY BudgetType, OneMorePass DEF TypeOK
  <1>1. CASE Publish(s)
    BY <1>0, <1>1 DEF Publish, delivery, ScanInv, TypeOK, Reserved, Left, Tended, TaskTried
  <1>2. CASE Receive(s)
    <2>1. \A d \in Destinations : task[s][d] # "trying"
      BY <1>2 DEF Receive, ScanInv, Unfinished
    <2>2. passes'[s] = passes[s] + 1 /\ mail'[s] = "generating"
      BY <1>2 DEF Receive, TypeOK
    <2> QED
      BY <1>0, <1>2, <2>1, <2>2
         DEF Receive, delivery, ScanInv, TypeOK, Reserved, Left, Tended
  <1>3. CASE StartDelivery(s)
    <2>1. /\ mail'[s] = "delivering"
          /\ \A d \in Destinations :
                task'[s][d] = "trying" /\ remaining'[s][d] = Budget
      BY <1>3 DEF StartDelivery, TypeOK
    <2>2. \A d \in Destinations : Left(s, d)' = PerPass(d)
      BY <2>1 DEF Left, PerPass
    <2>3. \A d \in Destinations : Reserved(s, d) = PerPass(d)
      BY <1>3 DEF StartDelivery, Reserved
    <2>4. \A d \in Destinations : Reserved(s, d)' = PerPass(d)
      BY <2>1, <2>2 DEF Reserved
    <2> QED
      BY <1>3, <2>1, <2>3, <2>4 DEF StartDelivery, ScanInv, Tended, TaskTried
  <1>4. CASE Acknowledge(s)
    BY <1>0, <1>4
       DEF Acknowledge, delivery, ScanInv, TypeOK, Reserved, Left, Tended, TaskTried
  <1>5. CASE GenerateRefused(s) \/ GenerateFails(s)
    <2>1. /\ mail[s] = "generating" /\ UNCHANGED <<task, posts, received, passes>>
          /\ ~Tended(s)' /\ mail'[s] # "generating"
      BY <1>5 DEF GenerateRefused, GenerateFails, delivery, TypeOK, Tended
    <2>2. \A d \in Destinations : task[s][d] # "trying"
      BY <2>1 DEF ScanInv, Unfinished
    <2> QED BY <1>0, <2>1, <2>2 DEF ScanInv, TypeOK, Reserved, Left
  <1>6. CASE AgentLost(s)
    <2>1. /\ mail'[s] = "queued" /\ UNCHANGED <<posts, received, passes>>
          /\ \A d \in Destinations : task'[s][d] = "none"
      BY <1>6 DEF AgentLost, TypeOK
    <2>2. \A d \in Destinations :
             /\ posts'[s][d] = posts[s][d] /\ received'[s][d] = received[s][d]
             /\ passes'[s] = passes[s]
             /\ posts[s][d] \in Nat /\ received[s][d] \in Nat /\ passes[s] \in Nat
      BY <2>1 DEF TypeOK
    <2>3. \A d \in Destinations : Reserved(s, d) \in Nat /\ Reserved(s, d)' = 0
      BY <1>0, <2>1 DEF Reserved, Left, TypeOK
    <2> QED BY <1>0, <2>1, <2>2, <2>3 DEF ScanInv, Tended, Unfinished
  <1> QED BY <1>1, <1>2, <1>3, <1>4, <1>5, <1>6 DEF HandlerStep

\* A task sends a request and takes it from what is left.
LEMMA TaskKeeps ==
    ASSUME TypeOK, TypeOK', NEW s \in Scans, ScanInv(s),
           NEW d \in Destinations, TaskStep(s, d) \/ PostHangs(s, d)
    PROVE  ScanInv(s)'
  <1>1. /\ mail[s] = "delivering" /\ UNCHANGED <<mail, passes>>
        /\ task[s][d] = "trying"
        /\ posts'[s][d] = posts[s][d] + 1
    BY DEF TaskStep, Deliver, PostRejected, DeliveryRaises, PostHangs, Attempt, TypeOK
  <1>2. ASSUME NEW e \in Destinations, e # d
        PROVE  /\ task'[s][e] = task[s][e] /\ remaining'[s][e] = remaining[s][e]
               /\ posts'[s][e] = posts[s][e] /\ received'[s][e] = received[s][e]
    BY <1>2 DEF TaskStep, Deliver, PostRejected, DeliveryRaises, PostHangs, Attempt,
                Accepted, End, TypeOK
  <1>3. \/ /\ task'[s][d] = "delivered"
           /\ received'[s][d] = received[s][d] + 1
        \/ /\ task'[s][d] \in {"failed", "hung"}
           /\ received'[s][d] \in {received[s][d], received[s][d] + 1}
        \/ /\ d \in Http
           /\ task'[s][d] = "trying"
           /\ remaining[s][d] - 1 >= 0
           /\ remaining'[s][d] = remaining[s][d] - 1
           /\ received'[s][d] = received[s][d]
    BY <1>1 DEF TaskStep, Deliver, PostRejected, DeliveryRaises, PostHangs, Accepted, End, TypeOK
  <1>4. /\ posts[s][d] \in Nat /\ received[s][d] \in Nat /\ passes[s] \in Nat
        /\ remaining[s][d] \in Nat /\ passes[s] * PerPass(d) \in Nat
    BY BudgetType, OneMorePass DEF TypeOK
  <1>5. /\ posts[s][d] + Left(s, d) <= passes[s] * PerPass(d)
        /\ received[s][d] + 1 <= passes[s]
    BY <1>1 DEF ScanInv, Reserved
  <1>6. /\ posts'[s][d] + Left(s, d)' <= passes[s] * PerPass(d)
        /\ received'[s][d] + (IF task'[s][d] = "trying" THEN 1 ELSE 0) <= passes[s]
    BY <1>1, <1>3, <1>4, <1>5 DEF Left
  <1>7. TaskTried(s, d)'
    BY <1>1, <1>3, <1>4 DEF TaskTried
  <1> QED
    BY <1>1, <1>2, <1>6, <1>7 DEF ScanInv, Reserved, Left, Tended, TaskTried

\* Every step keeps the invariant.
LEMMA NextIInv == IInv /\ [Next]_vars => IInv'
  <1> SUFFICES ASSUME IInv, [Next]_vars PROVE IInv'
    OBVIOUS
  <1>1. TypeOK /\ TypeOK' /\ \A s \in Scans : ScanInv(s)
    BY IInvByScan, TypeStep DEF IInv
  <1>2. CASE UNCHANGED vars
    BY <1>2 DEF IInv, vars, delivery, TypeOK, TryingWaited, SentBounded,
        AcceptedBounded, TasksTried, Tended, TaskTried, Reserved, Left
  <1>3. CASE Next
    <2>1. PICK s \in Scans :
            \/ Publish(s) \/ HandlerStep(s) \/ GenerateRefused(s)
            \/ GenerateFails(s) \/ AgentLost(s)
            \/ \E d \in Destinations : TaskStep(s, d) \/ PostHangs(s, d)
      BY <1>3 DEF Next
    <2>2. ScanInv(s)'
      BY <1>1, <2>1, HandlerKeeps, TaskKeeps
    <2>3. ASSUME NEW t \in Scans, t # s PROVE ScanInv(t)'
      <3>1. /\ mail'[t] = mail[t] /\ task'[t] = task[t]
            /\ remaining'[t] = remaining[t] /\ posts'[t] = posts[t]
            /\ received'[t] = received[t] /\ passes'[t] = passes[t]
            /\ t \in aborted' <=> t \in aborted
        BY <1>1, <2>1, <2>3, OthersUntouched
      <3> QED BY <1>1, <3>1 DEF ScanInv, Reserved, Left, Tended, TaskTried
    <2>4. (TypeOK /\ \A t \in Scans : ScanInv(t))'
      BY <1>1, <2>2, <2>3
    <2> QED
      BY <2>4 DEF IInv, TryingWaited, SentBounded, AcceptedBounded, TasksTried,
        ScanInv
  <1> QED BY <1>2, <1>3

\* The invariant gives the two properties the run checks.
LEMMA IInvEnough == IInv => DeliveryBudget /\ NoDestinationSkipped
  <1> SUFFICES ASSUME IInv PROVE DeliveryBudget /\ NoDestinationSkipped
    OBVIOUS
  <1>1. ASSUME NEW s \in Scans, NEW d \in Destinations
        PROVE  /\ received[s][d] <= passes[s]
               /\ posts[s][d] + Left(s, d) <= passes[s] * PerPass(d)
    <2>1. /\ posts[s][d] \in Nat /\ received[s][d] \in Nat /\ passes[s] \in Nat
          /\ PerPass(d) \in Nat /\ passes[s] * PerPass(d) \in Nat
      BY BudgetType, OneMorePass DEF IInv, TypeOK
    <2>2. mail[s] = "generating" => Left(s, d) = 0
      BY DEF IInv, TryingWaited, Left, Unfinished
    <2> QED
      BY <2>1, <2>2 DEF IInv, SentBounded, AcceptedBounded, Reserved
  <1>2. DeliveryBudget
    BY <1>1 DEF DeliveryBudget, Left, PerPass
  <1>3. NoDestinationSkipped
    BY DEF IInv, TypeOK, TaskStates, TryingWaited, Unfinished, TasksTried, Tended, TaskTried,
      NoDestinationSkipped
  <1> QED BY <1>2, <1>3

-----------------------------------------------------------------------------
\* Every value stays within its type, whatever the agents and the destinations
\* do.
THEOREM TypeCorrect == Spec => []TypeOK
  <1>1. Init => TypeOK
    BY InitIInv DEF IInv
  <1> QED BY <1>1, TypeStep, PTL DEF Spec

\* However often the agent is lost, the message redelivered and a request
\* refused, a destination gets no more than its budget for each pass.
THEOREM BudgetIsKept == Spec => []DeliveryBudget
  BY InitIInv, NextIInv, IInvEnough, PTL DEF Spec

\* The message is acknowledged only after every destination was tried.
THEOREM NoneIsSkipped == Spec => []NoDestinationSkipped
  BY InitIInv, NextIInv, IInvEnough, PTL DEF Spec
=============================================================================
