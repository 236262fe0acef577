---------------------------- MODULE KickoffProofs ----------------------------
(***************************************************************************)
(* Proofs about Kickoff, for any repositories, projects and branches, any  *)
(* finite set of workers and any limit.  The limit is proved by counting:  *)
(* a worker is admitted by a list of running scans that was below it, and  *)
(* pays for the scan it starts by leaving the admitted.  The duplicates    *)
(* are proved scan by scan: a worker that is about to scan a project has   *)
(* checked that there is nothing, and is alone unless the project is in    *)
(* "raced" or in "unseen".                                                 *)
(***************************************************************************)
EXTENDS Kickoff, FiniteSetTheorems, SequenceTheorems, TLAPS

\* The scans that the workers have started and that run.
DirectRunning == {x \in RunningKoScans : scans[x].direct}

\* Worker w has decided to scan project p.
Decided(w, p) == worker[w].at = "scan" /\ ProjectOf[worker[w].client] = p

\* Scan x is a kickoff scan of project p that a worker has started and that
\* keeps others from being started.
Stands(x, p) ==
    /\ scans[x].project = p
    /\ scans[x].kickoff
    /\ scans[x].direct
    /\ Counts(x)

\* The projects that nothing has kept from being checked properly.
Checked == Projects \ (raced \cup unseen)

\* Unless two workers have checked a project at the same time, or one of them
\* by a name it does not have, at most one worker has decided to scan it, and
\* then it has no scan that counts.
AloneInv ==
    \A p \in Checked :
        /\ \A v, w \in Workers : Decided(v, p) /\ Decided(w, p) => v = w
        /\ \A w \in Workers, x \in DOMAIN scans :
              ~(Decided(w, p) /\ Stands(x, p))
        /\ \A x, y \in DOMAIN scans : Stands(x, p) /\ Stands(y, p) => x = y

-----------------------------------------------------------------------------
\* A worker at a stage of the request has the record of one.
LEMMA BusyAt ==
    ASSUME TypeOK, NEW w \in Workers, worker[w].at \in Stages \/ worker[w] # Idle
    PROVE  /\ worker[w] \in Busy
           /\ worker[w].client \in Clients
           /\ ProjectOf[worker[w].client] \in Projects
           /\ BranchOf[worker[w].client] \in Branches
  <1>1. worker[w] \in Busy \cup {Idle}
    BY DEF TypeOK
  <1>2. Idle.at \notin Stages
    BY DEF Idle, Stages
  <1>3. worker[w] \in Busy
    BY <1>1, <1>2
  <1>4. worker[w].client \in Clients
    BY <1>3 DEF Busy
  <1> QED BY <1>3, <1>4 DEF Projects, Branches

\* What an answer leaves of the worker and of the client.
LEMMA AnswerType ==
    ASSUME TypeOK, NEW w \in Workers, worker[w].client \in Clients,
           NEW response \in Responses, Answer(w, response)
    PROVE  /\ worker' = [worker EXCEPT ![w] = Idle]
           /\ worker' \in [Workers -> Busy \cup {Idle}]
           /\ client' \in [Clients -> ClientStates]
           /\ renewed' \in SUBSET Clients
  <1> DEFINE c == worker[w].client
  <1>1. Takes(c, response) \subseteq ClientStates
    BY DEF Takes, Responses, ClientStates, Ended
  <1>2. worker' = [worker EXCEPT ![w] = Idle]
    BY DEF Answer
  <1>3. worker' \in [Workers -> Busy \cup {Idle}]
    BY <1>2 DEF TypeOK
  <1>4. client' \in [Clients -> ClientStates]
    <2>1. \/ UNCHANGED client
          \/ \E state \in Takes(c, response) : client' = [client EXCEPT ![c] = state]
      BY DEF Answer
    <2> QED BY <1>1, <2>1 DEF TypeOK
  <1>5. renewed' \in SUBSET Clients
    <2>1. renewed' \in {renewed, renewed \cup {c}}
      BY DEF Answer
    <2> QED BY <2>1 DEF TypeOK
  <1> QED BY <1>2, <1>3, <1>4, <1>5

\* The running kickoff scans are finitely many.
LEMMA RunningFinite ==
    ASSUME TypeOK
    PROVE  /\ IsFiniteSet(DOMAIN scans)
           /\ IsFiniteSet(RunningKoScans)
           /\ Cardinality(RunningKoScans) \in Nat
  <1>1. IsFiniteSet(DOMAIN scans)
    <2>1. DOMAIN scans = 1..Len(scans) /\ Len(scans) \in Nat
      BY DEF TypeOK
    <2> QED BY <2>1, FS_Interval
  <1>2. RunningKoScans \subseteq DOMAIN scans
    BY DEF RunningKoScans
  <1>3. IsFiniteSet(RunningKoScans)
    BY <1>1, <1>2, FS_Subset
  <1> QED BY <1>1, <1>3, FS_CardinalityType

\* A scan that is added keeps the list well typed.
LEMMA AddScanType ==
    ASSUME TypeOK, NEW p \in Projects, NEW b \in Branches,
           NEW k \in BOOLEAN, NEW d \in BOOLEAN, AddScan(p, b, k, d)
    PROVE  /\ scans' \in Seq(Scan)
           /\ DOMAIN scans' = DOMAIN scans \cup {Len(scans) + 1}
           /\ Len(scans) + 1 \notin DOMAIN scans
           /\ \A x \in DOMAIN scans : scans'[x] = scans[x]
           /\ scans'[Len(scans) + 1] =
                [project |-> p, branch |-> b, kickoff |-> k, direct |-> d,
                 status |-> "running"]
  <1> DEFINE new == [project |-> p, branch |-> b, kickoff |-> k, direct |-> d,
                     status |-> "running"]
  <1>1. new \in Scan
    BY DEF Scan
  <1>2. scans \in Seq(Scan) /\ scans' = Append(scans, new) /\ Len(scans) \in Nat
    BY DEF TypeOK, AddScan
  <1> HIDE DEF new
  <1>3. /\ scans' \in Seq(Scan) /\ Len(scans') = Len(scans) + 1
        /\ \A x \in 1..Len(scans) : scans'[x] = scans[x]
        /\ scans'[Len(scans) + 1] = new
    BY <1>1, <1>2, AppendProperties
  <1>4. DOMAIN scans = 1..Len(scans) /\ DOMAIN scans' = 1..(Len(scans) + 1)
    BY <1>2, <1>3
  <1> QED BY <1>2, <1>3, <1>4 DEF new

\* A worker's record with another stage, another number of running scans or
\* without its client is the record of a request.
LEMMA BusyUpdate ==
    ASSUME NEW r \in Busy
    PROVE  /\ \A stage \in Stages : [r EXCEPT !.at = stage] \in Busy
           /\ \A n \in Nat, s \in BOOLEAN :
                 [r EXCEPT !.at = "branch", !.running = n, !.sees = s] \in Busy
           /\ [r EXCEPT !.heard = FALSE] \in Busy
  BY DEF Busy, Stages

\* A scan that ends keeps the list well typed.
LEMMA FinishType ==
    ASSUME TypeOK, NEW x \in DOMAIN scans, FinishScan(x)
    PROVE  /\ scans' \in Seq(Scan)
           /\ DOMAIN scans' = DOMAIN scans
           /\ \A y \in DOMAIN scans : y # x => scans'[y] = scans[y]
           /\ scans'[x].status \in {"completed", "failed"}
           /\ scans'[x].project = scans[x].project
           /\ scans'[x].kickoff = scans[x].kickoff
           /\ scans'[x].direct = scans[x].direct
           /\ scans[x].status = "running"
  <1>1. PICK r \in {"completed", "failed"} :
          scans' = [scans EXCEPT ![x] = [scans[x] EXCEPT !.status = r]]
    BY DEF FinishScan
  <1>2. scans \in [1..Len(scans) -> Scan] /\ Len(scans) \in Nat
    BY DEF TypeOK
  <1>3. scans[x] \in Scan
    BY <1>2
  <1>4. [scans[x] EXCEPT !.status = r] \in Scan
    BY <1>3 DEF Scan
  <1>5. scans' \in [1..Len(scans) -> Scan]
    BY <1>1, <1>2, <1>4
  <1>6. scans' \in Seq(Scan)
    BY <1>2, <1>5, SeqDef
  <1>7. /\ [scans[x] EXCEPT !.status = r].status = r
        /\ [scans[x] EXCEPT !.status = r].project = scans[x].project
        /\ [scans[x] EXCEPT !.status = r].kickoff = scans[x].kickoff
        /\ [scans[x] EXCEPT !.status = r].direct = scans[x].direct
    BY <1>3 DEF Scan
  <1> QED BY <1>1, <1>2, <1>5, <1>6, <1>7 DEF FinishScan

-----------------------------------------------------------------------------
\* Every step keeps the types.
LEMMA TypeStep == TypeOK /\ [Next]_vars => TypeOK'
  <1> SUFFICES ASSUME TypeOK, [Next]_vars PROVE TypeOK'
    OBVIOUS
  <1>0. /\ worker \in [Workers -> Busy \cup {Idle}]
        /\ client \in [Clients -> ClientStates]
        /\ faults \in 0..MaxFaults /\ reruns \in 0..MaxReruns
        /\ MaxFaults \in Nat /\ MaxReruns \in Nat
    BY KickoffAssumption DEF TypeOK
  <1>1. ASSUME NEW c \in Clients, Rerun(c) PROVE TypeOK'
    <2>1. client' \in [Clients -> ClientStates]
      BY <1>0, <1>1 DEF Rerun, ClientStates
    <2>2. reruns' \in 0..MaxReruns
      BY <1>0, <1>1 DEF Rerun
    <2> QED BY <1>1, <2>1, <2>2 DEF Rerun, TypeOK
  <1>2. ASSUME NEW c \in Clients, NEW w \in Workers, Send(c, w) PROVE TypeOK'
    <2>1. client' \in [Clients -> ClientStates]
      BY <1>0, <1>2 DEF Send, ClientStates
    <2>2. [at |-> "list", client |-> c, running |-> 0, sees |-> TRUE,
           heard |-> TRUE] \in Busy
      BY DEF Busy, Stages
    <2>3. worker' \in [Workers -> Busy \cup {Idle}]
      BY <1>0, <1>2, <2>2 DEF Send
    <2> QED BY <1>2, <2>1, <2>3 DEF Send, TypeOK
  <1>3. ASSUME NEW w \in Workers, Disconnect(w) PROVE TypeOK'
    <2>1. worker[w] \in Busy /\ worker[w].client \in Clients
      BY <1>3, BusyAt DEF Disconnect
    <2>2. worker' = [worker EXCEPT ![w] = [worker[w] EXCEPT !.heard = FALSE]]
      BY <1>3 DEF Disconnect
    <2>3. worker' \in [Workers -> Busy \cup {Idle}]
      BY <1>0, <2>1, <2>2, BusyUpdate
    <2>4. client' \in [Clients -> ClientStates]
      BY <1>0, <1>3, <2>1 DEF Disconnect, ClientStates, Ended
    <2>5. faults' \in 0..MaxFaults
      BY <1>0, <1>3 DEF Disconnect, Fault
    <2> QED BY <1>3, <2>3, <2>4, <2>5 DEF Disconnect, TypeOK
  <1>4. ASSUME NEW w \in Workers, ListRunning(w) PROVE TypeOK'
    <2>1. worker[w] \in Busy
      BY <1>4, BusyAt DEF ListRunning, Stages
    <2>2. PICK s \in BOOLEAN : worker' = [worker EXCEPT ![w] =
            [worker[w] EXCEPT !.at = "branch", !.running = Cardinality(RunningKoScans),
                              !.sees = s]]
      BY <1>4 DEF ListRunning
    <2>3. worker' \in [Workers -> Busy \cup {Idle}]
      BY <1>0, <2>1, <2>2, BusyUpdate, RunningFinite
    <2>4. faults' \in 0..MaxFaults
      BY <1>0, <1>4 DEF ListRunning, Fault
    <2> QED BY <1>4, <2>3, <2>4 DEF ListRunning, TypeOK
  <1>5. ASSUME NEW w \in Workers, NEW stage \in Stages, worker[w].at \in Stages,
               Proceed(w, stage)
        PROVE  /\ worker' \in [Workers -> Busy \cup {Idle}]
               /\ UNCHANGED <<client, renewed>>
    <2>1. worker[w] \in Busy
      BY <1>5, BusyAt
    <2>2. worker' = [worker EXCEPT ![w] = [worker[w] EXCEPT !.at = stage]]
      BY <1>5 DEF Proceed
    <2> QED BY <1>0, <1>5, <2>1, <2>2, BusyUpdate DEF Proceed
  <1>6. ASSUME NEW w \in Workers, CheckBranch(w) PROVE TypeOK'
    <2>1. worker[w].at \in Stages /\ worker[w].client \in Clients
      BY <1>6, BusyAt DEF CheckBranch, Stages
    <2>2. \/ \E r \in Responses : Answer(w, r)
          \/ \E stage \in Stages : Proceed(w, stage)
      BY <1>6 DEF CheckBranch, Responses, Stages
    <2>3. /\ worker' \in [Workers -> Busy \cup {Idle}]
          /\ client' \in [Clients -> ClientStates]
          /\ renewed' \in SUBSET Clients
      BY <1>5, <2>1, <2>2, AnswerType DEF TypeOK
    <2> QED BY <1>6, <2>3 DEF CheckBranch, TypeOK
  <1>7. ASSUME NEW w \in Workers, CheckProject(w) PROVE TypeOK'
    <2>1. /\ worker[w].at \in Stages /\ worker[w].client \in Clients
          /\ ProjectOf[worker[w].client] \in Projects
      BY <1>7, BusyAt DEF CheckProject, Stages
    <2>2. \/ \E r \in Responses : Answer(w, r)
          \/ \E stage \in Stages : Proceed(w, stage)
      BY <1>7 DEF CheckProject, Responses, Stages
    <2>3. /\ worker' \in [Workers -> Busy \cup {Idle}]
          /\ client' \in [Clients -> ClientStates]
          /\ renewed' \in SUBSET Clients
      BY <1>5, <2>1, <2>2, AnswerType DEF TypeOK
    <2>4. raced' \in SUBSET Projects /\ unseen' \in SUBSET Projects
      BY <1>7, <2>1 DEF CheckProject, TypeOK
    <2> QED BY <1>7, <2>3, <2>4 DEF CheckProject, TypeOK
  <1>8. ASSUME NEW w \in Workers,
               StartScan(w) \/ WorkerFails(w) \/ Unauthorized(w)
        PROVE  TypeOK'
    <2>1. /\ worker[w].client \in Clients
          /\ ProjectOf[worker[w].client] \in Projects
          /\ BranchOf[worker[w].client] \in Branches
      BY <1>8, BusyAt DEF StartScan, WorkerFails, Unauthorized, Stages
    <2>2. \E r \in Responses : Answer(w, r)
      BY <1>8 DEF StartScan, WorkerFails, Unauthorized, Responses
    <2>3. /\ worker' \in [Workers -> Busy \cup {Idle}]
          /\ client' \in [Clients -> ClientStates]
          /\ renewed' \in SUBSET Clients
      BY <2>1, <2>2, AnswerType
    <2>4. scans' \in Seq(Scan)
      <3>1. \/ UNCHANGED scans
            \/ AddScan(ProjectOf[worker[w].client], BranchOf[worker[w].client],
                       TRUE, TRUE)
        BY <1>8 DEF StartScan, WorkerFails, Unauthorized
      <3>2. CASE UNCHANGED scans
        BY <3>2 DEF TypeOK
      <3> QED BY <2>1, <3>1, <3>2, AddScanType
    <2>5. pending' \in [Clients -> Nat]
      <3>1. \/ UNCHANGED pending
            \/ pending' = [pending EXCEPT ![worker[w].client] = @ + 1]
        BY <1>8 DEF StartScan, WorkerFails, Unauthorized
      <3> QED BY <2>1, <3>1 DEF TypeOK
    <2>6. faults' \in 0..MaxFaults
      <3>1. UNCHANGED faults \/ Fault
        BY <1>8 DEF StartScan, WorkerFails, Unauthorized
      <3> QED BY <1>0, <3>1 DEF Fault
    <2>7. UNCHANGED <<setup, raced, unseen, reruns>>
      BY <1>8 DEF StartScan, WorkerFails, Unauthorized
    <2> QED BY <2>3, <2>4, <2>5, <2>6, <2>7 DEF TypeOK
  <1>9. ASSUME NEW c \in Clients, AgentScan(c) \/ PushScan(c) PROVE TypeOK'
    <2>1. ProjectOf[c] \in Projects /\ BranchOf[c] \in Branches
      BY DEF Projects, Branches
    <2>2. scans' \in Seq(Scan)
      BY <1>9, <2>1, AddScanType DEF AgentScan, PushScan
    <2>3. pending' \in [Clients -> Nat]
      <3>1. \/ UNCHANGED pending
            \/ pending[c] > 0 /\ pending' = [pending EXCEPT ![c] = @ - 1]
        BY <1>9 DEF AgentScan, PushScan
      <3> QED BY <3>1 DEF TypeOK
    <2> QED BY <1>9, <2>2, <2>3 DEF AgentScan, PushScan, TypeOK
  <1>10. ASSUME NEW x \in DOMAIN scans, FinishScan(x) PROVE TypeOK'
    <2>1. scans' \in Seq(Scan)
      BY <1>10, FinishType
    <2> QED BY <1>10, <2>1 DEF FinishScan, TypeOK
  <1>11. CASE UNCHANGED vars
    BY <1>11 DEF vars, TypeOK
  <1> QED
    BY <1>1, <1>2, <1>3, <1>4, <1>6, <1>7, <1>8, <1>9, <1>10, <1>11
       DEF Next, Serve

-----------------------------------------------------------------------------
(* The limit.                                                              *)

\* What is counted is finite, and no more workers are admitted than there are.
LEMMA CountsFinite ==
    ASSUME TypeOK
    PROVE  /\ IsFiniteSet(DirectRunning) /\ Cardinality(DirectRunning) \in Nat
           /\ Cardinality(DirectRunning) <= Cardinality(RunningKoScans)
           /\ IsFiniteSet(Admitted) /\ Cardinality(Admitted) \in Nat
           /\ Cardinality(Admitted) <= Cardinality(Workers)
           /\ Cardinality(Workers) \in Nat
           /\ MaxRunning \in Nat
  <1>1. DirectRunning \subseteq RunningKoScans /\ Admitted \subseteq Workers
    BY DEF DirectRunning, Admitted
  <1>2. IsFiniteSet(Workers) /\ MaxRunning \in Nat
    BY KickoffAssumption
  <1> QED BY <1>1, <1>2, RunningFinite, FS_Subset, FS_CardinalityType

\* The limit is kept when nothing is added to what is counted.
LEMMA LimitShrinks ==
    ASSUME TypeOK, TypeOK', LimitBound,
           DirectRunning' \subseteq DirectRunning, Admitted' \subseteq Admitted
    PROVE  LimitBound'
  <1>1. /\ Cardinality(DirectRunning') <= Cardinality(DirectRunning)
        /\ Cardinality(Admitted') <= Cardinality(Admitted)
    BY CountsFinite, FS_Subset
  <1>2. /\ Cardinality(DirectRunning') \in Nat /\ Cardinality(Admitted') \in Nat
    BY CountsFinite, FS_Subset, FS_CardinalityType
  <1>3. Cardinality(DirectRunning) + Cardinality(Admitted)
          < MaxRunning + Cardinality(Workers)
    BY DEF LimitBound, DirectRunning
  <1>4. Cardinality(DirectRunning') + Cardinality(Admitted')
          < MaxRunning + Cardinality(Workers)
    BY <1>1, <1>2, <1>3, CountsFinite
  <1> QED BY <1>4 DEF LimitBound, DirectRunning

\* The limit is kept when an admitted worker leaves and a scan is added.
LEMMA LimitPaid ==
    ASSUME TypeOK, TypeOK', LimitBound, NEW w \in Admitted, NEW x,
           DirectRunning' \subseteq DirectRunning \cup {x},
           Admitted' \subseteq Admitted \ {w}
    PROVE  LimitBound'
  <1>1. /\ IsFiniteSet(DirectRunning \cup {x})
        /\ Cardinality(DirectRunning \cup {x}) <= Cardinality(DirectRunning) + 1
        /\ Cardinality(DirectRunning \cup {x}) \in Nat
    <2>1. IsFiniteSet(DirectRunning) /\ Cardinality(DirectRunning) \in Nat
      BY CountsFinite
    <2>2. /\ IsFiniteSet(DirectRunning \cup {x})
          /\ \/ Cardinality(DirectRunning \cup {x}) = Cardinality(DirectRunning)
             \/ Cardinality(DirectRunning \cup {x}) = Cardinality(DirectRunning) + 1
      BY <2>1, FS_AddElement
    <2> QED BY <2>1, <2>2
  <1>2. /\ IsFiniteSet(Admitted \ {w})
        /\ Cardinality(Admitted \ {w}) = Cardinality(Admitted) - 1
        /\ Cardinality(Admitted \ {w}) \in Nat
    BY CountsFinite, FS_RemoveElement, FS_CardinalityType
  <1>3. /\ Cardinality(DirectRunning') <= Cardinality(DirectRunning \cup {x})
        /\ Cardinality(Admitted') <= Cardinality(Admitted \ {w})
        /\ Cardinality(DirectRunning') \in Nat /\ Cardinality(Admitted') \in Nat
    BY <1>1, <1>2, FS_Subset, FS_CardinalityType
  <1>4. Cardinality(DirectRunning) + Cardinality(Admitted)
          < MaxRunning + Cardinality(Workers)
    BY DEF LimitBound, DirectRunning
  <1>5. Cardinality(DirectRunning') + Cardinality(Admitted')
          < MaxRunning + Cardinality(Workers)
    BY <1>1, <1>2, <1>3, <1>4, CountsFinite
  <1> QED BY <1>5 DEF LimitBound, DirectRunning

\* A worker that answers leaves the admitted.
LEMMA AnswerLeaves ==
    ASSUME TypeOK, NEW w \in Workers, worker' = [worker EXCEPT ![w] = Idle]
    PROVE  Admitted' \subseteq Admitted \ {w}
  <1>1. Idle.at = "idle"
    BY DEF Idle
  <1>2. worker'[w] = Idle /\ \A v \in Workers : v # w => worker'[v] = worker[v]
    BY DEF TypeOK
  <1> QED BY <1>1, <1>2 DEF Admitted

\* The running kickoff scans of the workers, after each change of the list.
LEMMA DirectChanges ==
    ASSUME TypeOK
    PROVE  /\ UNCHANGED scans => DirectRunning' = DirectRunning
           /\ \A p \in Projects, b \in Branches, k, d \in BOOLEAN :
                AddScan(p, b, k, d) =>
                  /\ DirectRunning' \subseteq DirectRunning \cup {Len(scans) + 1}
                  /\ ~d => DirectRunning' \subseteq DirectRunning
           /\ \A x \in DOMAIN scans :
                FinishScan(x) => DirectRunning' \subseteq DirectRunning
  <1>1. UNCHANGED scans => DirectRunning' = DirectRunning
    BY DEF DirectRunning, RunningKoScans
  <1>2. ASSUME NEW p \in Projects, NEW b \in Branches, NEW k \in BOOLEAN,
               NEW d \in BOOLEAN, AddScan(p, b, k, d)
        PROVE  /\ DirectRunning' \subseteq DirectRunning \cup {Len(scans) + 1}
               /\ ~d => DirectRunning' \subseteq DirectRunning
    <2>1. /\ DOMAIN scans' = DOMAIN scans \cup {Len(scans) + 1}
          /\ \A x \in DOMAIN scans : scans'[x] = scans[x]
          /\ scans'[Len(scans) + 1] =
                [project |-> p, branch |-> b, kickoff |-> k, direct |-> d,
                 status |-> "running"]
      BY <1>2, AddScanType
    <2> QED BY <2>1 DEF DirectRunning, RunningKoScans
  <1>3. ASSUME NEW x \in DOMAIN scans, FinishScan(x)
        PROVE  DirectRunning' \subseteq DirectRunning
    <2>1. /\ DOMAIN scans' = DOMAIN scans
          /\ \A y \in DOMAIN scans : y # x => scans'[y] = scans[y]
          /\ scans'[x].status \in {"completed", "failed"}
      BY <1>3, FinishType
    <2> QED BY <2>1 DEF DirectRunning, RunningKoScans
  <1> QED BY <1>1, <1>2, <1>3

\* Every step keeps the limit.
LEMMA LimitStep == TypeOK /\ TypeOK' /\ LimitBound /\ [Next]_vars => LimitBound'
  <1> SUFFICES ASSUME TypeOK, TypeOK', LimitBound, [Next]_vars PROVE LimitBound'
    OBVIOUS
  <1>0. worker \in [Workers -> Busy \cup {Idle}]
    BY DEF TypeOK
  <1>1. ASSUME UNCHANGED <<worker, scans>> PROVE LimitBound'
    <2>1. Admitted' = Admitted
      BY <1>1 DEF Admitted
    <2> QED BY <1>1, <2>1, LimitShrinks, DirectChanges
  <1>2. ASSUME NEW c \in Clients, NEW w \in Workers, Send(c, w) PROVE LimitBound'
    <2>1. worker'[w].at = "list" /\ \A v \in Workers : v # w => worker'[v] = worker[v]
      BY <1>0, <1>2 DEF Send
    <2>2. Admitted' \subseteq Admitted /\ UNCHANGED scans
      BY <1>2, <2>1 DEF Admitted, Send
    <2> QED BY <2>2, LimitShrinks, DirectChanges
  <1>3. ASSUME NEW w \in Workers, Disconnect(w) PROVE LimitBound'
    <2>1. worker[w] \in Busy
      BY <1>3, BusyAt DEF Disconnect
    <2>2. worker' = [worker EXCEPT ![w] = [worker[w] EXCEPT !.heard = FALSE]]
      BY <1>3 DEF Disconnect
    <2>3. /\ worker'[w].at = worker[w].at /\ worker'[w].running = worker[w].running
          /\ \A v \in Workers : v # w => worker'[v] = worker[v]
      BY <1>0, <2>1, <2>2 DEF Busy
    <2>4. Admitted' \subseteq Admitted /\ UNCHANGED scans
      BY <1>3, <2>3 DEF Admitted, Disconnect
    <2> QED BY <2>4, LimitShrinks, DirectChanges
  <1>4. ASSUME NEW w \in Workers, ListRunning(w) PROVE LimitBound'
    <2> DEFINE n == Cardinality(RunningKoScans)
    <2>1. worker[w] \in Busy
      BY <1>4, BusyAt DEF ListRunning, Stages
    <2>2. PICK s \in BOOLEAN : worker' = [worker EXCEPT ![w] =
            [worker[w] EXCEPT !.at = "branch", !.running = n, !.sees = s]]
      BY <1>4 DEF ListRunning
    <2>3. /\ worker'[w].at = "branch" /\ worker'[w].running = n
          /\ \A v \in Workers : v # w => worker'[v] = worker[v]
      BY <1>0, <2>1, <2>2 DEF Busy
    <2>4. UNCHANGED scans /\ DirectRunning' = DirectRunning
      BY <1>4, DirectChanges DEF ListRunning
    <2>5. CASE n < MaxRunning
      <3>1. Cardinality(DirectRunning) < MaxRunning
        BY <2>5, CountsFinite, RunningFinite
      <3>2. Cardinality(Admitted') \in Nat
        <4>1. Admitted' \subseteq Workers
          BY DEF Admitted
        <4> QED BY <4>1, KickoffAssumption, FS_Subset, FS_CardinalityType
      <3>3. Cardinality(Admitted') <= Cardinality(Workers)
        <4>1. Admitted' \subseteq Workers
          BY DEF Admitted
        <4> QED BY <4>1, KickoffAssumption, FS_Subset
      <3>4. Cardinality(DirectRunning') + Cardinality(Admitted')
              < MaxRunning + Cardinality(Workers)
        BY <2>4, <3>1, <3>2, <3>3, CountsFinite
      <3> QED BY <3>4 DEF LimitBound, DirectRunning
    <2>6. CASE ~(n < MaxRunning)
      <3>1. Admitted' \subseteq Admitted
        BY <2>3, <2>6 DEF Admitted
      <3> QED BY <2>4, <3>1, LimitShrinks
    <2> QED BY <2>5, <2>6
  <1>5. ASSUME NEW w \in Workers, worker[w] \in Busy,
               NEW stage \in {"project", "scan"},
               w \in Admitted, Proceed(w, stage), UNCHANGED scans
        PROVE  LimitBound'
    <2>1. worker' = [worker EXCEPT ![w] = [worker[w] EXCEPT !.at = stage]]
      BY <1>5 DEF Proceed
    <2>2. \A v \in Workers : v # w => worker'[v] = worker[v]
      BY <1>0, <2>1
    <2>3. Admitted' \subseteq Admitted
      BY <1>5, <2>2 DEF Admitted
    <2> QED BY <1>5, <2>3, LimitShrinks, DirectChanges
  <1>6. ASSUME NEW w \in Workers, NEW r \in Responses, Answer(w, r), UNCHANGED scans
        PROVE  LimitBound'
    <2>1. Admitted' \subseteq Admitted
      BY <1>6, AnswerLeaves DEF Answer
    <2> QED BY <1>6, <2>1, LimitShrinks, DirectChanges
  <1>7. ASSUME NEW w \in Workers, CheckBranch(w) PROVE LimitBound'
    <2>1. worker[w] \in Busy /\ worker[w].running \in Nat
      BY <1>7, BusyAt DEF CheckBranch, Stages, Busy
    <2>2. \/ Answer(w, "exists") \/ Answer(w, "tooMany")
          \/ ~TooMany(worker[w].running) /\ Proceed(w, "project")
      BY <1>7 DEF CheckBranch
    <2>3. ~TooMany(worker[w].running) => w \in Admitted
      BY <1>7, <2>1, KickoffAssumption DEF CheckBranch, TooMany, Admitted
    <2>4. UNCHANGED scans /\ {"exists", "tooMany"} \subseteq Responses
      BY <1>7 DEF CheckBranch, Responses
    <2> QED BY <1>5, <1>6, <2>1, <2>2, <2>3, <2>4
  <1>8. ASSUME NEW w \in Workers, CheckProject(w) PROVE LimitBound'
    <2>1. worker[w] \in Busy /\ w \in Admitted
      BY <1>8, BusyAt DEF CheckProject, Stages, Admitted
    <2>2. Answer(w, "exists") \/ Proceed(w, "scan")
      BY <1>8 DEF CheckProject
    <2>3. UNCHANGED scans /\ "exists" \in Responses
      BY <1>8 DEF CheckProject, Responses
    <2> QED BY <1>5, <1>6, <2>1, <2>2, <2>3
  <1>9. ASSUME NEW w \in Workers,
               StartScan(w) \/ WorkerFails(w) \/ Unauthorized(w)
        PROVE  LimitBound'
    <2> DEFINE p == ProjectOf[worker[w].client]
               b == BranchOf[worker[w].client]
    <2>1. p \in Projects /\ b \in Branches
      BY <1>9, BusyAt DEF StartScan, WorkerFails, Unauthorized, Stages
    <2>2. PICK r \in Responses : Answer(w, r)
      BY <1>9 DEF StartScan, WorkerFails, Unauthorized, Responses
    <2>3. \/ UNCHANGED scans
          \/ worker[w].at = "scan" /\ AddScan(p, b, TRUE, TRUE)
      BY <1>9 DEF StartScan, WorkerFails, Unauthorized
    <2>4. ASSUME worker[w].at = "scan", AddScan(p, b, TRUE, TRUE) PROVE LimitBound'
      <3>1. w \in Admitted
        BY <2>4 DEF Admitted
      <3>2. Admitted' \subseteq Admitted \ {w}
        BY <2>2, AnswerLeaves DEF Answer
      <3>3. DirectRunning' \subseteq DirectRunning \cup {Len(scans) + 1}
        BY <2>1, <2>4, DirectChanges
      <3> QED BY <3>1, <3>2, <3>3, LimitPaid
    <2> QED BY <1>6, <2>2, <2>3, <2>4
  <1>10. ASSUME NEW c \in Clients, AgentScan(c) \/ PushScan(c) PROVE LimitBound'
    <2>1. ProjectOf[c] \in Projects /\ BranchOf[c] \in Branches
      BY DEF Projects, Branches
    <2>2. \E k \in BOOLEAN : AddScan(ProjectOf[c], BranchOf[c], k, FALSE)
      BY <1>10 DEF AgentScan, PushScan
    <2>3. DirectRunning' \subseteq DirectRunning
      BY <2>1, <2>2, DirectChanges
    <2>4. Admitted' = Admitted
      BY <1>10 DEF AgentScan, PushScan, Admitted
    <2> QED BY <2>3, <2>4, LimitShrinks
  <1>11. ASSUME NEW x \in DOMAIN scans, FinishScan(x) PROVE LimitBound'
    <2>1. DirectRunning' \subseteq DirectRunning
      BY <1>11, DirectChanges
    <2>2. Admitted' = Admitted
      BY <1>11 DEF FinishScan, Admitted
    <2> QED BY <2>1, <2>2, LimitShrinks
  <1>12. ASSUME NEW c \in Clients, Rerun(c) PROVE LimitBound'
    BY <1>1, <1>12 DEF Rerun
  <1>13. CASE UNCHANGED vars
    BY <1>1, <1>13 DEF vars
  <1> QED
    BY <1>2, <1>3, <1>4, <1>7, <1>8, <1>9, <1>10, <1>11, <1>12, <1>13
       DEF Next, Serve

-----------------------------------------------------------------------------
(* Duplicates.                                                             *)

\* Nothing is lost when no worker decides and no scan comes to count.
LEMMA AloneCalm ==
    ASSUME AloneInv, Checked' \subseteq Checked,
           \A w \in Workers, p \in Projects : Decided(w, p)' => Decided(w, p),
           \A x \in DOMAIN scans', p \in Projects :
              Stands(x, p)' => x \in DOMAIN scans /\ Stands(x, p)
    PROVE  AloneInv'
  <1> SUFFICES ASSUME NEW p \in Checked'
               PROVE  /\ \A v, w \in Workers :
                            Decided(v, p)' /\ Decided(w, p)' => v = w
                      /\ \A w \in Workers, x \in DOMAIN scans' :
                            ~(Decided(w, p)' /\ Stands(x, p)')
                      /\ \A x, y \in DOMAIN scans' :
                            Stands(x, p)' /\ Stands(y, p)' => x = y
    BY DEF AloneInv
  <1>1. p \in Checked /\ p \in Projects
    BY DEF Checked
  <1> QED BY <1>1 DEF AloneInv

\* What counts after each change of the list of scans.
LEMMA StandsChanges ==
    ASSUME TypeOK
    PROVE  /\ UNCHANGED scans =>
                \A x \in DOMAIN scans', q \in Projects :
                   Stands(x, q)' => x \in DOMAIN scans /\ Stands(x, q)
           /\ \A p \in Projects, b \in Branches, k, d \in BOOLEAN :
                AddScan(p, b, k, d) =>
                  \A x \in DOMAIN scans', q \in Projects :
                     Stands(x, q)' =>
                        \/ x \in DOMAIN scans /\ Stands(x, q)
                        \/ d /\ x = Len(scans) + 1 /\ q = p
           /\ \A y \in DOMAIN scans :
                FinishScan(y) =>
                  \A x \in DOMAIN scans', q \in Projects :
                     Stands(x, q)' => x \in DOMAIN scans /\ Stands(x, q)
  <1>1. ASSUME UNCHANGED scans, NEW x \in DOMAIN scans', NEW q \in Projects,
               Stands(x, q)'
        PROVE  x \in DOMAIN scans /\ Stands(x, q)
    BY <1>1 DEF Stands, Counts
  <1>2. ASSUME NEW p \in Projects, NEW b \in Branches, NEW k \in BOOLEAN,
               NEW d \in BOOLEAN, AddScan(p, b, k, d),
               NEW x \in DOMAIN scans', NEW q \in Projects, Stands(x, q)'
        PROVE  \/ x \in DOMAIN scans /\ Stands(x, q)
               \/ d /\ x = Len(scans) + 1 /\ q = p
    <2>1. /\ DOMAIN scans' = DOMAIN scans \cup {Len(scans) + 1}
          /\ \A y \in DOMAIN scans : scans'[y] = scans[y]
          /\ scans'[Len(scans) + 1] =
                [project |-> p, branch |-> b, kickoff |-> k, direct |-> d,
                 status |-> "running"]
      BY <1>2, AddScanType
    <2>2. CASE x \in DOMAIN scans
      BY <1>2, <2>1, <2>2 DEF Stands, Counts
    <2>3. CASE x = Len(scans) + 1
      BY <1>2, <2>1, <2>3 DEF Stands
    <2> QED BY <2>1, <2>2, <2>3
  <1>3. ASSUME NEW y \in DOMAIN scans, FinishScan(y),
               NEW x \in DOMAIN scans', NEW q \in Projects, Stands(x, q)'
        PROVE  x \in DOMAIN scans /\ Stands(x, q)
    <2>1. /\ DOMAIN scans' = DOMAIN scans
          /\ x # y => scans'[x] = scans[x]
          /\ scans'[y].project = scans[y].project
          /\ scans'[y].kickoff = scans[y].kickoff
          /\ scans'[y].direct = scans[y].direct
          /\ scans[y].status = "running"
      BY <1>3, FinishType
    <2> QED BY <1>3, <2>1 DEF Stands, Counts
  <1> QED BY <1>1, <1>2, <1>3

\* A worker that is not about to scan after a step has decided nothing.
LEMMA DecidedChanges ==
    ASSUME NEW w \in Workers, worker'[w].at # "scan",
           \A v \in Workers : v # w => worker'[v] = worker[v]
    PROVE  /\ \A v \in Workers, p \in Projects : Decided(v, p)' => Decided(v, p)
           /\ \A p \in Projects : ~Decided(w, p)'
  BY DEF Decided

\* Every step keeps the invariant.
LEMMA AloneStep == TypeOK /\ AloneInv /\ [Next]_vars => AloneInv'
  <1> SUFFICES ASSUME TypeOK, AloneInv, [Next]_vars PROVE AloneInv'
    OBVIOUS
  <1>0. worker \in [Workers -> Busy \cup {Idle}] /\ Idle.at = "idle"
    BY DEF TypeOK, Idle
  <1>1. ASSUME UNCHANGED worker PROVE
          \A w \in Workers, p \in Projects : Decided(w, p)' => Decided(w, p)
    BY <1>1 DEF Decided
  <1>2. ASSUME NEW w \in Workers, NEW r, Answer(w, r)
        PROVE  /\ worker'[w].at # "scan"
               /\ \A v \in Workers : v # w => worker'[v] = worker[v]
    BY <1>0, <1>2 DEF Answer
  <1>3. ASSUME NEW w \in Workers, worker'[w].at # "scan",
               \A v \in Workers : v # w => worker'[v] = worker[v],
               UNCHANGED scans, Checked' \subseteq Checked
        PROVE  AloneInv'
    BY <1>3, DecidedChanges, StandsChanges, AloneCalm
  <1>4. ASSUME NEW c \in Clients, NEW w \in Workers, Send(c, w) PROVE AloneInv'
    <2>1. /\ worker'[w].at = "list"
          /\ \A v \in Workers : v # w => worker'[v] = worker[v]
          /\ UNCHANGED scans /\ Checked' = Checked
      BY <1>0, <1>4 DEF Send, Checked
    <2> QED BY <1>3, <2>1
  <1>5. ASSUME NEW w \in Workers, Disconnect(w) PROVE AloneInv'
    <2>1. worker[w] \in Busy
      BY <1>5, BusyAt DEF Disconnect
    <2>2. worker' = [worker EXCEPT ![w] = [worker[w] EXCEPT !.heard = FALSE]]
      BY <1>5 DEF Disconnect
    <2>3. /\ worker'[w].at = worker[w].at /\ worker'[w].client = worker[w].client
          /\ \A v \in Workers : v # w => worker'[v] = worker[v]
      BY <1>0, <2>1, <2>2 DEF Busy
    <2>4. \A v \in Workers, p \in Projects : Decided(v, p)' => Decided(v, p)
      BY <2>3 DEF Decided
    <2>5. UNCHANGED scans /\ Checked' = Checked
      BY <1>5 DEF Disconnect, Checked
    <2> QED BY <2>4, <2>5, StandsChanges, AloneCalm
  <1>6. ASSUME NEW w \in Workers, ListRunning(w) PROVE AloneInv'
    <2>1. worker[w] \in Busy
      BY <1>6, BusyAt DEF ListRunning, Stages
    <2>2. PICK s \in BOOLEAN : worker' = [worker EXCEPT ![w] =
            [worker[w] EXCEPT !.at = "branch", !.running = Cardinality(RunningKoScans),
                              !.sees = s]]
      BY <1>6 DEF ListRunning
    <2>3. /\ worker'[w].at = "branch"
          /\ \A v \in Workers : v # w => worker'[v] = worker[v]
      BY <1>0, <2>1, <2>2 DEF Busy
    <2>4. UNCHANGED scans /\ Checked' = Checked
      BY <1>6 DEF ListRunning, Checked
    <2> QED BY <1>3, <2>3, <2>4
  <1>7. ASSUME NEW w \in Workers, CheckBranch(w) PROVE AloneInv'
    <2>1. worker[w] \in Busy
      BY <1>7, BusyAt DEF CheckBranch, Stages
    <2>2. (\E r : Answer(w, r)) \/ Proceed(w, "project")
      BY <1>7 DEF CheckBranch
    <2>3. Proceed(w, "project") =>
             /\ worker'[w].at # "scan"
             /\ \A v \in Workers : v # w => worker'[v] = worker[v]
      <3> SUFFICES ASSUME Proceed(w, "project")
                   PROVE  /\ worker'[w].at # "scan"
                          /\ \A v \in Workers : v # w => worker'[v] = worker[v]
        OBVIOUS
      <3>1. worker' = [worker EXCEPT ![w] = [worker[w] EXCEPT !.at = "project"]]
        BY DEF Proceed
      <3> QED BY <1>0, <2>1, <3>1 DEF Busy
    <2>4. UNCHANGED scans /\ Checked' = Checked
      BY <1>7 DEF CheckBranch, Checked
    <2> QED BY <1>2, <1>3, <2>2, <2>3, <2>4
  <1>8. ASSUME NEW w \in Workers, CheckProject(w) PROVE AloneInv'
    <2> DEFINE p == ProjectOf[worker[w].client]
    <2>1. worker[w] \in Busy /\ p \in Projects
      BY <1>8, BusyAt DEF CheckProject, Stages
    <2>2. UNCHANGED scans /\ Checked' \subseteq Checked
      BY <1>8 DEF CheckProject, Checked
    <2>3. CASE Answer(w, "exists")
      BY <1>2, <1>3, <2>2, <2>3
    <2>4. CASE /\ Proceed(w, "scan")
               /\ raced' = raced \cup {q \in {p} : Scanning(q) # {}}
               /\ unseen' = unseen \cup {q \in {p} : CompletedKoScans({q}) # {}}
      <3>1. worker' = [worker EXCEPT ![w] = [worker[w] EXCEPT !.at = "scan"]]
        BY <2>4 DEF Proceed
      <3>2. /\ worker'[w].client = worker[w].client
            /\ \A v \in Workers : v # w => worker'[v] = worker[v]
        BY <1>0, <2>1, <3>1 DEF Busy
      <3>3. \A v \in Workers, q \in Projects :
               Decided(v, q)' => Decided(v, q) \/ (v = w /\ q = p)
        BY <3>2 DEF Decided
      <3>4. p \in Checked' => \A x \in DOMAIN scans : ~Stands(x, p)
        <4>1. \A x \in DOMAIN scans : Stands(x, p) => x \in CompletedKoScans({p})
          BY DEF CompletedKoScans, Stands
        <4> QED BY <2>4, <4>1 DEF Checked
      <3>5. p \in Checked' => \A v \in Workers : ~Decided(v, p)
        <4>1. \A v \in Workers : Decided(v, p) => v \in Scanning(p)
          BY <1>0 DEF Decided, Scanning
        <4> QED BY <2>4, <4>1 DEF Checked
      <3>6. DOMAIN scans' = DOMAIN scans
            /\ \A x \in DOMAIN scans, q \in Projects : Stands(x, q)' => Stands(x, q)
        BY <2>2, StandsChanges
      <3>7. ASSUME NEW q \in Checked'
            PROVE  /\ \A u, v \in Workers :
                         Decided(u, q)' /\ Decided(v, q)' => u = v
                   /\ \A v \in Workers, x \in DOMAIN scans' :
                         ~(Decided(v, q)' /\ Stands(x, q)')
                   /\ \A x, y \in DOMAIN scans' :
                         Stands(x, q)' /\ Stands(y, q)' => x = y
        <4>1. q \in Checked /\ q \in Projects
          BY <2>2, <3>7 DEF Checked
        <4>2. CASE q # p
          BY <3>3, <3>6, <4>1, <4>2 DEF AloneInv
        <4>3. CASE q = p
          BY <3>3, <3>4, <3>5, <3>6, <3>7, <4>1, <4>3
        <4> QED BY <4>2, <4>3
      <3> QED BY <3>7 DEF AloneInv
    <2> QED BY <1>8, <2>3, <2>4 DEF CheckProject
  <1>9. ASSUME NEW w \in Workers,
               StartScan(w) \/ WorkerFails(w) \/ Unauthorized(w)
        PROVE  AloneInv'
    <2> DEFINE p == ProjectOf[worker[w].client]
               b == BranchOf[worker[w].client]
    <2>1. p \in Projects /\ b \in Branches
      BY <1>9, BusyAt DEF StartScan, WorkerFails, Unauthorized, Stages
    <2>2. Checked' = Checked /\ \E r : Answer(w, r)
      BY <1>9 DEF StartScan, WorkerFails, Unauthorized, Checked
    <2>3. /\ worker'[w].at # "scan"
          /\ \A v \in Workers : v # w => worker'[v] = worker[v]
      BY <1>2, <2>2
    <2>4. CASE UNCHANGED scans
      BY <1>3, <2>2, <2>3, <2>4
    <2>5. CASE worker[w].at = "scan" /\ AddScan(p, b, TRUE, TRUE)
      <3>1. Decided(w, p)
        BY <2>5 DEF Decided
      <3>2. /\ \A v \in Workers, q \in Projects : Decided(v, q)' => Decided(v, q)
            /\ \A q \in Projects : ~Decided(w, q)'
        BY <2>3, DecidedChanges
      <3>3. \A x \in DOMAIN scans', q \in Projects :
               Stands(x, q)' => \/ x \in DOMAIN scans /\ Stands(x, q)
                                \/ x = Len(scans) + 1 /\ q = p
        BY <2>1, <2>5, StandsChanges
      <3>4. ASSUME NEW q \in Checked'
            PROVE  /\ \A u, v \in Workers :
                         Decided(u, q)' /\ Decided(v, q)' => u = v
                   /\ \A v \in Workers, x \in DOMAIN scans' :
                         ~(Decided(v, q)' /\ Stands(x, q)')
                   /\ \A x, y \in DOMAIN scans' :
                         Stands(x, q)' /\ Stands(y, q)' => x = y
        <4>1. q \in Checked /\ q \in Projects
          BY <2>2, <3>4 DEF Checked
        <4>2. CASE q # p
          BY <3>2, <3>3, <4>1, <4>2 DEF AloneInv
        <4>3. CASE q = p
          <5>1. \A v \in Workers : ~Decided(v, q)'
            BY <3>1, <3>2, <4>1, <4>3 DEF AloneInv
          <5>2. \A x \in DOMAIN scans : ~Stands(x, q)
            BY <3>1, <4>1, <4>3 DEF AloneInv
          <5> QED BY <3>3, <4>1, <5>1, <5>2
        <4> QED BY <4>2, <4>3
      <3> QED BY <3>4 DEF AloneInv
    <2> QED
      BY <1>9, <2>4, <2>5 DEF StartScan, WorkerFails, Unauthorized
  <1>10. ASSUME NEW c \in Clients, AgentScan(c) \/ PushScan(c) PROVE AloneInv'
    <2>1. ProjectOf[c] \in Projects /\ BranchOf[c] \in Branches
      BY DEF Projects, Branches
    <2>2. \E k \in BOOLEAN : AddScan(ProjectOf[c], BranchOf[c], k, FALSE)
      BY <1>10 DEF AgentScan, PushScan
    <2>3. \A x \in DOMAIN scans', q \in Projects :
             Stands(x, q)' => x \in DOMAIN scans /\ Stands(x, q)
      BY <2>1, <2>2, StandsChanges
    <2>4. UNCHANGED worker /\ Checked' = Checked
      BY <1>10 DEF AgentScan, PushScan, Checked
    <2> QED BY <1>1, <2>3, <2>4, AloneCalm
  <1>11. ASSUME NEW x \in DOMAIN scans, FinishScan(x) PROVE AloneInv'
    <2>1. UNCHANGED worker /\ Checked' = Checked
      BY <1>11 DEF FinishScan, Checked
    <2> QED BY <1>1, <1>11, <2>1, StandsChanges, AloneCalm
  <1>12. ASSUME UNCHANGED <<worker, scans, raced, unseen>> PROVE AloneInv'
    <2>1. Checked' = Checked
      BY <1>12 DEF Checked
    <2> QED BY <1>1, <1>12, <2>1, StandsChanges, AloneCalm
  <1>13. ASSUME NEW c \in Clients, Rerun(c) PROVE AloneInv'
    BY <1>12, <1>13 DEF Rerun
  <1>14. CASE UNCHANGED vars
    BY <1>12, <1>14 DEF vars
  <1> QED
    BY <1>4, <1>5, <1>6, <1>7, <1>8, <1>9, <1>10, <1>11, <1>13, <1>14
       DEF Next, Serve

\* The invariant says of each project what OneKickoffScan says of the scans.
LEMMA AloneEnough == TypeOK /\ AloneInv => OneKickoffScan
  <1> SUFFICES ASSUME TypeOK, AloneInv,
                      NEW x \in DOMAIN scans, NEW y \in DOMAIN scans, x # y,
                      scans[x].project = scans[y].project,
                      \A z \in {x, y} :
                         scans[z].kickoff /\ scans[z].direct /\ Counts(z)
               PROVE  scans[x].project \in raced \cup unseen
    BY DEF OneKickoffScan
  <1> DEFINE p == scans[x].project
  <1>1. scans[x] \in Scan
    BY DEF TypeOK
  <1>2. p \in Projects
    BY <1>1 DEF Scan
  <1>3. Stands(x, p) /\ Stands(y, p)
    BY DEF Stands
  <1> QED BY <1>2, <1>3 DEF AloneInv, Checked

-----------------------------------------------------------------------------
\* Initially there are no scans and all workers are idle.
LEMMA InitAll == Init => TypeOK /\ LimitBound /\ AloneInv
  <1> SUFFICES ASSUME Init PROVE TypeOK /\ LimitBound /\ AloneInv
    OBVIOUS
  <1>1. TypeOK
    BY KickoffAssumption DEF Init, TypeOK, ClientStates
  <1>2. Idle.at = "idle" /\ \A w \in Workers : worker[w] = Idle
    BY DEF Init, Idle
  <1>3. Admitted = {} /\ DirectRunning = {}
    BY <1>2 DEF Init, Admitted, DirectRunning, RunningKoScans
  <1>4. LimitBound
    <2>1. Cardinality(DirectRunning) = 0 /\ Cardinality(Admitted) = 0
      BY <1>3, FS_EmptySet
    <2>2. Cardinality(Workers) \in Nat /\ MaxRunning \in 1..10
      BY KickoffAssumption, FS_CardinalityType
    <2> QED BY <2>1, <2>2 DEF LimitBound, DirectRunning
  <1>5. AloneInv
    BY <1>2 DEF Init, AloneInv, Decided
  <1> QED BY <1>1, <1>4, <1>5

\* Every value stays within its type.
THEOREM TypeCorrect == Spec => []TypeOK
  BY InitAll, TypeStep, PTL DEF Spec

\* However many workers are admitted by the same list of running scans, the
\* scans they run exceed max-concurrent-scans by less than their number.
THEOREM LimitIsBounded == Spec => []LimitBound
  BY InitAll, TypeStep, LimitStep, PTL DEF Spec

\* A second kickoff scan of a project needs two workers that check it at the
\* same time, or a check by a name the project does not have.
THEOREM DuplicatesNeedARaceOrAName == Spec => []OneKickoffScan
  BY InitAll, TypeStep, AloneStep, AloneEnough, PTL DEF Spec
=============================================================================
