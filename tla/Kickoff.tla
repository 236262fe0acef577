------------------------------- MODULE Kickoff -------------------------------
(***************************************************************************)
(* The kickoff API: first scans of repositories.  A KickoffClient posts a  *)
(* request for a repository's default branch; a worker of wsgi.py runs     *)
(* KickoffOrchestrator.execute to its end before it answers, so a worker   *)
(* serves one request at a time and the workers interleave.  The           *)
(* orchestrator asks Checkmarx One three times what scans there are and    *)
(* then starts a scan, or delegates it.                                    *)
(*                                                                         *)
(* A client of the model is one repository of an audit run; the audit may  *)
(* be run again.                                                           *)
(*                                                                         *)
(* The orchestrator asks by the name the naming module gives, while the    *)
(* scan goes to the project that load_project_config finds by this name or *)
(* by the default name.  The two differ for a legacy project, one that has *)
(* kept its default name because update-name is off, and when the naming   *)
(* module fails.                                                           *)
(***************************************************************************)
EXTENDS Integers, Sequences, FiniteSets

CONSTANTS
    Clients,     \* repositories for which kickoff_scan is called
    ProjectOf,   \* ProjectOf[c]: the Checkmarx One project of the repository
    BranchOf,    \* BranchOf[c]: the branch to be scanned
    Workers,     \* worker processes of the server
    MaxRunning,  \* max-concurrent-scans
    Setups,      \* what the model may start with
    MaxReruns,   \* bound: audits that are run again
    MaxFaults    \* bound: failed requests, killed workers, broken connections

Projects == {ProjectOf[c] : c \in Clients}

Branches == {BranchOf[c] : c \in Clients}

ASSUME KickoffAssumption ==
    /\ DOMAIN ProjectOf = Clients
    /\ DOMAIN BranchOf = Clients
    /\ IsFiniteSet(Workers)
    /\ MaxRunning \in 1..10
    /\ {MaxReruns, MaxFaults} \subseteq Nat
    /\ Setups \subseteq
          [delegated: SUBSET Projects,  \* projects with the tag of a resolver agent
           legacy: SUBSET Projects,     \* projects that have kept the default name
           pushes: Nat]                 \* bound: scans started by webhook events

VARIABLES
    setup,     \* one of Setups
    client,    \* what each call of kickoff_scan is doing, or how it ended
    renewed,   \* clients that have renewed their JWT for this request
    worker,    \* the request each worker serves
    pending,   \* scans delegated and not yet created, per client
    scans,     \* the scans in Checkmarx One
    raced,     \* history: projects checked while another worker was scanning
    unseen,    \* history: projects whose scans a check missed, by their name
    reruns,    \* history: audits run again
    faults     \* history: number of faults so far

vars == <<setup, client, renewed, worker, pending, scans, raced, unseen, reruns,
          faults>>

delegated == setup.delegated

legacy == setup.legacy

Ended == {"started", "exists", "stopped", "failed"}

ClientStates == {"calling", "waiting", "sleeping"} \cup Ended

Stages == {"list", "branch", "project", "scan"}

Idle == [at |-> "idle"]

\* "running" is the length of the list of running scans the worker has read,
\* "sees" tells whether the repository's project has the name the worker asks
\* by, "heard" whether the client still waits for the answer.
Busy == [at: Stages, client: Clients, running: Nat, sees: BOOLEAN, heard: BOOLEAN]

\* "direct" scans were started by the worker that served the request.  Queued
\* scans are "running", Partial and Canceled ones are "failed".
Scan == [project: Projects, branch: Branches, kickoff: BOOLEAN, direct: BOOLEAN,
         status: {"running", "completed", "failed"}]

Init ==
    /\ setup \in Setups
    /\ client = [c \in Clients |-> "calling"]
    /\ renewed = {}
    /\ worker = [w \in Workers |-> Idle]
    /\ pending = [c \in Clients |-> 0]
    /\ scans = <<>>
    /\ raced = {}
    /\ unseen = {}
    /\ reruns = 0
    /\ faults = 0

Fault ==
    /\ faults < MaxFaults
    /\ faults' = faults + 1

-----------------------------------------------------------------------------
(* KickoffClient.kickoff_scan and __execute_request.                       *)

\* The audit is run again and calls kickoff_scan for the repository.
Rerun(c) ==
    /\ client[c] \in Ended
    /\ reruns < MaxReruns
    /\ reruns' = reruns + 1
    /\ client' = [client EXCEPT ![c] = "calling"]
    /\ renewed' = renewed \ {c}
    /\ UNCHANGED <<setup, worker, pending, scans, raced, unseen, faults>>

\* The request is posted and a worker accepts it.
Send(c, w) ==
    /\ client[c] \in {"calling", "sleeping"}
    /\ worker[w] = Idle
    /\ client' = [client EXCEPT ![c] = "waiting"]
    /\ worker' = [worker EXCEPT ![w] =
          [at |-> "list", client |-> c, running |-> 0, sees |-> TRUE, heard |-> TRUE]]
    /\ UNCHANGED <<setup, renewed, pending, scans, raced, unseen, reruns, faults>>

\* How a client takes a response: 401 is answered once by a new JWT, 429 by a
\* delay and another request unless the callback says no; 201 and 299 end the
\* call, anything else raises.
Responses == {"started", "exists", "tooMany", "unauthorized", "error"}

Takes(c, response) ==
    CASE response = "tooMany" -> {"sleeping", "stopped"}
      [] response = "unauthorized" /\ c \notin renewed -> {"calling"}
      [] response = "unauthorized" /\ c \in renewed -> {"failed"}
      [] response = "error" -> {"failed"}
      [] OTHER -> {response}

\* A proxy or the client gives up on the request; the worker goes on.
Disconnect(w) ==
    /\ worker[w] # Idle /\ worker[w].heard
    /\ Fault
    /\ worker' = [worker EXCEPT ![w].heard = FALSE]
    /\ client' = [client EXCEPT ![worker[w].client] = "failed"]
    /\ UNCHANGED <<setup, renewed, pending, scans, raced, unseen, reruns>>

-----------------------------------------------------------------------------
(* KickoffService: what Checkmarx One is asked for.                        *)

RunningKoScans ==
    {x \in DOMAIN scans : scans[x].kickoff /\ scans[x].status = "running"}

Counts(x) == scans[x].status \in {"running", "completed"}

\* P is the set of the projects that have the name asked by: one or none.
OneScanExistsOnBranch(P, b) ==
    \E x \in DOMAIN scans :
        scans[x].project \in P /\ scans[x].branch = b /\ Counts(x)

\* Mutant: the tag is not asked for in finished scans.
CompletedKoScansRunning(P) ==
    {x \in DOMAIN scans :
        scans[x].project \in P /\ scans[x].kickoff /\ scans[x].status = "running"}

CompletedKoScans(P) ==
    {x \in DOMAIN scans : scans[x].project \in P /\ scans[x].kickoff /\ Counts(x)}

-----------------------------------------------------------------------------
(* __kickoff_impl, execute_kickoff and KickoffOrchestrator.execute.        *)

Answer(w, response) ==
    LET c == worker[w].client IN
    /\ worker' = [worker EXCEPT ![w] = Idle]
    /\ IF worker[w].heard
       THEN \E state \in Takes(c, response) : client' = [client EXCEPT ![c] = state]
       ELSE UNCHANGED client
    /\ renewed' = IF worker[w].heard /\ response = "unauthorized"
                  THEN renewed \cup {c} ELSE renewed

Proceed(w, stage) ==
    /\ worker' = [worker EXCEPT ![w].at = stage]
    /\ UNCHANGED <<client, renewed>>

\* validate_jwt: the token has expired or is signed with another key.
Unauthorized(w) ==
    /\ worker[w].at = "list"
    /\ Fault
    /\ Answer(w, "unauthorized")
    /\ UNCHANGED <<setup, pending, scans, raced, unseen, reruns>>

\* get_running_ko_scans, then the name, by which the naming module's project is
\* seen; a module that fails or returns None leaves the default name.
ListRunning(w) ==
    LET p == ProjectOf[worker[w].client] IN
    /\ worker[w].at = "list"
    /\ \E sees \in BOOLEAN :
          /\ \/ sees = (p \notin legacy) /\ UNCHANGED faults
             \/ sees = (p \in legacy) /\ Fault
          /\ worker' = [worker EXCEPT ![w].at = "branch",
                                      ![w].running = Cardinality(RunningKoScans),
                                      ![w].sees = sees]
    /\ UNCHANGED <<setup, client, renewed, pending, scans, raced, unseen, reruns>>

\* The projects that have the name by which worker w asks.
Named(w) == {p \in {ProjectOf[worker[w].client]} : worker[w].sees}

\* Mutant: one scan too many.
TooManyOffByOne(n) == n > MaxRunning

TooMany(n) == n >= MaxRunning

\* Mutant: a scan that exists is answered like a scan too many.
CheckBranchTooMany(w) ==
    LET exists == OneScanExistsOnBranch(Named(w), BranchOf[worker[w].client]) IN
    /\ worker[w].at = "branch"
    /\ \/ (exists \/ TooMany(worker[w].running)) /\ Answer(w, "tooMany")
       \/ ~exists /\ ~TooMany(worker[w].running) /\ Proceed(w, "project")
    /\ UNCHANGED <<setup, pending, scans, raced, unseen, reruns, faults>>

\* one_scan_exists_on_branch, then the limit, judged by the list read before.
CheckBranch(w) ==
    LET exists == OneScanExistsOnBranch(Named(w), BranchOf[worker[w].client]) IN
    /\ worker[w].at = "branch"
    /\ \/ exists /\ Answer(w, "exists")
       \/ ~exists /\ TooMany(worker[w].running) /\ Answer(w, "tooMany")
       \/ ~exists /\ ~TooMany(worker[w].running) /\ Proceed(w, "project")
    /\ UNCHANGED <<setup, pending, scans, raced, unseen, reruns, faults>>

\* The workers that have decided to scan project p.
Scanning(p) ==
    {w \in Workers : worker[w] # Idle /\ worker[w].at = "scan"
                        /\ ProjectOf[worker[w].client] = p}

\* get_completed_ko_scans_by_project
CheckProject(w) ==
    LET p == ProjectOf[worker[w].client] IN
    /\ worker[w].at = "project"
    /\ \/ /\ CompletedKoScans(Named(w)) # {}
          /\ Answer(w, "exists")
          /\ UNCHANGED <<raced, unseen>>
       \/ /\ CompletedKoScans(Named(w)) = {}
          /\ Proceed(w, "scan")
          /\ raced' = raced \cup {q \in {p} : Scanning(q) # {}}
          /\ unseen' = unseen \cup {q \in {p} : CompletedKoScans({q}) # {}}
    /\ UNCHANGED <<setup, pending, scans, reruns, faults>>

AddScan(p, b, kickoff, direct) ==
    scans' = Append(scans, [project |-> p, branch |-> b, kickoff |-> kickoff,
                            direct |-> direct, status |-> "running"])

\* _execute_push_scan_workflow clones and starts the scan.  For a project with
\* the tag of an agent it publishes a request instead: then there is no
\* inspector, and the call ends in an AttributeError although the scan was
\* requested.  A tag no agent serves or a request the broker does not confirm
\* leads back to the clone.
StartScan(w) ==
    LET c == worker[w].client IN
    /\ worker[w].at = "scan"
    /\ \/ /\ AddScan(ProjectOf[c], BranchOf[c], TRUE, TRUE)
          /\ Answer(w, "started")
          /\ UNCHANGED pending
       \/ /\ ProjectOf[c] \in delegated
          /\ pending' = [pending EXCEPT ![c] = @ + 1]
          /\ Answer(w, "error")
          /\ UNCHANGED scans
    /\ UNCHANGED <<setup, raced, unseen, reruns, faults>>

\* A request to Checkmarx One, the SCM or the broker raises, there is no
\* route, or the worker is killed.  A scan may have been started or delegated
\* nevertheless.
WorkerFails(w) ==
    LET c == worker[w].client IN
    /\ worker[w] # Idle
    /\ Fault
    /\ Answer(w, "error")
    /\ \/ UNCHANGED <<pending, scans>>
       \/ /\ worker[w].at = "scan"
          /\ AddScan(ProjectOf[c], BranchOf[c], TRUE, TRUE)
          /\ UNCHANGED pending
       \/ /\ worker[w].at = "scan" /\ ProjectOf[c] \in delegated
          /\ pending' = [pending EXCEPT ![c] = @ + 1]
          /\ UNCHANGED scans
    /\ UNCHANGED <<setup, raced, unseen, reruns>>

-----------------------------------------------------------------------------
(* Resolver agents, webhook events and Checkmarx One.                      *)

\* The agent creates a delegated scan, with the kickoff tag of its request.
AgentScan(c) ==
    /\ pending[c] > 0
    /\ pending' = [pending EXCEPT ![c] = @ - 1]
    /\ AddScan(ProjectOf[c], BranchOf[c], TRUE, FALSE)
    /\ UNCHANGED <<setup, client, renewed, worker, raced, unseen, reruns, faults>>

\* A push to the branch starts a scan without the kickoff tag.
PushScan(c) ==
    /\ Cardinality({x \in DOMAIN scans : ~scans[x].kickoff}) < setup.pushes
    /\ AddScan(ProjectOf[c], BranchOf[c], FALSE, FALSE)
    /\ UNCHANGED <<setup, client, renewed, worker, pending, raced, unseen, reruns,
                   faults>>

FinishScan(x) ==
    /\ scans[x].status = "running"
    /\ \E result \in {"completed", "failed"} :
          scans' = [scans EXCEPT ![x].status = result]
    /\ UNCHANGED <<setup, client, renewed, worker, pending, raced, unseen, reruns,
                   faults>>

-----------------------------------------------------------------------------
Serve(w) ==
    \/ ListRunning(w)
    \/ CheckBranch(w)
    \/ CheckProject(w)
    \/ StartScan(w)

Next ==
    \/ \E c \in Clients :
          \/ Rerun(c)
          \/ PushScan(c)
          \/ AgentScan(c)
          \/ \E w \in Workers : Send(c, w)
    \/ \E w \in Workers :
          \/ Serve(w)
          \/ Unauthorized(w)
          \/ WorkerFails(w)
          \/ Disconnect(w)
    \/ \E x \in DOMAIN scans : FinishScan(x)

Spec == Init /\ [][Next]_vars

\* Workers serve their requests, the listening socket does not starve a client,
\* agents create what was delegated, and scans end in Checkmarx One.
FairSpec ==
    /\ Spec
    /\ \A w \in Workers : WF_vars(Serve(w))
    /\ \A c \in Clients : SF_vars(\E w \in Workers : Send(c, w))
    /\ WF_vars(\E c \in Clients : AgentScan(c))
    /\ WF_vars(\E x \in DOMAIN scans : FinishScan(x))

-----------------------------------------------------------------------------
(* Properties.                                                             *)

TypeOK ==
    /\ setup \in Setups
    /\ client \in [Clients -> ClientStates]
    /\ renewed \in SUBSET Clients
    /\ worker \in [Workers -> Busy \cup {Idle}]
    /\ pending \in [Clients -> Nat]
    /\ scans \in Seq(Scan)
    /\ {raced, unseen} \subseteq SUBSET Projects
    /\ reruns \in 0..MaxReruns
    /\ faults \in 0..MaxFaults

\* The workers that have read a list of running scans below the limit.
Admitted ==
    {w \in Workers : \/ worker[w].at \in {"project", "scan"}
                     \/ worker[w].at = "branch" /\ worker[w].running < MaxRunning}

\* How far the limit can be exceeded: the list of running scans is read before
\* the clone and never again, so all workers may be admitted by the same list;
\* but the scans the workers have started, with the ones they are about to
\* start, never outnumber max-concurrent-scans by as much as there are workers.
LimitBound ==
    Cardinality({x \in RunningKoScans : scans[x].direct}) + Cardinality(Admitted)
        < MaxRunning + Cardinality(Workers)

\* A project gets a second kickoff scan next to a running or completed one only
\* in two ways: two workers checked it at the same time, or the check asked by a
\* name the project does not have, in execute of ko_orch.py, while the scan went
\* to the project of the default name.  Neither another branch, nor a request
\* given up by its client, nor a second audit leads to one by itself.
OneKickoffScan ==
    \A x, y \in DOMAIN scans :
        x # y /\ scans[x].project = scans[y].project
        /\ (\A z \in {x, y} : scans[z].kickoff /\ scans[z].direct /\ Counts(z)) =>
            scans[x].project \in raced \cup unseen

\* The client's loop of 429 responses comes to an end, and the call returns or
\* raises: a repository that has its scan is answered by 299 before the limit is
\* looked at, and the list of get_running_ko_scans empties as scans end.  (By
\* the manual, manual/kickoff/all.tex:26, finished scans count as well, and such
\* a list would never empty.)
ClientsAnswered ==
    \A c \in Clients : client[c] = "calling" ~> client[c] \in Ended

\* What the manual says of the audit tool: it can be run multiple times without
\* initiating duplicate scans.
NoDuplicateScans ==
    \A x, y \in DOMAIN scans :
        x # y /\ scans[x].project = scans[y].project =>
            ~(scans[x].kickoff /\ scans[y].kickoff /\ Counts(x) /\ Counts(y))
=============================================================================
