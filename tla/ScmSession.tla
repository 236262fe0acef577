----------------------------- MODULE ScmSession -----------------------------
(***************************************************************************)
(* Requests to an SCM with tokens that expire: APISession.exec, the clones *)
(* of exec_clone_scan, and the two factories that cache tokens, GitHub     *)
(* apps and Azure DevOps service principals.  The jobs are coroutines of   *)
(* one process.  A factory holds a lock while it asks for a token, so the  *)
(* other jobs of the process wait; everything between two awaits is one    *)
(* step.                                                                   *)
(***************************************************************************)
EXTENDS Integers, Sequences, FiniteSets

CONSTANTS
    Calls,     \* API calls
    Clones,    \* clones for a scan
    Owners,    \* what a token is for: [server, id], id of an installation
    Retries,   \* the session's retries: the number of tries of a call
    MaxFaults  \* bound: failures, and tokens that expire or are revoked

Jobs == Calls \cup Clones

ASSUME SessionAssumption ==
    /\ Calls \cap Clones = {}
    /\ Retries \in Nat \ {0}
    /\ MaxFaults \in Nat

VARIABLES
    scheme,   \* "github_app" or "ado_sp"
    owner,    \* whose token each job needs
    pc,       \* where each job is
    try,      \* failed tries of each job
    token,    \* the token each job has been given, 0 if none
    tokens,   \* the tokens the SCM has issued
    cache,    \* the factories' caches: the token of each key, 0 if none
    lock,     \* the jobs that hold the factories' lock
    dirs,     \* the clones whose temporary directory exists
    outcome,  \* how each job ended
    lapsed,   \* history: jobs whose token ceased to work in their hands
    faults    \* history: number of faults so far

vars == <<scheme, owner, pc, try, token, tokens, cache, lock, dirs, outcome,
          lapsed, faults>>

\* The places where factories keep a token.  The cache of the GitHub factories
\* is one dictionary of the class with the installation id as key.  A service
\* principal has two factories, that of the API session and that of the cloner,
\* and each keeps a token of its own.
Keys ==
    [of: {o.id : o \in Owners} \cup {o.server : o \in Owners},
     in: {"class", "session", "cloner"}]

\* "key" is where the token was put, and "forced" is history: the token was
\* asked for with force_reauth.
Token == [owner: Owners, key: Keys, expired: BOOLEAN, revoked: BOOLEAN,
          forced: BOOLEAN]

Places == {"idle", "lock", "post", "hung", "send", "cloned", "done"}

Outcomes == {"none", "ok", "unauthorized", "forbidden", "exhausted", "gave_up",
             "no_token", "error"}

\* Mutant: one token for all installations.
OneKey(j) == CHOOSE k \in Keys : TRUE

Key(j) ==
    CASE scheme = "github_app" -> [of |-> owner[j].id, in |-> "class"]
      [] scheme = "ado_sp" /\ j \in Calls ->
            [of |-> owner[j].server, in |-> "session"]
      [] scheme = "ado_sp" /\ j \notin Calls ->
            [of |-> owner[j].server, in |-> "cloner"]

Init ==
    /\ scheme \in {"github_app", "ado_sp"}
    /\ owner \in [Jobs -> Owners]
    /\ pc = [j \in Jobs |-> "idle"]
    /\ try = [j \in Jobs |-> 0]
    /\ token = [j \in Jobs |-> 0]
    /\ tokens = <<>>
    /\ cache = [k \in Keys |-> 0]
    /\ lock = {}
    /\ dirs = {}
    /\ outcome = [j \in Jobs |-> "none"]
    /\ lapsed = {}
    /\ faults = 0

Fault == faults < MaxFaults /\ faults' = faults + 1

Valid(t) == ~tokens[t].expired /\ ~tokens[t].revoked

\* The token is for the job: from its server and, for a GitHub app, of its
\* installation.
Own(j) ==
    LET o == tokens[token[j]].owner
    IN  /\ o.server = owner[j].server
        /\ scheme = "github_app" => o.id = owner[j].id

Works(j) == Valid(token[j]) /\ Own(j)

\* The job is over; a clone that got a worker cleans up.
End(j, result) ==
    /\ pc' = [pc EXCEPT ![j] = "done"]
    /\ outcome' = [outcome EXCEPT ![j] = result]

-----------------------------------------------------------------------------
(* The SCM.                                                                *)

\* A token ceases to be valid.  "expired" is the expiry that the factory has
\* noted; a token that the SCM takes for expired before that is "revoked".
Lapse(t) ==
    /\ Fault
    /\ \/ ~tokens[t].expired /\ tokens' = [tokens EXCEPT ![t].expired = TRUE]
       \/ ~tokens[t].revoked /\ tokens' = [tokens EXCEPT ![t].revoked = TRUE]
    /\ lapsed' = lapsed \cup {j \in Jobs : pc[j] = "send" /\ token[j] = t}
    /\ UNCHANGED <<scheme, owner, pc, try, token, cache, lock, dirs, outcome>>

-----------------------------------------------------------------------------
(* get_auth and get_token.                                                 *)

\* A try begins.  The clones of a service principal have created their
\* directory before they ask for the token.
Start(j) ==
    /\ pc[j] = "idle"
    /\ pc' = [pc EXCEPT ![j] = "lock"]
    /\ dirs' = dirs \cup (IF scheme = "ado_sp" THEN {j} \cap Clones ELSE {})
    /\ UNCHANGED <<scheme, owner, try, token, tokens, cache, lock, outcome,
                   lapsed, faults>>

\* The event has no installation or app id.
NoIds(j) ==
    /\ pc[j] = "idle"
    /\ scheme = "github_app"
    /\ Fault
    /\ End(j, "no_token")
    /\ UNCHANGED <<scheme, owner, try, token, tokens, cache, lock, dirs,
                   lapsed>>

\* The token in the job's hands; the clones of a GitHub app now create their
\* directory.
Take(j, t) ==
    /\ pc' = [pc EXCEPT ![j] = "send"]
    /\ token' = [token EXCEPT ![j] = t]
    /\ lapsed' = lapsed \ {j}
    /\ dirs' = dirs \cup ({j} \cap Clones)

\* Mutant: a cached token is used whether it has expired or not.
UsableAlways(j) == cache[Key(j)] # 0

Usable(j) ==
    /\ cache[Key(j)] # 0
    /\ ~tokens[cache[Key(j)]].expired

\* Mutant: the second clone does not ask for a new token.
ForceReauthCalls(j) == j \in Calls /\ try[j] > 0

\* force_reauth: every try after the first asks for a new token.
ForceReauth(j) == try[j] > 0

\* With the lock held and no await, the cached token is returned ...
Cached(j) ==
    /\ pc[j] = "lock" /\ lock = {}
    /\ Usable(j) /\ ~ForceReauth(j)
    /\ Take(j, cache[Key(j)])
    /\ UNCHANGED <<scheme, owner, try, tokens, cache, lock, outcome, faults>>

\* Mutant: the lock covers the lookup only.
RenewUnlocked(j) ==
    /\ pc[j] = "lock" /\ lock = {}
    /\ ~Usable(j) \/ ForceReauth(j)
    /\ pc' = [pc EXCEPT ![j] = "post"]
    /\ UNCHANGED <<scheme, owner, try, token, tokens, cache, lock, dirs,
                   outcome, lapsed, faults>>

\* ... or the request for a new one is sent with the lock held.
Renew(j) ==
    /\ pc[j] = "lock" /\ lock = {}
    /\ ~Usable(j) \/ ForceReauth(j)
    /\ pc' = [pc EXCEPT ![j] = "post"]
    /\ lock' = {j}
    /\ UNCHANGED <<scheme, owner, try, token, tokens, cache, dirs, outcome,
                   lapsed, faults>>

\* The new token is cached and the lock released.
Issued(j) ==
    /\ pc[j] = "post"
    /\ tokens' = Append(tokens,
           [owner |-> owner[j], key |-> Key(j), expired |-> FALSE,
            revoked |-> FALSE, forced |-> ForceReauth(j)])
    /\ cache' = [cache EXCEPT ![Key(j)] = Len(tokens) + 1]
    /\ lock' = lock \ {j}
    /\ Take(j, Len(tokens) + 1)
    /\ UNCHANGED <<scheme, owner, try, outcome, faults>>

\* Mutant: the lock is not released on an exception.
KeepLock(j) == lock

Unlock(j) == lock \ {j}

\* No token: the exception releases the lock and ends the job.  A directory
\* that was created for it stays, there is no worker to clean it up.
NotIssued(j) ==
    /\ pc[j] = "post"
    /\ Fault
    /\ lock' = Unlock(j)
    /\ End(j, "no_token")
    /\ UNCHANGED <<scheme, owner, try, token, tokens, cache, dirs, lapsed>>

\* The request for a token has no timeout.
Hangs(j) ==
    /\ pc[j] = "post"
    /\ Fault
    /\ pc' = [pc EXCEPT ![j] = "hung"]
    /\ UNCHANGED <<scheme, owner, try, token, tokens, cache, lock, dirs,
                   outcome, lapsed>>

-----------------------------------------------------------------------------
(* APISession.exec.                                                        *)

Answered(j) ==
    /\ pc[j] = "send" /\ j \in Calls
    /\ UNCHANGED <<scheme, owner, token, tokens, cache, lock, dirs,
                   lapsed>>

\* The SCM accepts the token and does what it was asked.
CallSucceeds(j) ==
    /\ Answered(j)
    /\ Works(j)
    /\ End(j, "ok")
    /\ UNCHANGED <<try, faults>>

\* 401 and 403 raise SCMAuthException, whichever try it is.
CallRefused(j) ==
    /\ Answered(j)
    /\ \/ ~Works(j) /\ End(j, "unauthorized") /\ UNCHANGED faults
       \/ Works(j) /\ Fault /\ End(j, "forbidden")
    /\ UNCHANGED try

\* Any other status is tried again after a second, with a new token.
CallFails(j) ==
    /\ Answered(j)
    /\ Fault
    /\ try' = [try EXCEPT ![j] = @ + 1]
    /\ \/ /\ try[j] + 1 < Retries
          /\ pc' = [pc EXCEPT ![j] = "idle"]
          /\ UNCHANGED outcome
       \/ try[j] + 1 >= Retries /\ End(j, "exhausted")

\* An exception of the request, a timeout for one, ends the call.
CallRaises(j) ==
    /\ Answered(j)
    /\ Fault
    /\ End(j, "error")
    /\ UNCHANGED try

-----------------------------------------------------------------------------
(* exec_clone_scan and the worker's context manager.                       *)

\* Mutant: the directory of a failed clone stays.
KeepDir(j) == dirs

\* __aexit__ of the worker.
Cleanup(j) == dirs \ {j}

Git(j) ==
    /\ pc[j] = "send" /\ j \in Clones
    /\ UNCHANGED <<scheme, owner, token, tokens, cache, lock, lapsed>>

\* The repository, or as much of it as there is without its submodules.
Cloned(j) ==
    /\ Git(j)
    /\ Works(j)
    /\ pc' = [pc EXCEPT ![j] = "cloned"]
    /\ UNCHANGED <<try, dirs, outcome, faults>>

\* git fails with the text of a refused password: one more try.  After the
\* second failure the loop ends and nothing is returned.
CloneRefused(j) ==
    /\ Git(j)
    /\ ~Works(j)
    /\ dirs' = Cleanup(j)
    /\ try' = [try EXCEPT ![j] = @ + 1]
    /\ \/ /\ try[j] = 0
          /\ pc' = [pc EXCEPT ![j] = "idle"]
          /\ UNCHANGED outcome
       \/ try[j] # 0 /\ End(j, "gave_up")
    /\ UNCHANGED faults

\* git fails for another reason, or words the refusal differently.
CloneFails(j) ==
    /\ Git(j)
    /\ \/ ~Works(j) /\ UNCHANGED faults
       \/ Works(j) /\ Fault
    /\ dirs' = Cleanup(j)
    /\ End(j, "error")
    /\ UNCHANGED try

\* reset_head, the zip file and the scan, and the end of the worker.
Scanned(j) ==
    /\ pc[j] = "cloned"
    /\ dirs' = Cleanup(j)
    /\ \/ End(j, "ok") /\ UNCHANGED faults
       \/ Fault /\ End(j, "error")
    /\ UNCHANGED <<scheme, owner, try, token, tokens, cache, lock, lapsed>>

-----------------------------------------------------------------------------
Step(j) ==
    \/ Start(j)
    \/ Cached(j)
    \/ Renew(j)
    \/ Issued(j)
    \/ CallSucceeds(j) \/ CallRefused(j)
    \/ Cloned(j) \/ CloneRefused(j) \/ CloneFails(j) \/ Scanned(j)

Next ==
    \/ \E j \in Jobs :
          \/ Step(j)
          \/ NoIds(j) \/ NotIssued(j) \/ Hangs(j)
          \/ CallFails(j) \/ CallRaises(j)
    \/ \E t \in DOMAIN tokens : Lapse(t)

Spec == Init /\ [][Next]_vars

\* Requests have a timeout and git ends; that the SCM answers requests for
\* tokens is assumed, except where Hangs says otherwise.
FairSpec == Spec /\ \A j \in Jobs : WF_vars(Step(j))

-----------------------------------------------------------------------------
(* Properties.                                                             *)

TypeOK ==
    /\ scheme \in {"github_app", "ado_sp"}
    /\ owner \in [Jobs -> Owners]
    /\ pc \in [Jobs -> Places]
    /\ try \in [Jobs -> 0..Retries + 1]
    /\ tokens \in Seq(Token)
    /\ token \in [Jobs -> 0..Len(tokens)]
    /\ cache \in [Keys -> 0..Len(tokens)]
    /\ lock \subseteq Jobs
    /\ dirs \subseteq Clones
    /\ outcome \in [Jobs -> Outcomes]
    /\ lapsed \subseteq Jobs
    /\ faults \in 0..MaxFaults

\* Two installations share a cache entry: the key has no server in it.
Collides(j) ==
    /\ scheme = "github_app"
    /\ \E i \in Jobs :
          owner[i].id = owner[j].id /\ owner[i].server # owner[j].server

\* A job holds a token of its own installation, unless the installation id is
\* also that of an installation on another server.
OwnToken ==
    \A j \in Jobs : token[j] # 0 /\ ~Collides(j) => Own(j)

\* What it takes for a call to be refused: the token lapsed after the call was
\* given it, or it had been revoked before and this is the first try.  A token
\* past its expiry is never sent, and a retry never relies on the cache.
RefusalHasCause ==
    \A j \in Calls : outcome[j] = "unauthorized" =>
        \/ j \in lapsed
        \/ Collides(j)
        \/ tokens[token[j]].revoked /\ try[j] = 0

\* A clone survives a revoked token, and a colliding one: it gives up only
\* when the token it renewed itself lapsed while git was running.
CloneHeals ==
    \A j \in Clones : outcome[j] = "gave_up" => j \in lapsed

\* Jobs that need a token of one cache at the same time ask for one only: for a
\* key there is one unforced token, and one more for each that expired.
OneRenewal ==
    \A k \in Keys :
        LET OfKey == {t \in DOMAIN tokens : tokens[t].key = k}
        IN  Cardinality({t \in OfKey : ~tokens[t].forced}) <=
                1 + Cardinality({t \in OfKey : tokens[t].expired})

\* A clone that has ended leaves no directory behind, except when it is of a
\* service principal that did not get a token.
DirsRemoved ==
    \A j \in dirs : pc[j] = "done" =>
        scheme = "ado_sp" /\ outcome[j] = "no_token"

\* Every job ends, unless a request for a token never does.
JobsEnd ==
    <>((\A j \in Jobs : pc[j] = "done") \/ (\E j \in Jobs : pc[j] = "hung"))
=============================================================================
