---------------------------- MODULE ProjectConfig ----------------------------
(***************************************************************************)
(* The Checkmarx One project of a repository: each event that leads to a   *)
(* scan runs CxOneService.load_project_config, which asks the naming       *)
(* module for the project's name, retrieves or creates the project, and    *)
(* brings its tags, its name, its repository and its group memberships up  *)
(* to date.  GroupingService resolves group paths to ids and caches them.  *)
(*                                                                         *)
(* The loads of the model are made by events of one repository.  They      *)
(* interleave at every request; those of a worker process share a          *)
(* GroupingService.                                                        *)
(* A path is looked up and cached under the service's lock, which is why a *)
(* lookup is one step.                                                     *)
(***************************************************************************)
EXTENDS Integers, Sequences, FiniteSets

CONSTANTS
    Loads,         \* events that load the project's configuration
    Workers,       \* worker processes, each with its GroupingService
    WorkerOf,      \* WorkerOf[t]: the worker process of a load
    GroupPaths,    \* paths the assignment rules give for the clone URL; "own"
                   \* stands for a group of someone else
    MaxEdits,      \* bound: changes made in Checkmarx One by others
    MaxFailures      \* bound: requests and naming calls that fail

ASSUME ProjectConfigAssumption ==
    /\ WorkerOf \in [Loads -> Workers]
    /\ GroupPaths \in Seq(STRING \ {"own"})
    /\ {MaxEdits, MaxFailures} \subseteq Nat

VARIABLES
    config,    \* update-name of project-naming, update-groups of project-groups
    projects,  \* the projects of the repository in Checkmarx One; the id of
               \* a project is its index
    groups,    \* ids of the groups that exist in Checkmarx One
    index,     \* __groupid_index of each worker
    load,      \* what each load is doing, with its local variables
    faulted,   \* history: loads one of whose requests failed
    outdated,  \* history: loads that saw a state others have changed since
    misnamed,  \* history: loads for which the naming module failed
    stale,     \* history: loads that were refused a project because of groups
               \* that are gone
    edits,     \* history: number of changes by others so far
    failures   \* history: number of failures so far

configVars == <<config, projects, groups, index, load, faulted, outdated,
                misnamed, stale, edits, failures>>

Paths == {GroupPaths[k] : k \in 1..Len(GroupPaths)}

\* A group that is deleted and created again has another id.
GroupId == (Paths \cup {"own"}) \X Nat

Tag == {"none", "default", "flow", "other"}

\* "service" is the moniker that cxone-flow writes, "team" stands for the
\* tags of default-project-tags; "imported" is a repoId without a URL.
Project == [name: {"default", "dynamic"},
            tags: [service: Tag, team: Tag],
            groups: SUBSET GroupId,
            repo: {"none", "url", "repoId", "imported"}]

NoProject == [name |-> "default",
              tags |-> [service |-> "none", team |-> "none"],
              groups |-> {}, repo |-> "none"]

\* "json" is project_json, "id" the project it was read from or 0, "orig"
\* project_orig_groups, "again" the second call of the create-or-retrieve.
Load == [at: {"name", "list", "resolve", "create", "update", "purge", "done",
              "failed"},
         name: {"default", "dynamic"}, again: BOOLEAN, id: Nat, json: Project,
         orig: SUBSET GroupId, todo: Seq(Paths), ids: SUBSET GroupId,
         retried: BOOLEAN]

NewLoad == [at |-> "name", name |-> "default", again |-> FALSE, id |-> 0,
            json |-> NoProject, orig |-> {}, todo |-> <<>>, ids |-> {},
            retried |-> FALSE]

\* The repository has no project yet, a project of an older configuration or
\* one made by hand; workers may hold ids of groups that are gone.
ConfigInit ==
    /\ config \in [update_name: BOOLEAN, update_groups: BOOLEAN]
    /\ groups \in {{<<p, gen[p]>> : p \in Paths} : gen \in [Paths -> {0, 1}]}
                  \cup {{}}
    /\ index \in [Workers -> SUBSET {<<p, 0>> : p \in Paths}]
    /\ projects \in {<<>>} \cup
           {<<[name |-> n, tags |-> g, groups |-> m, repo |-> r]>> :
               n \in {"default", "dynamic"},
               g \in [service: {"none", "other"}, team: {"other"}]
                     \cup {[service |-> "flow", team |-> "default"]},
               m \in {{}, groups},
               r \in {"url"}}
           \cup {<<[NoProject EXCEPT !.repo = r]>> : r \in {"none", "repoId", "imported"}}
    /\ load = [t \in Loads |-> NewLoad]
    /\ faulted = {}
    /\ outdated = {}
    /\ misnamed = {}
    /\ stale = {}
    /\ edits = 0
    /\ failures = 0

Failure(t) ==
    /\ failures < MaxFailures
    /\ failures' = failures + 1
    /\ faulted' = faulted \cup {t}

NoFailure == UNCHANGED <<faulted, failures>>

Goto(t, at) == load' = [load EXCEPT ![t].at = at]

\* Loads whose view of the store a change may make stale.
Loaded == {t \in Loads : load[t].id # 0 /\ load[t].at \notin {"done", "failed"}}

Resolving ==
    {t \in Loads : load[t].at \notin {"name", "list", "done", "failed"}}

-----------------------------------------------------------------------------
(* The parts of the create-or-retrieve that make no request.               *)

\* Mutant: the legacy name is not asked for.
FoundByDynamicName(name) ==
    {i \in 1..Len(projects) : projects[i].name = name}

\* The projects of either name.
Found(name) ==
    {i \in 1..Len(projects) : projects[i].name \in {"default", name}}

\* The project of the dynamic name before the one of the default name.
Pick(name) ==
    IF \E i \in Found(name) : projects[i].name = name
      THEN CHOOSE i \in Found(name) : projects[i].name = name
      ELSE CHOOSE i \in Found(name) : TRUE

\* new_tags: default tags that are missing, and the service moniker.
NewTags(tags) ==
    [service |-> IF tags.service = "flow" THEN "none" ELSE "flow",
     team |-> IF tags.team = "none" THEN "default" ELSE "none"]

\* new_tags | project_json["tags"]: what the project has already wins.
MergeTags(new, tags) ==
    [k \in {"service", "team"} |-> IF tags[k] # "none" THEN tags[k] ELSE new[k]]

\* Mutant: the memberships the project has are forgotten.
ResolvedOnly(t) == load[t].ids

\* The union of the project's own memberships with the resolved ones.
GroupMemberships(t) == load[t].orig \cup load[t].ids

\* The clone URL is added where there is none, beside a repoId too.
WithUrl == [none |-> "url", url |-> "url", repoId |-> "repoId", imported |-> "repoId"]

\* project_json after everything that is to be updated was put into it.
Prepared(t) ==
    LET json == load[t].json
    IN  [name |-> IF config.update_name THEN load[t].name ELSE json.name,
         tags |-> MergeTags(NewTags(json.tags), json.tags),
         groups |-> IF config.update_groups THEN GroupMemberships(t)
                                            ELSE json.groups,
         repo |-> WithUrl[json.repo]]

\* exec_update: new_tags is never compared with the outcome of the merge.
ExecUpdate(t) ==
    LET json == load[t].json
    IN  \/ NewTags(json.tags) # [service |-> "none", team |-> "none"]
        \/ Prepared(t) # json

-----------------------------------------------------------------------------
(* Steps of a load: one per request, callback or critical section.         *)

\* get_project_name: a naming module that raises or returns None leaves the
\* default name.
Name(t) ==
    /\ load[t].at = "name"
    /\ \/ /\ load' = [load EXCEPT ![t].at = "list", ![t].name = "dynamic"]
          /\ UNCHANGED <<misnamed, failures>>
       \/ /\ failures < MaxFailures
          /\ failures' = failures + 1
          /\ misnamed' = misnamed \cup {t}
          /\ Goto(t, "list")
    /\ UNCHANGED <<projects, groups, index, faulted, outdated, stale, edits>>

\* The first request of __create_or_retrieve_project.
List(t) ==
    /\ load[t].at = "list"
    /\ \/ /\ NoFailure
          /\ LET name == load[t].name
                 id == IF Found(name) = {} THEN 0 ELSE Pick(name)
                 json == IF id = 0 THEN NoProject ELSE projects[id]
                 asks == id = 0 \/ config.update_groups
             IN  load' = [load EXCEPT
                     ![t].at = "resolve", ![t].id = id, ![t].json = json,
                     ![t].orig = json.groups, ![t].ids = {},
                     ![t].todo = IF asks THEN GroupPaths ELSE <<>>]
       \/ Failure(t) /\ Goto(t, "failed")
    /\ UNCHANGED <<projects, groups, index, outdated, misnamed, stale, edits>>

\* __resolve_group_ids for one path: from the cache, or by a request that
\* may find nothing and whose exception is only logged.
ResolvePath(t) ==
    LET w == WorkerOf[t]
        p == Head(load[t].todo)
        known(set) == {g \in set : g[1] = p}
        Resolved(ids) == load' = [load EXCEPT ![t].todo = Tail(@),
                                              ![t].ids = @ \cup ids]
    IN  /\ load[t].at = "resolve"
        /\ load[t].todo # <<>>
        /\ \/ /\ known(index[w]) # {}
              /\ Resolved(known(index[w]))
              /\ NoFailure /\ UNCHANGED index
           \/ /\ known(index[w]) = {}
              /\ index' = [index EXCEPT ![w] = @ \cup known(groups)]
              /\ Resolved(known(groups))
              /\ NoFailure
           \/ /\ known(index[w]) = {}
              /\ Failure(t)
              /\ Resolved({})
              /\ UNCHANGED index
        /\ UNCHANGED <<projects, groups, outdated, misnamed, stale, edits>>

\* What the resolved ids are for: a new project, the decision whether to
\* update, or the second try of an update, which takes them even if
\* update-groups is off.
GroupsResolved(t) ==
    /\ load[t].at = "resolve"
    /\ load[t].todo = <<>>
    /\ \/ /\ load[t].id = 0
          /\ Goto(t, "create")
       \/ /\ load[t].id # 0 /\ load[t].retried
          /\ load' = [load EXCEPT ![t].at = "update",
                                  ![t].json.groups = GroupMemberships(t)]
       \/ /\ load[t].id # 0 /\ ~load[t].retried
          /\ load' = [load EXCEPT
                         ![t].at = IF ExecUpdate(t) THEN "update" ELSE "done",
                         ![t].json = Prepared(t)]
    /\ UNCHANGED <<projects, groups, index, outdated, misnamed, stale, edits>>
    /\ NoFailure

\* The project create_a_project makes.
Created(t) ==
    [name |-> load[t].name, tags |-> [service |-> "flow", team |-> "default"],
     groups |-> load[t].ids, repo |-> "url"]

\* Checkmarx One refuses a name that is taken and groups that do not exist.
Refused(i, json) ==
    \/ \E k \in 1..Len(projects) \ {i} : projects[k].name = json.name
    \/ ~(json.groups \subseteq groups)

\* create_a_project: 400 leads to one more call of the whole function, 403
\* and every other failure raise.  A refusal because of the groups may have
\* either status.
Create(t) ==
    /\ load[t].at = "create"
    /\ \/ /\ ~Refused(0, Created(t))
          /\ projects' = Append(projects, Created(t))
          /\ load' = [load EXCEPT ![t].at = "done", ![t].json = Created(t),
                                  ![t].id = Len(projects) + 1]
          /\ outdated' = outdated \cup (Loaded \ {t})
          /\ NoFailure /\ UNCHANGED stale
       \/ /\ Refused(0, Created(t))
          /\ \/ ~load[t].again /\ load' = [load EXCEPT ![t].at = "list",
                                                       ![t].again = TRUE]
             \/ /\ load[t].again \/ ~(load[t].ids \subseteq groups)
                /\ Goto(t, "failed")
          /\ stale' = stale \cup {u \in {t} : ~(load[u].ids \subseteq groups)}
          /\ NoFailure /\ UNCHANGED <<projects, outdated>>
       \/ /\ Failure(t)
          /\ Goto(t, "failed")
          /\ UNCHANGED <<projects, outdated, stale>>
    /\ UNCHANGED <<groups, index, misnamed, edits>>

\* update_a_project writes the whole of project_json.  The first failure
\* leads to a purge and a second try, the second raises.
Update(t) ==
    /\ load[t].at = "update"
    /\ \/ /\ ~Refused(load[t].id, load[t].json)
          /\ projects' = [projects EXCEPT ![load[t].id] = load[t].json]
          /\ outdated' = outdated \cup (Loaded \ {t})
          /\ Goto(t, "done")
          /\ NoFailure
       \/ /\ \/ Refused(load[t].id, load[t].json) /\ NoFailure
             \/ Failure(t)
          /\ Goto(t, IF load[t].retried THEN "failed" ELSE "purge")
          /\ UNCHANGED <<projects, outdated>>
    /\ UNCHANGED <<groups, index, misnamed, stale, edits>>

\* Mutant: the cache keeps what it has.
PurgeNothing(t) ==
    /\ load[t].at = "purge"
    /\ load' = [load EXCEPT ![t].at = "resolve", ![t].retried = TRUE,
                            ![t].todo = GroupPaths, ![t].ids = {}]
    /\ UNCHANGED <<projects, groups, index, outdated, misnamed, stale, edits>>
    /\ NoFailure

\* Mutant: the groups are not resolved again.
PurgeOnly(t) ==
    /\ load[t].at = "purge"
    /\ index' = [index EXCEPT ![WorkerOf[t]] = {}]
    /\ load' = [load EXCEPT ![t].at = "resolve", ![t].retried = TRUE,
                            ![t].todo = <<>>, ![t].ids = {}]
    /\ UNCHANGED <<projects, groups, outdated, misnamed, stale, edits>>
    /\ NoFailure

\* purge_cache, after which the groups are resolved once more.
PurgeCache(t) ==
    /\ load[t].at = "purge"
    /\ index' = [index EXCEPT ![WorkerOf[t]] = {}]
    /\ load' = [load EXCEPT ![t].at = "resolve", ![t].retried = TRUE,
                            ![t].todo = GroupPaths, ![t].ids = {}]
    /\ UNCHANGED <<projects, groups, outdated, misnamed, stale, edits>>
    /\ NoFailure

LoadStep(t) ==
    \/ Name(t)
    \/ List(t)
    \/ ResolvePath(t)
    \/ GroupsResolved(t)
    \/ Create(t)
    \/ Update(t)
    \/ PurgeCache(t)

-----------------------------------------------------------------------------
(* Changes made in Checkmarx One by its administrators.                    *)

Edit ==
    /\ edits < MaxEdits
    /\ edits' = edits + 1
    /\ UNCHANGED <<config, index, load, faulted, misnamed, stale, failures>>

\* Memberships of a deleted group are deleted with it.
DeleteGroup(g) ==
    /\ Edit
    /\ groups' = groups \ {g}
    /\ projects' = [i \in DOMAIN projects |->
                       [projects[i] EXCEPT !.groups = @ \ {g}]]
    /\ outdated' = outdated \cup Resolving

CreateGroup(p) ==
    /\ Edit
    /\ ~\E g \in groups : g[1] = p
    /\ groups' = groups \cup {<<p, 1 + edits + 1>>}
    /\ outdated' = outdated \cup Resolving
    /\ UNCHANGED projects

\* Someone puts the project into a group of their own and tags it.
EditProject(i) ==
    /\ Edit
    /\ groups' = groups \cup {<<"own", 0>>}
    /\ projects' = [projects EXCEPT ![i].groups = @ \cup {<<"own", 0>>},
                                    ![i].tags.team = "other"]
    /\ outdated' = outdated \cup Loaded

ConfigNext ==
    \/ \E t \in Loads : LoadStep(t) /\ UNCHANGED config
    \/ \E g \in groups : DeleteGroup(g)
    \/ \E p \in Paths : CreateGroup(p)
    \/ \E i \in DOMAIN projects : EditProject(i)

ConfigSpec == ConfigInit /\ [][ConfigNext]_configVars

-----------------------------------------------------------------------------
(* Properties.                                                             *)

ConfigTypeOK ==
    /\ config \in [update_name: BOOLEAN, update_groups: BOOLEAN]
    /\ projects \in Seq(Project)
    /\ groups \subseteq GroupId
    /\ index \in [Workers -> SUBSET GroupId]
    /\ load \in [Loads -> Load]
    /\ faulted \subseteq Loads
    /\ outdated \subseteq Loads
    /\ misnamed \subseteq Loads
    /\ stale \subseteq Loads
    /\ edits \in 0..MaxEdits
    /\ failures \in 0..MaxFailures

\* As long as the naming module answers, events of a repository never give
\* it a second project, however their lookups, creations and renames of the
\* legacy project interleave.
OneProject == misnamed = {} => Len(projects) <= 1

\* Loading the configuration fails only if a request or the naming module
\* failed, if others changed what had been read, or if the project was to be
\* created with cached ids of groups that are gone (which, unlike an update,
\* does not purge the cache).  A project created meanwhile by another event
\* is overcome, and so is a deleted group in the cache when the project is
\* updated.
FailuresHaveCause ==
    \A t \in Loads :
        load[t].at = "failed" =>
            t \in faulted \cup outdated \cup misnamed \cup stale

\* Nobody else's groups and tags are lost: an update from an up-to-date
\* project_json takes no group membership away and overwrites no tag value
\* of the project.
UpdateKeeps ==
    [][\A t \in Loads \ outdated : Update(t) =>
          \A i \in DOMAIN projects :
              /\ projects[i].groups \subseteq projects'[i].groups
              /\ projects[i].tags.team \in {"none", projects'[i].tags.team}
      ]_configVars

\* A load that ends well and undisturbed leaves the project in every group
\* of the assignment rules that exists, also when the worker had cached ids
\* of groups that were deleted or created anew.
GroupsAssigned ==
    [][\A t \in Loads \ (faulted \cup outdated) :
          load[t].at # "done" /\ load'[t].at = "done"
          /\ (config.update_groups \/ load[t].id = 0)
          => {g \in groups : g[1] \in Paths}
                 \subseteq projects'[load'[t].id].groups
      ]_configVars
=============================================================================
