---------------------------- MODULE TowerLaunch ----------------------------
(***************************************************************************)
(* How pods launch jobs on one Tower (internal/clients/tower.go LaunchJob, *)
(* internal/handler/tower_launch.go launchTowerJob): a token, the          *)
(* resources a job needs, found by name or created, a template, its        *)
(* credentials and instance groups, the launch, and the report of the job. *)
(* Lifecycle takes all of it as one call; here every request to Tower is a *)
(* step, which may fail with or without its effect, and the pods that      *)
(* launch jobs of other subjects are between any two of them.              *)
(*                                                                         *)
(* Tower is external: it refuses a second resource of one name, and a      *)
(* template or a launch while the project has not been fetched, which is   *)
(* what LaunchJob's two retries through UpdateProject are for.  Organ-     *)
(* isation, inventory, project, environment and vault credentials belong   *)
(* to no action and are shared.                                            *)
(***************************************************************************)
EXTENDS Integers, FiniteSets, Sequences

CONSTANTS
    Pods,        \* the runner pods
    Actions,     \* the AnarchyActions that launch a job, by their names
    Provisions,  \* those whose handler gives up on an error (handleProvisionError)
    Config,      \* the governor's successive settings, a sequence of records
    Static,      \* static credentials and instance groups that Tower has
    MaxFaults,   \* model bound: requests that fail, syncs that fail, crashes
    None         \* no action, no name, no template

ASSUME LaunchAssumption ==
    /\ IsFiniteSet(Pods)
    /\ Provisions \subseteq Actions
    /\ Len(Config) \in Nat \ {0}
    /\ MaxFaults \in Nat
    /\ None \notin Actions

VARIABLES
    pods,       \* LaunchJob in each pod: its place and its local variables
    exists,     \* Tower: the shared resources, by name
    sync,       \* Tower: the fetch of the project
    templates,  \* Tower: the job templates, by name
    tokens,     \* Tower: how many OAuth tokens LaunchJob has left there
    jobs,       \* Tower: the jobs of each action, as their templates were then
    ended,      \* the action is still to be launched, has its job, or gave up
    version,    \* the governor's setting in force
    faults      \* model bound: the faults so far

vars == <<pods, exists, sync, templates, tokens, jobs, ended, version, faults>>

Versions == 1..Len(Config)
Vaults == UNION {Config[v].vaults : v \in Versions}
Credentials == Vaults \cup (UNION {Config[v].credentials : v \in Versions})
Groups == (UNION {Config[v].groups : v \in Versions})
             \cup (UNION {Config[v].actionGroups[a] : v \in Versions, a \in Actions})

Templates == [action : Actions, version : Versions, credentials : SUBSET Credentials,
              groups : SUBSET Groups]

Idle == [stage |-> "idle", action |-> None, version |-> 1, left |-> {}, drop |-> {},
         missing |-> None, credentials |-> {}, groups |-> {}, update |-> "unused", job |-> FALSE]

Init ==
    /\ pods = [p \in Pods |-> Idle]
    /\ exists = {}
    /\ sync = "none"
    /\ templates = [a \in Actions |-> None]
    /\ tokens = 0
    /\ jobs = [a \in Actions |-> <<>>]
    /\ ended = [a \in Actions |-> "open"]
    /\ version = 1
    /\ faults = 0

(***************************************************************************)
(* launchTowerJob: the settings of the payload, and what is read from them *)
(* for an action.                                                          *)
(***************************************************************************)
Settings(p) == Config[pods[p].version]

\* The groups of the action come before those of all actions.
resolveInstanceGroups(c, a) == IF c.actionGroups[a] # {} THEN c.actionGroups[a] ELSE c.groups

\* An environment needs a control plane that knows them, and an image.
buildEEConfig(c) == c.controlPlane = "controller" /\ c.image

ensureExecutionEnv(c) == IF buildEEConfig(c) THEN {"environment"} ELSE {}

\* The template's name has the action's in it.  Mutant: it leaves it out.
TemplateOfSubject(a) == CHOOSE b \in Actions : TRUE

TemplateName(a) == a

Template(p) == templates[TemplateName(pods[p].action)]

Fault == faults < MaxFaults /\ faults' = faults + 1

(***************************************************************************)
(* The way through LaunchJob: the stages, and what each has left to do.    *)
(***************************************************************************)
Ensured == {"organization", "inventory", "vaults", "project", "environment", "template"}

\* Tower keeps the kinds of resources apart; here their names do.
ASSUME NamesAssumption == Vaults \cap Ensured = {} /\ None \notin Templates

Passed == Ensured \cup {"credentials", "syncCredentials", "groups", "syncGroups"}

After(stage) ==
    CASE stage = "organization"    -> "inventory"
      [] stage = "inventory"       -> "vaults"
      [] stage = "vaults"          -> "credentials"
      [] stage = "credentials"     -> "project"
      [] stage = "project"         -> "environment"
      [] stage = "environment"     -> "template"
      [] stage = "template"        -> "listCredentials"
      [] stage = "syncCredentials" -> "groups"
      [] stage = "groups"          -> "listGroups"
      [] stage = "syncGroups"      -> "launch"

Work(p, stage) ==
    LET c == Settings(p)
    IN  CASE stage = "vaults"      -> c.vaults
          [] stage = "credentials" -> c.credentials
          [] stage = "environment" -> ensureExecutionEnv(c)
          [] stage = "groups"      -> resolveInstanceGroups(c, pods[p].action)
          [] OTHER                 -> {stage}

Onward(p) ==
    /\ pods[p].stage \in Passed
    /\ pods[p].left = {} /\ pods[p].drop = {}
    /\ LET next == After(pods[p].stage)
       IN  pods' = [pods EXCEPT ![p].stage = next, ![p].left = Work(p, next),
                                ![p].update = "unused"]
    /\ UNCHANGED <<exists, sync, templates, tokens, jobs, ended, version, faults>>

\* LaunchJob returns, by way of its deferred deletion of the token.  Mutant: an
\* early return on an error does without it.
Leave(p, job) ==
    pods' = [pods EXCEPT ![p] = [Idle EXCEPT !.stage = "deleteToken", !.action = pods[p].action,
                                             !.version = pods[p].version, !.job = job]]

FailKeepingToken(p) ==
    pods' = [pods EXCEPT ![p] = [Idle EXCEPT !.stage = "failed", !.action = pods[p].action,
                                             !.version = pods[p].version]]

Fail(p) == Leave(p, FALSE)

\* The template and the launch are tried again after one update of the project.
RetryOrFail(p) ==
    IF pods[p].stage \in {"template", "launch"} /\ pods[p].update = "unused"
    THEN pods' = [pods EXCEPT ![p].update = "due", ![p].left = {pods[p].stage}, ![p].missing = None]
    ELSE Fail(p)

(***************************************************************************)
(* Attempts: Anarchy dispatches the run of an action that has no job.      *)
(***************************************************************************)
Dispatch(p, a) ==
    /\ pods[p] = Idle
    /\ ended[a] = "open"
    /\ \A q \in Pods : pods[q].action # a
    /\ pods' = [pods EXCEPT ![p] = [Idle EXCEPT !.stage = "token", !.action = a, !.version = version]]
    /\ UNCHANGED <<exists, sync, templates, tokens, jobs, ended, version, faults>>

\* The governor is edited; attempts under way keep the payload they have.
Edit ==
    /\ version < Len(Config)
    /\ version' = version + 1
    /\ UNCHANGED <<pods, exists, sync, templates, tokens, jobs, ended, faults>>

\* launchTowerJob's caller gets the error: the handler of a provision gives up,
\* any other fails its run, which is dispatched again.
Errs(p) ==
    /\ pods' = [pods EXCEPT ![p] = Idle]
    /\ ended' = [ended EXCEPT ![pods[p].action] = IF pods[p].action \in Provisions THEN "gaveUp" ELSE @]

\* A pod dies, or a SIGTERM ends its context: no request of its own will be
\* answered any more, the deletion of its token included.
Crash(p) ==
    /\ pods[p].stage # "idle"
    /\ Fault
    /\ pods' = [pods EXCEPT ![p] = Idle]
    /\ UNCHANGED <<exists, sync, templates, tokens, jobs, ended, version>>

(***************************************************************************)
(* The token: CreateOAuthToken, and DeleteOAuthToken whose error is        *)
(* ignored.                                                                *)
(***************************************************************************)
CreateOAuthToken(p) ==
    /\ pods[p].stage = "token"
    /\ tokens' = tokens + 1
    /\ pods' = [pods EXCEPT ![p].stage = "organization", ![p].left = {"organization"}]
    /\ UNCHANGED <<exists, sync, templates, jobs, ended, version, faults>>

\* Mutant: the deletion is deferred before the error is looked at.
TokenDeferredFirst(p) ==
    /\ pods[p].stage = "token"
    /\ Fault
    /\ tokens' \in {tokens, tokens + 1}
    /\ Leave(p, FALSE)
    /\ UNCHANGED <<exists, sync, templates, jobs, ended, version>>

CreateOAuthTokenFails(p) ==
    /\ pods[p].stage = "token"
    /\ Fault
    /\ tokens' \in {tokens, tokens + 1}
    /\ Errs(p)
    /\ UNCHANGED <<exists, sync, templates, jobs, version>>

DeleteOAuthToken(p) ==
    /\ pods[p].stage = "deleteToken"
    /\ \/ tokens' = tokens - 1 /\ UNCHANGED faults
       \/ Fault /\ tokens' \in {tokens, tokens - 1}
    /\ pods' = [pods EXCEPT ![p].stage = IF pods[p].job THEN "report" ELSE "failed"]
    /\ UNCHANGED <<exists, sync, templates, jobs, ended, version>>

Return(p) ==
    /\ pods[p].stage = "failed"
    /\ Errs(p)
    /\ UNCHANGED <<exists, sync, templates, tokens, jobs, version, faults>>

(***************************************************************************)
(* EnsureResource: search by name, then create.                            *)
(***************************************************************************)
Found(p, n) == IF n = "template" THEN Template(p) # None ELSE n \in exists

\* The resource is there: a vault credential joins the list for the template.
Got(p, n) ==
    pods' = [pods EXCEPT ![p].left = @ \ {n}, ![p].missing = None,
                         ![p].credentials = IF pods[p].stage = "vaults" THEN @ \cup {n} ELSE @]

Ensuring(p) ==
    /\ pods[p].stage \in Ensured
    /\ pods[p].update # "due"

\* A failed search falls through to the creation.
SearchResource(p) ==
    /\ Ensuring(p)
    /\ pods[p].missing = None
    /\ \E n \in pods[p].left :
          \/ Found(p, n) /\ Got(p, n) /\ UNCHANGED faults
          \/ ~Found(p, n) /\ pods' = [pods EXCEPT ![p].missing = n] /\ UNCHANGED faults
          \/ Fault /\ pods' = [pods EXCEPT ![p].missing = n]
    /\ UNCHANGED <<exists, sync, templates, tokens, jobs, ended, version>>

\* Tower creates what has no namesake; a template names a playbook, which needs a
\* project that was fetched, and a new project is fetched at once.
Creatable(p, n) == ~Found(p, n) /\ (n = "template" => sync = "done")

buildTemplateData(p) ==
    [action |-> pods[p].action, version |-> pods[p].version, credentials |-> {}, groups |-> {}]

Created(p, n) ==
    IF n = "template"
    THEN /\ templates' = [templates EXCEPT ![TemplateName(pods[p].action)] = buildTemplateData(p)]
         /\ UNCHANGED <<exists, sync>>
    ELSE /\ exists' = exists \cup {n}
         /\ sync' = IF n = "project" THEN "running" ELSE sync
         /\ UNCHANGED templates

\* Created, refused, or failed before or after it was done.
CreateResource(p) ==
    /\ Ensuring(p)
    /\ pods[p].missing # None
    /\ LET n == pods[p].missing
       IN  \/ Creatable(p, n) /\ Created(p, n) /\ Got(p, n) /\ UNCHANGED faults
           \/ ~Creatable(p, n) /\ RetryOrFail(p) /\ UNCHANGED <<exists, sync, templates, faults>>
           \/ Fault /\ RetryOrFail(p) /\ UNCHANGED <<exists, sync, templates>>
           \/ Fault /\ RetryOrFail(p) /\ Creatable(p, n) /\ Created(p, n)
    /\ UNCHANGED <<tokens, jobs, ended, version>>

\* The update of the project between the two tries; its error is ignored.
\* Mutant: the project is not fetched again.
UpdateNothing(p) ==
    /\ pods[p].update = "due"
    /\ pods' = [pods EXCEPT ![p].update = "used"]
    /\ UNCHANGED <<exists, sync, templates, tokens, jobs, ended, version, faults>>

UpdateProject(p) ==
    /\ pods[p].update = "due"
    /\ \/ sync' = (IF sync = "done" THEN sync ELSE "running") /\ UNCHANGED faults
       \/ Fault /\ UNCHANGED sync
    /\ pods' = [pods EXCEPT ![p].update = "used"]
    /\ UNCHANGED <<exists, templates, tokens, jobs, ended, version>>

\* Tower: the fetch of the project ends.  What was fetched once stays usable.
SyncEnds ==
    /\ sync = "running"
    /\ \/ sync' = "done" /\ UNCHANGED faults
       \/ sync' = "failed" /\ Fault
    /\ UNCHANGED <<pods, exists, templates, tokens, jobs, ended, version>>

(***************************************************************************)
(* What is only looked up: static credentials, of which an unknown one is  *)
(* skipped and a failed search ends the launch, and instance groups, where *)
(* both are skipped.                                                       *)
(***************************************************************************)
LookupCredential(p) ==
    /\ pods[p].stage = "credentials"
    /\ \E n \in pods[p].left :
          pods' = [pods EXCEPT ![p].left = @ \ {n}, ![p].credentials = @ \cup ({n} \cap Static)]
    /\ UNCHANGED <<exists, sync, templates, tokens, jobs, ended, version, faults>>

resolveInstanceGroupIDs(p) ==
    /\ pods[p].stage = "groups"
    /\ \E n \in pods[p].left :
          \/ /\ pods' = [pods EXCEPT ![p].left = @ \ {n}, ![p].groups = @ \cup ({n} \cap Static)]
             /\ UNCHANGED faults
          \/ /\ Fault
             /\ pods' = [pods EXCEPT ![p].left = @ \ {n}]
    /\ UNCHANGED <<exists, sync, templates, tokens, jobs, ended, version>>

\* The searches and lists that end the launch when they fail: the vault
\* credentials' type, a static credential, a template's children.
ReadFails(p) ==
    /\ pods[p].stage \in {"vaults", "credentials", "listCredentials", "listGroups"}
    /\ pods[p].left # {}
    /\ Fault
    /\ Fail(p)
    /\ UNCHANGED <<exists, sync, templates, tokens, jobs, ended, version>>

(***************************************************************************)
(* SyncChildren: the children listed, the extra ones dropped, the missing  *)
(* ones added.  Mutant: none is dropped.                                   *)
(***************************************************************************)
NoExtras(has, wants) == {}

Extras(has, wants) == has \ wants

Sync(p, stage, has, wants) ==
    pods' = [pods EXCEPT ![p].stage = stage, ![p].drop = Extras(has, wants), ![p].left = wants \ has]

listChildIDs(p) ==
    /\ \/ /\ pods[p].stage = "listCredentials"
          /\ Sync(p, "syncCredentials", Template(p).credentials, pods[p].credentials)
       \/ /\ pods[p].stage = "listGroups"
          /\ Sync(p, "syncGroups", Template(p).groups, pods[p].groups)
    /\ UNCHANGED <<exists, sync, templates, tokens, jobs, ended, version, faults>>

\* The template once its child n is associated, or disassociated.
Changed(p, n) ==
    LET With(children) == IF n \in pods[p].drop THEN children \ {n} ELSE children \cup {n}
        t == TemplateName(pods[p].action)
    IN  templates' = IF pods[p].stage = "syncCredentials"
                     THEN [templates EXCEPT ![t].credentials = With(@)]
                     ELSE [templates EXCEPT ![t].groups = With(@)]

postChild(p) ==
    /\ pods[p].stage \in {"syncCredentials", "syncGroups"}
    /\ \E n \in IF pods[p].drop # {} THEN pods[p].drop ELSE pods[p].left :
          \/ /\ Changed(p, n)
             /\ pods' = [pods EXCEPT ![p].drop = @ \ {n}, ![p].left = @ \ {n}]
             /\ UNCHANGED faults
          \/ Fault /\ Fail(p) /\ UNCHANGED templates
          \/ Fault /\ Fail(p) /\ Changed(p, n)
    /\ UNCHANGED <<exists, sync, tokens, jobs, ended, version>>

(***************************************************************************)
(* The launch and the report.                                              *)
(***************************************************************************)
Launched(p) == jobs' = [jobs EXCEPT ![pods[p].action] = Append(@, Template(p))]

Launching(p) == pods[p].stage = "launch" /\ pods[p].update # "due"

\* Mutant: the second try does not look at how the first one went.
LaunchTwice(p) ==
    /\ Launching(p)
    /\ \/ sync = "done" /\ Launched(p) /\ UNCHANGED faults
          /\ IF pods[p].update = "used" THEN Leave(p, TRUE) ELSE RetryOrFail(p)
       \/ sync # "done" /\ RetryOrFail(p) /\ UNCHANGED <<jobs, faults>>
    /\ UNCHANGED <<exists, sync, templates, tokens, ended, version>>

Launch(p) ==
    /\ Launching(p)
    /\ \/ sync = "done" /\ Launched(p) /\ Leave(p, TRUE) /\ UNCHANGED faults
       \/ sync # "done" /\ RetryOrFail(p) /\ UNCHANGED <<jobs, faults>>
       \/ Fault /\ RetryOrFail(p) /\ UNCHANGED jobs
       \/ Fault /\ RetryOrFail(p) /\ sync = "done" /\ Launched(p)
    /\ UNCHANGED <<exists, sync, templates, tokens, ended, version>>

\* launchTowerJob patches the job into the subject's status.towerJobs.  A patch
\* that fails, carried out or not, fails the launch: its job is one that the next
\* attempt of the action does not know.
Report(p) ==
    /\ pods[p].stage = "report"
    /\ \/ /\ ended' = [ended EXCEPT ![pods[p].action] = "launched"]
          /\ pods' = [pods EXCEPT ![p] = Idle]
          /\ UNCHANGED faults
       \/ Fault /\ Errs(p)
    /\ UNCHANGED <<exists, sync, templates, tokens, jobs, version>>

Step(p) ==
    \/ CreateOAuthToken(p) \/ DeleteOAuthToken(p) \/ Return(p) \/ Onward(p)
    \/ SearchResource(p) \/ CreateResource(p) \/ UpdateProject(p)
    \/ LookupCredential(p) \/ resolveInstanceGroupIDs(p) \/ listChildIDs(p) \/ postChild(p)
    \/ Launch(p) \/ Report(p)

Next ==
    \/ \E p \in Pods : Step(p) \/ CreateOAuthTokenFails(p) \/ ReadFails(p) \/ Crash(p)
    \/ \E p \in Pods, a \in Actions : Dispatch(p, a)
    \/ SyncEnds
    \/ Edit

\* A pod that handles a run goes on; Tower ends its fetches; Anarchy dispatches
\* an action without a job as long as a pod is free.  Nothing fails for ever:
\* MaxFaults bounds the faults.
Fairness ==
    /\ \A p \in Pods : WF_vars(Step(p))
    /\ \A a \in Actions : WF_vars(\E p \in Pods : Dispatch(p, a))
    /\ WF_vars(SyncEnds)

Spec == Init /\ [][Next]_vars /\ Fairness
-----------------------------------------------------------------------------
Stages == Passed \cup {"idle", "token", "listCredentials", "listGroups", "launch", "deleteToken",
                      "failed", "report"}

Names == Ensured \cup Credentials \cup Groups \cup {"listCredentials", "listGroups", "launch"}

Locals == [stage : Stages, action : Actions \cup {None}, version : Versions, left : SUBSET Names,
           drop : SUBSET Names, missing : Names \cup {None}, credentials : SUBSET Credentials,
           groups : SUBSET Groups, update : {"unused", "due", "used"}, job : BOOLEAN]

\* The variables hold what the code's variables and Tower can; no token is deleted
\* that Tower has not.
TypeOK ==
    /\ pods \in [Pods -> Locals]
    /\ exists \subseteq Names
    /\ sync \in {"none", "running", "done", "failed"}
    /\ templates \in [Actions -> {None} \cup Templates]
    /\ tokens \in Nat
    /\ jobs \in [Actions -> Seq(Templates)]
    /\ ended \in [Actions -> {"open", "launched", "gaveUp"}]
    /\ version \in Versions
    /\ faults \in 0..MaxFaults

Holding(p) == pods[p].stage \notin {"idle", "token", "failed", "report"}

\* Of the tokens on Tower, which it keeps for months, no more are without a pod
\* than requests failed or pods died: every return of LaunchJob after the first
\* step, the refused creations of two pods that race included, deletes its own.
TokensAccounted == tokens <= Cardinality({p \in Pods : Holding(p)}) + faults

InHand(a) == \E p \in Pods : pods[p].action = a /\ pods[p].job

\* The jobs of an action that nobody is told of, to poll or to cancel, are at most
\* as many as the faults: a retry after a refused launch, a second attempt or
\* another pod never starts a job twice.
JobsAccounted ==
    \A a \in Actions :
       Len(jobs[a]) <= faults + (IF InHand(a) \/ ended[a] = "launched" THEN 1 ELSE 0)

\* A job runs with the variables of an attempt of its own action, never with those
\* of the job of another action of the same or another subject: resources are
\* reused by name, as they are, and the template's name keeps them apart.
RunsOwnVars == \A a \in Actions : \A i \in 1..Len(jobs[a]) : jobs[a][i].action = a

\* A job is launched with exactly the credentials of the settings its attempt was
\* dispatched with, whatever an earlier attempt with other settings left on the
\* template, half synchronised or not; and with the instance groups of those
\* settings, of which only a failed search can drop one.
RunsAsConfigured ==
    [][\A p \in Pods :
          pods[p].action # None /\ jobs'[pods[p].action] # jobs[pods[p].action] =>
             LET ran == jobs'[pods[p].action]
                 job == ran[Len(ran)]
                 c == Settings(p)
                 groups == resolveInstanceGroups(c, pods[p].action) \cap Static
             IN  /\ job.credentials = c.vaults \cup (c.credentials \cap Static)
                 /\ job.groups \subseteq groups
                 /\ faults = 0 => job.groups = groups]_vars

\* Every action has its job reported in the end: through the fetch of a project
\* that failed, the races for its shared resources and the pods that died.  Only
\* a provision may give up.
LaunchesInTheEnd ==
    \A a \in Actions : <>(ended[a] = "launched" \/ (a \in Provisions /\ ended[a] = "gaveUp"))
=============================================================================
