------------------------ MODULE TowerLaunch_proofs -------------------------
(***************************************************************************)
(* Proofs about TowerLaunch for any number of pods, of actions, of         *)
(* settings of the governor and of faults.                                 *)
(*                                                                         *)
(* RunsAsConfigured speaks of the moment of the launch only.  The          *)
(* invariant says of every stage on the way there what the attempt has     *)
(* collected (Collected, Grouped) and how far its template is from that    *)
(* (Synced); it holds of a pod whatever the others do, because no two pods *)
(* work on one action (Exclusive) and so on one template.  The tokens are  *)
(* counted by the pods that hold one (TokensHeld).                         *)
(***************************************************************************)
EXTENDS TowerLaunch, FiniteSetTheorems, TLAPS

\* The credentials and the groups of the settings of an attempt whose local
\* variables are s.
Full(s) == Config[s.version].vaults \cup (Config[s.version].credentials \cap Static)
Wanted(s) == resolveInstanceGroups(Config[s.version], s.action)

\* The stages after the credentials were collected, and those at which the template
\* is there.
Late == {"project", "environment", "template", "listCredentials", "syncCredentials", "groups",
         "listGroups", "syncGroups", "launch"}
Templated == {"listCredentials", "syncCredentials", "groups", "listGroups", "syncGroups", "launch"}

\* Which variables an attempt uses at which stage.
Placed(s) ==
    /\ s.action = None <=> s.stage = "idle"
    /\ s.job => s.stage \in {"deleteToken", "report"}
    /\ s.stage = "report" => s.job
    /\ s.drop # {} => s.stage \in {"syncCredentials", "syncGroups"}
    /\ s.missing # None => s.stage \in Ensured /\ s.missing \in s.left
    /\ s.stage = "vaults" => s.left \subseteq Config[s.version].vaults
    /\ s.stage = "credentials" => s.left \subseteq Config[s.version].credentials
    /\ s.stage = "groups" => s.left \subseteq Wanted(s)
    /\ s.update = "due" => s.stage \in {"template", "launch"}
    /\ s.stage \in Ensured \ {"vaults"} => s.left \subseteq {s.stage}

\* The credentials found so far: all but those that are left.
Collected(s) ==
    /\ s.stage \in {"token", "organization", "inventory"} => s.credentials = {}
    /\ s.stage = "vaults" => s.credentials = Config[s.version].vaults \ s.left
    /\ s.stage = "credentials" =>
          s.credentials = Config[s.version].vaults \cup ((Config[s.version].credentials \ s.left) \cap Static)
    /\ s.stage \in Late => s.credentials = Full(s)

\* The groups found so far; clean: no search has failed.
Grouped(s, clean) ==
    /\ s.stage \in {"token", "organization", "inventory", "vaults", "credentials", "project",
                    "environment", "template", "listCredentials", "syncCredentials"} => s.groups = {}
    /\ s.stage = "groups" =>
          /\ s.groups \subseteq (Wanted(s) \ s.left) \cap Static
          /\ clean => s.groups = (Wanted(s) \ s.left) \cap Static
    /\ s.stage \in {"listGroups", "syncGroups", "launch"} =>
          /\ s.groups \subseteq Wanted(s) \cap Static
          /\ clean => s.groups = Wanted(s) \cap Static

\* The template t, and how its children differ from those the attempt has collected.
Synced(s, t) ==
    /\ s.stage \in Templated \/ (s.stage = "template" /\ s.left = {}) => t # None
    /\ s.stage = "syncCredentials" =>
          /\ t.credentials = (s.credentials \ s.left) \cup s.drop
          /\ s.left \subseteq s.credentials
          /\ s.drop \cap s.credentials = {}
    /\ s.stage \in {"groups", "listGroups", "syncGroups", "launch"} => t.credentials = s.credentials
    /\ s.stage = "syncGroups" =>
          /\ t.groups = (s.groups \ s.left) \cup s.drop
          /\ s.left \subseteq s.groups
          /\ s.drop \cap s.groups = {}
    /\ s.stage = "launch" => t.groups = s.groups

\* All of it, and that the action is still to be launched.
Fits(s, t, e, clean) ==
    /\ Placed(s)
    /\ Collected(s)
    /\ Grouped(s, clean)
    /\ Synced(s, t)
    /\ e = "open"

\* Every attempt fits the template of its action.
Fitting == \A p \in Pods :
    /\ Placed(pods[p])
    /\ pods[p].action # None =>
          Fits(pods[p], templates[pods[p].action], ended[pods[p].action], faults = 0)

\* No two pods launch the same action (Dispatch).
Exclusive == \A p, q \in Pods : pods[p].action # None /\ pods[p].action = pods[q].action => p = q

\* Templates have the variables of the action in their name (TemplateName).
OwnTemplates == \A a \in Actions : templates[a] # None => templates[a].action = a

\* The pods that hold a token.
Holders == {p \in Pods : Holding(p)}

\* Every one of them has its token on Tower, and what is there more is due to a fault.
TokensHeld == Cardinality(Holders) <= tokens /\ tokens <= Cardinality(Holders) + faults

\* The inductive invariant.
IInv ==
    /\ TypeOK
    /\ Fitting
    /\ Exclusive
    /\ OwnTemplates
    /\ RunsOwnVars
    /\ TokensHeld
    /\ JobsAccounted

\* What the settings name are credentials and groups.
LEMMA ConfigOK ==
    ASSUME NEW v \in Versions
    PROVE  /\ Config[v].vaults \subseteq Credentials
           /\ Config[v].credentials \subseteq Credentials
           /\ \A a \in Actions : resolveInstanceGroups(Config[v], a) \subseteq Groups
<1>1. Config[v].vaults \subseteq Vaults
  BY DEF Vaults
<1>2. Config[v].credentials \subseteq Credentials
  BY DEF Credentials
<1>3. \A a \in Actions : Config[v].groups \subseteq Groups /\ Config[v].actionGroups[a] \subseteq Groups
  BY DEF Groups
<1> QED BY <1>1, <1>2, <1>3 DEF Credentials, resolveInstanceGroups

\* The number of pods that hold a token changes with the pod that moves.
LEMMA CardinalityKept ==
    ASSUME TypeOK, NEW p \in Pods, NEW r \in Locals, pods' = [pods EXCEPT ![p] = r]
    PROVE  /\ IsFiniteSet(Holders) /\ Cardinality(Holders) \in Nat /\ Cardinality(Holders') \in Nat
           /\ Holding(p)' <=> Holding(p) => Holders' = Holders
           /\ Holding(p)' /\ ~Holding(p) => Cardinality(Holders') = Cardinality(Holders) + 1
           /\ ~Holding(p)' /\ Holding(p) => Cardinality(Holders') = Cardinality(Holders) - 1
<1>1. IsFiniteSet(Holders) /\ IsFiniteSet(Holders')
  BY LaunchAssumption, FS_Subset DEF Holders
<1>2. pods'[p] = r /\ \A q \in Pods : q # p => pods'[q] = pods[q]
  BY DEF TypeOK
<1>3. \A q \in Pods : q # p => (Holding(q)' <=> Holding(q))
  BY <1>2 DEF Holding
<1>4. (Holding(p)' <=> Holding(p)) => Holders' = Holders
  BY <1>3 DEF Holders
<1>5. Holding(p)' /\ ~Holding(p) => Holders' = Holders \cup {p} /\ p \notin Holders
  BY <1>3 DEF Holders
<1>6. ~Holding(p)' /\ Holding(p) => Holders' = Holders \ {p} /\ p \in Holders
  BY <1>3 DEF Holders
<1>7. Cardinality(Holders) \in Nat /\ Cardinality(Holders') \in Nat
  BY <1>1, FS_CardinalityType
<1>8. ASSUME Holding(p)', ~Holding(p)
      PROVE  Cardinality(Holders') = Cardinality(Holders) + 1
  BY <1>1, <1>5, <1>8, FS_AddElement
<1>9. ASSUME ~Holding(p)', Holding(p)
      PROVE  Cardinality(Holders') = Cardinality(Holders) - 1
  BY <1>1, <1>6, <1>9, FS_RemoveElement
<1> QED BY <1>1, <1>4, <1>7, <1>8, <1>9

\* When pod p moves to r, which fits, and only the template of its action changes,
\* all the other pods still fit theirs.
LEMMA OthersFit ==
    ASSUME IInv, NEW p \in Pods, NEW r \in Locals, pods' = [pods EXCEPT ![p] = r],
           \A q \in Pods : q # p /\ r.action # None => pods[q].action # r.action,
           faults' \in faults..MaxFaults,
           \A a \in Actions : a # pods[p].action => templates'[a] = templates[a] /\ ended'[a] = ended[a],
           Placed(r),
           r.action # None => Fits(r, templates'[r.action], ended'[r.action], faults' = 0)
    PROVE  Fitting' /\ Exclusive'
<1>1. pods'[p] = r /\ \A q \in Pods : q # p => pods'[q] = pods[q]
  BY DEF IInv, TypeOK
<1>2. ASSUME NEW q \in Pods, q # p, pods[q].action # None
      PROVE  Fits(pods[q], templates'[pods[q].action], ended'[pods[q].action], faults' = 0)
  <2>1. pods[q].action # pods[p].action
    BY <1>2 DEF IInv, Exclusive
  <2>2. pods[q].action \in Actions
    BY <1>2 DEF IInv, TypeOK, Locals
  <2>3. Fits(pods[q], templates[pods[q].action], ended[pods[q].action], faults = 0)
    BY <1>2 DEF IInv, Fitting
  <2>4. Fits(pods[q], templates'[pods[q].action], ended'[pods[q].action], faults = 0)
    BY <2>1, <2>2, <2>3
  <2>5. faults' = 0 => faults = 0
    BY DEF IInv, TypeOK
  <2> QED BY <2>4, <2>5 DEF Fits, Grouped
<1>3. Fitting'
  BY <1>1, <1>2 DEF IInv, Fitting
<1>4. Exclusive'
  BY <1>1 DEF IInv, Exclusive
<1> QED BY <1>3, <1>4

\* The jobs stay, or one whose launch was not answered joins them.
JobsFine ==
    \/ UNCHANGED jobs
    \/ /\ jobs' \in [Actions -> Seq(Templates)]
       /\ RunsOwnVars'
       /\ \A a \in Actions : Len(jobs'[a]) <= faults'

\* A step of a pod that holds its token before and after keeps the invariant if the
\* pod still fits.
LEMMA Quiet ==
    ASSUME IInv, NEW p \in Pods, NEW r \in Locals, pods' = [pods EXCEPT ![p] = r],
           pods[p].action # None, r.action = pods[p].action, ~pods[p].job, ~r.job,
           Holding(p), Holding(p)',
           UNCHANGED <<tokens, ended, version>>, JobsFine,
           exists' \subseteq Names, sync' \in {"none", "running", "done", "failed"},
           faults' \in faults..MaxFaults,
           templates' \in [Actions -> {None} \cup Templates],
           \A a \in Actions : a # pods[p].action => templates'[a] = templates[a],
           templates'[r.action] # None => templates'[r.action].action = r.action,
           Placed(r), Collected(r), Grouped(r, faults' = 0), Synced(r, templates'[r.action])
    PROVE  IInv'
<1>0. faults' \in 0..MaxFaults /\ faults' >= faults /\ faults \in Nat /\ faults' \in Nat
  BY LaunchAssumption DEF IInv, TypeOK
<1>1. TypeOK'
  BY <1>0 DEF IInv, TypeOK, JobsFine
<1>2. r.action \in Actions
  BY DEF Locals
<1>3. Fits(r, templates'[r.action], ended'[r.action], faults' = 0)
  BY DEF Fits, IInv, Fitting
<1>4. Fitting' /\ Exclusive'
  <2>1. \A q \in Pods : q # p /\ r.action # None => pods[q].action # r.action
    BY DEF IInv, Exclusive
  <2> QED BY <1>0, <1>3, <2>1, OthersFit DEF Fits
<1>5. OwnTemplates' /\ RunsOwnVars'
  <2>1. RunsOwnVars'
    BY DEF IInv, RunsOwnVars, JobsFine
  <2> QED BY <2>1 DEF IInv, OwnTemplates
<1>6. TokensHeld'
  <2>1. Holders' = Holders /\ Cardinality(Holders) \in Nat
    BY CardinalityKept DEF IInv
  <2> QED BY <1>0, <2>1 DEF IInv, TokensHeld, TypeOK
<1>7. JobsAccounted'
  <2>1. pods'[p] = r /\ \A q \in Pods : q # p => pods'[q] = pods[q]
    BY DEF IInv, TypeOK
  <2>2. \A a \in Actions : InHand(a)' <=> InHand(a)
    BY <2>1 DEF InHand
  <2>3. \A a \in Actions : Len(jobs[a]) \in Nat /\ Len(jobs'[a]) \in Nat
    BY <1>1 DEF IInv, TypeOK
  <2>4. CASE UNCHANGED jobs
    BY <1>0, <2>2, <2>3, <2>4 DEF IInv, JobsAccounted
  <2>5. CASE \A a \in Actions : Len(jobs'[a]) <= faults'
    BY <1>0, <2>3, <2>5 DEF JobsAccounted
  <2> QED BY <2>4, <2>5 DEF JobsFine
<1> QED BY <1>1, <1>4, <1>5, <1>6, <1>7 DEF IInv

\* The stages of LaunchJob follow one another in one way only.
LEMMA AfterOK ==
    ASSUME NEW s \in Passed
    PROVE  /\ After(s) \in {"inventory", "vaults", "credentials", "project", "environment",
                            "template", "listCredentials", "groups", "listGroups", "launch"}
           /\ After(s) = "inventory" <=> s = "organization"
           /\ After(s) = "vaults" <=> s = "inventory"
           /\ After(s) = "credentials" <=> s = "vaults"
           /\ After(s) = "project" <=> s = "credentials"
           /\ After(s) = "environment" <=> s = "project"
           /\ After(s) = "template" <=> s = "environment"
           /\ After(s) = "listCredentials" <=> s = "template"
           /\ After(s) = "groups" <=> s = "syncCredentials"
           /\ After(s) = "listGroups" <=> s = "groups"
           /\ After(s) = "launch" <=> s = "syncGroups"
BY DEF After, Passed, Ensured

\* A pod in the middle of LaunchJob, and what is known of it.
LEMMA Standing ==
    ASSUME IInv, NEW p \in Pods, pods[p].stage \notin {"idle"}
    PROVE  /\ pods[p] \in Locals
           /\ pods[p].action \in Actions
           /\ Placed(pods[p]) /\ Collected(pods[p]) /\ Grouped(pods[p], faults = 0)
           /\ Synced(pods[p], Template(p))
           /\ ended[pods[p].action] = "open"
           /\ templates[pods[p].action] = Template(p)
           /\ Template(p) \in {None} \cup Templates
           /\ faults \in Nat /\ faults <= MaxFaults
<1>1. pods[p] \in Locals /\ faults \in Nat /\ faults <= MaxFaults
  BY LaunchAssumption DEF IInv, TypeOK
<1>2. pods[p].action # None
  BY DEF IInv, Fitting, Placed
<1>3. pods[p].action \in Actions
  BY <1>1, <1>2 DEF Locals
<1>4. Fits(pods[p], templates[pods[p].action], ended[pods[p].action], faults = 0)
  BY <1>2 DEF IInv, Fitting
<1> QED BY <1>1, <1>3, <1>4 DEF Fits, Template, TemplateName, IInv, TypeOK

\* The next stage of LaunchJob: what was left is done, and nothing is lost between
\* the stages.
LEMMA OnwardOK == ASSUME IInv, NEW p \in Pods, Onward(p) PROVE IInv'
<1> DEFINE s == pods[p]
           next == After(s.stage)
           r == [s EXCEPT !.stage = next, !.left = Work(p, next), !.update = "unused"]
<1>1. s.stage \in Passed /\ s.left = {} /\ s.drop = {}
  BY DEF Onward
<1>2. /\ s \in Locals /\ s.action \in Actions
      /\ Placed(s) /\ Collected(s) /\ Grouped(s, faults = 0) /\ Synced(s, Template(p))
      /\ templates[s.action] = Template(p) /\ faults \in Nat /\ faults <= MaxFaults
  BY <1>1, Standing DEF Passed, Ensured
<1>3. s.version \in Versions
  BY <1>2 DEF Locals
<1>4. next \in Stages /\ Work(p, next) \subseteq Names
  <2>1. Config[s.version].vaults \subseteq Names /\ Config[s.version].credentials \subseteq Names
        /\ resolveInstanceGroups(Config[s.version], s.action) \subseteq Names
    BY <1>2, <1>3, ConfigOK DEF Names
  <2>2. ensureExecutionEnv(Config[s.version]) \subseteq {"environment"}
    BY DEF ensureExecutionEnv
  <2>3. next \in Names \cup {"vaults", "credentials", "environment", "groups"}
    BY <1>1, AfterOK DEF Names, Ensured
  <2>4. next \in Stages
    BY <1>1, AfterOK DEF Stages, Passed, Ensured
  <2> QED BY <2>1, <2>2, <2>3, <2>4 DEF Work, Settings, Names, Ensured
<1>5. r \in Locals
  BY <1>2, <1>4 DEF Locals
<1>6. /\ r.stage = next /\ r.left = Work(p, next) /\ r.drop = {} /\ r.missing = s.missing
      /\ r.update = "unused"
      /\ r.action = s.action /\ r.version = s.version /\ r.credentials = s.credentials
      /\ r.groups = s.groups /\ r.job = s.job
  BY <1>1, <1>2 DEF Locals
<1>7. pods' = [pods EXCEPT ![p] = r]
  BY <1>2 DEF Onward, Locals
<1>8. s.missing = None /\ ~s.job
  BY <1>1, <1>2 DEF Placed, Passed, Ensured
<1>9. Placed(r)
  <2>1. s.action # None
    BY <1>2, LaunchAssumption
  <2>2. next = "vaults" => r.left \subseteq Config[r.version].vaults
    BY <1>6 DEF Work, Settings
  <2>3. next \in Ensured \ {"vaults"} => r.left \subseteq {next}
    BY <1>6 DEF Work, Ensured, ensureExecutionEnv
  <2>4. next \notin {"idle", "deleteToken", "report"}
    BY <1>1, AfterOK
  <2>5. next = "credentials" => r.left \subseteq Config[r.version].credentials
    BY <1>6 DEF Work, Settings
  <2>6. next = "groups" => r.left \subseteq Wanted(r)
    BY <1>6 DEF Work, Settings, Wanted
  <2> QED BY <1>6, <1>8, <2>1, <2>2, <2>3, <2>4, <2>5, <2>6 DEF Placed
<1>10. Collected(r)
  <2>1. next = "inventory" => s.stage = "organization"
    BY <1>1, AfterOK
  <2>2. next = "vaults" => s.stage = "inventory" /\ r.left = Config[s.version].vaults
    BY <1>1, <1>6, AfterOK DEF Work, Settings
  <2>3. next = "credentials" => s.stage = "vaults" /\ r.left = Config[s.version].credentials
    BY <1>1, <1>6, AfterOK DEF Work, Settings
  <2>4. next \in Late => s.stage \in Late \cup {"credentials"}
    BY <1>1, AfterOK DEF Late, Passed, Ensured
  <2>5. next \notin {"token", "organization"}
    BY <1>1, AfterOK
  <2>6. next \in Late => s.credentials = Full(s)
    BY <1>1, <1>2, <2>4 DEF Collected, Full, Late
  <2> QED BY <1>1, <1>2, <1>6, <2>1, <2>2, <2>3, <2>5, <2>6 DEF Collected, Full, Late
<1>11. Grouped(r, faults = 0)
  <2>1. next = "groups" => s.stage = "syncCredentials" /\ r.left = Wanted(s)
    BY <1>1, <1>6, AfterOK DEF Work, Settings, Wanted
  <2>2. next = "listGroups" => s.stage = "groups"
    BY <1>1, AfterOK
  <2>3. next = "launch" => s.stage = "syncGroups"
    BY <1>1, AfterOK
  <2>4. next \notin {"groups", "listGroups", "launch"} =>
           s.stage \in {"organization", "inventory", "vaults", "credentials", "project",
                        "environment", "template"}
    BY <1>1, AfterOK DEF Passed, Ensured
  <2>5. next \notin {"syncGroups", "token", "organization"}
    BY <1>1, AfterOK
  <2>6. Wanted(r) = Wanted(s)
    BY <1>6 DEF Wanted
  <2> QED BY <1>1, <1>2, <1>6, <2>1, <2>2, <2>3, <2>4, <2>5, <2>6 DEF Grouped
<1>12. Synced(r, Template(p))
  <2>1. next \in Templated => s.stage \in Templated \cup {"template"}
    BY <1>1, AfterOK DEF Templated, Passed, Ensured
  <2>2. next = "groups" => s.stage = "syncCredentials"
    BY <1>1, AfterOK
  <2>3. next = "listGroups" => s.stage = "groups"
    BY <1>1, AfterOK
  <2>4. next = "launch" => s.stage = "syncGroups"
    BY <1>1, AfterOK
  <2>5. next \notin {"syncGroups", "syncCredentials"}
    BY <1>1, AfterOK
  <2>6. next = "template" => r.left # {}
    BY <1>6 DEF Work
  <2>7. next \in Templated => Template(p) # None
    BY <1>1, <1>2, <2>1 DEF Synced
  <2> QED BY <1>1, <1>2, <1>6, <2>2, <2>3, <2>4, <2>5, <2>6, <2>7 DEF Synced
<1>13. Holding(p) /\ Holding(p)'
  <2>1. pods'[p] = r
    BY <1>7 DEF IInv, TypeOK
  <2>2. next \notin {"idle", "token", "failed", "report"}
    BY <1>1, AfterOK
  <2> QED BY <1>1, <1>6, <2>1, <2>2 DEF Holding, Passed, Ensured
<1>14. UNCHANGED <<exists, sync, templates, tokens, jobs, ended, version, faults>>
  BY DEF Onward
<1>15. /\ exists' \subseteq Names /\ sync' \in {"none", "running", "done", "failed"}
       /\ faults' \in faults..MaxFaults /\ templates' \in [Actions -> {None} \cup Templates]
       /\ (templates'[r.action] # None => templates'[r.action].action = r.action)
       /\ templates'[r.action] = Template(p)
  BY <1>2, <1>6, <1>14, LaunchAssumption DEF IInv, TypeOK, OwnTemplates
<1>16. s.action # None
  BY <1>2, LaunchAssumption
<1> QED
  BY <1>5, <1>6, <1>7, <1>8, <1>9, <1>10, <1>11, <1>12, <1>13, <1>14, <1>15, <1>16, Quiet
     DEF JobsFine

\* The pod once LaunchJob has returned.
Left(p, job) == [stage |-> "deleteToken", action |-> pods[p].action, version |-> pods[p].version,
                 left |-> {}, drop |-> {}, missing |-> None, credentials |-> {}, groups |-> {},
                 update |-> "unused", job |-> job]

\* It fits any template.
LEMMA LeavingOK ==
    ASSUME IInv, NEW p \in Pods, pods[p].stage # "idle", NEW t, NEW clean, NEW r,
           r = Left(p, TRUE) \/ r = Left(p, FALSE)
    PROVE  /\ r \in Locals /\ r.action = pods[p].action /\ r.stage = "deleteToken"
           /\ Placed(r) /\ Collected(r) /\ Grouped(r, clean) /\ Synced(r, t)
<1>1. pods[p] \in Locals /\ pods[p].action \in Actions
  BY Standing
<1>2. pods[p].action # None
  BY <1>1, LaunchAssumption
<1>3. r \in Locals
  <2>1. "deleteToken" \in Stages
    BY DEF Stages
  <2>2. pods[p].version \in Versions
    BY <1>1 DEF Locals
  <2>3. Left(p, TRUE) \in Locals
    BY <1>1, <2>1, <2>2 DEF Left, Locals
  <2>4. Left(p, FALSE) \in Locals
    BY <1>1, <2>1, <2>2 DEF Left, Locals
  <2> QED BY <2>3, <2>4
<1>4. /\ r.action = pods[p].action /\ r.stage = "deleteToken" /\ r.drop = {}
      /\ r.missing = None /\ r.update = "unused"
  BY DEF Left
<1>5. Placed(r)
  BY <1>2, <1>4 DEF Placed, Ensured
<1>6. Collected(r) /\ Grouped(r, clean) /\ Synced(r, t)
  BY <1>4 DEF Collected, Grouped, Synced, Late, Templated
<1> QED BY <1>3, <1>4, <1>5, <1>6

\* It is what Leave makes of it.
LEMMA LeaveIs ==
    ASSUME NEW p
    PROVE  /\ Leave(p, TRUE) => pods' = [pods EXCEPT ![p] = Left(p, TRUE)]
           /\ Leave(p, FALSE) => pods' = [pods EXCEPT ![p] = Left(p, FALSE)]
BY DEF Leave, Left, Idle

\* What most steps leave alone, and the types of what they change.
Elsewhere(p) ==
    /\ UNCHANGED <<tokens, ended, version>>
    /\ JobsFine
    /\ exists' \subseteq Names
    /\ sync' \in {"none", "running", "done", "failed"}
    /\ faults' \in faults..MaxFaults
    /\ templates' \in [Actions -> {None} \cup Templates]
    /\ \A a \in Actions : a # pods[p].action => templates'[a] = templates[a]
    /\ templates'[pods[p].action] # None => templates'[pods[p].action].action = pods[p].action

\* A failed launch keeps the invariant: its token is deleted next.
LEMMA FailOK ==
    ASSUME IInv, NEW p \in Pods, Holding(p), ~pods[p].job, Elsewhere(p), Fail(p)
    PROVE  IInv'
<1> DEFINE r == Left(p, FALSE)
<1>1. pods[p].stage # "idle"
  BY DEF Holding
<1>2. pods[p] \in Locals /\ pods[p].action \in Actions /\ pods[p].action # None
  BY <1>1, Standing, LaunchAssumption
<1>3. pods' = [pods EXCEPT ![p] = r]
  BY LeaveIs DEF Fail
<1>4. /\ r \in Locals /\ r.action = pods[p].action /\ r.stage = "deleteToken"
      /\ Placed(r) /\ Collected(r) /\ Grouped(r, faults' = 0) /\ Synced(r, templates'[r.action])
  BY <1>1, LeavingOK
<1>5. Holding(p)'
  BY <1>3, <1>4 DEF IInv, TypeOK, Holding
<1>6. ~r.job
  BY DEF Left
<1> HIDE DEF r
<1> QED BY <1>2, <1>3, <1>4, <1>5, <1>6, Quiet DEF Elsewhere

\* So does the retry of the template or of the launch.
LEMMA RetryOK ==
    ASSUME IInv, NEW p \in Pods, Holding(p), ~pods[p].job, Elsewhere(p), RetryOrFail(p),
           pods[p].stage # "template" => UNCHANGED templates
    PROVE  IInv'
<1>1. CASE ~(pods[p].stage \in {"template", "launch"} /\ pods[p].update = "unused")
  BY <1>1, FailOK DEF RetryOrFail
<1>2. CASE pods[p].stage \in {"template", "launch"} /\ pods[p].update = "unused"
  <2> DEFINE s == pods[p]
             r == [s EXCEPT !.update = "due", !.left = {s.stage}, !.missing = None]
  <2>1. /\ s \in Locals /\ s.action \in Actions /\ s.action # None
        /\ Placed(s) /\ Collected(s) /\ Grouped(s, faults = 0) /\ Synced(s, Template(p))
        /\ templates[s.action] = Template(p) /\ faults \in Nat
    BY <1>2, Standing, LaunchAssumption
  <2>2. pods' = [pods EXCEPT ![p] = r]
    BY <1>2, <2>1 DEF RetryOrFail, Locals
  <2>3. /\ r.stage = s.stage /\ r.left = {s.stage} /\ r.drop = s.drop /\ r.missing = None
        /\ r.update = "due"
        /\ r.action = s.action /\ r.version = s.version /\ r.credentials = s.credentials
        /\ r.groups = s.groups /\ r.job = s.job
    BY <2>1 DEF Locals
  <2>4. r \in Locals
    BY <1>2, <2>1 DEF Locals, Names, Ensured
  <2>5. faults' = 0 => faults = 0
    BY <2>1, LaunchAssumption DEF Elsewhere, IInv, TypeOK
  <2>6. Placed(r) /\ Collected(r)
    BY <1>2, <2>1, <2>3 DEF Placed, Collected, Full, Late, Ensured
  <2>7. Grouped(r, faults' = 0)
    BY <1>2, <2>1, <2>3, <2>5 DEF Grouped, Wanted
  <2>8. Synced(r, templates'[r.action])
    BY <1>2, <2>1, <2>3 DEF Synced, Templated
  <2>9. Holding(p)'
    BY <1>2, <2>2, <2>3 DEF IInv, TypeOK, Holding
  <2> HIDE DEF r
  <2> QED BY <2>1, <2>2, <2>3, <2>4, <2>6, <2>7, <2>8, <2>9, Quiet DEF Elsewhere
<1> QED BY <1>1, <1>2

\* A step that changes nothing outside pod p but the count of faults.
LEMMA FaultOK ==
    ASSUME IInv, NEW p \in Pods, pods[p].stage # "idle", UNCHANGED faults \/ Fault,
           UNCHANGED <<tokens, jobs, ended, version>>
    PROVE  /\ faults' \in faults..MaxFaults
           /\ UNCHANGED <<exists, sync, templates>> => Elsewhere(p)
<1>1. faults \in Nat /\ faults <= MaxFaults /\ MaxFaults \in Nat /\ pods[p].action \in Actions
  BY Standing, LaunchAssumption
<1>2. faults' \in faults..MaxFaults
  BY <1>1 DEF Fault
<1> QED BY <1>1, <1>2 DEF Elsewhere, IInv, TypeOK, OwnTemplates, JobsFine

\* Tower has, or has not, what CreateResource asked for.
LEMMA CreatedOK ==
    ASSUME IInv, NEW p \in Pods, Ensuring(p), NEW n \in pods[p].left, Created(p, n),
           faults' \in faults..MaxFaults, UNCHANGED <<tokens, jobs, ended, version>>
    PROVE  /\ Elsewhere(p)
           /\ pods[p].stage = "template" => templates'[pods[p].action] # None
           /\ pods[p].stage # "template" => UNCHANGED templates
<1> DEFINE s == pods[p]
<1>1. s \in Locals /\ s.action \in Actions /\ Placed(s) /\ s.stage \in Ensured
  BY Standing DEF Ensuring, Ensured
<1>2. n \in Names /\ s.version \in Versions
  BY <1>1 DEF Locals
<1>3. n = "template" => s.stage = "template"
  <2>1. s.stage # "vaults" => n = s.stage
    BY <1>1 DEF Placed
  <2>2. s.stage = "vaults" => n \in Config[s.version].vaults
    BY <1>1 DEF Placed
  <2>3. s.stage = "vaults" => n # "template"
    BY <1>2, <2>2, NamesAssumption DEF Vaults, Ensured
  <2> QED BY <2>1, <2>3
<1>4. CASE n = "template"
  <2>1. buildTemplateData(p) \in Templates
    BY <1>1, <1>2 DEF buildTemplateData, Templates
  <2>2. buildTemplateData(p).action = s.action /\ buildTemplateData(p) # None
    BY <2>1, NamesAssumption DEF buildTemplateData
  <2>3. templates' = [templates EXCEPT ![s.action] = buildTemplateData(p)]
    BY <1>4 DEF Created, TemplateName
  <2> QED BY <1>1, <1>3, <1>4, <2>1, <2>2, <2>3 DEF Elsewhere, JobsFine, Created, IInv, TypeOK
<1>5. CASE n # "template"
  <2>1. UNCHANGED templates /\ exists' \subseteq Names
    BY <1>2, <1>5 DEF Created, IInv, TypeOK
  <2>2. sync' \in {"none", "running", "done", "failed"}
    BY <1>5 DEF Created, IInv, TypeOK
  <2>3. s.stage # "template"
    BY <1>1, <1>5 DEF Placed, Ensured
  <2> QED BY <1>1, <2>1, <2>2, <2>3 DEF Elsewhere, JobsFine, IInv, TypeOK, OwnTemplates
<1> QED BY <1>4, <1>5

\* A resource that is there is no longer left to ensure, and a vault credential
\* among those collected.
LEMMA GotOK ==
    ASSUME IInv, NEW p \in Pods, Ensuring(p), NEW n \in pods[p].left, Got(p, n), Elsewhere(p),
           pods[p].stage = "template" => templates'[pods[p].action] # None,
           pods[p].stage # "template" => UNCHANGED templates
    PROVE  IInv'
<1> DEFINE s == pods[p]
           r == [s EXCEPT !.left = s.left \ {n}, !.missing = None,
                          !.credentials = IF s.stage = "vaults" THEN s.credentials \cup {n}
                                          ELSE s.credentials]
<1>1. s.stage \in Ensured
  BY DEF Ensuring
<1>2. /\ s \in Locals /\ s.action \in Actions /\ s.action # None
      /\ Placed(s) /\ Collected(s) /\ Grouped(s, faults = 0) /\ Synced(s, Template(p))
      /\ templates[s.action] = Template(p) /\ faults \in Nat
  BY <1>1, Standing, LaunchAssumption DEF Ensured
<1>3. ~s.job /\ s.drop = {} /\ Holding(p)
  BY <1>1, <1>2 DEF Placed, Ensured, Holding
<1>4. pods' = [pods EXCEPT ![p] = r]
  BY <1>2 DEF Got, Locals
<1>5. /\ r.stage = s.stage /\ r.left = s.left \ {n} /\ r.drop = s.drop /\ r.missing = None
      /\ r.update = s.update /\ r.action = s.action /\ r.version = s.version /\ r.groups = s.groups /\ r.job = s.job
      /\ s.stage = "vaults" => r.credentials = s.credentials \cup {n}
      /\ s.stage # "vaults" => r.credentials = s.credentials
  BY <1>2 DEF Locals
<1>6. s.stage = "vaults" => n \in Config[s.version].vaults /\ n \in Credentials
  BY <1>2, ConfigOK DEF Placed, Locals
<1>7. r \in Locals
  BY <1>2, <1>6 DEF Locals
<1>8. Placed(r)
  BY <1>1, <1>2, <1>5 DEF Placed, Ensured
<1>9. Collected(r)
  BY <1>1, <1>2, <1>5, <1>6 DEF Collected, Full, Late, Ensured
<1>10. Grouped(r, faults' = 0)
  BY <1>1, <1>2, <1>5 DEF Grouped, Ensured
<1>11. Synced(r, templates'[r.action])
  BY <1>1, <1>2, <1>5 DEF Synced, Templated, Ensured
<1>12. Holding(p)'
  BY <1>1, <1>4, <1>5 DEF IInv, TypeOK, Holding, Ensured
<1> HIDE DEF r
<1> QED BY <1>2, <1>3, <1>4, <1>5, <1>7, <1>8, <1>9, <1>10, <1>11, <1>12, Quiet DEF Elsewhere

\* The search of EnsureResource, found, not found or failed.
LEMMA SearchOK == ASSUME IInv, NEW p \in Pods, SearchResource(p) PROVE IInv'
<1> DEFINE s == pods[p]
<1>1. s.stage \in Ensured /\ s.missing = None
  BY DEF SearchResource, Ensuring
<1>2. /\ s \in Locals /\ s.action \in Actions /\ s.action # None
      /\ Placed(s) /\ Collected(s) /\ Grouped(s, faults = 0) /\ Synced(s, Template(p))
      /\ templates[s.action] = Template(p) /\ faults \in Nat
  BY <1>1, Standing, LaunchAssumption DEF Ensured
<1>3. Elsewhere(p) /\ faults' \in faults..MaxFaults /\ UNCHANGED templates
  BY <1>1, FaultOK DEF SearchResource, Ensured
<1>4. ~s.job /\ s.drop = {} /\ Holding(p)
  BY <1>1, <1>2 DEF Placed, Ensured, Holding
<1>5. faults' = 0 => faults = 0
  BY <1>2, <1>3, LaunchAssumption DEF IInv, TypeOK
<1>6. PICK n \in s.left : \/ Found(p, n) /\ Got(p, n)
                          \/ pods' = [pods EXCEPT ![p].missing = n]
  BY DEF SearchResource
<1>7. CASE Found(p, n) /\ Got(p, n)
  <2>1. s.stage = "template" => n = "template"
    BY <1>2, <1>6 DEF Placed, Ensured
  <2>2. s.stage = "template" => templates'[s.action] # None
    BY <1>2, <1>3, <1>7, <2>1 DEF Found
  <2> QED BY <1>1, <1>3, <1>6, <1>7, <2>2, GotOK DEF SearchResource
<1>8. CASE pods' = [pods EXCEPT ![p].missing = n]
  <2> DEFINE r == [s EXCEPT !.missing = n]
  <2>1. pods' = [pods EXCEPT ![p] = r]
    BY <1>2, <1>8 DEF Locals
  <2>2. /\ r.stage = s.stage /\ r.left = s.left /\ r.drop = s.drop /\ r.missing = n
        /\ r.update = s.update /\ r.action = s.action /\ r.version = s.version /\ r.groups = s.groups /\ r.job = s.job
        /\ r.credentials = s.credentials
    BY <1>2 DEF Locals
  <2>4. r \in Locals
    BY <1>2, <1>6 DEF Locals
  <2>5. Placed(r) /\ Collected(r)
    BY <1>1, <1>2, <1>6, <2>2 DEF Placed, Collected, Full, Ensured
  <2>7. Grouped(r, faults' = 0) /\ Synced(r, templates'[r.action])
    BY <1>1, <1>2, <1>3, <1>5, <2>2 DEF Grouped, Ensured, Synced, Wanted
  <2>10. Holding(p)'
    BY <1>1, <2>1, <2>2 DEF IInv, TypeOK, Holding, Ensured
  <2> HIDE DEF r
  <2> QED BY <1>2, <1>3, <1>4, <2>1, <2>2, <2>4, <2>5, <2>7, <2>10, Quiet DEF Elsewhere
<1> QED BY <1>6, <1>7, <1>8

\* The creation, done, refused or failed with or without its effect.
LEMMA CreateOK == ASSUME IInv, NEW p \in Pods, CreateResource(p) PROVE IInv'
<1> DEFINE s == pods[p]
           n == s.missing
<1>1. Ensuring(p) /\ s.stage \in Ensured /\ n # None
  BY DEF CreateResource, Ensuring
<1>2. s \in Locals /\ Placed(s) /\ faults \in Nat
  BY <1>1, Standing DEF Ensured
<1>3. ~s.job /\ Holding(p) /\ n \in s.left
  BY <1>1, <1>2 DEF Placed, Ensured, Holding
<1>4. UNCHANGED <<tokens, jobs, ended, version>> /\ (UNCHANGED faults \/ Fault)
  BY DEF CreateResource
<1>5. /\ faults' \in faults..MaxFaults
      /\ UNCHANGED <<exists, sync, templates>> => Elsewhere(p)
  BY <1>1, <1>4, FaultOK DEF Ensured
<1>6. CASE Created(p, n) /\ Got(p, n)
  BY <1>1, <1>3, <1>4, <1>5, <1>6, CreatedOK, GotOK
<1>7. CASE RetryOrFail(p) /\ UNCHANGED <<exists, sync, templates>>
  BY <1>3, <1>5, <1>7, RetryOK
<1>8. CASE RetryOrFail(p) /\ Created(p, n)
  BY <1>1, <1>3, <1>4, <1>5, <1>8, CreatedOK, RetryOK
<1> QED BY <1>6, <1>7, <1>8 DEF CreateResource

\* The steps below change one pod's progress, and Tower's templates at most.
LEMMA StepOK ==
    ASSUME IInv, NEW p \in Pods, NEW r \in Locals, pods' = [pods EXCEPT ![p] = r],
           pods[p].stage \notin {"idle", "token", "failed", "deleteToken", "report"},
           r.stage \notin {"idle", "token", "failed", "report"},
           r.action = pods[p].action, r.job = pods[p].job, Elsewhere(p), Placed(r), Collected(r),
           Grouped(r, faults' = 0), Synced(r, templates'[r.action])
    PROVE  IInv'
<1>1. Placed(pods[p]) /\ pods[p].action # None
  BY Standing, LaunchAssumption
<1>2. ~pods[p].job /\ ~r.job /\ Holding(p)
  BY <1>1 DEF Placed, Holding
<1>3. Holding(p)'
  BY DEF Holding, IInv, TypeOK
<1> QED BY <1>1, <1>2, <1>3, Quiet DEF Elsewhere

\* The update of the project before a second try.
LEMMA UpdateOK == ASSUME IInv, NEW p \in Pods, UpdateProject(p),
                         pods[p].stage \in {"template", "launch"}
                  PROVE  IInv'
<1> DEFINE s == pods[p]
           r == [s EXCEPT !.update = "used"]
<1>1. /\ s \in Locals /\ s.action \in Actions
      /\ Placed(s) /\ Collected(s) /\ Grouped(s, faults = 0) /\ Synced(s, Template(p))
      /\ templates[s.action] = Template(p) /\ faults \in Nat
  BY Standing
<1>2. pods' = [pods EXCEPT ![p] = r]
  BY DEF UpdateProject
<1>3. /\ r \in Locals /\ r.stage = s.stage /\ r.left = s.left /\ r.drop = s.drop
      /\ r.missing = s.missing /\ r.action = s.action /\ r.version = s.version /\ r.update = "used"
      /\ r.credentials = s.credentials /\ r.groups = s.groups /\ r.job = s.job
  BY <1>1 DEF Locals
<1>4. faults' \in faults..MaxFaults /\ UNCHANGED <<templates, exists>>
  BY FaultOK DEF UpdateProject
<1>5. Elsewhere(p)
  BY <1>1, <1>4 DEF Elsewhere, JobsFine, UpdateProject, IInv, TypeOK, OwnTemplates
<1>6. faults' = 0 => faults = 0
  BY <1>1, <1>4, LaunchAssumption DEF IInv, TypeOK
<1>7. Placed(r) /\ Collected(r) /\ Grouped(r, faults' = 0) /\ Synced(r, templates'[r.action])
  BY <1>1, <1>3, <1>4, <1>6 DEF Placed, Collected, Grouped, Synced, Full, Wanted
<1> HIDE DEF r
<1> QED BY <1>2, <1>3, <1>5, <1>7, StepOK

\* The look-up of a static credential.
LEMMA CredentialOK == ASSUME IInv, NEW p \in Pods, LookupCredential(p) PROVE IInv'
<1> DEFINE s == pods[p]
<1>1. s.stage = "credentials"
  BY DEF LookupCredential
<1>2. /\ s \in Locals /\ s.action \in Actions
      /\ Placed(s) /\ Collected(s) /\ Grouped(s, faults = 0) /\ Synced(s, Template(p))
      /\ templates[s.action] = Template(p) /\ faults \in Nat
  BY <1>1, Standing
<1>3. PICK n \in s.left : pods' = [pods EXCEPT ![p].left = @ \ {n},
                                              ![p].credentials = @ \cup ({n} \cap Static)]
  BY DEF LookupCredential
<1> DEFINE r == [s EXCEPT !.left = s.left \ {n}, !.credentials = s.credentials \cup ({n} \cap Static)]
<1>4. pods' = [pods EXCEPT ![p] = r]
  BY <1>2, <1>3 DEF Locals
<1>5. s.left \subseteq Config[s.version].credentials /\ Config[s.version].credentials \subseteq Credentials
  BY <1>1, <1>2, ConfigOK DEF Placed, Locals
<1>6. /\ r.stage = s.stage /\ r.left = s.left \ {n} /\ r.drop = s.drop
      /\ r.missing = s.missing /\ r.action = s.action /\ r.version = s.version /\ r.update = s.update
      /\ r.credentials = s.credentials \cup ({n} \cap Static) /\ r.groups = s.groups /\ r.job = s.job
  BY <1>2 DEF Locals
<1>7. r \in Locals
  BY <1>2, <1>5 DEF Locals
<1>8. Elsewhere(p) /\ UNCHANGED <<templates, faults>>
  BY <1>1, FaultOK DEF LookupCredential
<1>9. Placed(r)
  BY <1>1, <1>2, <1>6 DEF Placed, Ensured
<1>10. Collected(r)
  BY <1>1, <1>2, <1>5, <1>6 DEF Collected, Late
<1>11. Grouped(r, faults' = 0) /\ Synced(r, templates'[r.action])
  BY <1>1, <1>2, <1>6 DEF Grouped, Synced, Templated
<1> HIDE DEF r
<1> QED BY <1>1, <1>4, <1>6, <1>7, <1>8, <1>9, <1>10, <1>11, StepOK

\* The look-up of an instance group, which may be skipped after a fault only.
LEMMA GroupOK == ASSUME IInv, NEW p \in Pods, resolveInstanceGroupIDs(p) PROVE IInv'
<1> DEFINE s == pods[p]
<1>1. s.stage = "groups"
  BY DEF resolveInstanceGroupIDs
<1>2. /\ s \in Locals /\ s.action \in Actions
      /\ Placed(s) /\ Collected(s) /\ Grouped(s, faults = 0) /\ Synced(s, Template(p))
      /\ templates[s.action] = Template(p) /\ faults \in Nat
  BY <1>1, Standing
<1>3. PICK n \in s.left :
         \/ /\ pods' = [pods EXCEPT ![p].left = @ \ {n}, ![p].groups = @ \cup ({n} \cap Static)]
            /\ UNCHANGED faults
         \/ Fault /\ pods' = [pods EXCEPT ![p].left = @ \ {n}]
  BY DEF resolveInstanceGroupIDs
<1>4. s.left \subseteq Wanted(s) /\ Wanted(s) \subseteq Groups
  BY <1>1, <1>2, ConfigOK DEF Placed, Locals, Wanted
<1>5. Elsewhere(p) /\ UNCHANGED templates
  BY <1>1, FaultOK DEF resolveInstanceGroupIDs
<1>6. \E g \in {s.groups, s.groups \cup ({n} \cap Static)} :
         /\ pods' = [pods EXCEPT ![p] = [s EXCEPT !.left = s.left \ {n}, !.groups = g]]
         /\ faults' = 0 => faults = 0 /\ g = s.groups \cup ({n} \cap Static)
  <2>1. CASE Fault /\ pods' = [pods EXCEPT ![p].left = @ \ {n}]
    <3>1. [s EXCEPT !.left = s.left \ {n}] = [s EXCEPT !.left = s.left \ {n}, !.groups = s.groups]
      BY <1>2 DEF Locals
    <3>2. pods' = [pods EXCEPT ![p] = [s EXCEPT !.left = s.left \ {n}, !.groups = s.groups]]
      BY <2>1, <3>1
    <3>3. faults' # 0
      BY <1>2, <2>1 DEF Fault
    <3> QED BY <3>2, <3>3
  <2>2. CASE /\ pods' = [pods EXCEPT ![p].left = @ \ {n}, ![p].groups = @ \cup ({n} \cap Static)]
             /\ UNCHANGED faults
    BY <1>2, <2>2 DEF Locals
  <2> QED BY <1>3, <2>1, <2>2
<1>7. PICK g \in {s.groups, s.groups \cup ({n} \cap Static)} :
         /\ pods' = [pods EXCEPT ![p] = [s EXCEPT !.left = s.left \ {n}, !.groups = g]]
         /\ faults' = 0 => faults = 0 /\ g = s.groups \cup ({n} \cap Static)
  BY <1>6
<1> DEFINE r == [s EXCEPT !.left = s.left \ {n}, !.groups = g]
<1>8. /\ r.stage = s.stage /\ r.left = s.left \ {n} /\ r.drop = s.drop
      /\ r.missing = s.missing /\ r.action = s.action /\ r.version = s.version /\ r.update = s.update
      /\ r.credentials = s.credentials /\ r.groups = g /\ r.job = s.job
  BY <1>2 DEF Locals
<1>9. r \in Locals
  BY <1>2, <1>4, <1>7 DEF Locals
<1>10. Placed(r) /\ Collected(r) /\ Synced(r, templates'[r.action])
  BY <1>1, <1>2, <1>4, <1>5, <1>8 DEF Placed, Collected, Full, Late, Synced, Templated, Ensured, Wanted
<1>11. Grouped(r, faults' = 0)
  <2>1. Wanted(r) = Wanted(s)
    BY <1>8 DEF Wanted
  <2>2. (Wanted(s) \ (s.left \ {n})) \cap Static = ((Wanted(s) \ s.left) \cap Static) \cup ({n} \cap Static)
    BY <1>4
  <2>3. s.groups \subseteq (Wanted(s) \ s.left) \cap Static
        /\ (faults = 0 => s.groups = (Wanted(s) \ s.left) \cap Static)
    BY <1>1, <1>2 DEF Grouped
  <2>4. g \subseteq (Wanted(s) \ (s.left \ {n})) \cap Static
    BY <1>7, <2>2, <2>3
  <2>5. faults' = 0 => g = (Wanted(s) \ (s.left \ {n})) \cap Static
    BY <1>7, <2>2, <2>3
  <2> QED BY <1>1, <1>8, <2>1, <2>4, <2>5 DEF Grouped
<1>12. pods' = [pods EXCEPT ![p] = r]
  BY <1>7
<1> HIDE DEF r
<1> QED BY <1>1, <1>5, <1>8, <1>9, <1>10, <1>11, <1>12, StepOK

\* A search or a list that ends the launch.
LEMMA ReadFailsOK == ASSUME IInv, NEW p \in Pods, ReadFails(p) PROVE IInv'
<1>1. pods[p].stage \in {"vaults", "credentials", "listCredentials", "listGroups"}
  BY DEF ReadFails
<1>2. Placed(pods[p])
  BY <1>1, Standing
<1>3. ~pods[p].job /\ Holding(p)
  BY <1>1, <1>2 DEF Placed, Holding
<1>4. Elsewhere(p)
  BY <1>1, FaultOK DEF ReadFails
<1> QED BY <1>3, <1>4, FailOK DEF ReadFails

\* The list of the children: what is extra and what is missing make up the difference.
LEMMA ListOK == ASSUME IInv, NEW p \in Pods, listChildIDs(p) PROVE IInv'
<1> DEFINE s == pods[p]
           t == Template(p)
<1>1. s.stage \in {"listCredentials", "listGroups"}
  BY DEF listChildIDs
<1>2. /\ s \in Locals /\ s.action \in Actions
      /\ Placed(s) /\ Collected(s) /\ Grouped(s, faults = 0) /\ Synced(s, t)
      /\ templates[s.action] = t /\ t \in {None} \cup Templates /\ faults \in Nat
  BY <1>1, Standing
<1>3. t \in Templates /\ s.missing = None
  BY <1>1, <1>2 DEF Synced, Templated, Placed, Ensured
<1>4. Elsewhere(p) /\ UNCHANGED <<templates, faults>>
  BY <1>1, FaultOK DEF listChildIDs
<1>5. CASE s.stage = "listCredentials"
  <2> DEFINE r == [s EXCEPT !.stage = "syncCredentials", !.drop = t.credentials \ s.credentials,
                            !.left = s.credentials \ t.credentials]
  <2>1. pods' = [pods EXCEPT ![p] = r]
    BY <1>2, <1>5 DEF listChildIDs, Sync, Extras, Locals
  <2>2. /\ r.stage = "syncCredentials" /\ r.drop = t.credentials \ s.credentials
        /\ r.left = s.credentials \ t.credentials /\ r.missing = None /\ r.action = s.action
        /\ r.version = s.version /\ r.update = s.update /\ r.credentials = s.credentials
        /\ r.groups = s.groups /\ r.job = s.job
    BY <1>2, <1>3 DEF Locals
  <2>3. r \in Locals
    BY <1>2, <1>3 DEF Locals, Stages, Passed, Names, Templates
  <2>4. Placed(r) /\ Collected(r) /\ Grouped(r, faults' = 0)
    BY <1>2, <1>5, <2>2 DEF Placed, Collected, Grouped, Full, Late, Ensured
  <2>5. Synced(r, templates'[r.action])
    BY <1>2, <1>3, <1>4, <1>5, <2>2 DEF Synced, Templated
  <2> HIDE DEF r
  <2> QED BY <1>1, <1>4, <2>1, <2>2, <2>3, <2>4, <2>5, StepOK
<1>6. CASE s.stage = "listGroups"
  <2> DEFINE r == [s EXCEPT !.stage = "syncGroups", !.drop = t.groups \ s.groups,
                            !.left = s.groups \ t.groups]
  <2>1. pods' = [pods EXCEPT ![p] = r]
    BY <1>2, <1>6 DEF listChildIDs, Sync, Extras, Locals
  <2>2. /\ r.stage = "syncGroups" /\ r.drop = t.groups \ s.groups
        /\ r.left = s.groups \ t.groups /\ r.missing = None /\ r.action = s.action
        /\ r.version = s.version /\ r.update = s.update /\ r.credentials = s.credentials
        /\ r.groups = s.groups /\ r.job = s.job
    BY <1>2, <1>3 DEF Locals
  <2>3. r \in Locals
    BY <1>2, <1>3 DEF Locals, Stages, Passed, Names, Templates
  <2>4. Placed(r) /\ Collected(r) /\ Grouped(r, faults' = 0)
    BY <1>2, <1>4, <1>6, <2>2 DEF Placed, Collected, Grouped, Full, Late, Ensured, Wanted
  <2>5. Synced(r, templates'[r.action])
    BY <1>2, <1>3, <1>4, <1>6, <2>2 DEF Synced, Templated
  <2> HIDE DEF r
  <2> QED BY <1>1, <1>4, <2>1, <2>2, <2>3, <2>4, <2>5, StepOK
<1> QED BY <1>1, <1>5, <1>6

\* The children once one more is dropped or added.
Synchronised(p, n, children) ==
    IF n \in pods[p].drop THEN children \ {n} ELSE children \cup {n}

\* Only the template of the action of p changes, by that child.
LEMMA ChangedOK ==
    ASSUME IInv, NEW p \in Pods, pods[p].stage \in {"syncCredentials", "syncGroups"},
           NEW n \in pods[p].drop \cup pods[p].left, Changed(p, n), faults' \in faults..MaxFaults,
           UNCHANGED <<exists, sync, tokens, jobs, ended, version>>
    PROVE  /\ Elsewhere(p)
           /\ templates'[pods[p].action] # None
           /\ pods[p].stage = "syncCredentials" =>
                 /\ templates'[pods[p].action].credentials =
                       Synchronised(p, n, templates[pods[p].action].credentials)
                 /\ templates'[pods[p].action].groups = templates[pods[p].action].groups
           /\ pods[p].stage = "syncGroups" =>
                 /\ templates'[pods[p].action].groups =
                       Synchronised(p, n, templates[pods[p].action].groups)
                 /\ templates'[pods[p].action].credentials = templates[pods[p].action].credentials
<1> DEFINE s == pods[p]
           t == templates[s.action]
           u == IF s.stage = "syncCredentials" THEN [t EXCEPT !.credentials = Synchronised(p, n, t.credentials)]
                ELSE [t EXCEPT !.groups = Synchronised(p, n, t.groups)]
<1>1. s \in Locals /\ s.action \in Actions /\ Placed(s) /\ Collected(s) /\ Synced(s, t)
      /\ Grouped(s, faults = 0) /\ t \in {None} \cup Templates
  BY Standing
<1>2. t \in Templates
  BY <1>1 DEF Synced, Templated
<1>3. s.stage = "syncCredentials" => t.credentials \subseteq s.credentials \cup s.drop
  BY <1>1 DEF Synced
<1>4. s.stage = "syncCredentials" => n \in s.drop \/ n \in Credentials
  BY <1>1 DEF Synced, Locals
<1>5. s.stage = "syncGroups" => n \in s.drop \/ n \in Groups
  BY <1>1 DEF Synced, Locals
<1>6. templates' = [templates EXCEPT ![s.action] = u]
  BY DEF Changed, TemplateName, Synchronised
<1>7. u \in Templates /\ u.action = t.action
      /\ (s.stage = "syncCredentials" => u.credentials = Synchronised(p, n, t.credentials) /\ u.groups = t.groups)
      /\ (s.stage = "syncGroups" => u.groups = Synchronised(p, n, t.groups) /\ u.credentials = t.credentials)
  <2>1. CASE s.stage = "syncCredentials"
    BY <1>2, <1>4, <2>1 DEF Templates, Synchronised
  <2>2. CASE s.stage = "syncGroups"
    BY <1>2, <1>5, <2>2 DEF Templates, Synchronised
  <2> QED BY <2>1, <2>2
<1>8. t.action = s.action
  BY <1>1, <1>2, NamesAssumption DEF IInv, OwnTemplates
<1>9. templates \in [Actions -> {None} \cup Templates]
  BY DEF IInv, TypeOK
<1> HIDE DEF u
<1>10. templates'[s.action] = u /\ u # None
  BY <1>1, <1>6, <1>7, <1>9, NamesAssumption
<1>11. Elsewhere(p)
  BY <1>1, <1>6, <1>7, <1>8, <1>9, <1>10 DEF Elsewhere, JobsFine, IInv, TypeOK
<1> QED BY <1>7, <1>10, <1>11

\* A child dropped or added brings the template nearer to what was collected; a
\* failure leaves it for the next attempt to synchronise.
LEMMA PostOK == ASSUME IInv, NEW p \in Pods, postChild(p) PROVE IInv'
<1> DEFINE s == pods[p]
           t == Template(p)
<1>1. s.stage \in {"syncCredentials", "syncGroups"}
  BY DEF postChild
<1>2. /\ s \in Locals /\ s.action \in Actions
      /\ Placed(s) /\ Collected(s) /\ Grouped(s, faults = 0) /\ Synced(s, t)
      /\ templates[s.action] = t /\ faults \in Nat
  BY <1>1, Standing
<1>3. PICK n \in s.drop \cup s.left :
         /\ n \in s.drop \/ s.drop = {}
         /\ \/ /\ Changed(p, n)
               /\ pods' = [pods EXCEPT ![p].drop = @ \ {n}, ![p].left = @ \ {n}]
               /\ UNCHANGED faults
            \/ Fault /\ Fail(p) /\ UNCHANGED templates
            \/ Fault /\ Fail(p) /\ Changed(p, n)
  BY DEF postChild
<1>4. ~s.job /\ s.missing = None /\ Holding(p)
  BY <1>1, <1>2 DEF Placed, Holding, Ensured
<1>5. /\ UNCHANGED <<exists, sync, tokens, jobs, ended, version>>
      /\ faults' \in faults..MaxFaults
      /\ UNCHANGED templates => Elsewhere(p)
  BY <1>1, <1>3, FaultOK DEF postChild
<1>6. CASE Fail(p)
  BY <1>1, <1>3, <1>4, <1>5, <1>6, ChangedOK, FailOK
<1>7. CASE /\ Changed(p, n)
           /\ pods' = [pods EXCEPT ![p].drop = @ \ {n}, ![p].left = @ \ {n}]
           /\ UNCHANGED faults
  <2> DEFINE r == [s EXCEPT !.drop = s.drop \ {n}, !.left = s.left \ {n}]
             u == templates'[s.action]
  <2>1. pods' = [pods EXCEPT ![p] = r]
    BY <1>2, <1>7 DEF Locals
  <2>2. /\ r.stage = s.stage /\ r.drop = s.drop \ {n} /\ r.left = s.left \ {n}
        /\ r.missing = None /\ r.action = s.action
        /\ r.version = s.version /\ r.update = s.update /\ r.credentials = s.credentials
        /\ r.groups = s.groups /\ r.job = s.job
    BY <1>2, <1>4 DEF Locals
  <2>3. r \in Locals
    BY <1>2 DEF Locals
  <2>4. Elsewhere(p) /\ u # None
    BY <1>1, <1>5, <1>7, ChangedOK
  <2>5. /\ s.stage = "syncCredentials" =>
              /\ u.credentials = IF n \in s.drop THEN t.credentials \ {n} ELSE t.credentials \cup {n}
              /\ u.groups = t.groups
        /\ s.stage = "syncGroups" =>
              /\ u.groups = IF n \in s.drop THEN t.groups \ {n} ELSE t.groups \cup {n}
              /\ u.credentials = t.credentials
    <3>1. templates[pods[p].action] = t
      BY <1>2
    <3>2. /\ s.stage = "syncCredentials" =>
                /\ u.credentials = Synchronised(p, n, templates[pods[p].action].credentials)
                /\ u.groups = templates[pods[p].action].groups
          /\ s.stage = "syncGroups" =>
                /\ u.groups = Synchronised(p, n, templates[pods[p].action].groups)
                /\ u.credentials = templates[pods[p].action].credentials
      BY <1>1, <1>5, <1>7, ChangedOK
    <3> QED BY <3>1, <3>2 DEF Synchronised
  <2>6. Placed(r) /\ Collected(r) /\ Grouped(r, faults' = 0)
    BY <1>1, <1>2, <1>7, <2>2 DEF Placed, Collected, Grouped, Full, Late, Ensured, Wanted
  <2>7. Synced(r, u)
    <3>1. CASE s.stage = "syncCredentials"
      BY <1>2, <1>3, <2>2, <2>4, <2>5, <3>1 DEF Synced
    <3>2. CASE s.stage = "syncGroups"
      BY <1>2, <1>3, <2>2, <2>4, <2>5, <3>2 DEF Synced
    <3> QED BY <1>1, <3>1, <3>2
  <2>8. Synced(r, templates'[r.action])
    BY <2>2, <2>7
  <2> HIDE DEF r, u
  <2> QED BY <1>1, <2>1, <2>2, <2>3, <2>4, <2>6, <2>8, StepOK
<1> QED BY <1>3, <1>6, <1>7

(***************************************************************************)
(* The steps that take or give back a token, begin or end an attempt, or   *)
(* launch a job.                                                           *)
(***************************************************************************)

\* Where no more is due, the jobs of every action stay accounted for.
LEMMA JobsKept ==
    ASSUME IInv, UNCHANGED jobs, faults' \in faults..MaxFaults,
           \/ faults' = faults + 1
           \/ \A a \in Actions : InHand(a) \/ ended[a] = "launched" =>
                                    InHand(a)' \/ ended'[a] = "launched"
    PROVE  JobsAccounted'
<1>1. /\ faults \in Nat /\ faults' \in Nat /\ faults' >= faults
      /\ \A a \in Actions : Len(jobs[a]) \in Nat
  BY LaunchAssumption DEF IInv, TypeOK
<1> QED BY <1>1 DEF IInv, JobsAccounted

\* A pod without a run.
LEMMA IdleOK == Idle \in Locals /\ Placed(Idle) /\ Idle.action = None /\ Idle.stage = "idle" /\ ~Idle.job
<1>1. "idle" \in Stages /\ 1 \in Versions
  BY LaunchAssumption DEF Stages, Versions
<1>2. Idle \in Locals
  BY <1>1 DEF Idle, Locals
<1> QED BY <1>2 DEF Idle, Placed, Ensured

\* The jobs in the hands of pods when pod p goes to r.
LEMMA HandsKept ==
    ASSUME IInv, NEW p \in Pods, NEW r \in Locals, pods' = [pods EXCEPT ![p] = r],
           pods[p].job => r.job /\ r.action = pods[p].action
    PROVE  \A a \in Actions : InHand(a) => InHand(a)'
<1>1. pods'[p] = r /\ \A q \in Pods : q # p => pods'[q] = pods[q]
  BY DEF IInv, TypeOK
<1> QED BY <1>1 DEF InHand

\* The tokens stay accounted for when one is created, deleted or lost by a fault.
LEMMA TokensKept ==
    ASSUME IInv, NEW p \in Pods, NEW r \in Locals, pods' = [pods EXCEPT ![p] = r],
           faults' \in faults..MaxFaults, tokens' \in Nat,
           \/ (Holding(p)' <=> Holding(p)) /\ tokens' = tokens
           \/ ~Holding(p) /\ Holding(p)' /\ tokens' = tokens + 1
           \/ Holding(p) /\ ~Holding(p)' /\ tokens' = tokens - 1
           \/ faults' = faults + 1 /\ ~Holding(p)' /\ tokens' = tokens
           \/ faults' = faults + 1 /\ ~Holding(p)' /\ Holding(p) /\ tokens' = tokens - 1
           \/ faults' = faults + 1 /\ ~Holding(p)' /\ ~Holding(p) /\ tokens' = tokens + 1
    PROVE  TokensHeld'
<1>1. /\ Cardinality(Holders) \in Nat /\ Cardinality(Holders') \in Nat
      /\ (Holding(p)' <=> Holding(p)) => Holders' = Holders
      /\ Holding(p)' /\ ~Holding(p) => Cardinality(Holders') = Cardinality(Holders) + 1
      /\ ~Holding(p)' /\ Holding(p) => Cardinality(Holders') = Cardinality(Holders) - 1
  BY CardinalityKept DEF IInv
<1>2. faults \in Nat /\ faults' \in Nat /\ faults' >= faults /\ tokens \in Nat
  BY LaunchAssumption DEF IInv, TypeOK
<1>3. Cardinality(Holders) <= tokens /\ tokens <= Cardinality(Holders) + faults
  BY DEF IInv, TokensHeld
<1>4. CASE Holding(p)' <=> Holding(p)
  <2>1. Cardinality(Holders') = Cardinality(Holders)
    BY <1>1, <1>4
  <2> QED BY <1>1, <1>2, <1>3, <1>4, <2>1 DEF TokensHeld
<1>5. CASE Holding(p)' /\ ~Holding(p)
  BY <1>1, <1>2, <1>3, <1>5 DEF TokensHeld
<1>6. CASE ~Holding(p)' /\ Holding(p)
  BY <1>1, <1>2, <1>3, <1>6 DEF TokensHeld
<1> QED BY <1>4, <1>5, <1>6

\* The initial state.
LEMMA InitOK == Init => IInv
<1> SUFFICES ASSUME Init PROVE IInv
  OBVIOUS
<1>1. TypeOK
  <2>1. pods \in [Pods -> Locals]
    BY IdleOK DEF Init
  <2>2. version \in Versions /\ faults \in 0..MaxFaults /\ tokens \in Nat
    BY LaunchAssumption DEF Init, Versions
  <2>3. jobs \in [Actions -> Seq(Templates)]
    BY DEF Init
  <2> QED BY <2>1, <2>2, <2>3 DEF Init, TypeOK
<1>2. \A p \in Pods : pods[p] = Idle
  BY DEF Init
<1>3. Fitting /\ Exclusive
  BY <1>2, IdleOK DEF Fitting, Exclusive
<1>4. OwnTemplates /\ RunsOwnVars /\ JobsAccounted
  BY DEF Init, OwnTemplates, RunsOwnVars, JobsAccounted
<1>5. TokensHeld
  <2>1. Holders = {}
    BY <1>2, IdleOK DEF Holders, Holding
  <2>2. Cardinality(Holders) = 0
    BY <2>1, FS_EmptySet
  <2> QED BY <2>2 DEF Init, TokensHeld
<1> QED BY <1>1, <1>3, <1>4, <1>5 DEF IInv

\* A new attempt, of an action that no pod launches.
LEMMA DispatchOK == ASSUME IInv, NEW p \in Pods, NEW a \in Actions, Dispatch(p, a) PROVE IInv'
<1> DEFINE r == [Idle EXCEPT !.stage = "token", !.action = a, !.version = version]
<1>1. /\ pods[p] = Idle /\ ended[a] = "open" /\ pods' = [pods EXCEPT ![p] = r]
      /\ UNCHANGED <<exists, sync, templates, tokens, jobs, ended, version, faults>>
      /\ \A q \in Pods : pods[q].action # a
  BY DEF Dispatch
<1>2. /\ r.stage = "token" /\ r.action = a /\ r.version = version /\ r.left = {} /\ r.drop = {}
      /\ r.missing = None /\ r.credentials = {} /\ r.groups = {} /\ r.update = "unused" /\ ~r.job
  BY DEF Idle
<1>3. r \in Locals
  <2>1. "token" \in Stages /\ version \in Versions
    BY DEF Stages, IInv, TypeOK
  <2> QED BY <2>1, IdleOK DEF Locals
<1>4. Placed(r) /\ Fits(r, templates'[r.action], ended'[r.action], faults' = 0)
  <2>1. a # None
    BY LaunchAssumption
  <2> QED BY <1>1, <1>2, <2>1 DEF Fits, Placed, Collected, Grouped, Synced, Late, Templated, Ensured
<1>5. faults' \in faults..MaxFaults
  BY <1>1, LaunchAssumption DEF IInv, TypeOK
<1> HIDE DEF r
<1>6. Fitting' /\ Exclusive'
  BY <1>1, <1>2, <1>3, <1>4, <1>5, OthersFit
<1>7. ~Holding(p) /\ ~Holding(p)'
  BY <1>1, <1>2, IdleOK DEF Holding, IInv, TypeOK
<1>8. TypeOK' /\ OwnTemplates' /\ RunsOwnVars'
  BY <1>1, <1>3 DEF IInv, TypeOK, OwnTemplates, RunsOwnVars
<1>9. TokensHeld'
  BY <1>1, <1>3, <1>5, <1>7, <1>8, TokensKept DEF TypeOK
<1>10. JobsAccounted'
  BY <1>1, <1>3, <1>5, HandsKept, IdleOK, JobsKept
<1> QED BY <1>6, <1>8, <1>9, <1>10 DEF IInv

\* Pod p goes to r, and nothing but the tokens and the end of its action changes.
LEMMA GoesOn ==
    ASSUME IInv, NEW p \in Pods, NEW r \in Locals, pods' = [pods EXCEPT ![p] = r],
           pods[p].stage # "idle", r.action \in {None, pods[p].action}, Placed(r),
           UNCHANGED <<exists, sync, templates, jobs, version>>,
           tokens' \in Nat, faults' \in faults..MaxFaults,
           ended' \in [Actions -> {"open", "launched", "gaveUp"}],
           \A a \in Actions : a # pods[p].action => ended'[a] = ended[a],
           r.action # None =>
              /\ UNCHANGED ended
              /\ Collected(r) /\ Grouped(r, faults' = 0) /\ Synced(r, templates[r.action]),
           TokensHeld', JobsAccounted'
    PROVE  IInv'
<1>1. pods[p].action \in Actions /\ pods[p].action # None /\ ended[pods[p].action] = "open"
  BY Standing, LaunchAssumption
<1>2. faults' \in 0..MaxFaults
  BY LaunchAssumption DEF IInv, TypeOK
<1>3. TypeOK' /\ OwnTemplates' /\ RunsOwnVars'
  BY <1>2 DEF IInv, TypeOK, OwnTemplates, RunsOwnVars
<1>4. Fitting' /\ Exclusive'
  <2>1. \A q \in Pods : q # p /\ r.action # None => pods[q].action # r.action
    BY <1>1 DEF IInv, Exclusive
  <2>2. r.action # None => Fits(r, templates'[r.action], ended'[r.action], faults' = 0)
    BY <1>1 DEF Fits
  <2> QED BY <2>1, <2>2, OthersFit
<1> QED BY <1>3, <1>4 DEF IInv

\* Its token.
LEMMA TokenOK == ASSUME IInv, NEW p \in Pods, CreateOAuthToken(p) PROVE IInv'
<1> DEFINE s == pods[p]
           r == [s EXCEPT !.stage = "organization", !.left = {"organization"}]
<1>1. s.stage = "token"
  BY DEF CreateOAuthToken
<1>2. /\ s \in Locals /\ s.action \in Actions /\ s.action # None
      /\ Placed(s) /\ Collected(s) /\ Grouped(s, faults = 0) /\ Synced(s, Template(p))
      /\ templates[s.action] = Template(p) /\ faults \in Nat /\ faults <= MaxFaults
  BY <1>1, Standing, LaunchAssumption
<1>3. pods' = [pods EXCEPT ![p] = r]
  BY <1>2 DEF CreateOAuthToken, Locals
<1>4. /\ r.stage = "organization" /\ r.left = {"organization"} /\ r.drop = s.drop
      /\ r.missing = s.missing /\ r.action = s.action /\ r.version = s.version
      /\ r.update = s.update /\ r.credentials = s.credentials /\ r.groups = s.groups
      /\ r.job = s.job
  BY <1>2 DEF Locals
<1>5. r \in Locals
  BY <1>2 DEF Locals, Stages, Passed, Ensured, Names
<1>6. /\ UNCHANGED <<exists, sync, templates, jobs, ended, version, faults>> /\ tokens' = tokens + 1
      /\ faults' \in faults..MaxFaults
  BY <1>2, LaunchAssumption DEF CreateOAuthToken
<1>7. ~s.job /\ Placed(r) /\ Collected(r) /\ Grouped(r, faults' = 0) /\ Synced(r, templates[r.action])
  BY <1>1, <1>2, <1>4 DEF Placed, Collected, Grouped, Synced, Late, Templated, Ensured
<1> HIDE DEF r
<1>8. ~Holding(p) /\ Holding(p)'
  BY <1>1, <1>3, <1>4, <1>5 DEF Holding, IInv, TypeOK
<1>9. tokens' \in Nat
  BY <1>6 DEF IInv, TypeOK
<1>10. TokensHeld'
  BY <1>3, <1>5, <1>6, <1>8, <1>9, TokensKept
<1>11. JobsAccounted'
  BY <1>3, <1>5, <1>6, <1>7, HandsKept, JobsKept
<1>12. ended' \in [Actions -> {"open", "launched", "gaveUp"}]
  BY <1>6 DEF IInv, TypeOK
<1> QED BY <1>1, <1>3, <1>4, <1>5, <1>6, <1>7, <1>9, <1>10, <1>11, <1>12, GoesOn

\* An attempt ends with an error.
LEMMA ErrsOK ==
    ASSUME IInv, NEW p \in Pods, pods[p].stage # "idle", Errs(p),
           UNCHANGED <<exists, sync, templates, jobs, version>>, UNCHANGED faults \/ Fault,
           ~Holding(p), tokens' = tokens \/ (Fault /\ tokens' = tokens + 1), pods[p].job => Fault
    PROVE  IInv'
<1>1. pods' = [pods EXCEPT ![p] = Idle] /\ Idle \in Locals
  BY IdleOK DEF Errs
<1>2. faults \in Nat /\ tokens \in Nat /\ tokens' \in Nat /\ faults' \in faults..MaxFaults
      /\ pods[p].action \in Actions /\ (Fault => faults' = faults + 1)
  BY Standing, LaunchAssumption DEF IInv, TypeOK, Fault
<1>3. ~Holding(p)'
  BY <1>1, IdleOK DEF Holding, IInv, TypeOK
<1>4. TokensHeld'
  BY <1>1, <1>2, <1>3, TokensKept
<1>5. /\ ended' \in [Actions -> {"open", "launched", "gaveUp"}]
      /\ \A a \in Actions : a # pods[p].action => ended'[a] = ended[a]
      /\ \A a \in Actions : ended[a] = "launched" => ended'[a] = "launched"
  <2>1. ended[pods[p].action] = "open"
    BY Standing
  <2> QED BY <1>2, <2>1 DEF Errs, IInv, TypeOK
<1>6. JobsAccounted'
  <2>1. CASE Fault
    BY <1>2, <2>1, JobsKept
  <2>2. CASE ~pods[p].job
    BY <1>1, <1>2, <1>5, <2>2, HandsKept, JobsKept
  <2> QED BY <2>1, <2>2
<1> QED BY <1>1, <1>2, <1>4, <1>5, <1>6, IdleOK, GoesOn

\* The token was not created, or nobody knows of it.
LEMMA TokenFailsOK == ASSUME IInv, NEW p \in Pods, CreateOAuthTokenFails(p) PROVE IInv'
<1>1. pods[p].stage = "token" /\ ~Holding(p)
  BY DEF CreateOAuthTokenFails, Holding
<1>2. ~pods[p].job
  BY <1>1, Standing DEF Placed
<1>3. tokens' \in {tokens, tokens + 1} /\ Fault /\ Errs(p)
      /\ UNCHANGED <<exists, sync, templates, jobs, version>>
  BY DEF CreateOAuthTokenFails
<1> QED BY <1>1, <1>2, <1>3, ErrsOK

\* A failed launch is given up or dispatched again.
LEMMA ReturnOK == ASSUME IInv, NEW p \in Pods, Return(p) PROVE IInv'
<1>1. pods[p].stage = "failed" /\ ~Holding(p)
  BY DEF Return, Holding
<1>2. ~pods[p].job
  BY <1>1, Standing DEF Placed
<1>3. Errs(p) /\ UNCHANGED <<exists, sync, templates, jobs, version, faults, tokens>>
  BY DEF Return
<1> QED BY <1>1, <1>2, <1>3, ErrsOK

\* A pod dies: a token and a job may be lost, one fault for both.
LEMMA CrashOK == ASSUME IInv, NEW p \in Pods, Crash(p) PROVE IInv'
<1>1. /\ pods[p].stage # "idle" /\ pods' = [pods EXCEPT ![p] = Idle] /\ Idle \in Locals
      /\ UNCHANGED <<exists, sync, templates, tokens, jobs, ended, version>> /\ Fault
  BY IdleOK DEF Crash
<1>2. tokens' \in Nat /\ faults' \in faults..MaxFaults /\ faults' = faults + 1
  BY <1>1, LaunchAssumption DEF IInv, TypeOK, Fault
<1>3. ~Holding(p)'
  BY <1>1, IdleOK DEF Holding, IInv, TypeOK
<1>4. TokensHeld' /\ JobsAccounted'
  BY <1>1, <1>2, <1>3, TokensKept, JobsKept
<1>5. ended' \in [Actions -> {"open", "launched", "gaveUp"}]
  BY <1>1 DEF IInv, TypeOK
<1> QED BY <1>1, <1>2, <1>4, <1>5, IdleOK, GoesOn

\* The token is deleted on the way out.
LEMMA DeleteOK == ASSUME IInv, NEW p \in Pods, DeleteOAuthToken(p) PROVE IInv'
<1> DEFINE s == pods[p]
           next == IF s.job THEN "report" ELSE "failed"
           r == [s EXCEPT !.stage = next]
<1>1. s.stage = "deleteToken"
  BY DEF DeleteOAuthToken
<1>2. /\ s \in Locals /\ s.action \in Actions /\ s.action # None
      /\ Placed(s) /\ faults \in Nat /\ faults <= MaxFaults
  BY <1>1, Standing, LaunchAssumption
<1>3. pods' = [pods EXCEPT ![p] = r]
  BY DEF DeleteOAuthToken
<1>4. /\ r.stage = next /\ r.left = s.left /\ r.drop = s.drop
      /\ r.missing = s.missing /\ r.action = s.action /\ r.update = s.update
      /\ r.job = s.job
  BY <1>2 DEF Locals
<1>5. r \in Locals
  BY <1>2 DEF Locals, Stages
<1>6. Placed(r) /\ Collected(r) /\ Grouped(r, faults' = 0) /\ Synced(r, templates[r.action])
  BY <1>1, <1>2, <1>4 DEF Placed, Collected, Grouped, Synced, Late, Templated, Ensured
<1>7. /\ UNCHANGED <<exists, sync, templates, jobs, ended, version>>
      /\ faults' \in faults..MaxFaults
      /\ \/ tokens' = tokens - 1 /\ UNCHANGED faults
         \/ faults' = faults + 1 /\ tokens' \in {tokens, tokens - 1}
  BY <1>2, LaunchAssumption DEF DeleteOAuthToken, Fault
<1>8. r.stage \in {"report", "failed"} /\ (s.job => r.job)
  BY <1>4
<1> HIDE DEF r
<1>9. Holding(p) /\ ~Holding(p)'
  BY <1>1, <1>3, <1>5, <1>8 DEF Holding, IInv, TypeOK
<1>10. tokens' \in Nat
  <2>1. Cardinality(Holders) <= tokens /\ tokens \in Nat
    BY DEF IInv, TokensHeld, TypeOK
  <2>2. p \in Holders /\ IsFiniteSet(Holders)
    BY <1>3, <1>5, <1>9, CardinalityKept DEF IInv, Holders
  <2>3. Cardinality(Holders) \in Nat /\ Cardinality(Holders) # 0
    BY <2>2, FS_CardinalityType, FS_EmptySet
  <2> QED BY <1>7, <2>1, <2>3
<1>11. TokensHeld'
  BY <1>3, <1>5, <1>7, <1>9, <1>10, TokensKept
<1>12. JobsAccounted'
  BY <1>3, <1>4, <1>5, <1>7, HandsKept, JobsKept
<1>13. ended' \in [Actions -> {"open", "launched", "gaveUp"}]
  BY <1>7 DEF IInv, TypeOK
<1> QED BY <1>1, <1>3, <1>4, <1>5, <1>6, <1>7, <1>10, <1>11, <1>12, <1>13, GoesOn

\* The job is reported, or lost by a fault.
LEMMA ReportOK == ASSUME IInv, NEW p \in Pods, Report(p) PROVE IInv'
<1>1. pods[p].stage = "report" /\ ~Holding(p)
  BY DEF Report, Holding
<1>2. /\ pods[p].action \in Actions /\ pods[p].job /\ faults \in Nat /\ tokens \in Nat
      /\ UNCHANGED <<exists, sync, templates, tokens, jobs, version>>
  BY <1>1, Standing DEF Report, Placed, IInv, TypeOK
<1>3. CASE Fault /\ Errs(p)
  BY <1>1, <1>2, <1>3, ErrsOK
<1>4. CASE /\ ended' = [ended EXCEPT ![pods[p].action] = "launched"]
           /\ pods' = [pods EXCEPT ![p] = Idle]
           /\ UNCHANGED faults
  <2>1. /\ ended' \in [Actions -> {"open", "launched", "gaveUp"}]
        /\ ended'[pods[p].action] = "launched"
        /\ \A a \in Actions : a # pods[p].action => ended'[a] = ended[a]
    BY <1>2, <1>4 DEF IInv, TypeOK
  <2>2. faults' \in faults..MaxFaults
    BY <1>4, LaunchAssumption DEF IInv, TypeOK
  <2>3. ~Holding(p)'
    BY <1>4, IdleOK DEF Holding, IInv, TypeOK
  <2>4. TokensHeld'
    BY <1>1, <1>2, <1>4, <2>2, <2>3, IdleOK, TokensKept
  <2>5. \A q \in Pods : q # p => pods'[q] = pods[q]
    BY <1>4 DEF IInv, TypeOK
  <2>6. \A a \in Actions : InHand(a) \/ ended[a] = "launched" => InHand(a)' \/ ended'[a] = "launched"
    BY <2>1, <2>5 DEF InHand
  <2>7. JobsAccounted'
    BY <1>2, <2>2, <2>6, JobsKept
  <2> QED BY <1>1, <1>2, <1>4, <2>1, <2>2, <2>4, <2>7, IdleOK, GoesOn
<1> QED BY <1>3, <1>4 DEF Report

\* The job that a launch adds.
LEMMA Appended ==
    ASSUME IInv, NEW p \in Pods, pods[p].stage = "launch", Launched(p)
    PROVE  /\ Template(p) \in Templates
           /\ jobs' \in [Actions -> Seq(Templates)]
           /\ RunsOwnVars'
           /\ \A a \in Actions : a # pods[p].action => jobs'[a] = jobs[a]
           /\ Len(jobs[pods[p].action]) \in Nat
           /\ Len(jobs'[pods[p].action]) = Len(jobs[pods[p].action]) + 1
           /\ jobs'[pods[p].action][Len(jobs'[pods[p].action])] = Template(p)
           /\ Len(jobs[pods[p].action]) <= faults
<1> DEFINE b == pods[p].action
<1>1. /\ b \in Actions /\ b # None /\ Template(p) \in {None} \cup Templates /\ Synced(pods[p], Template(p))
      /\ Placed(pods[p]) /\ ended[b] = "open" /\ templates[b] = Template(p)
  BY Standing, LaunchAssumption
<1>2. Template(p) \in Templates /\ Template(p).action = b
  BY <1>1, NamesAssumption DEF Synced, Templated, IInv, OwnTemplates
<1>3. jobs \in [Actions -> Seq(Templates)] /\ jobs[b] \in Seq(Templates) /\ Len(jobs[b]) \in Nat
  BY <1>1 DEF IInv, TypeOK
<1>4. jobs' = [jobs EXCEPT ![b] = Append(jobs[b], Template(p))]
  BY DEF Launched
<1>5. Append(jobs[b], Template(p)) \in Seq(Templates)
  BY <1>2, <1>3
<1>6. jobs' \in [Actions -> Seq(Templates)]
  BY <1>3, <1>4, <1>5
<1>7. jobs'[b] = Append(jobs[b], Template(p)) /\ \A a \in Actions : a # b => jobs'[a] = jobs[a]
  BY <1>1, <1>3, <1>4
<1>8. /\ Len(jobs'[b]) = Len(jobs[b]) + 1 /\ jobs'[b][Len(jobs[b]) + 1] = Template(p)
      /\ \A i \in 1..Len(jobs[b]) : jobs'[b][i] = jobs[b][i]
  BY <1>2, <1>3, <1>7
<1>9. RunsOwnVars'
  <2>1. \A a \in Actions : \A i \in 1..Len(jobs[a]) : jobs[a][i].action = a
    BY DEF IInv, RunsOwnVars
  <2>2. ASSUME NEW i \in 1..Len(jobs'[b])
        PROVE  jobs'[b][i].action = b
    <3>1. i \in 1..Len(jobs[b]) \/ i = Len(jobs[b]) + 1
      BY <1>3, <1>8
    <3>2. CASE i \in 1..Len(jobs[b])
      BY <1>1, <1>8, <2>1, <3>2
    <3>3. CASE i = Len(jobs[b]) + 1
      BY <1>2, <1>8, <3>3
    <3> QED BY <3>1, <3>2, <3>3
  <2> HIDE DEF b
  <2>3. \A a \in Actions : \A i \in 1..Len(jobs'[a]) : jobs'[a][i].action = a
    BY <1>7, <2>1, <2>2
  <2> QED BY <2>3 DEF RunsOwnVars
<1>10. Len(jobs[b]) <= faults
  <2>1. ~InHand(b)
    BY <1>1 DEF InHand, IInv, Exclusive, Placed
  <2>2. faults \in Nat
    BY LaunchAssumption DEF IInv, TypeOK
  <2> QED BY <1>1, <1>3, <2>1, <2>2 DEF IInv, JobsAccounted
<1> QED BY <1>2, <1>3, <1>6, <1>7, <1>8, <1>9, <1>10

\* The launch: of a job in hand, of one lost by a fault, or of none.
LEMMA LaunchOK == ASSUME IInv, NEW p \in Pods, Launch(p) PROVE IInv'
<1>1. pods[p].stage = "launch" /\ UNCHANGED <<exists, sync, templates, tokens, ended, version>>
  BY DEF Launch, Launching
<1>2. /\ pods[p] \in Locals /\ pods[p].action \in Actions /\ pods[p].action # None
      /\ Placed(pods[p]) /\ faults \in Nat /\ ended[pods[p].action] = "open"
  BY <1>1, Standing, LaunchAssumption
<1>3. ~pods[p].job /\ Holding(p)
  BY <1>1, <1>2 DEF Placed, Holding
<1>4. CASE Launched(p) /\ Leave(p, TRUE) /\ UNCHANGED faults
  <2> DEFINE r == Left(p, TRUE)
  <2>1. pods' = [pods EXCEPT ![p] = r]
    BY <1>4, LeaveIs
  <2>2. /\ r \in Locals /\ r.action = pods[p].action /\ r.stage = "deleteToken"
        /\ Placed(r) /\ Collected(r) /\ Grouped(r, faults' = 0) /\ Synced(r, templates'[r.action])
    BY <1>1, LeavingOK
  <2>3. r.job
    BY DEF Left
  <2> HIDE DEF r
  <2>4. faults' \in faults..MaxFaults /\ faults' \in 0..MaxFaults /\ tokens' \in Nat
    BY <1>1, <1>4, LaunchAssumption DEF IInv, TypeOK
  <2>5. TypeOK' /\ OwnTemplates' /\ RunsOwnVars'
    BY <1>1, <1>4, <2>1, <2>2, <2>4, Appended DEF IInv, TypeOK, OwnTemplates
  <2>6. Fitting' /\ Exclusive'
    <3>1. \A q \in Pods : q # p => pods[q].action # r.action
      BY <1>2, <2>2 DEF IInv, Exclusive
    <3>2. Fits(r, templates'[r.action], ended'[r.action], faults' = 0)
      BY <1>1, <1>2, <2>2 DEF Fits
    <3> QED BY <1>1, <2>1, <2>2, <2>4, <3>1, <3>2, OthersFit
  <2>7. Holding(p)'
    BY <2>1, <2>2 DEF Holding, IInv, TypeOK
  <2>8. TokensHeld'
    BY <1>1, <1>3, <2>1, <2>2, <2>4, <2>7, TokensKept
  <2>9. JobsAccounted'
    <3>1. \A a \in Actions : InHand(a) => InHand(a)'
      BY <1>3, <2>1, <2>2, HandsKept
    <3>2. \A a \in Actions : a = pods[p].action => InHand(a)'
      BY <2>1, <2>2, <2>3 DEF InHand, IInv, TypeOK
    <3>3. ASSUME NEW a \in Actions
          PROVE  Len(jobs'[a]) <= faults' + (IF InHand(a)' \/ ended'[a] = "launched" THEN 1 ELSE 0)
      <4>1. CASE a = pods[p].action
        <5>1. Len(jobs[a]) \in Nat /\ Len(jobs'[a]) = Len(jobs[a]) + 1 /\ Len(jobs[a]) <= faults
          BY <1>1, <1>4, <4>1, Appended
        <5>2. (IF InHand(a)' \/ ended'[a] = "launched" THEN 1 ELSE 0) = 1
          BY <3>2, <4>1
        <5>3. Len(jobs'[a]) <= faults' + 1
          BY <1>2, <1>4, <5>1
        <5> QED BY <5>2, <5>3
      <4>2. CASE a # pods[p].action
        <5>1. Len(jobs[a]) <= faults + (IF InHand(a) \/ ended[a] = "launched" THEN 1 ELSE 0)
          BY DEF IInv, JobsAccounted
        <5>2. Len(jobs[a]) \in Nat /\ jobs'[a] = jobs[a]
          BY <1>1, <1>4, <4>2, Appended DEF IInv, TypeOK
        <5> QED BY <1>1, <1>2, <1>4, <3>1, <5>1, <5>2
      <4> QED BY <4>1, <4>2
    <3> QED BY <3>3 DEF JobsAccounted
  <2> QED BY <2>5, <2>6, <2>8, <2>9 DEF IInv
<1>5. CASE RetryOrFail(p) /\ UNCHANGED jobs /\ (UNCHANGED faults \/ Fault)
  <2>1. Elsewhere(p)
    BY <1>1, <1>5, FaultOK
  <2> QED BY <1>1, <1>3, <1>5, <2>1, RetryOK
<1>6. CASE Fault /\ RetryOrFail(p) /\ Launched(p)
  <2>1. faults' = faults + 1 /\ faults' \in faults..MaxFaults
    BY <1>2, <1>6, LaunchAssumption DEF IInv, TypeOK, Fault
  <2>2. \A a \in Actions : Len(jobs'[a]) <= faults'
    <3>1. \A a \in Actions : Len(jobs[a]) <= faults + 1
      <4>1. \A a \in Actions : Len(jobs[a]) \in Nat
        BY DEF IInv, TypeOK
      <4> QED BY <1>2, <4>1 DEF IInv, JobsAccounted
    <3>2. Len(jobs'[pods[p].action]) <= faults + 1
      BY <1>1, <1>2, <1>6, Appended
    <3>3. \A a \in Actions : a # pods[p].action => jobs'[a] = jobs[a]
      BY <1>1, <1>6, Appended
    <3> QED BY <2>1, <3>1, <3>2, <3>3
  <2>3. JobsFine
    BY <1>1, <1>6, <2>2, Appended DEF JobsFine
  <2>4. Elsewhere(p)
    BY <1>1, <1>2, <2>1, <2>3 DEF Elsewhere, IInv, TypeOK, OwnTemplates
  <2> QED BY <1>1, <1>3, <1>6, <2>4, RetryOK
<1> QED BY <1>4, <1>5, <1>6 DEF Launch

(***************************************************************************)
(* The steps of the governor and of Tower, and the theorems.               *)
(***************************************************************************)

\* Where the pods, the templates, the tokens and the jobs stay as they are, the
\* invariant does: what the fetch of the project, the setting in force and the
\* count of faults can do to it.
LEMMA Standstill ==
    ASSUME IInv, UNCHANGED <<pods, exists, templates, tokens, jobs, ended>>,
           sync' \in {"none", "running", "done", "failed"}, version' \in Versions,
           faults' \in faults..MaxFaults
    PROVE  IInv'
<1>1. faults \in Nat /\ faults' \in Nat /\ faults' >= faults /\ faults' <= MaxFaults
  BY LaunchAssumption DEF IInv, TypeOK
<1>2. TypeOK'
  BY <1>1, LaunchAssumption DEF IInv, TypeOK
<1>3. Fitting'
  <2>1. ASSUME NEW p \in Pods, pods[p].action # None
        PROVE  Fits(pods[p], templates[pods[p].action], ended[pods[p].action], faults' = 0)
    <3>1. Fits(pods[p], templates[pods[p].action], ended[pods[p].action], faults = 0)
      BY <2>1 DEF IInv, Fitting
    <3>2. faults' = 0 => faults = 0
      BY <1>1
    <3> QED BY <3>1, <3>2 DEF Fits, Grouped
  <2>2. \A p \in Pods : Placed(pods[p])
    BY DEF IInv, Fitting
  <2> QED BY <2>1, <2>2 DEF Fitting
<1>4. Exclusive' /\ OwnTemplates' /\ RunsOwnVars'
  BY DEF IInv, Exclusive, OwnTemplates, RunsOwnVars
<1>5. TokensHeld'
  <2>1. Holders' = Holders
    BY DEF Holders, Holding
  <2>2. IsFiniteSet(Holders)
    BY LaunchAssumption, FS_Subset DEF Holders
  <2>3. Cardinality(Holders) \in Nat
    BY <2>2, FS_CardinalityType
  <2>4. tokens \in Nat
    BY DEF IInv, TypeOK
  <2> QED BY <1>1, <2>1, <2>3, <2>4 DEF IInv, TokensHeld
<1>6. JobsAccounted'
  <2>1. \A a \in Actions : InHand(a)' <=> InHand(a)
    BY DEF InHand
  <2> QED BY <1>1, <2>1, JobsKept
<1> QED BY <1>2, <1>3, <1>4, <1>5, <1>6 DEF IInv

\* An edit of the governor reaches no attempt under way.
LEMMA EditOK == ASSUME IInv, Edit PROVE IInv'
<1>1. version' \in Versions
  BY LaunchAssumption DEF Edit, IInv, TypeOK, Versions
<1>2. faults' \in faults..MaxFaults /\ sync' \in {"none", "running", "done", "failed"}
  BY LaunchAssumption DEF Edit, IInv, TypeOK
<1> QED BY <1>1, <1>2, Standstill DEF Edit

\* Nor does the end of a fetch.
LEMMA SyncEndsOK == ASSUME IInv, SyncEnds PROVE IInv'
<1>1. version' \in Versions
  BY DEF SyncEnds, IInv, TypeOK
<1>2. faults' \in faults..MaxFaults /\ sync' \in {"none", "running", "done", "failed"}
  BY LaunchAssumption DEF SyncEnds, Fault, IInv, TypeOK
<1> QED BY <1>1, <1>2, Standstill DEF SyncEnds

\* Every step, and every stutter, keeps the inductive invariant.
LEMMA NextOK == IInv /\ [Next]_vars => IInv'
<1> SUFFICES ASSUME IInv, [Next]_vars PROVE IInv'
  OBVIOUS
<1>1. CASE UNCHANGED vars
  <2>1. faults' \in faults..MaxFaults /\ sync' \in {"none", "running", "done", "failed"}
    BY <1>1, LaunchAssumption DEF vars, IInv, TypeOK
  <2>2. version' \in Versions
    BY <1>1 DEF vars, IInv, TypeOK
  <2> QED BY <1>1, <2>1, <2>2, Standstill DEF vars
<1>2. CASE SyncEnds
  BY <1>2, SyncEndsOK
<1>3. CASE Edit
  BY <1>3, EditOK
<1>4. ASSUME NEW p \in Pods, NEW a \in Actions, Dispatch(p, a)
      PROVE  IInv'
  BY <1>4, DispatchOK
<1>5. ASSUME NEW p \in Pods, Step(p)
      PROVE  IInv'
  <2>1. ASSUME UpdateProject(p) PROVE IInv'
    <3>1. pods[p].update = "due"
      BY <2>1 DEF UpdateProject
    <3>2. pods[p].stage \in {"template", "launch"}
      BY <3>1 DEF IInv, Fitting, Placed
    <3> QED BY <2>1, <3>2, UpdateOK
  <2> QED
    BY <1>5, <2>1, TokenOK, DeleteOK, ReturnOK, OnwardOK, SearchOK, CreateOK, CredentialOK, GroupOK,
       ListOK, PostOK, LaunchOK, ReportOK DEF Step
<1>6. ASSUME NEW p \in Pods, CreateOAuthTokenFails(p) \/ ReadFails(p) \/ Crash(p)
      PROVE  IInv'
  BY <1>6, TokenFailsOK, ReadFailsOK, CrashOK
<1> QED BY <1>1, <1>2, <1>3, <1>4, <1>5, <1>6 DEF Next

\* The inductive invariant holds throughout.
THEOREM Invariance == Spec => []IInv
BY InitOK, NextOK, PTL DEF Spec

\* The variables keep their types, so that DeleteOAuthToken is never called for a
\* token that was not created.
THEOREM TypeCorrect == Spec => []TypeOK
<1>1. IInv => TypeOK
  BY DEF IInv
<1> QED BY <1>1, Invariance, PTL

\* For any number of pods, actions, settings and faults, no more tokens stay on
\* Tower without a pod than requests failed or pods died: every return of
\* LaunchJob, whichever request ends it, deletes the token of its attempt.
THEOREM TokensNeverLost == Spec => []TokensAccounted
<1>1. IInv => TokensAccounted
  BY DEF IInv, TokensHeld, TokensAccounted, Holders
<1> QED BY <1>1, Invariance, PTL

\* The jobs of an action that nobody is told of are at most as many as the faults:
\* the retry of a launch, a second attempt or another pod never starts one twice.
THEOREM JobsNeverLost == Spec => []JobsAccounted
<1>1. IInv => JobsAccounted
  BY DEF IInv
<1> QED BY <1>1, Invariance, PTL

\* A job runs with the variables of its own action, however pods and attempts that
\* reuse one another's resources interleave.
THEOREM OwnVars == Spec => []RunsOwnVars
<1>1. IInv => RunsOwnVars
  BY DEF IInv
<1> QED BY <1>1, Invariance, PTL

\* The body of RunsAsConfigured, for one pod.
AsConfigured(p) ==
    pods[p].action # None /\ jobs'[pods[p].action] # jobs[pods[p].action] =>
       LET ran == jobs'[pods[p].action]
           job == ran[Len(ran)]
           c == Settings(p)
           groups == resolveInstanceGroups(c, pods[p].action) \cap Static
       IN  /\ job.credentials = c.vaults \cup (c.credentials \cap Static)
           /\ job.groups \subseteq groups
           /\ faults = 0 => job.groups = groups

\* Only a launch adds a job, and the template it runs is the one the pod has
\* synchronised.
LEMMA LaunchAsConfigured == ASSUME IInv, NEW p \in Pods, Launch(p) PROVE \A q \in Pods : AsConfigured(q)
<1> DEFINE s == pods[p]
           t == Template(p)
<1>1. s.stage = "launch"
  BY DEF Launch, Launching
<1>2. CASE UNCHANGED jobs
  BY <1>2 DEF AsConfigured
<1>3. CASE Launched(p)
  <2>1. /\ jobs'[s.action][Len(jobs'[s.action])] = t
        /\ \A a \in Actions : a # s.action => jobs'[a] = jobs[a]
    BY <1>1, <1>3, Appended
  <2>2. /\ s \in Locals /\ Collected(s) /\ Grouped(s, faults = 0) /\ Synced(s, t)
    BY <1>1, Standing
  <2>3. t.credentials = Full(s) /\ t.groups = s.groups
    BY <1>1, <2>2 DEF Collected, Synced, Late
  <2>4. /\ t.groups \subseteq Wanted(s) \cap Static
        /\ faults = 0 => t.groups = Wanted(s) \cap Static
    BY <1>1, <2>2, <2>3 DEF Grouped
  <2>5. AsConfigured(p)
    BY <2>1, <2>3, <2>4 DEF AsConfigured, Settings, Full, Wanted
  <2>6. ASSUME NEW q \in Pods, q # p PROVE AsConfigured(q)
    <3>1. pods[q].action # None => pods[q].action # s.action /\ pods[q].action \in Actions
      BY <2>6 DEF IInv, Exclusive, TypeOK, Locals
    <3> QED BY <2>1, <3>1 DEF AsConfigured
  <2> QED BY <2>5, <2>6
<1> QED BY <1>2, <1>3 DEF Launch

\* Every step is as RunsAsConfigured says.
LEMMA StepAsConfigured == ASSUME IInv, [Next]_vars PROVE UNCHANGED vars \/ \A q \in Pods : AsConfigured(q)
<1>1. CASE UNCHANGED jobs
  BY <1>1 DEF AsConfigured
<1>2. CASE \E p \in Pods : Launch(p)
  BY <1>2, LaunchAsConfigured
<1>3. UNCHANGED jobs \/ \E p \in Pods : Launch(p)
  BY DEF Next, Step, vars, CreateOAuthToken, DeleteOAuthToken, Return, Onward, SearchResource,
         CreateResource, UpdateProject, LookupCredential, resolveInstanceGroupIDs, listChildIDs,
         postChild, Report, CreateOAuthTokenFails, ReadFails, Crash, Dispatch, SyncEnds, Edit
<1> QED BY <1>1, <1>2, <1>3

\* A job is launched with exactly the credentials, and up to a failed search the
\* instance groups, of the settings of its attempt, whatever other attempts and
\* edits left on the template.
THEOREM JobsAsConfigured == Spec => RunsAsConfigured
<1>1. IInv /\ [Next]_vars =>
         [\A p \in Pods :
             pods[p].action # None /\ jobs'[pods[p].action] # jobs[pods[p].action] =>
                LET ran == jobs'[pods[p].action]
                    job == ran[Len(ran)]
                    c == Settings(p)
                    groups == resolveInstanceGroups(c, pods[p].action) \cap Static
                IN  /\ job.credentials = c.vaults \cup (c.credentials \cap Static)
                    /\ job.groups \subseteq groups
                    /\ faults = 0 => job.groups = groups]_vars
  BY StepAsConfigured DEF AsConfigured
<1> QED BY <1>1, Invariance, PTL DEF Spec, RunsAsConfigured
=============================================================================
