--------------------------- MODULE ServicesProofs ---------------------------
(***************************************************************************)
(* The services that share no state with each other (ServicesMC): releases, *)
(* team mappings and reviews of a TLine championship, the parser monitor    *)
(* and the consultant, one after the other, for any sizes of theirs.        *)
(***************************************************************************)
EXTENDS AutoDeploy, TLineTeamMapping, ParserMonitor, Consultant, TLineReview, FiniteSetTheorems, TLAPS

-----------------------------------------------------------------------------
(* Releases: services find their schema and only a rollback goes back.      *)

Stages == {"none", "lock", "inventory", "verify-main", "source", "build", "backup", "validate",
           "recheck-main", "migrate", "migrated", "activate", "compose", "up", "validateServices",
           "rollback", "rollbackUp", "validateRollback", "record", "recordOld", "receipt"}

DeploymentRow == [stage: Stages, sha: Releases, old: [Services -> Releases], todo: SUBSET Services]

DeployTypeOK ==
    /\ main \in Releases
    /\ image \in [Services -> Releases]
    /\ running \in SUBSET Services
    /\ current \in [Services -> Releases]
    /\ interrupted \in BOOLEAN
    /\ deployLock \in Deployments \cup {Nobody}
    /\ deployment \in [Deployments -> DeploymentRow]

Working(d) == deployment[d].stage \notin {"none", "lock"}

\* Services created from the images x find their migrations; no image is newer than main.
Serves(x) ==
    \A s \in Services :
        x[s] <= main /\ SourceTree[0] \subseteq SourceTree[x[s]] /\ SourceTree[x[s]] \subseteq applied

\* What may run or have run has its schema, and what came after the first release was reviewed.
HostSound ==
    /\ SourceTree[0] \subseteq applied
    /\ \A m \in applied \ SourceTree[0] : \E r \in Releases : m \in Policy[r]
    /\ Serves(image)
    /\ \A d \in Deployments : Sha(d) <= main
    /\ RecordIsTrue

Reviewed(d) == Pending(d) \subseteq Policy[Sha(d)]
Follows(d) == SourceTree[0] \subseteq SourceTree[Sha(d)]
Prepared(d) == Follows(d) /\ SourceTree[Sha(d)] \subseteq applied
NoneNewer(d) == \A s \in Services : image[s] <= Sha(d)

\* What a deployment has made sure of, by its stage.
DeploymentSound(d) ==
    Working(d) =>
        /\ deployLock = d
        /\ ~At(d, "inventory") => Serves(deployment[d].old)
        /\ deployment[d].stage \in {"recheck-main", "migrate"} => Reviewed(d)
        /\ deployment[d].stage \in {"recheck-main", "migrate", "migrated"} => Follows(d)
        /\ deployment[d].stage \in {"activate", "compose", "up"} => Prepared(d)
        /\ deployment[d].stage \in {"compose", "up"} => NoneNewer(d)
        /\ deployment[d].stage \in {"up", "validateServices", "rollback", "rollbackUp",
                                    "validateRollback", "record", "recordOld"} => interrupted
        /\ At(d, "record") => image = AllTo(d, Sha(d))
        /\ At(d, "recordOld") => image = deployment[d].old

DeployInv == DeployTypeOK /\ HostSound /\ \A d \in Deployments : DeploymentSound(d)


LEMMA DeployInitInv == DeployInit => DeployInv
<1> SUFFICES ASSUME DeployInit PROVE DeployInv
    OBVIOUS
<1>1. 0 \in Releases
    BY DeployAssumption DEF Releases
<1>2. DeployTypeOK
    BY <1>1 DEF DeployInit, DeployTypeOK, NoDeployment, DeploymentRow, Stages
<1>3. HostSound
    BY <1>1 DEF DeployInit, HostSound, Serves, RecordIsTrue, NoDeployment, Sha
<1>4. \A d \in Deployments : DeploymentSound(d)
    BY DEF DeployInit, DeploymentSound, Working, NoDeployment
<1> QED BY <1>2, <1>3, <1>4 DEF DeployInv

\* The lock lets one deployment work at a time.
LEMMA WorksAlone ==
    ASSUME DeployInv, NEW d \in Deployments, Working(d), NEW e \in Deployments, e # d
    PROVE  ~Working(e)
BY DEF DeployInv, DeploymentSound

\* A step of d alone, host and database unchanged: only what d made sure of is to be shown.
LEMMA QuietStep ==
    ASSUME DeployInv, NEW d \in Deployments, Working(d), UNCHANGED <<main, Host, Database, deployLock>>,
           NEW stage \in Stages, deployment' = [deployment EXCEPT ![d].stage = stage],
           DeploymentSound(d)'
    PROVE  DeployInv'
<1>1. DeployTypeOK'
  <2>1. deployment[d] \in DeploymentRow
      BY DEF DeployInv, DeployTypeOK
  <2>2. [deployment[d] EXCEPT !.stage = stage] \in DeploymentRow
      BY <2>1 DEF DeploymentRow
  <2> QED BY <2>2 DEF DeployInv, DeployTypeOK, Host
<1>2. HostSound'
    BY DEF DeployInv, DeployTypeOK, HostSound, Serves, RecordIsTrue, Host, Database, Sha
<1>3. ASSUME NEW e \in Deployments, e # d PROVE DeploymentSound(e)'
    BY <1>3, WorksAlone DEF DeployInv, DeployTypeOK, DeploymentSound, Working
<1> QED BY <1>1, <1>2, <1>3 DEF DeployInv

\* A process that ends changes nothing, and frees the lock only if it held it.
LEMMA EndStep ==
    ASSUME DeployInv, NEW d \in Deployments, Ends(d), UNCHANGED <<main, Host, Database>>
    PROVE  DeployInv'
<1>1. 0 \in Releases /\ 0 <= main
    BY DeployAssumption DEF DeployInv, DeployTypeOK, Releases
<1>2. DeployTypeOK'
    BY <1>1 DEF DeployInv, DeployTypeOK, Host, Ends, NoDeployment, DeploymentRow, Stages
<1>3. HostSound'
    BY <1>1 DEF DeployInv, DeployTypeOK, HostSound, Serves, RecordIsTrue, Host, Database, Sha, Ends, NoDeployment
<1>4. ASSUME NEW e \in Deployments PROVE DeploymentSound(e)'
  <2>1. CASE e = d
      BY <2>1 DEF DeployInv, DeployTypeOK, DeploymentSound, Working, Ends, NoDeployment
  <2>2. CASE e # d
    <3>1. deployment'[e] = deployment[e] /\ (deployLock = e => deployLock' = e)
        BY <2>2 DEF DeployInv, DeployTypeOK, Ends
    <3> QED BY <3>1 DEF DeployInv, DeploymentSound, Working, At, Sha, AllTo, Serves, Reviewed, Pending, Follows,
                        Prepared, NoneNewer, Host, Database
  <2> QED BY <2>1, <2>2
<1> QED BY <1>2, <1>3, <1>4 DEF DeployInv

(* Up to the migration. *)

LEMMA StartStep ==
    ASSUME DeployInv, NEW d \in Deployments, NEW r \in 0..main, startDeployment(d, r)
    PROVE  DeployInv'
<1>1. r \in Releases /\ r <= main
    BY DeployAssumption DEF DeployInv, DeployTypeOK, Releases
<1>2. DeployTypeOK'
  <2>1. deployment[d] \in DeploymentRow
      BY DEF DeployInv, DeployTypeOK
  <2>2. [deployment[d] EXCEPT !.stage = "lock", !.sha = r] \in DeploymentRow
      BY <1>1, <2>1 DEF DeploymentRow, Stages
  <2> QED BY <2>2 DEF DeployInv, DeployTypeOK, startDeployment, Host
<1>3. HostSound'
    BY <1>1 DEF DeployInv, DeployTypeOK, HostSound, Serves, RecordIsTrue, Host, Database, Sha, startDeployment
<1>4. ASSUME NEW e \in Deployments PROVE DeploymentSound(e)'
  <2>1. CASE e = d
      BY <2>1 DEF DeployInv, DeployTypeOK, DeploymentSound, Working, startDeployment
  <2>2. CASE e # d
    <3>1. deployment'[e] = deployment[e]
        BY <2>2 DEF DeployInv, DeployTypeOK, startDeployment
    <3> QED BY <3>1 DEF DeployInv, DeploymentSound, Working, At, Sha, AllTo, Serves, Reviewed, Pending, Follows,
                        Prepared, NoneNewer, Host, Database, startDeployment
  <2> QED BY <2>1, <2>2
<1> QED BY <1>2, <1>3, <1>4 DEF DeployInv

LEMMA LockTaken ==
    ASSUME DeployInv, NEW d \in Deployments, deploy_lock(d)
    PROVE  DeployInv'
<1>1. CASE ~LockFree
    BY <1>1, EndStep DEF deploy_lock
<1>2. CASE LockFree
  <2>1. \A e \in Deployments : ~Working(e)
      BY <1>2, DeployAssumption DEF LockFree, DeployInv, DeploymentSound
  <2>2. DeployTypeOK'
    <3>1. deployment[d] \in DeploymentRow
        BY DEF DeployInv, DeployTypeOK
    <3>2. [deployment[d] EXCEPT !.stage = "inventory"] \in DeploymentRow
        BY <3>1 DEF DeploymentRow, Stages
    <3> QED BY <1>2, <3>2 DEF DeployInv, DeployTypeOK, deploy_lock, GoesTo, Host
  <2>3. HostSound'
      BY <1>2 DEF DeployInv, DeployTypeOK, DeploymentRow, HostSound, Serves, RecordIsTrue, Host, Database, Sha, deploy_lock, GoesTo
  <2>4. ASSUME NEW e \in Deployments PROVE DeploymentSound(e)'
    <3>1. CASE e = d
        BY <1>2, <3>1 DEF DeployInv, DeployTypeOK, DeploymentRow, DeploymentSound, deploy_lock, GoesTo, At
    <3>2. CASE e # d
        BY <1>2, <2>1, <3>2 DEF DeployInv, DeployTypeOK, DeploymentSound, Working, deploy_lock, GoesTo
    <3> QED BY <3>1, <3>2
  <2> QED BY <2>2, <2>3, <2>4 DEF DeployInv
<1> QED BY <1>1, <1>2

\* The images a deployment would go back to are those that run when it begins.
LEMMA InventoryStep ==
    ASSUME DeployInv, NEW d \in Deployments, inventory(d)
    PROVE  DeployInv'
<1>1. Working(d) /\ deployLock = d
    BY DEF inventory, At, Working, DeployInv, DeploymentSound
<1>2. DeployTypeOK'
  <2>1. deployment[d] \in DeploymentRow /\ image \in [Services -> Releases]
      BY DEF DeployInv, DeployTypeOK
  <2>2. [deployment[d] EXCEPT !.stage = "verify-main", !.old = image] \in DeploymentRow
      BY <2>1 DEF DeploymentRow, Stages
  <2> QED BY <2>2 DEF DeployInv, DeployTypeOK, inventory, Host
<1>3. HostSound'
    BY DEF DeployInv, DeployTypeOK, HostSound, Serves, RecordIsTrue, Host, Database, Sha, inventory
<1>4. ASSUME NEW e \in Deployments PROVE DeploymentSound(e)'
  <2>1. CASE e = d
      BY <1>1, <2>1 DEF DeployInv, DeployTypeOK, DeploymentSound, HostSound, Serves, inventory, At, Host, Database
  <2>2. CASE e # d
      BY <1>1, <2>2, WorksAlone DEF DeployInv, DeployTypeOK, DeploymentSound, Working, inventory
  <2> QED BY <2>1, <2>2
<1> QED BY <1>2, <1>3, <1>4 DEF DeployInv

\* Nothing newer runs when the commit is still the head of main.
LEMMA MainChecked ==
    ASSUME DeployInv, NEW d \in Deployments,
           \/ require_current_main(d, "verify-main", "source")
           \/ require_current_main(d, "recheck-main", "migrate")
           \/ require_current_main(d, "activate", "compose")
    PROVE  DeployInv'
<1> USE DEF require_current_main
<1>1. CASE ~IsMain(d)
    BY <1>1, EndStep
<1>2. CASE IsMain(d)
  <2>1. Working(d) /\ NoneNewer(d)
      BY <1>2 DEF Working, At, NoneNewer, IsMain, DeployInv, HostSound, Serves
  <2>2. PICK stage \in {"source", "migrate", "compose"} : GoesTo(d, stage) /\ UNCHANGED <<main, Host, Database, deployLock>>
      BY <1>2
  <2>3. deployment' = [deployment EXCEPT ![d].stage = stage] /\ stage \in Stages
      BY <2>2 DEF GoesTo, Stages
  <2>4. /\ deployment'[d].stage \in {"source", "migrate", "compose"}
        /\ deployment'[d].sha = deployment[d].sha /\ deployment'[d].old = deployment[d].old
        /\ deployment'[d].stage = "source" => At(d, "verify-main")
        /\ deployment'[d].stage = "migrate" => At(d, "recheck-main")
        /\ deployment'[d].stage = "compose" => At(d, "activate")
      BY <1>2 DEF GoesTo, DeployInv, DeployTypeOK, DeploymentRow
  <2>5. DeploymentSound(d)'
      BY <2>1, <2>2, <2>4 DEF DeployInv, DeploymentSound, Working, At, Sha, AllTo, Serves, Reviewed, Pending, Follows,
                        Prepared, NoneNewer, Host, Database
  <2> QED BY <2>1, <2>2, <2>3, <2>5, QuietStep
<1> QED BY <1>1, <1>2

LEMMA PrepareStep ==
    ASSUME DeployInv, NEW d \in Deployments, prepare_source(d) \/ build_image(d) \/ backup_database(d)
    PROVE  DeployInv'
<1> USE DEF prepare_source, build_image, backup_database
<1>1. PICK stage \in {"build", "backup", "validate"} : deployment' = [deployment EXCEPT ![d].stage = stage]
    BY DEF GoesTo
<1>2. Working(d) /\ ~At(d, "inventory") /\ UNCHANGED <<main, Host, Database, deployLock>>
    BY DEF Working, At
<1>3. DeploymentSound(d)'
    BY <1>1, <1>2 DEF DeployInv, DeployTypeOK, DeploymentSound, Working, At, Serves, Database
<1> QED BY <1>1, <1>2, <1>3, QuietStep DEF Stages

\* What is pending has been reviewed, and the source goes beyond the first release's.
LEMMA ValidateStep ==
    ASSUME DeployInv, NEW d \in Deployments, validate_migrations(d)
    PROVE  DeployInv'
<1> USE DEF validate_migrations
<1>1. CASE ~Valid(d)
    BY <1>1, EndStep
<1>2. CASE Valid(d)
  <2>1. Working(d) /\ At(d, "validate") /\ UNCHANGED <<main, Host, Database, deployLock>>
      BY <1>2 DEF Working, At
  <2>2. deployment' = [deployment EXCEPT ![d].stage = "recheck-main"] /\ "recheck-main" \in Stages
      BY <1>2 DEF GoesTo, Stages
  <2>3. Reviewed(d) /\ Follows(d)
      BY <1>2 DEF Valid, Reviewed, Follows, DeployInv, HostSound
  <2>4. DeploymentSound(d)'
      BY <2>1, <2>2, <2>3 DEF DeployInv, DeployTypeOK, DeploymentSound, Working, At, Sha, Serves, Reviewed, Pending,
                              Follows, Database
  <2> QED BY <2>1, <2>2, <2>4, QuietStep
<1> QED BY <1>1, <1>2

\* Some reviewed migrations are applied: services keep what they need.
LEMMA MigrateStep ==
    ASSUME DeployInv, NEW d \in Deployments, compose_run_migrations(d)
    PROVE  DeployInv'
<1>1. Working(d) /\ Reviewed(d) /\ Follows(d) /\ deployLock = d /\ Serves(deployment[d].old)
    BY DEF compose_run_migrations, At, Working, DeployInv, DeploymentSound
<1>2. applied \subseteq applied' /\ applied' \subseteq applied \cup Pending(d) /\ UNCHANGED <<main, Host>>
    BY DEF compose_run_migrations
<1>3. \/ GoesTo(d, "migrated") /\ UNCHANGED deployLock
      \/ Ends(d)
    BY DEF compose_run_migrations
<1>4. 0 \in Releases /\ 0 <= main
    BY DeployAssumption DEF DeployInv, DeployTypeOK, Releases
<1>5. DeployTypeOK'
  <2>1. deployment[d] \in DeploymentRow
      BY DEF DeployInv, DeployTypeOK
  <2>2. [deployment[d] EXCEPT !.stage = "migrated"] \in DeploymentRow /\ NoDeployment \in DeploymentRow
      BY <1>4, <2>1 DEF DeploymentRow, Stages, NoDeployment
  <2> QED BY <1>2, <1>3, <2>2 DEF DeployInv, DeployTypeOK, Host, GoesTo, Ends
<1>6. HostSound'
  <2>1. \A m \in applied' \ SourceTree[0] : \E r \in Releases : m \in Policy[r]
      BY <1>1, <1>2 DEF DeployInv, DeployTypeOK, DeploymentRow, HostSound, Reviewed, Sha
  <2>2. \A e \in Deployments : Sha(e)' <= main
      BY <1>3, <1>4 DEF DeployInv, DeployTypeOK, DeploymentRow, HostSound, Sha, GoesTo, Ends, NoDeployment
  <2> QED BY <1>2, <2>1, <2>2 DEF DeployInv, HostSound, Serves, RecordIsTrue, Host
<1>7. ASSUME NEW e \in Deployments PROVE DeploymentSound(e)'
  <2>1. CASE e = d /\ GoesTo(d, "migrated") /\ UNCHANGED deployLock
      BY <1>1, <1>2, <2>1 DEF DeployInv, DeployTypeOK, DeploymentSound, GoesTo, At, Sha, Serves, Follows
  <2>2. CASE e = d /\ Ends(d)
      BY <2>2 DEF DeployInv, DeployTypeOK, DeploymentSound, Working, Ends, NoDeployment
  <2>3. CASE e # d
      BY <1>1, <1>3, <2>3, WorksAlone DEF DeployInv, DeployTypeOK, DeploymentSound, Working, GoesTo, Ends
  <2> QED BY <1>3, <2>1, <2>2, <2>3
<1> QED BY <1>5, <1>6, <1>7 DEF DeployInv

LEMMA ValidateAfterStep ==
    ASSUME DeployInv, NEW d \in Deployments, validateAfter(d)
    PROVE  DeployInv'
<1> USE DEF validateAfter
<1>1. CASE ~Migrated(d)
    BY <1>1, EndStep
<1>2. CASE Migrated(d)
  <2>1. Working(d) /\ At(d, "migrated") /\ UNCHANGED <<main, Host, Database, deployLock>>
      BY <1>2 DEF Working, At
  <2>2. deployment' = [deployment EXCEPT ![d].stage = "activate"] /\ "activate" \in Stages
      BY <1>2 DEF GoesTo, Stages
  <2>3. Prepared(d)
      BY <1>2, <2>1 DEF Migrated, Pending, Prepared, DeployInv, DeploymentSound, At
  <2>4. DeploymentSound(d)'
      BY <2>1, <2>2, <2>3 DEF DeployInv, DeployTypeOK, DeploymentSound, Working, At, Sha, Serves, Prepared,
                              Follows, Database
  <2> QED BY <2>1, <2>2, <2>4, QuietStep
<1> QED BY <1>1, <1>2

(* Activation and rollback. *)

LEMMA ComposeStep ==
    ASSUME DeployInv, NEW d \in Deployments,
           composeUp(d, "compose", "up") \/ composeUp(d, "rollback", "rollbackUp")
    PROVE  DeployInv'
<1> USE DEF composeUp
<1>1. PICK to \in {"up", "rollbackUp"} :
          /\ deployment' = [deployment EXCEPT ![d].stage = to, ![d].todo = Services]
          /\ to = "up" => At(d, "compose")
          /\ to = "rollbackUp" => At(d, "rollback")
    OBVIOUS
<1>2. Working(d) /\ interrupted' /\ UNCHANGED <<main, image, running, current, applied, deployLock>>
    BY DEF Working, At, Database
<1>3. deployment[d] \in DeploymentRow
    BY DEF DeployInv, DeployTypeOK
<1>4. DeployTypeOK'
  <2>1. [deployment[d] EXCEPT !.stage = to, !.todo = Services] \in DeploymentRow
      BY <1>3 DEF DeploymentRow, Stages
  <2> QED BY <1>1, <1>2, <2>1 DEF DeployInv, DeployTypeOK
<1>5. HostSound'
    BY <1>1, <1>2 DEF DeployInv, DeployTypeOK, DeploymentRow, HostSound, Serves, RecordIsTrue, Sha
<1>6. ASSUME NEW e \in Deployments PROVE DeploymentSound(e)'
  <2>1. CASE e = d
      BY <1>1, <1>2, <2>1 DEF DeployInv, DeployTypeOK, DeploymentRow, DeploymentSound, Working, At, Sha, Serves,
                              Prepared, Follows, NoneNewer
  <2>2. CASE e # d
      BY <1>1, <1>2, <2>2, WorksAlone DEF DeployInv, DeployTypeOK, DeploymentSound, Working
  <2> QED BY <2>1, <2>2
<1> QED BY <1>4, <1>5, <1>6 DEF DeployInv

\* A new container has the schema its code needs, whichever way it is created.
LEMMA RecreateStep ==
    ASSUME DeployInv, NEW d \in Deployments, NEW s \in Services, recreate(d, s)
    PROVE  DeployInv' /\ (image'[s] < image[s] => At(d, "rollbackUp") /\ image'[s] = deployment[d].old[s])
<1>1. /\ Working(d) /\ interrupted /\ (At(d, "up") \/ At(d, "rollbackUp"))
      /\ At(d, "up") => Prepared(d) /\ NoneNewer(d)
      /\ Serves(deployment[d].old)
    BY DEF recreate, At, Working, DeployInv, DeploymentSound
<1>2. /\ deployment[d] \in DeploymentRow /\ image \in [Services -> Releases]
      /\ main \in Releases /\ Releases \subseteq Nat
    BY DeployAssumption DEF DeployInv, DeployTypeOK, Releases
<1> DEFINE new == Target(d)[s]
<1>4. /\ new \in Releases /\ new <= main /\ SourceTree[0] \subseteq SourceTree[new] /\ SourceTree[new] \subseteq applied
      /\ At(d, "up") => new = Sha(d)
      /\ At(d, "rollbackUp") => new = deployment[d].old[s]
  <2>1. CASE At(d, "up")
    <3>1. new = Sha(d) /\ ~At(d, "rollbackUp")
        BY <2>1 DEF Target, AllTo, At
    <3> QED BY <1>1, <1>2, <2>1, <3>1 DEF Prepared, Follows, DeploymentRow, Sha, DeployInv, HostSound
  <2>2. CASE At(d, "rollbackUp")
    <3>1. new = deployment[d].old[s] /\ ~At(d, "up")
        BY <2>2 DEF Target, OldImages, At
    <3> QED BY <1>1, <1>2, <2>2, <3>1 DEF Serves, DeploymentRow
  <2> QED BY <1>1, <2>1, <2>2
<1> HIDE DEF new
<1>5. /\ image' = [image EXCEPT ![s] = new] /\ running' \in SUBSET Services
      /\ deployment' = [deployment EXCEPT ![d].todo = @ \ {s}]
      /\ UNCHANGED <<main, current, interrupted, applied, deployLock>>
    BY DEF recreate, new, Database, DeployInv, DeployTypeOK
<1>6. DeployTypeOK'
  <2>1. [deployment[d] EXCEPT !.todo = @ \ {s}] \in DeploymentRow
      BY <1>2 DEF DeploymentRow
  <2> QED BY <1>2, <1>4, <1>5, <2>1 DEF DeployInv, DeployTypeOK
<1>7. Serves(image)'
    BY <1>2, <1>4, <1>5 DEF DeployInv, HostSound, Serves
<1>8. HostSound'
    BY <1>1, <1>2, <1>5, <1>7 DEF DeployInv, DeployTypeOK, DeploymentRow, HostSound, RecordIsTrue, Sha
<1>9. \A t \in Services : At(d, "up") => image'[t] <= Sha(d)
    BY <1>1, <1>2, <1>4, <1>5 DEF NoneNewer, DeploymentRow, Sha
<1>10. ASSUME NEW e \in Deployments PROVE DeploymentSound(e)'
  <2>1. CASE e = d
    <3>1. /\ deployment'[d].stage = deployment[d].stage /\ deployment'[d].sha = deployment[d].sha
          /\ deployment'[d].old = deployment[d].old
        BY <1>2, <1>5 DEF DeployInv, DeployTypeOK, DeploymentRow
    <3> QED BY <1>1, <1>5, <1>9, <2>1, <3>1 DEF DeployInv, DeploymentSound, Working, At, Sha, Serves, Prepared, Follows,
                                                NoneNewer
  <2>2. CASE e # d
      BY <1>1, <1>5, <2>2, WorksAlone DEF DeployInv, DeployTypeOK, DeploymentSound, Working
  <2> QED BY <2>1, <2>2
<1>11. image'[s] < image[s] => At(d, "rollbackUp")
  <2>1. CASE At(d, "up")
      BY <1>1, <1>2, <1>4, <1>5, <2>1 DEF NoneNewer, DeploymentRow, Sha
  <2> QED BY <1>1, <2>1
<1> QED BY <1>2, <1>4, <1>5, <1>6, <1>8, <1>10, <1>11 DEF DeployInv

\* From the health check to the decision to go back, nothing but the stage changes.
LEMMA WatchStep ==
    ASSUME DeployInv, NEW d \in Deployments,
           \/ health_ok(d) \/ validate_recreated_services(d)
           \/ rollbackHealthy(d) \/ validate_service_images_running(d)
    PROVE  DeployInv'
<1> USE DEF health_ok, validate_recreated_services, rollbackHealthy, validate_service_images_running
<1>1. PICK stage \in {"validateServices", "record", "validateRollback", "recordOld"} :
          /\ deployment' = [deployment EXCEPT ![d].stage = stage]
          /\ stage = "record" => image = AllTo(d, Sha(d))
          /\ stage = "recordOld" => image = deployment[d].old
    BY DEF GoesTo
<1>2. /\ Working(d) /\ UNCHANGED <<main, Host, Database, deployLock>>
      /\ deployment[d].stage \in {"up", "validateServices", "rollbackUp", "validateRollback"}
    BY DEF Working, At
<1>3. /\ deployment'[d].stage = stage /\ deployment'[d].sha = deployment[d].sha
      /\ deployment'[d].old = deployment[d].old
    BY <1>1 DEF DeployInv, DeployTypeOK, DeploymentRow
<1>4. DeploymentSound(d)'
    BY <1>1, <1>2, <1>3 DEF DeployInv, DeploymentSound, Working, At, Sha, AllTo, Serves, Host, Database
<1> QED BY <1>1, <1>2, <1>4, QuietStep DEF Stages

LEMMA FailureStep ==
    ASSUME DeployInv, NEW d \in Deployments, activationFails(d)
    PROVE  DeployInv'
<1> USE DEF activationFails
<1>1. /\ Working(d) /\ UNCHANGED <<main, Host, Database, deployLock>>
      /\ deployment[d].stage \in {"up", "validateServices"}
    BY DEF Working, At
<1>2. DeployTypeOK'
  <2>1. deployment[d] \in DeploymentRow
      BY DEF DeployInv, DeployTypeOK
  <2>2. [deployment[d] EXCEPT !.stage = "rollback", !.todo = {}] \in DeploymentRow
      BY <2>1 DEF DeploymentRow, Stages
  <2> QED BY <1>1, <2>2 DEF DeployInv, DeployTypeOK, Host
<1>3. HostSound'
    BY <1>1 DEF DeployInv, DeployTypeOK, DeploymentRow, HostSound, Serves, RecordIsTrue, Host, Database, Sha
<1>4. ASSUME NEW e \in Deployments PROVE DeploymentSound(e)'
  <2>1. CASE e = d
      BY <1>1, <2>1 DEF DeployInv, DeployTypeOK, DeploymentRow, DeploymentSound, Working, At, Serves, Host, Database
  <2>2. CASE e # d
      BY <1>1, <2>2, WorksAlone DEF DeployInv, DeployTypeOK, DeploymentSound, Working
  <2> QED BY <2>1, <2>2
<1> QED BY <1>2, <1>3, <1>4 DEF DeployInv

\* What is recorded is what was seen running under the lock.
LEMMA RecordStep ==
    ASSUME DeployInv, NEW d \in Deployments, write_image_override(d)
    PROVE  DeployInv'
<1> USE DEF write_image_override
<1>1. Working(d) /\ UNCHANGED <<main, image, running, applied, deployLock>>
    BY DEF Working, At, Database
<1>2. current' = image
    BY <1>1 DEF DeployInv, DeploymentSound, At, Recorded, OldImages
<1>3. deployment[d] \in DeploymentRow
    BY DEF DeployInv, DeployTypeOK
<1>4. DeployTypeOK'
  <2>1. [deployment[d] EXCEPT !.stage = "receipt"] \in DeploymentRow
      BY <1>3 DEF DeploymentRow, Stages
  <2> QED BY <1>1, <1>2, <2>1 DEF DeployInv, DeployTypeOK, GoesTo
<1>5. HostSound'
    BY <1>1, <1>2 DEF DeployInv, DeployTypeOK, DeploymentRow, HostSound, Serves, RecordIsTrue, Sha, GoesTo
<1>6. ASSUME NEW e \in Deployments PROVE DeploymentSound(e)'
  <2>1. CASE e = d
      BY <1>1, <2>1 DEF DeployInv, DeployTypeOK, DeploymentRow, DeploymentSound, At, Serves, GoesTo
  <2>2. CASE e # d
      BY <1>1, <2>2, WorksAlone DEF DeployInv, DeployTypeOK, DeploymentSound, Working, GoesTo
  <2> QED BY <2>1, <2>2
<1> QED BY <1>4, <1>5, <1>6 DEF DeployInv

(* Others, and the theorems. *)

LEMMA OthersStep ==
    ASSUME DeployInv, push \/ resolveMigration \/ \E s \in Services : stopsOrRestarts(s)
    PROVE  DeployInv'
<1> USE DEF push, resolveMigration, stopsOrRestarts
<1>0. main \in Releases /\ Releases \subseteq Nat
    BY DeployAssumption DEF DeployInv, DeployTypeOK, Releases
<1>1. UNCHANGED <<image, applied, current, interrupted, deployment, deployLock>>
    BY DEF Host, Database
<1>2. main' \in Releases /\ main <= main' /\ running' \in SUBSET Services
    BY <1>0, DeployAssumption DEF Host, Database, DeployInv, DeployTypeOK, Releases
<1>3. ASSUME NEW n \in Releases, n <= main PROVE n <= main'
  <2>1. n \in Nat /\ main \in Nat /\ main' \in Nat
      BY <1>0, <1>2
  <2> QED BY <1>2, <1>3, <2>1
<1>4. ASSUME NEW x \in [Services -> Releases], Serves(x) PROVE Serves(x)'
    BY <1>1, <1>3, <1>4 DEF Serves
<1>5. DeployTypeOK'
    BY <1>1, <1>2 DEF DeployInv, DeployTypeOK
<1>6. HostSound'
  <2>1. Serves(image)'
      BY <1>1, <1>4 DEF DeployInv, DeployTypeOK, HostSound
  <2>2. \A d \in Deployments : Sha(d)' <= main'
      BY <1>1, <1>3 DEF DeployInv, DeployTypeOK, DeploymentRow, HostSound, Sha
  <2> QED BY <1>1, <2>1, <2>2 DEF DeployInv, HostSound, RecordIsTrue
<1>7. ASSUME NEW e \in Deployments PROVE DeploymentSound(e)'
  <2>1. deployment[e].old \in [Services -> Releases]
      BY DEF DeployInv, DeployTypeOK, DeploymentRow
  <2> QED BY <1>1, <1>4, <2>1 DEF DeployInv, DeploymentSound, Working, At, Sha, AllTo, Reviewed, Pending, Follows,
                                  Prepared, NoneNewer
<1> QED BY <1>5, <1>6, <1>7 DEF DeployInv

LEMMA DeployStep ==
    ASSUME DeployInv, [DeployNext]_deployVars
    PROVE  DeployInv'
<1>1. CASE UNCHANGED deployVars
    BY <1>1 DEF deployVars, DeployInv, DeployTypeOK, HostSound, Serves, RecordIsTrue, DeploymentSound, Working, At, Sha,
                AllTo, Reviewed, Pending, Follows, Prepared, NoneNewer
<1>2. ASSUME NEW d \in Deployments, Prepare(d) PROVE DeployInv'
    BY <1>2, StartStep, LockTaken, InventoryStep, MainChecked, PrepareStep, ValidateStep, MigrateStep,
       ValidateAfterStep DEF Prepare
<1>3. ASSUME NEW d \in Deployments, Activate(d) PROVE DeployInv'
    BY <1>3, ComposeStep, RecreateStep, WatchStep, FailureStep, RecordStep, EndStep DEF Activate, fails
<1> QED BY <1>1, <1>2, <1>3, OthersStep DEF DeployNext

\* The invariant of deployments, for any interleaving and any cut.
THEOREM DeployInductive == DeploySpec => []DeployInv
BY DeployInitInv, DeployStep, PTL DEF DeploySpec

\* Whatever fails or is cut off, services find their schema, and the record of images is true.
THEOREM SchemaAndRecordSound == DeploySpec => []ServicesSound
<1>1. DeployInv => ServicesSound
    BY DEF DeployInv, HostSound, Serves, ServicesSound, SchemaServesServices
<1> QED BY <1>1, DeployInductive, PTL

\* A service goes back to an older release only in a rollback.
THEOREM ReleasesAdvance == DeploySpec => OnlyRollbackGoesBack
<1> DEFINE GoesBack(s) ==
        image'[s] < image[s] =>
            \E d \in Deployments : At(d, "rollbackUp") /\ image'[s] = deployment[d].old[s]
<1>1. DeployInv /\ [DeployNext]_deployVars => [\A s \in Services : GoesBack(s)]_deployVars
  <2> SUFFICES ASSUME DeployInv, DeployNext, NEW s \in Services PROVE GoesBack(s)
      OBVIOUS
  <2>1. image[s] \in Nat
      BY DeployAssumption DEF DeployInv, DeployTypeOK, Releases
  <2>2. CASE image'[s] = image[s]
      BY <2>1, <2>2
  <2>3. ASSUME NEW d \in Deployments, NEW t \in Services, recreate(d, t) PROVE GoesBack(s)
    <3>1. CASE t = s
        BY <2>3, <3>1, RecreateStep
    <3>2. CASE t # s
        BY <2>2, <2>3, <3>2 DEF recreate, DeployInv, DeployTypeOK
    <3> QED BY <3>1, <3>2
  <2>4. ASSUME NEW d \in Deployments, Prepare(d) PROVE image' = image
      BY <2>4 DEF Prepare, startDeployment, deploy_lock, inventory, require_current_main, prepare_source, build_image,
                  backup_database, validate_migrations, compose_run_migrations, validateAfter, Host
  <2>5. ASSUME NEW d \in Deployments, Activate(d), ~\E t \in Services : recreate(d, t) PROVE image' = image
      BY <2>5 DEF Activate, composeUp, health_ok, validate_recreated_services, activationFails, rollbackHealthy,
                  validate_service_images_running, write_image_override, fails, Host
  <2>6. CASE push \/ resolveMigration \/ \E t \in Services : stopsOrRestarts(t)
      BY <2>2, <2>6 DEF push, resolveMigration, stopsOrRestarts, Host
  <2> QED BY <2>2, <2>3, <2>4, <2>5, <2>6 DEF DeployNext
<1> QED BY <1>1, DeployInductive, PTL DEF DeploySpec, OnlyRollbackGoesBack

-----------------------------------------------------------------------------
(* Team mappings: what an operator locked stands.                           *)

MappingRow ==
    [status: {"none", "UNMAPPED", "MANUAL_MAPPED", "MANUAL_UNMAPPED", "AUTO_MAPPED"},
     admin: AdminTeams \cup {Unmatched}, locked: BOOLEAN]

MappingTypeOK ==
    /\ teamMapping \in [SourceTeams -> MappingRow]
    /\ automap \in [Automaps -> [stage: {"idle", "write"}, seen: [SourceTeams -> MappingRow]]]
    /\ chosen \in [SourceTeams -> AdminTeams \cup {Unmatched}]
    /\ raced \in SUBSET SourceTeams

\* An automap about to write has seen the lock of every locked team, unless it raced the operator.
LocksWereSeen ==
    \A t \in SourceTeams \ raced, r \in Automaps :
        teamMapping[t].locked /\ automap[r].stage = "write" => automap[r].seen[t].locked

\* A locked row is one an operator wrote: cleared and saved rows keep their status while locked.
MappingInv == MappingTypeOK /\ LocksWereSeen /\ OperatorsChoiceStands


LEMMA MappingInitInv == MappingInit => MappingInv
BY DEF MappingInit, MappingInv, MappingTypeOK, MappingRow, LocksWereSeen, OperatorsChoiceStands,
       NoMapping, NoAutomap

\* A row an operator writes: its lock was seen by every automap, or the team is raced.
LEMMA SetsStep ==
    ASSUME MappingInv, NEW t \in SourceTeams, NEW row \in MappingRow, Sets(t, row),
           row.locked => row.status \in {"MANUAL_MAPPED", "MANUAL_UNMAPPED"}
    PROVE  MappingInv'
<1> USE DEF MappingInv
<1>1. MappingTypeOK'
    BY DEF Sets, MappingTypeOK, MappingRow
<1>2. LocksWereSeen'
  <2> SUFFICES ASSUME NEW u \in SourceTeams, u \notin raced', NEW r \in Automaps,
                      teamMapping'[u].locked, automap[r].stage = "write"
               PROVE  automap[r].seen[u].locked
      BY DEF LocksWereSeen, Sets
  <2>1. CASE u = t
      BY <2>1 DEF Sets, Taken
  <2>2. CASE u # t
      BY <2>2 DEF Sets, LocksWereSeen, MappingTypeOK
  <2> QED BY <2>1, <2>2
<1>3. OperatorsChoiceStands'
    BY DEF Sets, OperatorsChoiceStands, MappingTypeOK
<1> QED BY <1>1, <1>2, <1>3

\* An automap writes only rows it saw unlocked, and those are unlocked still, or raced.
LEMMA WriteStep ==
    ASSUME MappingInv, NEW r \in Automaps, writeMappings(r)
    PROVE  MappingInv'
<1> USE DEF MappingInv
<1>1. PICK found \in [SourceTeams -> AdminTeams \cup {Unmatched}] :
          teamMapping' = [t \in SourceTeams |->
              IF Writable(automap[r].seen[t]) /\ found[t] # Unmatched
              THEN [teamMapping[t] EXCEPT !.status = "AUTO_MAPPED", !.admin = found[t]]
              ELSE teamMapping[t]]
    BY DEF writeMappings
<1>2. MappingTypeOK'
  <2>1. teamMapping' \in [SourceTeams -> MappingRow]
    <3>1. \A t \in SourceTeams : teamMapping[t] \in MappingRow
        BY DEF MappingTypeOK
    <3>2. \A t \in SourceTeams, a \in AdminTeams :
             [teamMapping[t] EXCEPT !.status = "AUTO_MAPPED", !.admin = a] \in MappingRow
        BY <3>1 DEF MappingRow
    <3> QED BY <1>1, <3>1, <3>2
  <2>2. automap' \in [Automaps -> [stage: {"idle", "write"}, seen: [SourceTeams -> MappingRow]]]
    <3>1. [t \in SourceTeams |-> NoMapping] \in [SourceTeams -> MappingRow]
        BY DEF MappingRow, NoMapping
    <3> QED BY <3>1 DEF writeMappings, MappingTypeOK, NoAutomap
  <2> QED BY <2>1, <2>2 DEF writeMappings, MappingTypeOK
<1>3. \A t \in SourceTeams : teamMapping'[t].locked = teamMapping[t].locked
  <2> TAKE t \in SourceTeams
  <2>1. teamMapping[t] \in MappingRow
      BY DEF MappingTypeOK
  <2>2. [teamMapping[t] EXCEPT !.status = "AUTO_MAPPED", !.admin = found[t]].locked = teamMapping[t].locked
      BY <2>1 DEF MappingRow
  <2> QED BY <1>1, <2>2
<1>4. LocksWereSeen'
  <2> SUFFICES ASSUME NEW t \in SourceTeams, t \notin raced, NEW q \in Automaps,
                      teamMapping[t].locked, automap'[q].stage = "write"
               PROVE  automap'[q].seen[t].locked
      BY <1>3 DEF LocksWereSeen, writeMappings
  <2>1. q # r /\ automap'[q] = automap[q]
      BY DEF writeMappings, MappingTypeOK, NoAutomap
  <2> QED BY <2>1 DEF LocksWereSeen
<1>5. OperatorsChoiceStands'
  <2> SUFFICES ASSUME NEW t \in SourceTeams, t \notin raced, teamMapping[t].locked
               PROVE  /\ teamMapping'[t].status \in {"MANUAL_MAPPED", "MANUAL_UNMAPPED"}
                      /\ teamMapping'[t].admin = chosen[t]
      BY <1>3 DEF OperatorsChoiceStands, writeMappings
  <2>1. teamMapping'[t] = teamMapping[t]
      BY <1>1 DEF LocksWereSeen, writeMappings, Writable
  <2> QED BY <2>1 DEF OperatorsChoiceStands
<1> QED BY <1>2, <1>4, <1>5

\* The invariant of the mappings, kept by every step of operators and automaps.
THEOREM MappingInductive == MappingSpec => []MappingInv
<1>1. MappingInv /\ [MappingNext]_mappingVars => MappingInv'
  <2> SUFFICES ASSUME MappingInv, [MappingNext]_mappingVars PROVE MappingInv'
      OBVIOUS
  <2>1. CASE UNCHANGED mappingVars
      BY <2>1 DEF mappingVars, MappingInv, MappingTypeOK, LocksWereSeen, OperatorsChoiceStands
  <2>2. ASSUME NEW t \in SourceTeams, NEW a \in AdminTeams, NEW locked \in BOOLEAN,
               saveManualTLineTeamMapping(t, a, locked)
        PROVE  MappingInv'
      BY <2>2, SetsStep DEF saveManualTLineTeamMapping, MappingRow
  <2>3. ASSUME NEW t \in SourceTeams, clearManualTLineTeamMapping(t) PROVE MappingInv'
    <3> DEFINE row == [teamMapping[t] EXCEPT !.status = "MANUAL_UNMAPPED", !.locked = TRUE]
    <3>1. teamMapping[t] \in MappingRow
        BY DEF MappingInv, MappingTypeOK
    <3>2. row \in MappingRow /\ row.status = "MANUAL_UNMAPPED"
        BY <3>1 DEF MappingRow
    <3> QED BY <2>3, <3>2, SetsStep DEF clearManualTLineTeamMapping
  <2>4. ASSUME NEW t \in SourceTeams, unlockTLineTeamMapping(t) PROVE MappingInv'
    <3> DEFINE row == [teamMapping[t] EXCEPT !.status = IF @ = "MANUAL_UNMAPPED" THEN "UNMAPPED" ELSE @,
                                         !.locked = FALSE]
    <3>1. teamMapping[t] \in MappingRow
        BY DEF MappingInv, MappingTypeOK
    <3>2. row \in MappingRow /\ ~row.locked
        BY <3>1 DEF MappingRow
    <3> QED BY <2>4, <3>2, SetsStep DEF unlockTLineTeamMapping
  <2>5. ASSUME NEW r \in Automaps, readMappings(r) PROVE MappingInv'
      BY <2>5 DEF readMappings, MappingInv, MappingTypeOK, LocksWereSeen, OperatorsChoiceStands
  <2> QED BY <2>1, <2>2, <2>3, <2>4, <2>5, WriteStep DEF MappingNext
<1> QED BY <1>1, MappingInitInv, PTL DEF MappingSpec

\* However many automaps run, in any order, what an operator locked stands, unless one had
\* read the team before.
THEOREM LocksHold == MappingSpec => []OperatorsChoiceStands
BY MappingInductive, PTL DEF MappingInv

-----------------------------------------------------------------------------
(* Reviews: a check holds what it read, but for what was decided since.     *)

LinkOf(s) == [source |-> s, admin |-> link[s]]

\* What a check read of an id it still holds, unless a decision was about that id since it began.
ReadsSound ==
    /\ check.stage \in {"compared", "ready"} =>
          \A s \in SourceIds \ decided :
             /\ link[s] # NoMatch => LinkOf(s) \in ToSet(check.links)
             /\ \A l \in ToSet(check.links) : l.source = s => l = LinkOf(s)
    /\ check.stage = "ready" =>
          \A e : (e \in exceptions) # (e \in check.exceptions) => {e.source, e.admin} \subseteq decided \cup {NoMatch}

\* Links name known matches, and what a check read holds.
ReviewInv ==
    /\ link \in [SourceIds -> AdminIds \cup {NoMatch}]
    /\ DOMAIN check = {"stage", "sources", "admins", "links", "exceptions"}
    /\ ReadsSound

\* No check has read anything.
LEMMA ReviewStart == ReviewInit => ReviewInv
BY DEF ReviewInit, ReviewInv, ReadsSound, NoCheck

\* The links a check reads are the active ones, in any order.
LEMMA LinksAreRead ==
    ASSUME NEW links \in SetToSeqs(ActiveLinks)
    PROVE  ToSet(links) = ActiveLinks
<1> DEFINE n == Cardinality(ActiveLinks)
<1>1. IsFiniteSet(ActiveLinks)
  <2> DEFINE linked == {t \in SourceIds : link[t] # NoMatch}
             f == [s \in linked |-> LinkOf(s)]
  <2>1. IsFiniteSet(linked)
      BY ReviewAssumption, FS_Subset
  <2>2. f \in Surjection(linked, ActiveLinks)
      BY DEF Surjection, ActiveLinks, LinkOf
  <2> HIDE DEF linked, f
  <2> QED BY <2>1, <2>2, FS_Surjection
<1>2. n \in Nat /\ IsFiniteSet(1..n) /\ Cardinality(1..n) = n
  <2>1. n \in Nat
      BY <1>1, FS_CardinalityType
  <2> HIDE DEF n
  <2> QED BY <2>1, FS_Interval
<1>3. links \in Injection(1..n, ActiveLinks)
    BY DEF SetToSeqs, Injection, IsInjective
<1>4. links \in Surjection(1..n, ActiveLinks)
    BY <1>1, <1>2, <1>3, FS_Injection
<1> QED BY <1>4 DEF Surjection, ToSet

\* Links are read as they are, in any order.
LEMMA ReadLinksStep ==
    ASSUME ReviewInv, readLinks
    PROVE  ReviewInv'
<1> PICK links \in SetToSeqs(ActiveLinks) : check' = [check EXCEPT !.stage = "compared", !.links = links]
    BY DEF readLinks
<1>1. check'.stage = "compared" /\ check'.links = links /\ DOMAIN check' = DOMAIN check
    BY DEF ReviewInv
<1>2. ToSet(check'.links) = ActiveLinks
    BY <1>1, LinksAreRead
<1>3. UNCHANGED <<link, decided>>
    BY DEF readLinks
<1>4. ReadsSound'
    BY <1>1, <1>2, <1>3 DEF ReadsSound, ActiveLinks, LinkOf
<1> QED BY <1>1, <1>3, <1>4 DEF ReviewInv

\* A decision about ids leaves the links and exceptions of the others alone.
LEMMA DecisionStep ==
    ASSUME ReviewInv, link' \in [SourceIds -> AdminIds \cup {NoMatch}], UNCHANGED check, decided \subseteq decided',
           \A s \in SourceIds \ decided' : link'[s] = link[s],
           \A e : (e \in exceptions') # (e \in exceptions) => {e.source, e.admin} \subseteq decided' \cup {NoMatch}
    PROVE  ReviewInv'
<1>1. ASSUME check.stage \in {"compared", "ready"}, NEW s \in SourceIds \ decided'
      PROVE  /\ link'[s] # NoMatch => LinkOf(s)' \in ToSet(check.links)
             /\ \A l \in ToSet(check.links) : l.source = s => l = LinkOf(s)'
    BY <1>1 DEF ReviewInv, ReadsSound, LinkOf
<1>2. ASSUME check.stage = "ready", NEW e, (e \in exceptions') # (e \in check.exceptions)
      PROVE  {e.source, e.admin} \subseteq decided' \cup {NoMatch}
    BY <1>2 DEF ReviewInv, ReadsSound
<1>3. ReadsSound'
    BY <1>1, <1>2 DEF ReadsSound
<1> QED BY <1>3 DEF ReviewInv

\* A link, an exclusion or a reset is about the ids it changes.
LEMMA DecideStep ==
    ASSUME ReviewInv, NEW source \in SourceIds \cup {NoMatch}, NEW admin \in AdminIds \cup {NoMatch},
           Decide(source, admin)
    PROVE  ReviewInv'
<1> DEFINE touched == About(source, admin)
<1>1. CASE source # NoMatch /\ admin # NoMatch /\ MANUAL_LINK(source, admin)
    BY <1>1, DecisionStep DEF MANUAL_LINK, Decides, ReviewInv
<1>2. ASSUME NEW ids, touched \subseteq ids, decided' = decided \cup (ids \ {NoMatch}),
             NEW added \in SUBSET {[source |-> source, admin |-> admin]},
             exceptions' = Others(source, admin) \cup added
      PROVE  \A e : (e \in exceptions') # (e \in exceptions) => {e.source, e.admin} \subseteq decided' \cup {NoMatch}
  <2>1. ASSUME NEW e, e \in added PROVE e.source = source /\ e.admin = admin
      BY <1>2, <2>1
  <2>2. ASSUME NEW e, e \in exceptions, e \notin Others(source, admin) PROVE {e.source, e.admin} \subseteq touched
      BY <2>2 DEF About
  <2>3. source \in touched /\ admin \in touched
      BY DEF About
  <2> HIDE DEF touched
  <2>4. ASSUME NEW e, (e \in exceptions') # (e \in exceptions) PROVE {e.source, e.admin} \subseteq touched
    <3>1. CASE e \in exceptions' /\ e \notin exceptions
        BY <1>2, <2>1, <2>3, <3>1 DEF Others
    <3>2. CASE e \in exceptions /\ e \notin exceptions'
        BY <1>2, <2>2, <3>2
    <3> QED BY <2>4, <3>1, <3>2
  <2> QED BY <1>2, <2>4
<1>3. CASE exclude(source, admin)
  <2>1. \A e : (e \in exceptions') # (e \in exceptions) => {e.source, e.admin} \subseteq decided' \cup {NoMatch}
      BY <1>2, <1>3 DEF exclude, Decides
  <2> QED BY <1>3, <2>1, DecisionStep DEF exclude, Decides, ReviewInv
<1>4. CASE RESET(source, admin)
  <2> DEFINE ids == touched \cup (IF source = NoMatch THEN {} ELSE {link[source]})
  <2>1. decided' = decided \cup (ids \ {NoMatch}) /\ touched \subseteq ids /\ UNCHANGED check
      BY <1>4 DEF RESET, Decides
  <2>2. exceptions' = Others(source, admin) \cup {}
      BY <1>4 DEF RESET
  <2>3. \A e : (e \in exceptions') # (e \in exceptions) => {e.source, e.admin} \subseteq decided' \cup {NoMatch}
    <3> HIDE DEF ids, touched
    <3> QED BY <1>2, <2>1, <2>2
  <2>4. source \in ids
      BY DEF About
  <2> HIDE DEF ids, touched
  <2>5. link' \in [SourceIds -> AdminIds \cup {NoMatch}]
      BY <1>4 DEF RESET, ReviewInv
  <2>6. \A s \in SourceIds \ decided' : link'[s] = link[s]
      BY <1>4, <2>1, <2>4 DEF RESET, ReviewInv
  <2> QED BY <2>1, <2>3, <2>5, <2>6, DecisionStep
<1> QED BY <1>1, <1>3, <1>4 DEF Decide

\* Every step of checks and operators keeps the invariant.
LEMMA ReviewStep ==
    ASSUME ReviewInv, [ReviewNext]_reviewVars
    PROVE  ReviewInv'
<1>1. CASE UNCHANGED reviewVars
    BY <1>1 DEF reviewVars, ReviewInv, ReadsSound, LinkOf
<1>2. CASE fetchChampionship \/ fetchMatches
  <2>1. DOMAIN check' = DOMAIN check /\ check'.stage \in {"official", "fetched"}
      BY <1>2 DEF fetchChampionship, fetchMatches, ReviewInv, NoCheck
  <2> QED BY <1>2, <2>1 DEF fetchChampionship, fetchMatches, ReviewInv, ReadsSound
<1>3. CASE readExceptions
  <2>1. /\ check'.stage = "ready" /\ check'.links = check.links /\ check'.exceptions = exceptions
        /\ DOMAIN check' = DOMAIN check /\ check.stage = "compared"
      BY <1>3 DEF readExceptions, ReviewInv, InCheck
  <2> QED BY <1>3, <2>1 DEF readExceptions, ReviewInv, ReadsSound, LinkOf
<1>4. CASE persistSourceOnlyEvidence \/ saveComparisons \/ abandonCheck
  <2>1. UNCHANGED link /\ check' = NoCheck
      BY <1>4 DEF persistSourceOnlyEvidence, saveComparisons, abandonCheck
  <2> QED BY <2>1 DEF ReviewInv, ReadsSound, NoCheck
<1>5. ASSUME NEW e \in exceptions, expires(e) PROVE ReviewInv'
    BY <1>5, DecisionStep DEF expires, ReviewInv
<1> QED BY <1>1, <1>2, <1>3, <1>4, <1>5, ReadLinksStep, DecideStep DEF ReviewNext

\* What a check read of links and exceptions is current for every id no decision was about meanwhile.
THEOREM ReadsAreCurrent == ReviewSpec => []ReadsSound
<1>1. ReviewInv => ReadsSound
    BY DEF ReviewInv
<1> QED BY <1>1, ReviewStart, ReviewStep, PTL DEF ReviewSpec

\* In every comparison of both sides a row is ignored exactly when an exception names it, unless an
\* operator decided about its matches meanwhile.
THEOREM ExceptionsAreHeard == ReviewSpec => [][Compares => ExceptionsCount]_reviewVars
<1>1. ASSUME ReviewInv, ReviewNext, Compares PROVE ExceptionsCount
  <2>1. saveComparisons
      BY <1>1 DEF Compares, Saves, InCheck, ReviewNext, fetchChampionship, persistSourceOnlyEvidence,
                  fetchMatches, readLinks, readExceptions, abandonCheck, Decide, MANUAL_LINK,
                  exclude, RESET, Decides, expires
  <2>2. ASSUME NEW v \in Rows', {v.row.source, v.row.admin} \cap decided = {}
        PROVE  v.ignored = (\E e \in exceptions : Concerns(e, v.row))
    <3> PICK row : v = Verdict(row)
        BY <2>1 DEF saveComparisons, Rows
    <3>1. v.row = row /\ v.ignored = (\E e \in check.exceptions : Concerns(e, row))
        BY DEF Verdict
    <3>2. ASSUME NEW e, Concerns(e, row) PROVE e \in exceptions <=> e \in check.exceptions
      <4>1. {e.source, e.admin} \subseteq decided \cup {NoMatch} => FALSE
          BY <2>2, <3>1, <3>2 DEF Concerns
      <4> QED BY <1>1, <2>1, <4>1 DEF saveComparisons, InCheck, ReviewInv, ReadsSound
    <3> QED BY <3>1, <3>2
  <2> QED BY <2>2 DEF ExceptionsCount
<1>2. ReviewInv /\ [ReviewNext]_reviewVars => [Compares => ExceptionsCount]_reviewVars
    BY <1>1
<1> QED BY <1>2, ReviewStart, ReviewStep, PTL DEF ReviewSpec

-----------------------------------------------------------------------------
(* The parser monitor: hosts are asked by one operation at a time.          *)

\* A probe in runProbe.
TaskRow == [stage : {"pending", "attempt", "cleanup", "sleep", "finished"}, attempt : Nat]

MonitorTypeOK ==
    /\ runner \in {"idle", "probing", "failure", "announce", "record", "exit"}
    /\ aborted \in BOOLEAN
    /\ task \in [Probes -> TaskRow]
    /\ live \in SUBSET (Probes \X Nat)
    /\ results \in [Probes -> {"none", "healthy"} \cup Problems]

\* A host belongs to one active probe at most, and one that is quarantined to no probe that has
\* not finished.
HostsApart ==
    /\ \A p, q \in Probes : p \in Active /\ q \in Active /\ HostOf[p] = HostOf[q] => p = q
    /\ \A p \in Probes : ~InStage(p, {"finished"}) => HostOf[p] \notin quarantinedHosts

\* An operation is the last attempt of its probe, which waits for it or has given it up: then its
\* host is quarantined, or nothing starts any more.
LiveSound ==
    \A o \in live :
        /\ o[2] = task[o[1]].attempt
        /\ \/ InStage(o[1], {"attempt", "cleanup"})
           \/ InStage(o[1], {"finished"}) /\ (aborted \/ HostOf[o[1]] \in quarantinedHosts)

AbortSound == aborted => \A p \in Probes : ~InStage(p, {"attempt", "sleep"})

\* Nothing is left of a run when the next one starts.
IdleIsClean == runner = "idle" => live = {} /\ ~aborted /\ \A p \in Probes : InStage(p, {"pending"})

\* What is known of the results while probes run and when the report is announced.
ResultsSound ==
    /\ \A p \in Probes :
          /\ InStage(p, {"finished"}) /\ ~aborted => results[p] # "none"
          /\ results[p] = "healthy" => InStage(p, {"finished"}) /\ \A o \in live : o[1] # p
    /\ runner = "announce" /\ ~failing =>
          \A p \in Probes : InStage(p, {"finished"}) /\ results[p] # "none"

\* The invariant of the probes; how state.json follows the chat does not depend on it.
MonitorInv ==
    /\ MonitorTypeOK /\ HostsApart /\ LiveSound /\ AbortSound /\ IdleIsClean /\ ResultsSound
    /\ OneOperationPerHost

\* The message about to be noted is that of the incidents at hand.
AnnouncementInv == AnnouncedIsSaid /\ (runner = "record" => said = incidents)

\* Nothing runs before the first run.
LEMMA MonitorStart ==
    ASSUME MonitorInit
    PROVE  MonitorInv /\ AnnouncementInv
<1>1. task \in [Probes -> TaskRow] /\ results \in [Probes -> {"none", "healthy"} \cup Problems]
      /\ \A p \in Probes : InStage(p, {"pending"}) /\ results[p] = "none"
    BY DEF MonitorInit, AllPending, NoResults, TaskRow, InStage
<1>2. MonitorTypeOK /\ LiveSound /\ AbortSound /\ IdleIsClean /\ OneOperationPerHost
    BY <1>1 DEF MonitorInit, MonitorTypeOK, LiveSound, AbortSound, IdleIsClean, OneOperationPerHost
<1>3. HostsApart /\ ResultsSound
    BY <1>1 DEF MonitorInit, HostsApart, ResultsSound, Active, InStage
<1> QED BY <1>2, <1>3 DEF MonitorInv, MonitorInit, AnnouncementInv, AnnouncedIsSaid

\* Min picks a probe that may start.
LEMMA MinIsWaiting ==
    ASSUME \E p \in Waiting : Eligible(p)
    PROVE  Min({p \in Waiting : Eligible(p)}) \in {p \in Waiting : Eligible(p)}
<1> DEFINE S == {p \in Waiting : Eligible(p)}
<1>1. S \in SUBSET Nat /\ S # {}
    BY MonitorAssumption DEF Waiting, Probes
<1> HIDE DEF S
<1> DEFINE Less == {ss \in Nat \X Nat : ss[1] < ss[2]}
<1>2. IsWellFoundedOn(Less, Nat)
    BY NatLessThanWellFounded DEF OpToRel
<1>3. \E x \in S : \A y \in S : <<y, x>> \notin Less
    <2> HIDE DEF Less
    <2> QED BY <1>1, <1>2, WFMin
<1>4. \A x, y \in Nat : <<y, x>> \notin Less => x <= y
    OBVIOUS
<1>5. \E x \in S : \A y \in S : x <= y
    <2> HIDE DEF Less
    <2> QED BY <1>1, <1>3, <1>4
<1> SUFFICES Min(S) \in S
    BY DEF S
<1> QED BY <1>5 DEF Min

\* Steps of the process that leave its probes alone, until the report is announced.
LEMMA MonitorAside ==
    ASSUME MonitorInv, UNCHANGED <<Probing, aborted>>, runner' \in {"failure", "announce", "record", "exit"},
           runner' = "announce" /\ ~failing' =>
               \A p \in Probes : InStage(p, {"finished"}) /\ results[p] # "none"
    PROVE  MonitorInv'
<1> USE DEF Probing, InStage
<1>1. MonitorTypeOK' /\ HostsApart' /\ LiveSound' /\ AbortSound' /\ IdleIsClean' /\ OneOperationPerHost'
    BY DEF MonitorInv, MonitorTypeOK, HostsApart, LiveSound, AbortSound, IdleIsClean, OneOperationPerHost, Active
<1>2. ResultsSound'
    BY DEF MonitorInv, ResultsSound
<1> QED BY <1>1, <1>2 DEF MonitorInv

\* A run starts and ends with nothing in it.
LEMMA MonitorCleared ==
    ASSUME MonitorInv, task' = AllPending, quarantinedHosts' = {}, results' = NoResults, live' = {},
           aborted' = FALSE, runner' \in {"idle", "probing", "failure"}
    PROVE  MonitorInv'
BY DEF MonitorInv, MonitorTypeOK, HostsApart, LiveSound, AbortSound, IdleIsClean, ResultsSound,
       OneOperationPerHost, InStage, Active, AllPending, NoResults, TaskRow, Problems

\* An attempt begins at a host nobody is at.
LEMMA AttemptStep ==
    ASSUME MonitorInv, NEW p \in Probes, NEW n \in Nat, StartsAttempt(p, n), ~aborted,
           InStage(p, {"pending", "sleep"}),
           \A q \in Active \ {p} : HostOf[q] # HostOf[p],
           UNCHANGED <<runner, quarantinedHosts, results, aborted, Announcing>>,
           runner # "idle"
    PROVE  MonitorInv'
<1> USE DEF InStage
<1>1. /\ task' \in [Probes -> TaskRow]
      /\ task'[p].stage = "attempt" /\ task'[p].attempt = n
      /\ \A q \in Probes : q # p => task'[q] = task[q]
      /\ live' = live \cup {<<p, n>>}
    BY DEF StartsAttempt, MonitorInv, MonitorTypeOK, TaskRow
<1>2. MonitorTypeOK'
    BY <1>1 DEF MonitorInv, MonitorTypeOK
<1>3. HostOf[p] \notin quarantinedHosts
    BY DEF MonitorInv, HostsApart
<1>4. HostsApart'
    BY <1>1, <1>3 DEF MonitorInv, HostsApart, Active
<1>5. \A o \in live : o[1] \in Probes /\ o[1] # p /\ HostOf[o[1]] # HostOf[p]
    BY <1>3 DEF MonitorInv, MonitorTypeOK, LiveSound, Active
<1>6. LiveSound'
    BY <1>1, <1>5 DEF MonitorInv, LiveSound
<1>7. OneOperationPerHost'
    BY <1>1, <1>5 DEF MonitorInv, OneOperationPerHost
<1>8. AbortSound' /\ IdleIsClean'
    BY DEF MonitorInv, AbortSound, IdleIsClean
<1>9. ResultsSound'
    BY <1>1 DEF MonitorInv, ResultsSound, Announcing
<1> QED BY <1>2, <1>4, <1>6, <1>7, <1>8, <1>9 DEF MonitorInv

\* Steps of one probe that start no operation: one ends, or its probe waits for it or gives it up.
LEMMA ProbeStep ==
    ASSUME MonitorInv, NEW p \in Probes, NEW row \in TaskRow, NEW result \in {"none", "healthy"} \cup Problems,
           NEW ended \in SUBSET live,
           InStage(p, {"attempt", "cleanup"}),
           task' = [task EXCEPT ![p] = row], row.attempt = task[p].attempt,
           row.stage \in {"cleanup", "sleep", "finished"},
           results' = [results EXCEPT ![p] = result],
           live' = live \ ended,
           row.stage # "cleanup" => (\A o \in live : o[1] = p => o \in ended) \/ (aborted /\ row.stage = "finished"),
           aborted => row.stage # "sleep",
           row.stage = "finished" /\ ~aborted => result # "none",
           result = "healthy" => row.stage = "finished" /\ \A o \in live : o[1] = p => o \in ended,
           UNCHANGED <<runner, quarantinedHosts, aborted, Announcing>>
    PROVE  MonitorInv'
<1> USE DEF InStage
<1>1. /\ task' \in [Probes -> TaskRow] /\ task'[p] = row
      /\ \A q \in Probes : q # p => task'[q] = task[q]
      /\ results' \in [Probes -> {"none", "healthy"} \cup Problems] /\ results'[p] = result
      /\ \A q \in Probes : q # p => results'[q] = results[q]
    BY DEF MonitorInv, MonitorTypeOK
<1>2. MonitorTypeOK'
    BY <1>1 DEF MonitorInv, MonitorTypeOK
<1>3. HostsApart'
    BY <1>1 DEF MonitorInv, HostsApart, Active
<1>4. \A o \in live : o[1] \in Probes
    BY DEF MonitorInv, MonitorTypeOK
<1>5. ASSUME NEW o \in live, o \notin ended
      PROVE  /\ o[2] = task'[o[1]].attempt
             /\ \/ task'[o[1]].stage \in {"attempt", "cleanup"}
                \/ task'[o[1]].stage = "finished" /\ (aborted \/ HostOf[o[1]] \in quarantinedHosts)
  <2>1. CASE o[1] = p
      BY <1>1, <1>5, <2>1 DEF MonitorInv, LiveSound
  <2>2. CASE o[1] # p
      BY <1>1, <1>4, <1>5, <2>2 DEF MonitorInv, LiveSound
  <2> QED BY <2>1, <2>2
<1>6. LiveSound'
    BY <1>5 DEF LiveSound
<1>7. OneOperationPerHost' /\ AbortSound' /\ IdleIsClean'
    BY <1>1 DEF MonitorInv, OneOperationPerHost, AbortSound, IdleIsClean
<1>8. ResultsSound'
    BY <1>1 DEF MonitorInv, ResultsSound, Announcing
<1> QED BY <1>2, <1>3, <1>6, <1>7, <1>8 DEF MonitorInv

\* Only the last attempt of a probe runs.
LEMMA LastAttemptOnly ==
    ASSUME MonitorInv, NEW p \in Probes, NEW o \in live, o[1] = p
    PROVE  o = <<p, task[p].attempt>>
BY DEF MonitorInv, MonitorTypeOK, LiveSound

\* How an attempt ends.
LEMMA ConcludesStep ==
    ASSUME MonitorInv, NEW p \in Probes, NEW status \in {"healthy"} \cup Problems,
           InStage(p, {"attempt", "cleanup"}), ~aborted,
           Concludes(p, status), live' = live \ {<<p, task[p].attempt>>},
           UNCHANGED <<runner, quarantinedHosts, aborted, Announcing>>
    PROVE  MonitorInv'
<1> DEFINE stopped(stage) == [task[p] EXCEPT !.stage = stage]
<1>1. ASSUME NEW stage \in {"sleep", "finished"}
      PROVE  stopped(stage) \in TaskRow /\ stopped(stage).stage = stage /\ stopped(stage).attempt = task[p].attempt
    BY DEF MonitorInv, MonitorTypeOK, TaskRow
<1> DEFINE ended == live \cap {<<p, task[p].attempt>>}
<1>2. /\ ended \in SUBSET live /\ live' = live \ ended
      /\ \A o \in live : o[1] = p => o \in ended
    BY LastAttemptOnly
<1>3. CASE NeedsRetry(p, status) /\ ~LastAttempt(p)
  <2>1. task' = [task EXCEPT ![p] = stopped("sleep")] /\ results' = results
      BY <1>3 DEF Concludes
  <2>2. results' = [results EXCEPT ![p] = results[p]] /\ results[p] \in {"none", "healthy"} \cup Problems
        /\ results[p] # "healthy"
      BY <2>1 DEF MonitorInv, MonitorTypeOK, ResultsSound, InStage
  <2>3. stopped("sleep") \in TaskRow /\ stopped("sleep").stage = "sleep" /\ stopped("sleep").attempt = task[p].attempt
      BY <1>1
  <2> HIDE DEF stopped, ended
  <2> QED BY <1>2, <2>1, <2>2, <2>3, ProbeStep
<1>4. CASE ~(NeedsRetry(p, status) /\ ~LastAttempt(p))
  <2>1. task' = [task EXCEPT ![p] = stopped("finished")] /\ results' = [results EXCEPT ![p] = status]
      BY <1>4 DEF Concludes
  <2>2. status \in {"none", "healthy"} \cup Problems /\ status # "none"
      BY DEF Problems
  <2>3. stopped("finished") \in TaskRow /\ stopped("finished").stage = "finished"
        /\ stopped("finished").attempt = task[p].attempt
      BY <1>1
  <2> HIDE DEF stopped, ended
  <2> QED BY <1>2, <2>1, <2>2, <2>3, ProbeStep
<1> QED BY <1>3, <1>4

\* The adapter's answer counts only while nothing aborted its attempt.
LEMMA AnswersStep ==
    ASSUME MonitorInv, NEW p \in Probes, answers(p)
    PROVE  MonitorInv'
<1>1. ~aborted
    BY DEF answers, MonitorInv, AbortSound, InStage
<1> QED BY <1>1, ConcludesStep DEF answers, InStage

\* A timeout leaves the operation running: its probe waits for it.
LEMMA TimesOutStep ==
    ASSUME MonitorInv, NEW p \in Probes, timesOut(p)
    PROVE  MonitorInv'
<1> DEFINE row == [task[p] EXCEPT !.stage = "cleanup"]
<1>1. row \in TaskRow /\ row.stage = "cleanup" /\ row.attempt = task[p].attempt
    BY DEF MonitorInv, MonitorTypeOK, TaskRow
<1>2. task' = [task EXCEPT ![p] = row] /\ live' = live \ {}
      /\ results' = [results EXCEPT ![p] = results[p]] /\ results[p] \in {"none", "healthy"} \cup Problems
    BY DEF timesOut, AwaitsCleanup, MonitorInv, MonitorTypeOK
<1>3. results[p] # "healthy" /\ InStage(p, {"attempt", "cleanup"}) /\ {} \in SUBSET live
    BY DEF timesOut, MonitorInv, ResultsSound, InStage
<1> HIDE DEF row
<1> QED BY <1>1, <1>2, <1>3, ProbeStep DEF timesOut

\* The operation that was aborted settles, and its attempt is concluded.
LEMMA CleansUpStep ==
    ASSUME MonitorInv, NEW p \in Probes, cleansUp(p)
    PROVE  MonitorInv'
<1>1. CASE ~aborted
    BY <1>1, ConcludesStep DEF cleansUp, InStage, Problems
<1>2. CASE aborted
  <2> DEFINE row == [task[p] EXCEPT !.stage = "finished"]
  <2>1. row \in TaskRow /\ row.stage = "finished" /\ row.attempt = task[p].attempt
      BY DEF MonitorInv, MonitorTypeOK, TaskRow
  <2>2. task' = [task EXCEPT ![p] = row] /\ results' = [results EXCEPT ![p] = results[p]]
        /\ results[p] \in {"none", "healthy"} \cup Problems
      BY <1>2 DEF cleansUp, MonitorInv, MonitorTypeOK
  <2>3. results[p] # "healthy" /\ InStage(p, {"attempt", "cleanup"})
      BY DEF cleansUp, MonitorInv, ResultsSound, InStage
  <2>4. live' = live \ (live \cap {<<p, task[p].attempt>>})
      BY DEF cleansUp
  <2> HIDE DEF row
  <2> QED BY <1>2, <2>1, <2>2, <2>3, <2>4, ProbeStep DEF cleansUp
<1> QED BY <1>1, <1>2

\* An operation given up settles.
LEMMA SettlesLateStep ==
    ASSUME MonitorInv, NEW p \in Probes, NEW n \in Nat, settlesLate(p, n)
    PROVE  MonitorInv'
<1>1. live' \subseteq live
    BY DEF settlesLate
<1>2. MonitorTypeOK' /\ LiveSound' /\ OneOperationPerHost' /\ IdleIsClean'
    BY <1>1 DEF settlesLate, MonitorInv, MonitorTypeOK, LiveSound, OneOperationPerHost, IdleIsClean, InStage
<1>3. HostsApart' /\ AbortSound' /\ ResultsSound'
    BY <1>1 DEF settlesLate, MonitorInv, HostsApart, AbortSound, ResultsSound, InStage, Active, Announcing
<1> QED BY <1>2, <1>3 DEF MonitorInv

\* An operation outlives the grace: its host is closed to the probes of this run.
LEMMA GraceOverStep ==
    ASSUME MonitorInv, NEW p \in Probes, graceOver(p)
    PROVE  MonitorInv'
<1> USE DEF InStage
<1>1. CASE aborted
  <2> DEFINE row == [task[p] EXCEPT !.stage = "finished"]
  <2>1. row \in TaskRow /\ row.stage = "finished" /\ row.attempt = task[p].attempt
      BY DEF MonitorInv, MonitorTypeOK, TaskRow
  <2>2. task' = [task EXCEPT ![p] = row] /\ results' = [results EXCEPT ![p] = results[p]]
        /\ results[p] \in {"none", "healthy"} \cup Problems
      BY <1>1 DEF graceOver, MonitorInv, MonitorTypeOK
  <2>3. results[p] # "healthy" /\ InStage(p, {"attempt", "cleanup"})
      BY DEF graceOver, MonitorInv, ResultsSound
  <2>4. live' = live \ {} /\ {} \in SUBSET live
      BY DEF graceOver
  <2> HIDE DEF row
  <2> QED BY <1>1, <2>1, <2>2, <2>3, <2>4, ProbeStep DEF graceOver
<1>2. CASE ~aborted
  <2> DEFINE given == {q \in Probes : q = p \/ (q \in Waiting /\ HostOf[q] = HostOf[p])}
  <2>1. /\ quarantinedHosts' = quarantinedHosts \cup {HostOf[p]}
        /\ \A q \in Probes : task'[q] = IF q \in given THEN [task[q] EXCEPT !.stage = "finished"] ELSE task[q]
        /\ \A q \in Probes : results'[q] = IF q \in given THEN "failed" ELSE results[q]
        /\ DOMAIN task' = Probes /\ DOMAIN results' = Probes
        /\ task' = [q \in Probes |-> task'[q]] /\ results' = [q \in Probes |-> results'[q]]
      BY <1>2 DEF graceOver, GivesUp, Waiting
  <2>2. \A q \in Probes : task[q] \in TaskRow /\ results[q] \in {"none", "healthy"} \cup Problems
      BY DEF MonitorInv, MonitorTypeOK
  <2>3. \A q \in given :
           /\ task'[q] \in TaskRow /\ task'[q].stage = "finished" /\ task'[q].attempt = task[q].attempt
           /\ results'[q] = "failed" /\ task[q].stage # "finished" /\ HostOf[q] = HostOf[p]
      BY <2>1, <2>2 DEF TaskRow, graceOver, Waiting
  <2>4. \A q \in Probes \ given : task'[q] = task[q] /\ results'[q] = results[q]
      BY <2>1
  <2>5. \A q \in Probes \ given : task[q].stage # "finished" => HostOf[q] # HostOf[p]
      BY <2>2 DEF MonitorInv, HostsApart, Active, Waiting, TaskRow, graceOver
  <2> HIDE DEF given
  <2>6. given \in SUBSET Probes /\ p \in given
      BY DEF given
  <2>7. MonitorTypeOK'
    <3>1. \A q \in Probes : task'[q] \in TaskRow /\ results'[q] \in {"none", "healthy"} \cup Problems
        BY <2>2, <2>3, <2>4 DEF Problems
    <3>2. task' \in [Probes -> TaskRow] /\ results' \in [Probes -> {"none", "healthy"} \cup Problems]
        BY <2>1, <3>1
    <3> QED BY <3>2 DEF graceOver, MonitorInv, MonitorTypeOK
  <2>8. HostsApart'
      BY <2>1, <2>3, <2>4, <2>5 DEF MonitorInv, HostsApart, Active
  <2>9. \A o \in live : o[1] \in Probes
      BY DEF MonitorInv, MonitorTypeOK
  <2>10. LiveSound'
    <3>1. ASSUME NEW o \in live, o[1] \in given
          PROVE  o[2] = task'[o[1]].attempt /\ task'[o[1]].stage = "finished" /\ HostOf[o[1]] \in quarantinedHosts'
        BY <2>1, <2>3, <3>1 DEF MonitorInv, LiveSound
    <3>2. ASSUME NEW o \in live, o[1] \notin given
          PROVE  task'[o[1]] = task[o[1]] /\ (HostOf[o[1]] \in quarantinedHosts => HostOf[o[1]] \in quarantinedHosts')
        BY <2>1, <2>4, <2>9, <3>2
    <3> QED BY <3>1, <3>2 DEF MonitorInv, LiveSound, graceOver
  <2>11. OneOperationPerHost' /\ AbortSound' /\ IdleIsClean'
      BY <1>2 DEF graceOver, MonitorInv, OneOperationPerHost, AbortSound, IdleIsClean
  <2>12. ResultsSound'
      BY <1>2, <2>3, <2>4, <2>6 DEF graceOver, MonitorInv, ResultsSound, Announcing
  <2> QED BY <2>7, <2>8, <2>10, <2>11, <2>12 DEF MonitorInv
<1> QED BY <1>1, <1>2

\* SIGTERM: what runs is aborted, what sleeps is given up, and nothing starts any more.
LEMMA AbortStep ==
    ASSUME MonitorInv, abort
    PROVE  MonitorInv'
<1> USE DEF InStage
<1>1. \A p \in Probes : task[p] \in TaskRow
    BY DEF MonitorInv, MonitorTypeOK
<1>2. \A p \in Probes :
         /\ task'[p] \in TaskRow /\ task'[p].attempt = task[p].attempt
         /\ task[p].stage = "attempt" => task'[p].stage = "cleanup"
         /\ task[p].stage = "sleep" => task'[p].stage = "finished"
         /\ task[p].stage \notin {"attempt", "sleep"} => task'[p].stage = task[p].stage
    BY <1>1 DEF abort, TaskRow
<1>3. MonitorTypeOK'
  <2>1. task' \in [Probes -> TaskRow]
      BY <1>2 DEF abort
  <2> QED BY <2>1 DEF abort, MonitorInv, MonitorTypeOK
<1>4. HostsApart'
    BY <1>1, <1>2 DEF abort, MonitorInv, HostsApart, Active
<1>5. \A o \in live : o[1] \in Probes
    BY DEF MonitorInv, MonitorTypeOK
<1>6. LiveSound' /\ AbortSound'
    BY <1>1, <1>2, <1>5 DEF abort, MonitorInv, LiveSound, AbortSound
<1>7. OneOperationPerHost' /\ IdleIsClean'
    BY DEF abort, MonitorInv, OneOperationPerHost, IdleIsClean
<1>8. ResultsSound'
    BY <1>2 DEF abort, MonitorInv, ResultsSound, Announcing
<1> QED BY <1>3, <1>4, <1>6, <1>7, <1>8 DEF MonitorInv

\* The free slot goes to a probe whose host is free.
LEMMA StartProbeStep ==
    ASSUME MonitorInv, startProbe
    PROVE  MonitorInv'
<1> DEFINE p == Min({q \in Waiting : Eligible(q)})
<1>1. p \in Waiting /\ Eligible(p)
    BY MinIsWaiting DEF startProbe
<1>2. StartsAttempt(p, 1) /\ UNCHANGED <<runner, quarantinedHosts, results, aborted, Announcing>>
      /\ runner = "probing" /\ ~aborted
    BY DEF startProbe
<1> HIDE DEF p
<1>3. InStage(p, {"pending", "sleep"}) /\ p \in Probes
    BY <1>1 DEF Waiting, InStage
<1>4. \A q \in Active \ {p} : HostOf[q] # HostOf[p]
    BY <1>1 DEF Eligible
<1> QED BY <1>2, <1>3, <1>4, AttemptStep

\* A retry meets nobody at its host: its own first attempt has settled.
LEMMA WakesStep ==
    ASSUME MonitorInv, NEW p \in Probes, wakes(p)
    PROVE  MonitorInv'
<1>1. ~aborted
    BY DEF wakes, MonitorInv, AbortSound, InStage
<1>2. p \in Active /\ \A q \in Active \ {p} : HostOf[q] # HostOf[p]
    BY DEF wakes, MonitorInv, HostsApart, Active, InStage
<1>3. task[p].attempt + 1 \in Nat
    BY DEF MonitorInv, MonitorTypeOK, TaskRow
<1>4. runner # "idle"
    BY DEF wakes, MonitorInv, IdleIsClean, InStage
<1> QED BY <1>1, <1>2, <1>3, <1>4, AttemptStep DEF wakes, InStage

\* Every step of the monitor keeps its invariant.
LEMMA MonitorStep ==
    ASSUME MonitorInv, [MonitorNext]_monitorVars
    PROVE  MonitorInv'
<1>1. CASE UNCHANGED monitorVars
    BY <1>1 DEF monitorVars, MonitorInv, MonitorTypeOK, HostsApart, LiveSound, AbortSound, IdleIsClean, ResultsSound,
                OneOperationPerHost, InStage, Active
<1>2. CASE startRun
  <2>1. live' = {} /\ aborted' = FALSE
      BY <1>2 DEF startRun, MonitorInv, MonitorTypeOK, IdleIsClean
  <2> QED BY <1>2, <2>1, MonitorCleared DEF startRun
<1>3. CASE unwind
    BY <1>3, MonitorAside DEF unwind
<1>4. CASE writeReport
  <2>1. \A p \in Probes : InStage(p, {"finished"}) /\ results[p] # "none"
      BY <1>4 DEF writeReport, MonitorInv, MonitorTypeOK, ResultsSound, Active, Waiting, InStage, TaskRow
  <2> QED BY <1>4, <2>1, MonitorAside DEF writeReport
<1>5. CASE runnerFailure
    BY <1>5, MonitorAside DEF runnerFailure
<1>6. CASE sendTelegramMessage \/ sendFails \/ noTransition \/ persistState
    BY <1>6, MonitorAside DEF sendTelegramMessage, sendFails, noTransition, persistState, AfterError, AfterFailure,
                              Thrown, Announcing
<1>7. CASE exit \/ killed
    BY <1>7, MonitorCleared DEF exit, killed
<1> QED BY <1>1, <1>2, <1>3, <1>4, <1>5, <1>6, <1>7, StartProbeStep, AnswersStep, TimesOutStep, CleansUpStep,
           GraceOverStep, WakesStep, SettlesLateStep, AbortStep DEF MonitorNext

\* The invariant of the monitor, for any probes and hosts, however adapters, SIGTERM and kills interleave.
THEOREM MonitorInductive == MonitorSpec => []MonitorInv
BY MonitorStart, MonitorStep, PTL DEF MonitorSpec

\* No host is asked twice at a time, and the report names every probe.
THEOREM ProbesAreSound == MonitorSpec => []ProbingIsSound
<1>1. MonitorInv => ProbingIsSound
    BY DEF MonitorInv, MonitorTypeOK, ProbingIsSound, ReportIsWhole, ResultsSound, HostsApart, Eligible, Waiting, InStage
<1> QED BY <1>1, MonitorInductive, PTL

\* A message and the note of it are of the same incidents.
LEMMA AnnouncementStep ==
    ASSUME AnnouncementInv, [MonitorNext]_monitorVars
    PROVE  AnnouncementInv'
<1> USE DEF AnnouncementInv, AnnouncedIsSaid, Announcing
<1>1. CASE UNCHANGED monitorVars
    BY <1>1 DEF monitorVars
<1>2. CASE startRun \/ startProbe \/ abort \/ unwind
    BY <1>2 DEF startRun, startProbe, abort, unwind
<1>3. ASSUME NEW p \in Probes,
             \/ answers(p) \/ timesOut(p) \/ cleansUp(p) \/ graceOver(p) \/ wakes(p)
             \/ \E n \in 1..MaxAttempts : settlesLate(p, n)
      PROVE  AnnouncementInv'
    BY <1>3 DEF answers, timesOut, cleansUp, graceOver, wakes, settlesLate
<1>4. CASE writeReport \/ runnerFailure \/ exit \/ killed
    BY <1>4 DEF writeReport, runnerFailure, exit, killed
<1>5. CASE sendTelegramMessage
    BY <1>5 DEF sendTelegramMessage
<1>6. CASE sendFails \/ noTransition
    BY <1>6 DEF sendFails, noTransition, AfterError, AfterFailure, Thrown
<1>7. CASE persistState
    BY <1>7 DEF persistState, AfterFailure, Thrown
<1> QED BY <1>1, <1>2, <1>3, <1>4, <1>5, <1>6, <1>7 DEF MonitorNext

\* state.json holds what the chat was told last, unless a run was cut off after its message.
THEOREM AnnouncementsAreSaid == MonitorSpec => []AnnouncedIsSaid
<1>1. AnnouncementInv => AnnouncedIsSaid
    BY DEF AnnouncementInv
<1> QED BY <1>1, MonitorStart, AnnouncementStep, PTL DEF MonitorSpec

-----------------------------------------------------------------------------
(* The consultant: questions are settled, paid once and counted.            *)

UsageRow == [date : Nat, requests : Nat]
PaidRow == [update : Nat, date : Nat, recorded : BOOLEAN]

\* The answers of a log that are recorded for a date.
RecordedIn(log, d) == {i \in DOMAIN log : log[i].recorded /\ log[i].date = d}

\* A usage counts the recorded answers of its date, and none is recorded for a later one.
CountedIn(usage, log, today) ==
    /\ usage \in UsageRow /\ usage.date <= today
    /\ usage.requests = Cardinality(RecordedIn(log, usage.date))
    /\ \A i \in DOMAIN log : log[i].recorded => log[i].date <= usage.date

BudgetKeptIn(log) == \A d \in Nat : Cardinality(RecordedIn(log, d)) <= MaxRequestsPerDay

PaidOnceIn(log) == \A i, j \in DOMAIN log : i < j /\ log[i].recorded => log[j].update # log[i].update

SettledIn(u, done, old) == u \in done \/ u <= old

\* Below an offset all updates are settled, and those whose answers are recorded lie below it.
OffsetIn(next, log, done, old, top) ==
    /\ next \in Nat /\ next <= top + 1
    /\ \A i \in DOMAIN log : log[i].recorded => log[i].update < next
    /\ \A u \in Nat \ {0} : u < next => SettledIn(u, done, old)

Consecutive(b) == \A i \in DOMAIN b : b[i] = b[1] + (i - 1)

\* Updates to be processed in order, from the first that may not be settled.
BatchIn(b, done, old, top) ==
    /\ b \in Seq(Nat) /\ Consecutive(b)
    /\ \A i \in DOMAIN b : b[i] >= 1 /\ b[i] <= top
    /\ b # <<>> => \A u \in Nat \ {0} : u < b[1] => SettledIn(u, done, old)

\* What a sequence holds, and where it ends.
LEMMA ElementsOfLog ==
    ASSUME NEW S, NEW log \in Seq(S)
    PROVE  /\ \A i \in DOMAIN log : log[i] \in S
           /\ DOMAIN log = 1..Len(log) /\ Len(log) \in Nat
           /\ log # <<>> => Len(log) \in DOMAIN log
OBVIOUS

\* A function on 1..n is a sequence.
LEMMA SequenceOfElements ==
    ASSUME NEW S, NEW n \in Nat, NEW f, f = [i \in 1..n |-> f[i]], \A i \in 1..n : f[i] \in S
    PROVE  f \in Seq(S)
OBVIOUS

\* The recorded answers of a date can be counted.
LEMMA RecordedIsFinite ==
    ASSUME NEW log \in Seq(PaidRow), NEW d
    PROVE  IsFiniteSet(RecordedIn(log, d))
<1>1. IsFiniteSet(1..Len(log))
    BY FS_Interval
<1>2. RecordedIn(log, d) \in SUBSET (1..Len(log))
    BY DEF RecordedIn
<1> QED BY <1>1, <1>2, FS_Subset

\* At midnight the count starts anew.
LEMMA NormalizedIsCounted ==
    ASSUME NEW today \in Nat, NEW log \in Seq(PaidRow), NEW usage, CountedIn(usage, log, today)
    PROVE  CountedIn(normalizeDailyUsage(usage, today), log, today)
<1>1. CASE usage.date = today
    BY <1>1 DEF normalizeDailyUsage
<1>2. CASE usage.date # today
  <2>1. normalizeDailyUsage(usage, today) = [date |-> today, requests |-> 0]
      BY <1>2 DEF normalizeDailyUsage, emptyDailyUsage
  <2>2. usage.date \in Nat /\ usage.date < today
      BY <1>2 DEF CountedIn, UsageRow
  <2>3. \A i \in DOMAIN log : log[i].date \in Nat
    <3>1. \A i \in DOMAIN log : log[i] \in PaidRow
        BY ElementsOfLog
    <3> QED BY <3>1 DEF PaidRow
  <2>4. RecordedIn(log, today) = {}
      BY <2>2, <2>3 DEF CountedIn, RecordedIn
  <2>5. Cardinality(RecordedIn(log, today)) = 0
      BY <2>4, FS_EmptySet
  <2>6. \A i \in DOMAIN log : log[i].recorded => log[i].date <= today
      BY <2>2, <2>3 DEF CountedIn
  <2> QED BY <2>1, <2>5, <2>6 DEF CountedIn, UsageRow
<1> QED BY <1>1, <1>2

\* An answer that is paid and not recorded changes no count.
LEMMA PaidIsUncounted ==
    ASSUME NEW log \in Seq(PaidRow), NEW row \in PaidRow, ~row.recorded
    PROVE  /\ Append(log, row) \in Seq(PaidRow)
           /\ Append(log, row) # <<>> /\ Append(log, row)[Len(Append(log, row))] = row
           /\ \A d : RecordedIn(Append(log, row), d) = RecordedIn(log, d)
           /\ \A i \in DOMAIN Append(log, row) : Append(log, row)[i].recorded =>
                 i \in DOMAIN log /\ log[i] = Append(log, row)[i]
           /\ \A i \in DOMAIN log : Append(log, row)[i] = log[i]
           /\ DOMAIN Append(log, row) = DOMAIN log \cup {Len(log) + 1}
<1> DEFINE longer == Append(log, row)
<1>1. /\ longer \in Seq(PaidRow) /\ Len(longer) = Len(log) + 1 /\ Len(log) \in Nat
      /\ \A i \in 1..Len(log) : longer[i] = log[i]
      /\ longer[Len(log) + 1] = row
      /\ DOMAIN longer = 1..(Len(log) + 1) /\ DOMAIN log = 1..Len(log)
    OBVIOUS
<1>2. DOMAIN longer = DOMAIN log \cup {Len(log) + 1} /\ longer # <<>>
    BY <1>1
<1> HIDE DEF longer
<1>3. \A i \in DOMAIN longer : longer[i].recorded => i \in DOMAIN log /\ log[i] = longer[i]
    BY <1>1, <1>2
<1>4. \A d : RecordedIn(longer, d) = RecordedIn(log, d)
    BY <1>1, <1>2, <1>3 DEF RecordedIn
<1> QED BY <1>1, <1>2, <1>3, <1>4 DEF longer

\* Recording the last answer counts it, for its date only.
LEMMA RecordingCounts ==
    ASSUME NEW today \in Nat, NEW log \in Seq(PaidRow), log # <<>>, ~log[Len(log)].recorded,
           NEW usage, CountedIn(usage, log, today), log[Len(log)].date = usage.date,
           usage.requests < MaxRequestsPerDay, BudgetKeptIn(log)
    PROVE  LET marked == [log EXCEPT ![Len(log)].recorded = TRUE]
           IN  /\ marked \in Seq(PaidRow) /\ DOMAIN marked = DOMAIN log
               /\ \A i \in DOMAIN log : marked[i].update = log[i].update
               /\ \A i \in DOMAIN log : marked[i].recorded => i = Len(log) \/ log[i].recorded
               /\ CountedIn(recordTokenUsage(usage), marked, today)
               /\ BudgetKeptIn(marked)
<1> DEFINE last == Len(log)
           marked == [log EXCEPT ![Len(log)].recorded = TRUE]
<1>1. /\ last \in DOMAIN log /\ \A i \in DOMAIN log : log[i] \in PaidRow
      /\ DOMAIN marked = DOMAIN log
      /\ marked[last] = [log[last] EXCEPT !.recorded = TRUE]
      /\ \A i \in DOMAIN log : i # last => marked[i] = log[i]
      /\ marked = [i \in DOMAIN log |-> marked[i]]
    BY ElementsOfLog
<1>2. /\ marked[last] \in PaidRow /\ marked[last].update = log[last].update
      /\ marked[last].date = log[last].date /\ marked[last].recorded
    BY <1>1 DEF PaidRow
<1>3. marked \in Seq(PaidRow)
  <2>1. \A i \in DOMAIN log : marked[i] \in PaidRow
      BY <1>1, <1>2
  <2>2. DOMAIN log = 1..last /\ last \in Nat
      BY ElementsOfLog
  <2> HIDE DEF marked
  <2> QED BY <1>1, <2>1, <2>2, SequenceOfElements
<1> HIDE DEF last, marked
<1>4. RecordedIn(marked, usage.date) = RecordedIn(log, usage.date) \cup {last} /\ last \notin RecordedIn(log, usage.date)
    BY <1>1, <1>2 DEF RecordedIn, last
<1>5. Cardinality(RecordedIn(marked, usage.date)) = usage.requests + 1
    BY <1>4, RecordedIsFinite, FS_AddElement DEF CountedIn
<1>6. \A d : d # usage.date => RecordedIn(marked, d) = RecordedIn(log, d)
    BY <1>1, <1>2 DEF RecordedIn, last
<1>7. usage.requests \in Nat /\ usage.date \in Nat
    BY DEF CountedIn, UsageRow
<1>8. BudgetKeptIn(marked)
    BY <1>5, <1>6, <1>7, ConsultantAssumption DEF BudgetKeptIn
<1>9. recordTokenUsage(usage) \in UsageRow /\ recordTokenUsage(usage).date = usage.date
      /\ recordTokenUsage(usage).requests = usage.requests + 1
    BY DEF CountedIn, UsageRow, recordTokenUsage
<1>10. \A i \in DOMAIN marked : marked[i].recorded => marked[i].date <= usage.date
  <2>1. marked[last].date <= usage.date
      BY <1>2, <1>7 DEF last
  <2> QED BY <1>1, <2>1 DEF CountedIn
<1>11. CountedIn(recordTokenUsage(usage), marked, today)
    BY <1>5, <1>9, <1>10 DEF CountedIn
<1> QED BY <1>1, <1>2, <1>3, <1>8, <1>11 DEF last, marked

\* The updates after the first of a batch.
LEMMA TailOfBatch ==
    ASSUME NEW b \in Seq(Nat), Consecutive(b), b # <<>>
    PROVE  /\ Tail(b) \in Seq(Nat) /\ Consecutive(Tail(b))
           /\ Tail(b) # <<>> => Tail(b)[1] = b[1] + 1
           /\ \A i \in DOMAIN Tail(b) : \E j \in DOMAIN b : Tail(b)[i] = b[j]
           /\ b[1] \in Nat /\ 1 \in DOMAIN b /\ Head(b) = b[1]
<1>1. /\ Tail(b) \in Seq(Nat) /\ Len(b) \in Nat /\ Len(b) >= 1 /\ DOMAIN b = 1..Len(b)
      /\ DOMAIN Tail(b) = 1..(Len(b) - 1)
      /\ \A i \in 1..(Len(b) - 1) : Tail(b)[i] = b[i + 1]
      /\ Head(b) = b[1] /\ b[1] \in Nat
    OBVIOUS
<1>2. \A i \in 1..(Len(b) - 1) : i \in Nat /\ i >= 1 /\ i + 1 \in 1..Len(b) /\ (i + 1) - 1 = i
    BY <1>1
<1>3. \A i \in DOMAIN Tail(b) : Tail(b)[i] = b[1] + i /\ i \in Nat
    BY <1>1, <1>2 DEF Consecutive
<1>4. Tail(b) # <<>> => 1 \in DOMAIN Tail(b)
    BY <1>1
<1>5. Consecutive(Tail(b))
  <2>1. ASSUME NEW i \in DOMAIN Tail(b) PROVE Tail(b)[i] = Tail(b)[1] + (i - 1)
    <3>1. 1 \in DOMAIN Tail(b)
        BY <1>1, <1>2
    <3>2. Tail(b)[i] = b[1] + i /\ Tail(b)[1] = b[1] + 1 /\ i \in Nat /\ b[1] \in Nat
        BY <1>1, <1>3, <3>1
    <3> QED BY <3>2
  <2> QED BY <2>1 DEF Consecutive
<1>6. \A i \in DOMAIN Tail(b) : \E j \in DOMAIN b : Tail(b)[i] = b[j]
    BY <1>1, <1>2
<1>7. 1 \in DOMAIN b
    BY <1>1
<1>8. Tail(b) # <<>> => Tail(b)[1] = b[1] + 1
    BY <1>3, <1>4
<1> QED BY <1>1, <1>5, <1>6, <1>7, <1>8

Fields == {"step", "next", "usage", "batch", "asked", "key"}
Idle == {"down", "first", "poll"}
Asked == {"request", "record", "failed"}

\* Telegram, the clock and the histories; the properties themselves are part of the invariant.
OutsideSound ==
    /\ arrived \in 0..LastUpdate /\ forgotten \in 0..arrived /\ backlog \in 0..arrived
    /\ day \in Nat /\ handled \in SUBSET Nat /\ paid \in Seq(PaidRow)
    /\ NoneForgotten /\ PaidOnceIn(paid) /\ BudgetKeptIn(paid)

\* The file counts what is recorded; until it holds an offset, nothing is.
FileSound ==
    /\ DOMAIN stateFile = {"next", "usage"}
    /\ CountedIn(stateFile.usage, paid, day)
    /\ stateFile.next = NoOffset => \A i \in DOMAIN paid : ~paid[i].recorded
    /\ stateFile.next # NoOffset => OffsetIn(stateFile.next, paid, handled, backlog, arrived)

\* The process: its copy is as true as the file, its batch begins where its offset is or later, and
\* the question it has asked fits the budget.
ProcessSound ==
    /\ DOMAIN consultant = Fields
    /\ consultant.step \in Idle \cup Asked \cup {"update", "advance"}
    /\ AtStep("first") => stateFile.next = NoOffset
    /\ ~AtStep("down") => CountedIn(consultant.usage, paid, day)
    /\ consultant.step \notin {"down", "first"} =>
          /\ stateFile.next # NoOffset
          /\ OffsetIn(consultant.next, paid, handled, backlog, arrived)
    /\ consultant.step \notin Idle =>
          /\ BatchIn(consultant.batch, handled, backlog, arrived)
          /\ consultant.batch # <<>> =>
                consultant.next <= consultant.batch[1] + (IF AtStep("advance") THEN 1 ELSE 0)
    /\ consultant.step \in Asked \cup {"advance"} => consultant.batch # <<>>
    /\ consultant.step \in Asked => CountedIn(consultant.asked, paid, day)
    /\ consultant.step \in {"request", "record"} => consultant.asked.requests < MaxRequestsPerDay
    /\ AtStep("record") =>
          /\ paid # <<>>
          /\ paid[Len(paid)].update = Current /\ paid[Len(paid)].date = consultant.asked.date
          /\ ~paid[Len(paid)].recorded
    /\ AtStep("advance") => SettledIn(Current, handled, backlog)

\* The invariant of the consultant.
ConsultantInv == OutsideSound /\ FileSound /\ ProcessSound

\* Before the first start nothing is settled, recorded or counted.
LEMMA ConsultantStart ==
    ASSUME ConsultantInit
    PROVE  ConsultantInv
<1>1. DOMAIN paid = {} /\ paid \in Seq(PaidRow)
    BY DEF ConsultantInit
<1>2. \A d : RecordedIn(paid, d) = {} /\ Cardinality(RecordedIn(paid, d)) = 0
    BY <1>1, FS_EmptySet DEF RecordedIn
<1>3. arrived \in 0..LastUpdate
  <2>1. LastUpdate \in Nat /\ (arrived = 1 => LastUpdate >= 1)
      BY ConsultantAssumption DEF ConsultantInit
  <2> QED BY <2>1 DEF ConsultantInit
<1>4. OutsideSound
    BY <1>1, <1>2, <1>3, ConsultantAssumption
       DEF ConsultantInit, OutsideSound, NoneForgotten, PaidOnceIn, BudgetKeptIn, Updates
<1>5. FileSound
    BY <1>1, <1>2 DEF ConsultantInit, FileSound, CountedIn, UsageRow, emptyDailyUsage
<1>6. ProcessSound
    BY DEF ConsultantInit, ProcessSound, AtStep, Down, Fields, Idle, Asked
<1> QED BY <1>4, <1>5, <1>6 DEF ConsultantInv

\* What was settled stays so.
LEMMA SettledStays ==
    ASSUME NEW log, NEW done, NEW old \in Nat, NEW top \in Nat, NEW done2, NEW old2 \in Nat, NEW top2 \in Nat,
           done \subseteq done2, old <= old2, top <= top2
    PROVE  /\ \A u \in Nat : SettledIn(u, done, old) => SettledIn(u, done2, old2)
           /\ \A n : OffsetIn(n, log, done, old, top) => OffsetIn(n, log, done2, old2, top2)
           /\ \A b : BatchIn(b, done, old, top) => BatchIn(b, done2, old2, top2)
<1>1. \A u \in Nat : SettledIn(u, done, old) => SettledIn(u, done2, old2)
    BY DEF SettledIn
<1>2. ASSUME NEW n, OffsetIn(n, log, done, old, top) PROVE OffsetIn(n, log, done2, old2, top2)
    BY <1>1, <1>2 DEF OffsetIn
<1>3. ASSUME NEW b, BatchIn(b, done, old, top) PROVE BatchIn(b, done2, old2, top2)
  <2>1. b \in Seq(Nat) /\ \A i \in DOMAIN b : b[i] \in Nat
      BY <1>3, ElementsOfLog DEF BatchIn
  <2> QED BY <1>1, <1>3, <2>1 DEF BatchIn
<1> QED BY <1>1, <1>2, <1>3

\* The update at hand and what comes after it.
LEMMA CurrentIsKnown ==
    ASSUME ConsultantInv, consultant.step \notin Idle, consultant.batch # <<>>
    PROVE  /\ Current = consultant.batch[1] /\ Current \in Nat /\ Current >= 1 /\ Current <= arrived
           /\ \A u \in Nat \ {0} : u < Current => SettledIn(u, handled, backlog)
           /\ SettledIn(Current, handled, backlog) =>
                 BatchIn(Tail(consultant.batch), handled, backlog, arrived)
           /\ Tail(consultant.batch) # <<>> => Tail(consultant.batch)[1] = Current + 1
<1> DEFINE b == consultant.batch
<1>1. BatchIn(b, handled, backlog, arrived) /\ arrived \in Nat
    BY DEF ConsultantInv, ProcessSound, OutsideSound
<1>2. /\ Tail(b) \in Seq(Nat) /\ Consecutive(Tail(b)) /\ (Tail(b) # <<>> => Tail(b)[1] = b[1] + 1)
      /\ \A i \in DOMAIN Tail(b) : \E j \in DOMAIN b : Tail(b)[i] = b[j]
      /\ b[1] \in Nat /\ 1 \in DOMAIN b /\ Current = b[1]
    BY <1>1, TailOfBatch DEF BatchIn, Current
<1> HIDE DEF b
<1>3. b[1] >= 1 /\ b[1] <= arrived /\ \A u \in Nat \ {0} : u < b[1] => SettledIn(u, handled, backlog)
    BY <1>1, <1>2 DEF BatchIn, b
<1>4. \A i \in DOMAIN Tail(b) : Tail(b)[i] >= 1 /\ Tail(b)[i] <= arrived
    BY <1>1, <1>2 DEF BatchIn
<1>5. ASSUME SettledIn(b[1], handled, backlog), NEW u \in Nat \ {0}, u < b[1] + 1
      PROVE  SettledIn(u, handled, backlog)
  <2>1. u = b[1] \/ u < b[1]
      BY <1>2, <1>5
  <2> QED BY <1>3, <1>5, <2>1
<1>6. SettledIn(b[1], handled, backlog) => BatchIn(Tail(b), handled, backlog, arrived)
    BY <1>2, <1>4, <1>5 DEF BatchIn
<1> QED BY <1>2, <1>3, <1>6 DEF b

\* The usage of today is as true as the one in memory.
LEMMA UsageIsCounted ==
    ASSUME ConsultantInv, ~AtStep("down")
    PROVE  CountedIn(Usage, paid, day)
BY NormalizedIsCounted DEF ConsultantInv, ProcessSound, OutsideSound, Usage

\* Updates that are settled after a step that records no answer.
LEMMA HandledMore ==
    ASSUME ConsultantInv, handled' \in {handled, handled \cup {Current}},
           handled' = handled \/ (consultant.step \notin Idle /\ consultant.batch # <<>>),
           UNCHANGED <<arrived, forgotten, day, stateFile, backlog, paid>>
    PROVE  /\ OutsideSound' /\ FileSound'
           /\ \A n : OffsetIn(n, paid, handled, backlog, arrived) => OffsetIn(n, paid', handled', backlog', arrived')
           /\ \A b : BatchIn(b, handled, backlog, arrived) => BatchIn(b, handled', backlog', arrived')
<1>1. Current \in Nat \/ handled' = handled
    BY CurrentIsKnown
<1>2. arrived \in Nat /\ backlog \in Nat /\ handled \in SUBSET Nat /\ handled \subseteq handled'
    BY DEF ConsultantInv, OutsideSound
<1>3. OutsideSound'
    BY <1>1, <1>2 DEF ConsultantInv, OutsideSound, NoneForgotten
<1>4. /\ \A n : OffsetIn(n, paid, handled, backlog, arrived) => OffsetIn(n, paid, handled', backlog, arrived)
      /\ \A b : BatchIn(b, handled, backlog, arrived) => BatchIn(b, handled', backlog, arrived)
  <2>1. backlog <= backlog /\ arrived <= arrived
      BY <1>2
  <2> QED BY <1>2, <2>1, SettledStays
<1>5. FileSound'
    BY <1>4 DEF ConsultantInv, FileSound
<1> QED BY <1>3, <1>4, <1>5

\* The process gives a batch up.
LEMMA PollingIsSound ==
    ASSUME NEW next, NEW usage, consultant' = [PollsAgain EXCEPT !.next = next, !.usage = usage],
           DOMAIN consultant = Fields,
           CountedIn(usage, paid, day)', OffsetIn(next, paid, handled, backlog, arrived)', stateFile'.next # NoOffset
    PROVE  ProcessSound'
<1>1. /\ DOMAIN consultant' = Fields /\ consultant'.step = "poll" /\ consultant'.next = next
      /\ consultant'.usage = usage
    BY DEF PollsAgain, Fields
<1> QED BY <1>1 DEF ProcessSound, AtStep, Idle, Asked

\* The update at hand got its message or was ignored, or the message is lost and the batch given up.
LEMMA SendsStep ==
    ASSUME ConsultantInv, AtStep("update") \/ AtStep("failed"), consultant.batch # <<>>,
           NEW usage, CountedIn(usage, paid, day),
           \/ consultant' = [consultant EXCEPT !.usage = usage, !.step = "advance"] /\ handled' = handled \cup {Current}
           \/ consultant' = PollsAgain /\ handled' = handled,
           UNCHANGED <<Outside, forgotten, stateFile, backlog, paid>>
    PROVE  ConsultantInv'
<1>1. consultant.step \notin Idle /\ DOMAIN consultant = Fields
    BY DEF ConsultantInv, ProcessSound, AtStep, Idle
<1>2. /\ OutsideSound' /\ FileSound'
      /\ \A n : OffsetIn(n, paid, handled, backlog, arrived) => OffsetIn(n, paid', handled', backlog', arrived')
      /\ \A b : BatchIn(b, handled, backlog, arrived) => BatchIn(b, handled', backlog', arrived')
    BY <1>1, HandledMore DEF Outside
<1>3. CountedIn(usage, paid', day') /\ CountedIn(consultant.usage, paid', day')
    BY DEF Outside, ConsultantInv, ProcessSound, AtStep
<1>4. /\ OffsetIn(consultant.next, paid', handled', backlog', arrived') /\ stateFile'.next # NoOffset
      /\ BatchIn(consultant.batch, handled', backlog', arrived')
      /\ consultant.next <= consultant.batch[1]
    BY <1>1, <1>2 DEF ConsultantInv, ProcessSound, AtStep, Idle, OffsetIn, BatchIn
<1>5. CASE consultant' = [consultant EXCEPT !.usage = usage, !.step = "advance"] /\ handled' = handled \cup {Current}
  <2>1. /\ DOMAIN consultant' = Fields /\ consultant'.step = "advance" /\ consultant'.next = consultant.next
        /\ consultant'.usage = usage /\ consultant'.batch = consultant.batch /\ Current' = Current
      BY <1>1, <1>5 DEF Fields, Current
  <2>2. SettledIn(Current, handled', backlog')
      BY <1>5 DEF SettledIn
  <2>3. consultant.next <= consultant.batch[1] + 1
    <3>1. consultant.next \in Nat /\ consultant.batch[1] \in Nat
        BY <1>1, <1>4, CurrentIsKnown DEF OffsetIn
    <3> QED BY <1>4, <3>1
  <2>4. ProcessSound'
      BY <1>3, <1>4, <2>1, <2>2, <2>3 DEF ProcessSound, AtStep, Idle, Asked
  <2> QED BY <1>2, <2>4 DEF ConsultantInv
<1>6. CASE consultant' = PollsAgain /\ handled' = handled
  <2>1. consultant' = [PollsAgain EXCEPT !.next = consultant.next, !.usage = consultant.usage]
      BY <1>1, <1>6 DEF PollsAgain, Fields
  <2>2. ProcessSound'
      BY <1>1, <1>3, <1>4, <2>1, PollingIsSound
  <2> QED BY <1>2, <2>2 DEF ConsultantInv
<1> QED BY <1>5, <1>6

\* The updates that get a message and cost nothing.
LEMMA MessageStep ==
    ASSUME ConsultantInv, ignore \/ reply \/ refuse \/ sendFailure
    PROVE  ConsultantInv'
<1>1. DOMAIN consultant = Fields
    BY DEF ConsultantInv, ProcessSound
<1>2. [consultant EXCEPT !.step = "advance"] = [consultant EXCEPT !.usage = consultant.usage, !.step = "advance"]
    BY <1>1 DEF Fields
<1>3. AtStep("update") \/ AtStep("failed") => CountedIn(consultant.usage, paid, day)
    BY DEF ConsultantInv, ProcessSound, AtStep
<1>4. CASE ignore
    BY <1>2, <1>3, <1>4, SendsStep DEF ignore, Processes
<1>5. CASE reply
    BY <1>2, <1>3, <1>5, SendsStep DEF reply, Processes, Sends
<1>6. CASE refuse
  <2>1. CountedIn(Usage, paid, day)
      BY <1>6, UsageIsCounted DEF refuse, Processes, AtStep
  <2>2. \/ consultant' = [consultant EXCEPT !.usage = Usage, !.step = "advance"] /\ handled' = handled \cup {Current}
        \/ consultant' = PollsAgain /\ handled' = handled
      BY <1>6 DEF refuse, Sends
  <2> QED BY <1>6, <2>1, <2>2, SendsStep DEF refuse, Processes
<1>7. CASE sendFailure
  <2>1. CountedIn(consultant.asked, paid, day) /\ consultant.batch # <<>>
      BY <1>7 DEF sendFailure, ConsultantInv, ProcessSound, AtStep, Asked
  <2>2. \/ consultant' = [consultant EXCEPT !.usage = consultant.asked, !.step = "advance"]
           /\ handled' = handled \cup {Current}
        \/ consultant' = PollsAgain /\ handled' = handled
      BY <1>7 DEF sendFailure, Sends
  <2> QED BY <1>7, <2>1, <2>2, SendsStep DEF sendFailure
<1> QED BY <1>4, <1>5, <1>6, <1>7

\* Only the process changed, and holds what it held.
LEMMA ConsultantAlone ==
    ASSUME ConsultantInv, UNCHANGED <<Outside, forgotten, stateFile, History>>, ProcessSound'
    PROVE  ConsultantInv'
BY DEF ConsultantInv, OutsideSound, FileSound, Outside, History, NoneForgotten

\* A start reads the file and begins the count of today.
LEMMA StartConsultantStep ==
    ASSUME ConsultantInv, startConsultant
    PROVE  ConsultantInv'
<1>1. /\ DOMAIN consultant' = Fields /\ consultant'.next = stateFile.next
      /\ consultant'.step = IF stateFile.next = NoOffset THEN "first" ELSE "poll"
      /\ consultant'.usage = normalizeDailyUsage(stateFile.usage, day)
    BY DEF startConsultant, Down, Fields
<1>2. CountedIn(normalizeDailyUsage(stateFile.usage, day), paid, day)
    BY NormalizedIsCounted DEF ConsultantInv, FileSound, OutsideSound
<1>3. stateFile.next # NoOffset => OffsetIn(stateFile.next, paid, handled, backlog, arrived)
    BY DEF ConsultantInv, FileSound
<1>4. ProcessSound'
    BY <1>1, <1>2, <1>3 DEF startConsultant, Outside, History, ProcessSound, AtStep, Idle, Asked
<1> QED BY <1>4, ConsultantAlone DEF startConsultant

\* The process is gone.
LEMMA DownIsSound ==
    ASSUME consultant' = Down
    PROVE  ProcessSound'
BY DEF ProcessSound, AtStep, Down, Fields, Idle, Asked

\* A crash loses nothing but the copy in memory.
LEMMA CrashStep ==
    ASSUME ConsultantInv, crash
    PROVE  ConsultantInv'
BY DownIsSound, ConsultantAlone DEF crash

\* What was there before the first start is passed over once and for all.
LEMMA DiscardBacklogStep ==
    ASSUME ConsultantInv, discardBacklog
    PROVE  ConsultantInv'
<1> DEFINE next == IF arrived > forgotten THEN arrived + 1 ELSE 0
<1>1. /\ arrived \in Nat /\ arrived <= LastUpdate /\ forgotten \in Nat /\ forgotten <= arrived
      /\ backlog \in Nat /\ backlog <= arrived /\ handled \in SUBSET Nat
    BY ConsultantAssumption DEF ConsultantInv, OutsideSound
<1>2. forgotten' \in Nat /\ forgotten' <= arrived
    BY <1>1 DEF discardBacklog
<1>3. backlog' = arrived /\ arrived' = arrived /\ day' = day /\ handled' = handled /\ paid' = paid
    BY DEF discardBacklog, Outside
<1>4. OutsideSound'
  <2>1. NoneForgotten'
    <3>1. \A u \in Updates : u \in Nat
        BY ConsultantAssumption DEF Updates
    <3>2. \A u \in Nat : u <= forgotten' => u <= arrived
        BY <1>1, <1>2
    <3> QED BY <1>3, <3>1, <3>2 DEF NoneForgotten
  <2>2. forgotten' \in 0..arrived' /\ backlog' \in 0..arrived'
      BY <1>1, <1>2, <1>3
  <2> QED BY <1>3, <2>1, <2>2 DEF ConsultantInv, OutsideSound
<1>5. stateFile.next = NoOffset /\ (\A i \in DOMAIN paid : ~paid[i].recorded)
      /\ CountedIn(consultant.usage, paid, day) /\ DOMAIN consultant = Fields
    BY DEF discardBacklog, ConsultantInv, ProcessSound, FileSound, AtStep
<1>6. next \in Nat /\ next <= arrived + 1 /\ next # NoOffset
    BY <1>1, ConsultantAssumption DEF NoOffset
<1>7. OffsetIn(next, paid, handled, arrived, arrived)
    BY <1>1, <1>5, <1>6 DEF OffsetIn, SettledIn
<1>8. CASE stateFile' = [next |-> next, usage |-> consultant.usage]
           /\ consultant' = [consultant EXCEPT !.step = "poll", !.next = next]
  <2> HIDE DEF next
  <2>1. /\ stateFile'.next = next /\ stateFile'.usage = consultant.usage /\ DOMAIN stateFile' = {"next", "usage"}
        /\ DOMAIN consultant' = Fields /\ consultant'.step = "poll" /\ consultant'.next = next
        /\ consultant'.usage = consultant.usage
      BY <1>5, <1>8 DEF Fields
  <2>2. FileSound'
      BY <1>3, <1>5, <1>6, <1>7, <2>1 DEF FileSound, NoOffset
  <2>3. ProcessSound'
      BY <1>3, <1>5, <1>6, <1>7, <2>1 DEF ProcessSound, AtStep, Idle, Asked, NoOffset
  <2> QED BY <1>4, <2>2, <2>3 DEF ConsultantInv
<1>9. CASE UNCHANGED stateFile /\ consultant' = Down
  <2>1. FileSound'
      BY <1>3, <1>5, <1>9 DEF ConsultantInv, FileSound, NoOffset
  <2> QED BY <1>4, <1>9, <2>1, DownIsSound DEF ConsultantInv
<1> QED BY <1>8, <1>9 DEF discardBacklog

\* Telegram returns what it has not forgotten.
LEMMA GetUpdatesStep ==
    ASSUME ConsultantInv, getUpdates
    PROVE  ConsultantInv'
<1>1. /\ arrived \in Nat /\ forgotten \in Nat /\ forgotten <= arrived /\ backlog \in Nat
      /\ OffsetIn(consultant.next, paid, handled, backlog, arrived) /\ stateFile.next # NoOffset
      /\ CountedIn(consultant.usage, paid, day) /\ DOMAIN consultant = Fields
    BY ConsultantAssumption DEF ConsultantInv, OutsideSound, ProcessSound, getUpdates, AtStep
<1>2. /\ UNCHANGED <<arrived, day, stateFile, backlog, handled, paid>>
    BY DEF getUpdates, Outside, History
<1>3. forgotten' \in Nat /\ forgotten' <= arrived /\ consultant.next <= forgotten' + 1
    BY <1>1 DEF getUpdates, OffsetIn
<1> DEFINE seen == forgotten'
<1>8. /\ seen \in Nat /\ arrived - seen \in Nat /\ consultant.next <= seen + 1
      /\ \A u \in Nat : u < seen + 1 => u <= seen
      /\ \A i \in Nat : seen + i = (seen + 1) + (i - 1)
      /\ \A i \in Nat : i >= 1 /\ i <= arrived - seen => seen + i >= 1 /\ seen + i <= arrived
  <2>1. seen \in Nat /\ seen <= arrived /\ arrived \in Nat /\ consultant.next <= seen + 1
      BY <1>1, <1>3
  <2> HIDE DEF seen
  <2> QED BY <2>1
<1>4. \A u \in Nat \ {0} : u <= forgotten' => SettledIn(u, handled, backlog)
  <2>1. \A u \in Nat \ {0} : u <= forgotten => SettledIn(u, handled, backlog)
    <3>1. \A u \in Nat \ {0} : u <= forgotten => u \in Updates
        BY <1>1, ConsultantAssumption DEF ConsultantInv, OutsideSound, Updates
    <3> QED BY <3>1 DEF ConsultantInv, OutsideSound, NoneForgotten, SettledIn
  <2>2. forgotten' = forgotten \/ (forgotten' = consultant.next - 1 /\ consultant.next \in Nat)
      BY <1>1 DEF getUpdates, OffsetIn
  <2>3. \A u \in Nat : u <= consultant.next - 1 /\ consultant.next \in Nat => u < consultant.next
      OBVIOUS
  <2> QED BY <1>1, <2>1, <2>2, <2>3 DEF OffsetIn
<1>5. OutsideSound'
  <2>1. NoneForgotten'
      BY <1>2, <1>4 DEF NoneForgotten, SettledIn, Updates
  <2>2. forgotten' \in 0..arrived
      BY <1>1, <1>3
  <2> QED BY <1>2, <2>1, <2>2 DEF ConsultantInv, OutsideSound
<1>6. FileSound'
    BY <1>2 DEF ConsultantInv, FileSound
<1>7. ProcessSound'
  <2>1. CASE consultant' = consultant
      BY <1>2, <2>1 DEF ConsultantInv, ProcessSound, AtStep, Current
  <2> DEFINE batch == [i \in 1..(arrived - seen) |-> seen + i]
  <2>2. CASE consultant' = [consultant EXCEPT !.step = "update", !.batch = batch]
    <3>0. \A u \in Nat \ {0} : u <= seen => SettledIn(u, handled, backlog)
        BY <1>4
    <3> HIDE DEF seen
    <3>1. /\ DOMAIN batch = 1..(arrived - seen)
          /\ \A i \in DOMAIN batch : batch[i] = seen + i /\ i \in Nat /\ i >= 1 /\ i <= arrived - seen
        BY <1>8
    <3>2. batch \in Seq(Nat)
        BY <1>8
    <3>3. batch # <<>> => 1 \in DOMAIN batch
        BY <1>8, <3>1
    <3> HIDE DEF batch
    <3>4. \A i \in DOMAIN batch : batch[i] >= 1 /\ batch[i] <= arrived
        BY <1>8, <3>1
    <3>5. batch # <<>> => batch[1] = seen + 1
        BY <3>1, <3>3
    <3>6. Consecutive(batch)
      <4>1. ASSUME NEW i \in DOMAIN batch PROVE batch[i] = batch[1] + (i - 1)
        <5>1. 1 \in DOMAIN batch
            BY <1>8, <3>1
        <5>2. batch[1] = seen + 1
            BY <3>1, <5>1
        <5> QED BY <1>8, <3>1, <5>2
      <4> QED BY <4>1 DEF Consecutive
    <3>8. BatchIn(batch, handled, backlog, arrived)
        BY <1>8, <3>0, <3>2, <3>4, <3>5, <3>6 DEF BatchIn
    <3>9. /\ DOMAIN consultant' = Fields /\ consultant'.step = "update" /\ consultant'.batch = batch
          /\ consultant'.next = consultant.next /\ consultant'.usage = consultant.usage
        BY <1>1, <2>2 DEF Fields
    <3>10. batch # <<>> => consultant.next <= batch[1] + 0
        BY <1>8, <3>5
    <3> QED BY <1>1, <1>2, <3>8, <3>9, <3>10 DEF ProcessSound, AtStep, Idle, Asked
  <2> QED BY <2>1, <2>2 DEF getUpdates
<1> QED BY <1>5, <1>6, <1>7 DEF ConsultantInv

\* A question that fits the budget.
LEMMA AskStep ==
    ASSUME ConsultantInv, ask
    PROVE  ConsultantInv'
<1>1. /\ AtStep("update") /\ DOMAIN consultant = Fields
      /\ consultant' = [consultant EXCEPT !.step = "request", !.asked = Usage, !.key = responseCacheKey(Question)]
    BY DEF ask, Processes, ConsultantInv, ProcessSound
<1>2. CountedIn(Usage, paid, day) /\ Usage.requests < MaxRequestsPerDay
    BY <1>1, UsageIsCounted DEF ask, Processes, Allowed, AtStep
<1>3. /\ DOMAIN consultant' = Fields /\ consultant'.step = "request" /\ consultant'.asked = Usage
      /\ consultant'.next = consultant.next /\ consultant'.usage = consultant.usage
      /\ consultant'.batch = consultant.batch
    BY <1>1 DEF Fields
<1>4. UNCHANGED <<arrived, day, stateFile, backlog, handled, paid>> /\ consultant.batch # <<>>
    BY DEF ask, Processes, Outside, History
<1>5. ProcessSound'
    BY <1>1, <1>2, <1>3, <1>4 DEF ConsultantInv, ProcessSound, AtStep, Idle, Asked
<1> QED BY <1>5, ConsultantAlone DEF ask

\* The answer or the failure of a request, or a failure to write the file.
LEMMA FailsStep ==
    ASSUME ConsultantInv, AtStep("request") \/ AtStep("record"),
           consultant' = [consultant EXCEPT !.step = "failed"],
           UNCHANGED <<Outside, forgotten, stateFile, History>>
    PROVE  ConsultantInv'
<1>1. /\ DOMAIN consultant' = Fields /\ consultant'.step = "failed" /\ consultant'.asked = consultant.asked
      /\ consultant'.next = consultant.next /\ consultant'.usage = consultant.usage
      /\ consultant'.batch = consultant.batch
    BY DEF ConsultantInv, ProcessSound, Fields
<1>2. ProcessSound'
    BY <1>1 DEF ConsultantInv, ProcessSound, AtStep, Idle, Asked, Outside, History
<1> QED BY <1>2, ConsultantAlone

\* The answer at hand is above every answer recorded before.
LEMMA AnswerStep ==
    ASSUME ConsultantInv, AtStep("request"), UNCHANGED <<Outside, forgotten, stateFile, backlog, handled>>,
           consultant' = [consultant EXCEPT !.step = "record"],
           paid' = Append(paid, [update |-> Current, date |-> consultant.asked.date, recorded |-> FALSE])
    PROVE  ConsultantInv'
<1> DEFINE row == [update |-> Current, date |-> consultant.asked.date, recorded |-> FALSE]
<1>1. /\ DOMAIN consultant' = Fields /\ consultant'.step = "record" /\ consultant'.asked = consultant.asked
      /\ consultant'.next = consultant.next /\ consultant'.usage = consultant.usage
      /\ consultant'.batch = consultant.batch /\ Current' = Current
    BY DEF ConsultantInv, ProcessSound, Fields, Current
<1>2. consultant.step \notin Idle /\ consultant.batch # <<>>
    BY DEF ConsultantInv, ProcessSound, AtStep, Idle, Asked
<1>3. /\ Current = consultant.batch[1] /\ Current \in Nat /\ consultant.next \in Nat /\ consultant.next <= Current + 0
      /\ \A i \in DOMAIN paid : paid[i].recorded => paid[i].update < consultant.next
    BY <1>2, CurrentIsKnown DEF ConsultantInv, ProcessSound, AtStep, Idle, OffsetIn
<1>4. CountedIn(consultant.asked, paid, day) /\ consultant.asked.date \in Nat
    BY DEF ConsultantInv, ProcessSound, AtStep, Asked, CountedIn, UsageRow
<1>5. /\ row \in PaidRow /\ ~row.recorded /\ row.update = Current /\ row.date = consultant.asked.date
    BY <1>3, <1>4 DEF PaidRow
<1>6. paid \in Seq(PaidRow) /\ paid' = Append(paid, row)
    BY DEF ConsultantInv, OutsideSound
<1> HIDE DEF row
<1>7. /\ paid' \in Seq(PaidRow) /\ paid' # <<>> /\ paid'[Len(paid')] = row
      /\ \A d : RecordedIn(paid', d) = RecordedIn(paid, d)
      /\ \A i \in DOMAIN paid' : paid'[i].recorded => i \in DOMAIN paid /\ paid[i] = paid'[i]
      /\ \A i \in DOMAIN paid : paid'[i] = paid[i]
      /\ DOMAIN paid' = DOMAIN paid \cup {Len(paid) + 1}
  <2> DEFINE longer == Append(paid, row)
  <2>1. /\ longer \in Seq(PaidRow) /\ longer # <<>> /\ longer[Len(longer)] = row
        /\ \A d : RecordedIn(longer, d) = RecordedIn(paid, d)
        /\ \A i \in DOMAIN longer : longer[i].recorded => i \in DOMAIN paid /\ paid[i] = longer[i]
        /\ \A i \in DOMAIN paid : longer[i] = paid[i]
        /\ DOMAIN longer = DOMAIN paid \cup {Len(paid) + 1}
      BY <1>5, <1>6, PaidIsUncounted
  <2>2. paid' = longer
      BY <1>6
  <2> HIDE DEF longer
  <2> QED BY <2>1, <2>2
<1>8. /\ \A c : CountedIn(c, paid, day) => CountedIn(c, paid', day')
      /\ \A n : OffsetIn(n, paid, handled, backlog, arrived) => OffsetIn(n, paid', handled', backlog', arrived')
    BY <1>7 DEF CountedIn, OffsetIn, Outside
<1>9. PaidOnceIn(paid')
  <2>1. ASSUME NEW i \in DOMAIN paid', NEW j \in DOMAIN paid', i < j, paid'[i].recorded
        PROVE  paid'[j].update # paid'[i].update
    <3>1. i \in DOMAIN paid /\ paid[i] = paid'[i] /\ paid[i].recorded
        BY <1>7, <2>1
    <3>2. CASE j \in DOMAIN paid
        BY <1>7, <2>1, <3>1, <3>2 DEF ConsultantInv, OutsideSound, PaidOnceIn
    <3>3. CASE j \notin DOMAIN paid
      <4>1. paid'[j] = row
          BY <1>6, <1>7, <3>3, ElementsOfLog
      <4>2. paid[i].update < consultant.next /\ paid[i].update \in Nat
        <5>1. paid[i] \in PaidRow
            BY <1>6, <3>1, ElementsOfLog
        <5> QED BY <1>3, <3>1, <5>1 DEF PaidRow
      <4>3. row.update # paid[i].update
          BY <1>3, <1>5, <4>2
      <4> QED BY <3>1, <4>1, <4>3
    <3> QED BY <3>2, <3>3
  <2> QED BY <2>1 DEF PaidOnceIn
<1>10. OutsideSound'
    BY <1>7, <1>9 DEF ConsultantInv, OutsideSound, BudgetKeptIn, NoneForgotten, Outside
<1>11. FileSound'
    BY <1>7, <1>8 DEF ConsultantInv, FileSound
<1>12. ProcessSound'
  <2>1. /\ CountedIn(consultant.usage, paid', day') /\ CountedIn(consultant.asked, paid', day')
        /\ OffsetIn(consultant.next, paid', handled', backlog', arrived')
        /\ stateFile'.next # NoOffset /\ consultant.asked.requests < MaxRequestsPerDay
        /\ BatchIn(consultant.batch, handled', backlog', arrived')
        /\ consultant.next <= consultant.batch[1] + 0
      BY <1>2, <1>3, <1>4, <1>8 DEF ConsultantInv, ProcessSound, AtStep, Idle, Asked, Outside
  <2>2. paid'[Len(paid')].update = Current' /\ paid'[Len(paid')].date = consultant'.asked.date
        /\ ~paid'[Len(paid')].recorded
      BY <1>1, <1>5, <1>7
  <2> QED BY <1>1, <1>2, <1>7, <2>1, <2>2 DEF ProcessSound, AtStep, Idle, Asked
<1> QED BY <1>10, <1>11, <1>12 DEF ConsultantInv

\* A request is answered or fails.
LEMMA RequestStep ==
    ASSUME ConsultantInv, requestDeepSeekAnswer
    PROVE  ConsultantInv'
BY AnswerStep, FailsStep DEF requestDeepSeekAnswer, History

\* The answer that cannot be recorded is given up.
LEMMA PersistFailsStep ==
    ASSUME ConsultantInv, persistFails
    PROVE  ConsultantInv'
BY FailsStep DEF persistFails

\* Usage and offset are written together: the answer is counted and below the offset at once.
LEMMA PersistAnswerStep ==
    ASSUME ConsultantInv, persistAnswer
    PROVE  ConsultantInv'
<1> DEFINE marked == [paid EXCEPT ![Len(paid)].recorded = TRUE]
           usage == recordTokenUsage(consultant.asked)
           next == Current + 1
<1>1. AtStep("record") /\ consultant.step \notin Idle /\ consultant.batch # <<>>
    BY DEF persistAnswer, ConsultantInv, ProcessSound, AtStep, Idle, Asked
<1>2. /\ CountedIn(consultant.asked, paid, day) /\ consultant.asked.requests < MaxRequestsPerDay
      /\ paid # <<>> /\ paid[Len(paid)].update = Current /\ paid[Len(paid)].date = consultant.asked.date
      /\ ~paid[Len(paid)].recorded /\ stateFile.next # NoOffset /\ DOMAIN consultant = Fields
      /\ OffsetIn(consultant.next, paid, handled, backlog, arrived)
      /\ consultant.next <= consultant.batch[1] + 0
      /\ BatchIn(consultant.batch, handled, backlog, arrived)
    BY <1>1 DEF ConsultantInv, ProcessSound, AtStep, Idle, Asked
<1>3. /\ day \in Nat /\ paid \in Seq(PaidRow) /\ BudgetKeptIn(paid) /\ PaidOnceIn(paid) /\ handled \in SUBSET Nat
      /\ arrived \in Nat /\ arrived <= LastUpdate /\ backlog \in Nat
    BY ConsultantAssumption DEF ConsultantInv, OutsideSound
<1>4. /\ UNCHANGED <<arrived, day, forgotten, backlog>>
      /\ stateFile' = [next |-> next, usage |-> usage]
      /\ consultant' = [consultant EXCEPT !.step = "advance", !.next = next, !.usage = usage]
      /\ paid' = marked /\ handled' = handled \cup {Current}
    BY DEF persistAnswer, OffsetRecorded, Outside
<1>5. /\ marked \in Seq(PaidRow) /\ DOMAIN marked = DOMAIN paid
      /\ \A i \in DOMAIN paid : marked[i].update = paid[i].update
      /\ \A i \in DOMAIN paid : marked[i].recorded => i = Len(paid) \/ paid[i].recorded
      /\ CountedIn(usage, marked, day) /\ BudgetKeptIn(marked)
    BY <1>2, <1>3, RecordingCounts
<1>6. /\ Current = consultant.batch[1] /\ Current \in Nat /\ Current >= 1 /\ Current <= arrived
      /\ \A u \in Nat \ {0} : u < Current => SettledIn(u, handled, backlog)
    BY <1>1, CurrentIsKnown
<1> HIDE DEF marked, usage
<1>7. next \in Nat /\ next <= arrived + 1 /\ next # NoOffset /\ consultant.next \in Nat /\ consultant.next < next
  <2>1. consultant.next \in Nat
      BY <1>2 DEF OffsetIn
  <2> QED BY <1>2, <1>3, <1>6, <2>1, ConsultantAssumption DEF NoOffset
<1>8. \A i \in DOMAIN paid : paid[i] \in PaidRow /\ i \in 1..Len(paid) /\ Len(paid) \in Nat
    BY <1>3, ElementsOfLog
<1>9. \A i \in DOMAIN marked : marked[i].recorded => marked[i].update < next
  <2>1. ASSUME NEW i \in DOMAIN paid, paid[i].recorded PROVE paid[i].update < next
    <3>1. paid[i].update \in Nat /\ paid[i].update < consultant.next
        BY <1>2, <1>8, <2>1 DEF OffsetIn, PaidRow
    <3> HIDE DEF next
    <3> QED BY <1>7, <3>1
  <2>2. Current < next
      BY <1>6
  <2> HIDE DEF next
  <2> QED BY <1>2, <1>5, <2>1, <2>2
<1>10. PaidOnceIn(marked)
  <2>1. ASSUME NEW i \in DOMAIN paid, NEW j \in DOMAIN paid, i < j, marked[i].recorded
        PROVE  paid[j].update # paid[i].update
    <3>1. i # Len(paid)
        BY <1>8, <2>1
    <3> QED BY <1>3, <1>5, <2>1, <3>1 DEF PaidOnceIn
  <2> QED BY <1>5, <2>1 DEF PaidOnceIn
<1>11. SettledIn(Current, handled', backlog)
    BY <1>4 DEF SettledIn
<1>12. ASSUME NEW u \in Nat \ {0}, u < next PROVE SettledIn(u, handled', backlog)
  <2>1. u = Current \/ u < Current
      BY <1>6, <1>12
  <2>2. u < Current => SettledIn(u, handled', backlog)
      BY <1>4, <1>6 DEF SettledIn
  <2> QED BY <1>11, <2>1, <2>2
<1>13. OffsetIn(next, paid', handled', backlog', arrived')
  <2> HIDE DEF next
  <2> QED BY <1>4, <1>7, <1>9, <1>12 DEF OffsetIn
<1>14. BatchIn(consultant.batch, handled', backlog', arrived')
  <2>1. handled \subseteq handled' /\ backlog <= backlog /\ arrived <= arrived
      BY <1>3, <1>4
  <2>2. BatchIn(consultant.batch, handled', backlog, arrived)
      BY <1>2, <1>3, <2>1, SettledStays
  <2> QED BY <1>4, <2>2
<1> HIDE DEF next
<1>15. OutsideSound'
  <2>1. NoneForgotten'
      BY <1>4 DEF ConsultantInv, OutsideSound, NoneForgotten
  <2>2. handled' \in SUBSET Nat
      BY <1>3, <1>4, <1>6
  <2> QED BY <1>4, <1>5, <1>10, <2>1, <2>2 DEF ConsultantInv, OutsideSound
<1>16. FileSound'
  <2>1. DOMAIN stateFile' = {"next", "usage"} /\ stateFile'.next = next /\ stateFile'.usage = usage
      BY <1>4
  <2>2. CountedIn(usage, paid', day')
      BY <1>4, <1>5
  <2> QED BY <1>7, <1>13, <2>1, <2>2 DEF FileSound, NoOffset
<1>17. ProcessSound'
  <2>1. /\ DOMAIN consultant' = Fields /\ consultant'.step = "advance" /\ consultant'.next = next
        /\ consultant'.usage = usage /\ consultant'.batch = consultant.batch /\ Current' = Current
        /\ stateFile'.next = next
      BY <1>2, <1>4 DEF Fields, Current
  <2>2. SettledIn(Current, handled', backlog')
      BY <1>4, <1>11
  <2>3. next <= consultant.batch[1] + 1
      BY <1>6 DEF next
  <2>4. CountedIn(usage, paid', day') /\ next # NoOffset'
      BY <1>4, <1>5, <1>7 DEF NoOffset
  <2> QED BY <1>1, <1>13, <1>14, <2>1, <2>2, <2>3, <2>4 DEF ProcessSound, AtStep, Idle, Asked
<1> QED BY <1>15, <1>16, <1>17 DEF ConsultantInv

\* The offset moves over an update that is settled.
LEMMA AdvanceStep ==
    ASSUME ConsultantInv, advance
    PROVE  ConsultantInv'
<1> DEFINE next == Current + 1
<1>1. consultant.step \notin Idle /\ consultant.batch # <<>> /\ SettledIn(Current, handled, backlog)
    BY DEF advance, ConsultantInv, ProcessSound, AtStep, Idle, Asked
<1>2. /\ Current = consultant.batch[1] /\ Current \in Nat /\ Current >= 1 /\ Current <= arrived
      /\ \A u \in Nat \ {0} : u < Current => SettledIn(u, handled, backlog)
      /\ BatchIn(Tail(consultant.batch), handled, backlog, arrived)
      /\ Tail(consultant.batch) # <<>> => Tail(consultant.batch)[1] = next
    BY <1>1, CurrentIsKnown
<1>3. /\ CountedIn(consultant.usage, paid, day) /\ OffsetIn(consultant.next, paid, handled, backlog, arrived)
      /\ consultant.next <= consultant.batch[1] + 1 /\ stateFile.next # NoOffset /\ DOMAIN consultant = Fields
    BY <1>1 DEF advance, ConsultantInv, ProcessSound, AtStep, Idle
<1>4. arrived \in Nat /\ arrived <= LastUpdate /\ paid \in Seq(PaidRow)
    BY ConsultantAssumption DEF ConsultantInv, OutsideSound
<1>5. next \in Nat /\ next <= arrived + 1 /\ next # NoOffset /\ consultant.next \in Nat /\ consultant.next <= next
  <2>1. consultant.next \in Nat
      BY <1>3 DEF OffsetIn
  <2> QED BY <1>2, <1>3, <1>4, <2>1, ConsultantAssumption DEF NoOffset
<1>6. ASSUME NEW i \in DOMAIN paid, paid[i].recorded PROVE paid[i].update < next
  <2>1. paid[i] \in PaidRow
      BY <1>4, ElementsOfLog
  <2>2. paid[i].update \in Nat /\ paid[i].update < consultant.next
      BY <1>3, <1>6, <2>1 DEF OffsetIn, PaidRow
  <2> HIDE DEF next
  <2> QED BY <1>5, <2>2
<1>7. ASSUME NEW u \in Nat \ {0}, u < next PROVE SettledIn(u, handled, backlog)
  <2>1. u = Current \/ u < Current
      BY <1>2, <1>7
  <2> QED BY <1>1, <1>2, <2>1
<1> HIDE DEF next
<1>8. OffsetIn(next, paid, handled, backlog, arrived)
    BY <1>5, <1>6, <1>7 DEF OffsetIn
<1>9. UNCHANGED <<arrived, day, forgotten, backlog, handled, paid>>
    BY DEF advance, Outside, History
<1>10. OutsideSound'
    BY <1>9 DEF ConsultantInv, OutsideSound, NoneForgotten
<1>11. CASE stateFile' = [next |-> next, usage |-> consultant.usage]
            /\ consultant' = [consultant EXCEPT !.step = "update", !.next = next, !.batch = Tail(@)]
  <2>1. /\ DOMAIN stateFile' = {"next", "usage"} /\ stateFile'.next = next /\ stateFile'.usage = consultant.usage
        /\ DOMAIN consultant' = Fields /\ consultant'.step = "update" /\ consultant'.next = next
        /\ consultant'.usage = consultant.usage /\ consultant'.batch = Tail(consultant.batch)
      BY <1>3, <1>11 DEF Fields
  <2>2. FileSound'
      BY <1>3, <1>5, <1>8, <1>9, <2>1 DEF FileSound, NoOffset
  <2>3. Tail(consultant.batch) # <<>> => next <= Tail(consultant.batch)[1] + 0
      BY <1>2, <1>5
  <2>4. ProcessSound'
      BY <1>2, <1>3, <1>5, <1>8, <1>9, <2>1, <2>3 DEF ProcessSound, AtStep, Idle, Asked, NoOffset
  <2> QED BY <1>10, <2>2, <2>4 DEF ConsultantInv
<1>12. CASE UNCHANGED stateFile /\ consultant' = [PollsAgain EXCEPT !.next = next]
  <2>1. consultant' = [PollsAgain EXCEPT !.next = next, !.usage = consultant.usage]
      BY <1>3, <1>12 DEF PollsAgain, Fields
  <2>2. CountedIn(consultant.usage, paid', day') /\ OffsetIn(next, paid', handled', backlog', arrived')
      BY <1>3, <1>8, <1>9
  <2>3. ProcessSound'
      BY <1>3, <1>12, <2>1, <2>2, PollingIsSound
  <2>4. FileSound'
      BY <1>9, <1>12 DEF ConsultantInv, FileSound
  <2> QED BY <1>10, <2>3, <2>4 DEF ConsultantInv
<1> QED BY <1>11, <1>12 DEF advance, next

\* The loop writes its copy of the state, or fails to.
LEMMA EndOfBatchStep ==
    ASSUME ConsultantInv, endOfBatch
    PROVE  ConsultantInv'
<1>1. /\ CountedIn(Usage, paid, day) /\ OffsetIn(consultant.next, paid, handled, backlog, arrived)
      /\ stateFile.next # NoOffset /\ DOMAIN consultant = Fields
    BY UsageIsCounted DEF endOfBatch, ConsultantInv, ProcessSound, AtStep
<1>2. UNCHANGED <<arrived, day, forgotten, backlog, handled, paid>>
    BY DEF endOfBatch, Outside, History
<1>3. arrived \in Nat /\ arrived <= LastUpdate
    BY ConsultantAssumption DEF ConsultantInv, OutsideSound
<1>4. consultant.next # NoOffset
    BY <1>1, <1>3, ConsultantAssumption DEF OffsetIn, NoOffset
<1>5. OutsideSound'
    BY <1>2 DEF ConsultantInv, OutsideSound, NoneForgotten
<1>6. FileSound' /\ stateFile'.next # NoOffset
  <2>1. CASE stateFile' = stateFile
      BY <1>1, <1>2, <2>1 DEF ConsultantInv, FileSound
  <2>2. CASE stateFile' = [next |-> consultant.next, usage |-> Usage]
    <3>1. DOMAIN stateFile' = {"next", "usage"} /\ stateFile'.next = consultant.next /\ stateFile'.usage = Usage
        BY <2>2
    <3> QED BY <1>1, <1>2, <1>4, <3>1 DEF FileSound, NoOffset
  <2> QED BY <2>1, <2>2 DEF endOfBatch
<1>7. consultant' = [PollsAgain EXCEPT !.next = consultant.next, !.usage = Usage]
    BY <1>1 DEF endOfBatch, PollsAgain, Fields
<1>8. ProcessSound'
    BY <1>1, <1>2, <1>6, <1>7, PollingIsSound
<1> QED BY <1>5, <1>6, <1>8 DEF ConsultantInv

\* The world moves on: messages arrive, the date changes, the monitor reports.
LEMMA WorldStep ==
    ASSUME ConsultantInv, arrive \/ midnight \/ newReport
    PROVE  ConsultantInv'
<1>1. /\ arrived \in Nat /\ arrived <= LastUpdate /\ forgotten \in Nat /\ forgotten <= arrived
      /\ backlog \in Nat /\ backlog <= arrived /\ day \in Nat
    BY ConsultantAssumption DEF ConsultantInv, OutsideSound
<1>2. /\ arrived' \in Nat /\ arrived <= arrived' /\ arrived' <= LastUpdate /\ day' \in Nat /\ day <= day'
      /\ UNCHANGED <<forgotten, stateFile, consultant, backlog, handled, paid>>
    BY <1>1, ConsultantAssumption DEF arrive, midnight, newReport, History
<1>3. OutsideSound'
  <2>1. forgotten' \in 0..arrived' /\ backlog' \in 0..arrived' /\ arrived' \in 0..LastUpdate
      BY <1>1, <1>2, ConsultantAssumption
  <2> QED BY <1>2, <2>1 DEF ConsultantInv, OutsideSound, NoneForgotten
<1>4. \A c : CountedIn(c, paid, day) => CountedIn(c, paid', day')
    BY <1>1, <1>2 DEF CountedIn, UsageRow
<1>5. /\ \A n : OffsetIn(n, paid, handled, backlog, arrived) => OffsetIn(n, paid', handled', backlog', arrived')
      /\ \A b : BatchIn(b, handled, backlog, arrived) => BatchIn(b, handled', backlog', arrived')
  <2>1. backlog <= backlog /\ handled \subseteq handled
      BY <1>1
  <2>2. /\ \A n : OffsetIn(n, paid, handled, backlog, arrived) => OffsetIn(n, paid, handled, backlog, arrived')
        /\ \A b : BatchIn(b, handled, backlog, arrived) => BatchIn(b, handled, backlog, arrived')
      BY <1>1, <1>2, <2>1, SettledStays
  <2> QED BY <1>2, <2>2
<1>6. FileSound'
    BY <1>2, <1>4, <1>5 DEF ConsultantInv, FileSound
<1>7. ProcessSound'
    BY <1>2, <1>4, <1>5 DEF ConsultantInv, ProcessSound, AtStep, Current, SettledIn
<1> QED BY <1>3, <1>6, <1>7 DEF ConsultantInv

\* Every step of the consultant and of the world around it keeps the invariant.
LEMMA ConsultantStep ==
    ASSUME ConsultantInv, [ConsultantNext]_consultantVars
    PROVE  ConsultantInv'
<1>1. CASE UNCHANGED consultantVars
  <2>1. UNCHANGED <<Outside, forgotten, stateFile, History>> /\ consultant' = consultant
      BY <1>1 DEF consultantVars, Outside, History
  <2>2. ProcessSound'
      BY <2>1 DEF ConsultantInv, ProcessSound, AtStep, Current, Outside, History
  <2> QED BY <2>1, <2>2, ConsultantAlone
<1>2. CASE ConsultantNext
    BY <1>2, StartConsultantStep, DiscardBacklogStep, GetUpdatesStep, MessageStep, AskStep, RequestStep,
       PersistAnswerStep, PersistFailsStep, AdvanceStep, EndOfBatchStep, CrashStep, WorldStep DEF ConsultantNext
<1> QED BY <1>1, <1>2

\* The invariant of the consultant, wherever it crashes and whatever fails to be sent or written.
THEOREM ConsultantInductive == ConsultantSpec => []ConsultantInv
BY ConsultantStart, ConsultantStep, PTL DEF ConsultantSpec

\* No question is passed over, none is paid for twice once recorded, and the budget of a date is kept.
THEOREM QuestionsAreSettled == ConsultantSpec => []QuestionsSettled
<1>1. ConsultantInv => QuestionsSettled
  <2> SUFFICES ASSUME ConsultantInv PROVE QuestionsSettled
      OBVIOUS
  <2>1. PaidOnce
      BY DEF ConsultantInv, OutsideSound, PaidOnceIn, PaidOnce
  <2>2. \A d : RecordedFor(d) = RecordedIn(paid, d)
      BY DEF RecordedFor, RecordedIn
  <2>3. 0..LastDay \subseteq Nat
      BY ConsultantAssumption
  <2>4. WithinBudget
      BY <2>2, <2>3 DEF ConsultantInv, OutsideSound, FileSound, BudgetKeptIn, CountedIn, WithinBudget
  <2> QED BY <2>1, <2>4 DEF ConsultantInv, OutsideSound, QuestionsSettled
<1> QED BY <1>1, ConsultantInductive, PTL
=============================================================================
