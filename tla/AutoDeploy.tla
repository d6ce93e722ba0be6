----------------------------- MODULE AutoDeploy -----------------------------
(***************************************************************************)
(* Releases of TData on the production host (scripts/deploy/auto_deploy.py, *)
(* started over SSH by the workflow of every push to main).  A deployment   *)
(* takes a lock, builds the commit, backs up and migrates the database and  *)
(* recreates the services; when they do not become healthy it puts their    *)
(* previous images back.  The database is never rolled back.               *)
(*                                                                         *)
(* Commands of docker, git and prisma may fail at any time and containers   *)
(* may stop and restart.  A docker command ends with the deployment that    *)
(* started it.                                                             *)
(***************************************************************************)
EXTENDS Naturals, FiniteSets

CONSTANTS
    Deployments,   \* processes on the host; the workflow may be repeated
    MaxRelease,    \* bound of the commits on main; a release is the number of its commit
    Services,      \* EXPECTED_SERVICES
    web,           \* the service the health check asks
    Migrations,    \* numbers: prisma applies them in this order
    SourceTree,        \* [release -> migrations its source tree holds]
    Policy,        \* [release -> migrations its policy calls backward compatible]
    Nobody

ASSUME DeployAssumption == MaxRelease \in Nat /\ web \in Services /\ Nobody \notin Deployments

Releases == 0..MaxRelease

VARIABLES
    main,          \* the head of main on GitHub
    image,         \* [Services -> Releases]: what each container was created from
    running,       \* services that run
    applied,       \* migrations the database records as finished
    failedMigration, \* it records one that did not finish
    current,       \* current-image.override.json
    deployment,    \* the progress of each process
    deployLock,    \* who holds the lock of the file deploy.lock
    interrupted    \* history: a deployment was cut off before it recorded what runs

deployVars == <<main, image, running, applied, failedMigration, current, deployment, deployLock, interrupted>>

Host == <<image, running, current, interrupted>>
Database == <<applied, failedMigration>>

NoDeployment == [stage |-> "none", sha |-> 0, old |-> [s \in Services |-> 0], todo |-> {}]

DeployInit ==
    /\ main = 0
    /\ image = [s \in Services |-> 0]
    /\ running = Services
    /\ applied = SourceTree[0]
    /\ failedMigration = FALSE
    /\ current = image
    /\ deployment = [d \in Deployments |-> NoDeployment]
    /\ deployLock = Nobody
    /\ interrupted = FALSE

At(d, stage) == deployment[d].stage = stage
Sha(d) == deployment[d].sha
GoesTo(d, stage) == deployment' = [deployment EXCEPT ![d].stage = stage]

\* The process ends, for whatever reason: its lock is free.
Ends(d) ==
    /\ deployment' = [deployment EXCEPT ![d] = NoDeployment]
    /\ deployLock' = IF deployLock = d THEN Nobody ELSE deployLock

-----------------------------------------------------------------------------
(* Up to the migration. *)

startDeployment(d, r) ==
    /\ At(d, "none")
    /\ deployment' = [deployment EXCEPT ![d].stage = "lock", ![d].sha = r]
    /\ UNCHANGED <<main, Host, Database, deployLock>>

\* Mutant: the lock is not looked at.
AnyLock == TRUE

LockFree == deployLock = Nobody

\* flock without waiting: a second deployment is refused.
deploy_lock(d) ==
    /\ At(d, "lock")
    /\ IF LockFree
       THEN GoesTo(d, "inventory") /\ deployLock' = d
       ELSE Ends(d)
    /\ UNCHANGED <<main, Host, Database>>

\* collect_inventory, service_image_ids: the images to go back to.
inventory(d) ==
    /\ At(d, "inventory")
    /\ deployment' = [deployment EXCEPT ![d].stage = "verify-main", ![d].old = image]
    /\ UNCHANGED <<main, Host, Database, deployLock>>

IsMain(d) == main = Sha(d)

require_current_main(d, from, to) ==
    /\ At(d, from)
    /\ IF IsMain(d) THEN GoesTo(d, to) /\ UNCHANGED deployLock ELSE Ends(d)
    /\ UNCHANGED <<main, Host, Database>>

\* Steps that change nothing others see, and can only fail.
prepare_source(d) == At(d, "source") /\ GoesTo(d, "build") /\ UNCHANGED <<main, Host, Database, deployLock>>
build_image(d) == At(d, "build") /\ GoesTo(d, "backup") /\ UNCHANGED <<main, Host, Database, deployLock>>
backup_database(d) == At(d, "backup") /\ GoesTo(d, "validate") /\ UNCHANGED <<main, Host, Database, deployLock>>

Pending(d) == SourceTree[Sha(d)] \ applied

\* The source knows what is applied, and what is pending has been reviewed.
Valid(d) == ~failedMigration /\ applied \subseteq SourceTree[Sha(d)] /\ Pending(d) \subseteq Policy[Sha(d)]

validate_migrations(d) ==
    /\ At(d, "validate")
    /\ IF Valid(d) THEN GoesTo(d, "recheck-main") /\ UNCHANGED deployLock ELSE Ends(d)
    /\ UNCHANGED <<main, Host, Database>>

\* prisma migrate deploy in a container of the new image applies the pending migrations in order,
\* and records the one that breaks.
compose_run_migrations(d) ==
    /\ At(d, "migrate")
    /\ \E n \in {0} \cup Pending(d) :
          applied' = applied \cup {m \in Pending(d) : m <= n}
    /\ \/ GoesTo(d, "migrated") /\ UNCHANGED <<failedMigration, deployLock>>
       \/ failedMigration' \in {FALSE, applied' # SourceTree[Sha(d)]} /\ Ends(d)
    /\ UNCHANGED <<main, Host>>

\* Mutant: the exit code of the migration is enough.
TrustsExitCode(d) == Valid(d)

Migrated(d) == Valid(d) /\ Pending(d) = {}

validateAfter(d) ==
    /\ At(d, "migrated")
    /\ IF Migrated(d) THEN GoesTo(d, "activate") /\ UNCHANGED deployLock ELSE Ends(d)
    /\ UNCHANGED <<main, Host, Database>>

-----------------------------------------------------------------------------
(* Activation and rollback. *)

AllTo(d, r) == [s \in Services |-> r]

\* compose_up starts: every service is to be recreated.
composeUp(d, from, to) ==
    /\ At(d, from)
    /\ deployment' = [deployment EXCEPT ![d].stage = to, ![d].todo = Services]
    /\ interrupted' = TRUE
    /\ UNCHANGED <<main, image, running, current, Database, deployLock>>

OldImages(d) == deployment[d].old

Target(d) == IF At(d, "up") THEN AllTo(d, Sha(d)) ELSE OldImages(d)

\* One service is replaced; the new container may stop at once.
recreate(d, s) ==
    /\ At(d, "up") \/ At(d, "rollbackUp")
    /\ s \in deployment[d].todo
    /\ image' = [image EXCEPT ![s] = Target(d)[s]]
    /\ running' \in {running \cup {s}, running \ {s}}
    /\ deployment' = [deployment EXCEPT ![d].todo = @ \ {s}]
    /\ UNCHANGED <<main, current, interrupted, Database, deployLock>>

\* Whatever fails between compose_up and the last check leads to the rollback ...
activationFails(d) ==
    /\ At(d, "up") \/ At(d, "validateServices")
    /\ deployment' = [deployment EXCEPT ![d].stage = "rollback", ![d].todo = {}]
    /\ UNCHANGED <<main, Host, Database, deployLock>>

health_ok(d) ==
    /\ At(d, "up") /\ deployment[d].todo = {}
    /\ web \in running /\ image[web] = Sha(d)
    /\ GoesTo(d, "validateServices")
    /\ UNCHANGED <<main, Host, Database, deployLock>>

validate_recreated_services(d) ==
    /\ At(d, "validateServices")
    /\ running = Services /\ image = AllTo(d, Sha(d))
    /\ GoesTo(d, "record")
    /\ UNCHANGED <<main, Host, Database, deployLock>>

rollbackHealthy(d) ==
    /\ At(d, "rollbackUp") /\ deployment[d].todo = {}
    /\ web \in running
    /\ GoesTo(d, "validateRollback")
    /\ UNCHANGED <<main, Host, Database, deployLock>>

validate_service_images_running(d) ==
    /\ At(d, "validateRollback")
    /\ running = Services /\ image = deployment[d].old
    /\ GoesTo(d, "recordOld")
    /\ UNCHANGED <<main, Host, Database, deployLock>>

Recorded(d) == IF At(d, "record") THEN AllTo(d, Sha(d)) ELSE OldImages(d)

\* current-image.override.json after a deployment, and after a rollback.
write_image_override(d) ==
    /\ At(d, "record") \/ At(d, "recordOld")
    /\ current' = Recorded(d)
    /\ interrupted' = FALSE
    /\ GoesTo(d, "receipt")
    /\ UNCHANGED <<main, image, running, Database, deployLock>>

\* ... and whatever else fails, or cuts the process off, ends it where it is; so does the end.
fails(d) ==
    /\ ~At(d, "none")
    /\ Ends(d)
    /\ UNCHANGED <<main, Host, Database>>

-----------------------------------------------------------------------------
(* Others. *)

push ==
    /\ main < MaxRelease
    /\ main' = main + 1
    /\ UNCHANGED <<Host, Database, deployment, deployLock>>

\* A container stops, or its restart policy starts it again.
stopsOrRestarts(s) ==
    /\ running' = IF s \in running THEN running \ {s} ELSE running \cup {s}
    /\ UNCHANGED <<main, image, current, interrupted, Database, deployment, deployLock>>

\* The operator resolves the broken migration by hand.
resolveMigration ==
    /\ failedMigration
    /\ failedMigration' = FALSE
    /\ UNCHANGED <<main, Host, applied, deployment, deployLock>>

Prepare(d) ==
    \/ \E r \in 0..main : startDeployment(d, r)
    \/ deploy_lock(d) \/ inventory(d)
    \/ require_current_main(d, "verify-main", "source")
    \/ prepare_source(d) \/ build_image(d) \/ backup_database(d)
    \/ validate_migrations(d)
    \/ require_current_main(d, "recheck-main", "migrate")
    \/ compose_run_migrations(d) \/ validateAfter(d)
    \/ require_current_main(d, "activate", "compose")

Activate(d) ==
    \/ composeUp(d, "compose", "up") \/ \E s \in Services : recreate(d, s)
    \/ health_ok(d) \/ validate_recreated_services(d)
    \/ activationFails(d) \/ composeUp(d, "rollback", "rollbackUp")
    \/ rollbackHealthy(d) \/ validate_service_images_running(d)
    \/ write_image_override(d) \/ fails(d)

DeployNext ==
    \/ \E d \in Deployments : Prepare(d) \/ Activate(d)
    \/ push
    \/ \E s \in Services : stopsOrRestarts(s)
    \/ resolveMigration

DeploySpec == DeployInit /\ [][DeployNext]_deployVars

-----------------------------------------------------------------------------
(* Properties. *)

\* No service ever runs code whose migrations are not applied, and what else is applied was
\* reviewed as compatible with older code: after a broken migration, a rollback or a deployment
\* cut off anywhere, and with any two deployments racing.
SchemaServesServices ==
    \A s \in Services :
        /\ SourceTree[image[s]] \subseteq applied
        /\ \A m \in applied \ SourceTree[image[s]] : \E r \in Releases : m \in Policy[r]

\* Unless a deployment recreates services, or was cut off while it did, the record names the images
\* they run: those of a commit, or the mixture a cut-off one had left and a rollback put back.
RecordIsTrue == ~interrupted => current = image

\* Whatever step a deployment fails or is cut off at, services find their schema and the record is true.
ServicesSound == SchemaServesServices /\ RecordIsTrue

\* A service goes back to an older release only in a rollback, to the image it had when that
\* deployment began: a late or repeated deployment of an older commit never replaces a newer one.
OnlyRollbackGoesBack ==
    [][\A s \in Services : image'[s] < image[s] =>
          \E d \in Deployments : At(d, "rollbackUp") /\ image'[s] = deployment[d].old[s]]_deployVars
=============================================================================
