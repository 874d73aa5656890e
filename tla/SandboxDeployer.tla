--------------------------- MODULE SandboxDeployer ---------------------------
(***************************************************************************)
(* Builds with the deployer that start_app_builds wires by default         *)
(* (__init__.py:53, sandbox_deployer.py).  A runner's calls of build and   *)
(* deploy, which BuildRunner lets answer anything, answer here what this   *)
(* deployer answers, and build spawns a pod on the way.                    *)
(***************************************************************************)
EXTENDS BuildRunner

VARIABLES
    stage,  \* what the build() under way for b does next
    pods    \* pods spawned for b; nobody deletes their objects

deployerVars == <<stage, pods>>
deployedVars == <<storeVars, runnerVars, deployerVars>>

-----------------------------------------------------------------------------

\* An integration block: its type and the keys it has.
IntegrationTypes == {"module-federation", "iframe", "web-component", "spa"}
IntegrationKeys == {"type", "remoteEntry", "scope", "module", "url"}

\* validate_integration finds no problem.  What its URLs look like is data.
ValidIntegration(i) ==
    /\ i.keys \subseteq IntegrationKeys
    /\ i.type \in IntegrationTypes
    /\ i.type = "module-federation" => {"remoteEntry", "scope", "module"} \subseteq i.keys

\* What deploy() returns, whatever was built.
DeployedIntegration ==
    [type |-> "microfrontend",
     keys |-> {"type", "slug", "entrypoint", "mfeName", "exposedModule", "organizationId"}]

-----------------------------------------------------------------------------

DeployerInit == stage = [b \in Sessions |-> "spawn"] /\ pods = [b \in Sessions |-> 0]

\* build() asks for a pod; a failure is logged and the build goes on.
SpawnBuildPod(b) ==
    /\ At(b, "build") /\ stage[b] = "spawn"
    /\ stage' = [stage EXCEPT ![b] = "answer"]
    /\ \/ pods' = [pods EXCEPT ![b] = @ + 1]
       \/ UNCHANGED pods
    /\ UNCHANGED <<storeVars, runnerVars>>

\* build() answers an artifact, never an error; deploy() answers its
\* integration, which _steps keeps or refuses.
DeployerAnswers ==
    \A b \in Sessions :
        /\ At(b, "build") /\ runner'[b].pc = "keepArtifact" => stage[b] = "answer"
        /\ At(b, "build") => runner'[b].pc # "fail"
        /\ At(b, "deploy") /\ runner'[b].pc = "keepDeploy" => ValidIntegration(DeployedIntegration)
        /\ At(b, "deploy") /\ runner'[b].pc = "fail" =>
               ~ValidIntegration(DeployedIntegration) /\ runner'[b].code = "manifest_invalid"

\* A call of build() begins anew each time a runner comes to it; cancel() of
\* the deployer is the inherited one, which does nothing.
DeployedStep ==
    /\ RunnerNext /\ DeployerAnswers
    /\ stage' = [b \in Sessions |-> IF At(b, "build") /\ runner'[b].pc = "build" THEN stage[b] ELSE "spawn"]
    /\ UNCHANGED pods

DeployedNext == DeployedStep \/ \E b \in Sessions : SpawnBuildPod(b)

DeployedSpec == RunnerInitAll /\ DeployerInit /\ [][DeployedNext]_deployedVars

-----------------------------------------------------------------------------

\* What deploy returns is never kept, so no session registers an application
\* or ends deployed.
NothingIsDeployed ==
    /\ \A b \in Sessions : rec[b].status # "deployed"
    /\ \A s \in Slugs : registry[s] \notin Sessions

-----------------------------------------------------------------------------
\* What comments and docs of the repository say and the code does not do.

\* deployer.py:38: deploy returns the "FuzeFront manifest integration block for
\* the deployed app": no build fails because its integration is refused.
IntegrationAccepted == \A b \in Sessions : rec[b].error_code # "manifest_invalid"

\* deployer.py:10: "An implementation must be idempotent on
\* ctx.build_session_id": a build that is invoked again spawns no second pod.
OnePodEach == \A b \in Sessions : pods[b] <= 1

\* docs/app-builds.md:80: "no deploy is ever faked": an artifact is kept only
\* of a build that a pod was spawned for.
NothingIsFaked == \A b \in Sessions : rec[b].artifact => pods[b] > 0
=============================================================================
