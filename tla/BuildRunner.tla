---------------------------- MODULE BuildRunner -----------------------------
(***************************************************************************)
(* The runner tasks of BuildRuntime (runtime.py): accepting and cancelling *)
(* a session, the step ladder of _steps, registration against FuzeFront's  *)
(* app registry, and resumption after a restart.  An action is what runs   *)
(* between two awaits; everything a task holds across an await is in       *)
(* runner[b] and is lost when the process stops.                           *)
(***************************************************************************)
EXTENDS BuildStore

CONSTANTS Foreign,           \* an owner that is no session of ours
          Unowned,           \* the owner of a slug nobody registered
          Candidates,        \* Candidates[b]: candidate_slugs of session b
          RegistryAttempts,  \* settings.registry_attempts
          MaxLost            \* bound: register POSTs whose answer is lost

ASSUME RunnerAssumption ==
  /\ Foreign \notin Sessions
  /\ Unowned \notin Sessions \cup {Foreign}
  /\ Candidates \in [Sessions -> Seq(Slugs)]
  /\ RegistryAttempts \in Nat \ {0}
  /\ MaxLost \in Nat

VARIABLES runner,     \* runner[b]: the asyncio task of session b
          accepting,  \* accept() stored the row and has yet to enqueue it
          canceller,  \* canceller[b]: where the cancel() call of b stands
          registry,   \* registry[s]: FuzeFront's owner of slug s
          wire,       \* register POSTs sent whose sender no longer waits
          lost        \* POSTs whose answer was lost so far

runnerVars == <<runner, accepting, canceller, registry, wire, lost>>

Owners == Sessions \cup {Foreign}

-----------------------------------------------------------------------------
(* The fields a runner decides from, as the last store.get returned them.  *)
View(r) ==
  [status |-> r.status, artifact |-> r.artifact,
   deploy_result |-> r.deploy_result, slug |-> r.slug,
   slugs_tried |-> r.slugs_tried,
   register_attempted |-> r.register_attempted]

Idle == [pc |-> "off", next |-> "off", seen |-> View(NoRow), slug |-> NoSlug,
         resumed |-> FALSE, tries |-> 0, cand |-> 1, code |-> "none"]

RunnerInit ==
  /\ runner = [b \in Sessions |-> Idle]
  /\ accepting = {}
  /\ canceller = [b \in Sessions |-> "none"]
  /\ registry = [s \in Slugs |-> Unowned]
  /\ wire = {}
  /\ lost = 0

(* The ladder of _steps: which unfinished step follows, given what was read.*)
AfterDeploying(v) == IF v.deploy_result THEN "register" ELSE "deploy"

AfterArtifact(v) == IF v.status = "building" THEN "announceDeploying"
                                             ELSE AfterDeploying(v)

(* Mutant: a resumed session builds again.                                 *)
AfterBeginRebuilds(v) == "build"

AfterBegin(v) == IF v.artifact THEN AfterArtifact(v) ELSE "build"

(* Where a runner continues once _persist has read the row back.           *)
Continue(label, v) ==
  CASE label = "begun"        -> AfterBegin(v)
    [] label = "artifactKept" -> AfterArtifact(v)
    [] label = "announced"    -> AfterDeploying(v)
    [] OTHER                  -> label

At(b, pc) == up /\ runner[b].pc = pc

Goto(b, pc) == runner' = [runner EXCEPT ![b].pc = pc]

Stop(b) == runner' = [runner EXCEPT ![b] = Idle]

FailWith(b, code) ==
  runner' = [runner EXCEPT ![b].pc = "fail", ![b].code = code]

(* _persist: write new unless the session is terminal; then raise _Stop.   *)
Persist(b, new, local) ==
  /\ \/ Terminal(rec[b]) /\ Stop(b) /\ UNCHANGED rec
     \/ /\ ~Terminal(rec[b])
        /\ rec' = [rec EXCEPT ![b] = new]
        /\ runner' = [runner EXCEPT ![b] = [local EXCEPT !.pc = "readBack"]]
  /\ UNCHANGED <<up, crashes, storeFaults, accepting, canceller,
                 registry, wire, lost>>

Then(b, label) == [runner[b] EXCEPT !.next = label]

OnlyRunner == UNCHANGED <<rec, up, crashes, storeFaults, accepting,
                          canceller, registry, wire, lost>>

-----------------------------------------------------------------------------
(* accept: create_if_absent, then enqueue.  A replay of a stored request   *)
(* changes nothing.                                                        *)
Accept(b) ==
  /\ up /\ ~Exists(rec[b])
  /\ rec' = [rec EXCEPT ![b] = NewRecord]
  /\ accepting' = accepting \cup {b}
  /\ UNCHANGED <<up, crashes, storeFaults, runner, canceller,
                 registry, wire, lost>>

(* enqueue starts a task unless a live one exists.                         *)
Enqueue(b) ==
  /\ up /\ b \in accepting
  /\ accepting' = accepting \ {b}
  /\ IF runner[b].pc = "off" THEN Goto(b, "start") ELSE UNCHANGED runner
  /\ UNCHANGED <<rec, up, crashes, storeFaults, canceller,
                 registry, wire, lost>>

(* Mutant: a resumed session starts over at building.                      *)
RunnerStartsAfresh(b) ==
  /\ At(b, "start")
  /\ IF Active(rec[b])
     THEN runner' = [runner EXCEPT ![b].seen = View(rec[b]), ![b].pc = "begin"]
     ELSE Stop(b)
  /\ OnlyRunner

RunnerStarts(b) ==
  /\ At(b, "start")
  /\ IF Active(rec[b])
     THEN runner' = [runner EXCEPT
            ![b].seen = View(rec[b]),
            ![b].pc = IF rec[b].status = "accepted"
                      THEN "begin" ELSE AfterBegin(View(rec[b]))]
     ELSE Stop(b)
  /\ OnlyRunner

AnnounceBuilding(b) ==
  /\ At(b, "begin")
  /\ Persist(b, Announce(rec[b], "building", NoSlug), Then(b, "begun"))

(* The store.get at the end of _persist.                                   *)
ReadBack(b) ==
  /\ At(b, "readBack")
  /\ IF runner[b].next = "off" THEN Stop(b)
     ELSE runner' = [runner EXCEPT
            ![b].seen = View(rec[b]),
            ![b].next = "off",
            ![b].pc = Continue(runner[b].next, View(rec[b]))]
  /\ OnlyRunner

(* deployer.build and deployer.deploy are external: they answer or raise.  *)
Build(b) ==
  /\ At(b, "build")
  /\ \/ Goto(b, "keepArtifact")
     \/ \E code \in {"deploy_failed", "internal_error"} : FailWith(b, code)
  /\ OnlyRunner

KeepArtifact(b) ==
  /\ At(b, "keepArtifact")
  /\ Persist(b, [rec[b] EXCEPT !.artifact = TRUE], Then(b, "artifactKept"))

AnnounceDeploying(b) ==
  /\ At(b, "announceDeploying")
  /\ Persist(b, Announce(rec[b], "deploying", NoSlug), Then(b, "announced"))

Deploy(b) ==
  /\ At(b, "deploy")
  /\ \/ Goto(b, "keepDeploy")
     \/ \E code \in {"deploy_failed", "manifest_invalid", "internal_error"} :
          FailWith(b, code)
  /\ OnlyRunner

KeepDeploy(b) ==
  /\ At(b, "keepDeploy")
  /\ Persist(b, [rec[b] EXCEPT !.deploy_result = TRUE], Then(b, "register"))

-----------------------------------------------------------------------------
(* _register: the top of its loop.                                         *)
EnterRegister(b) ==
  /\ At(b, "register")
  /\ \/ Terminal(rec[b]) /\ Stop(b)
     \/ /\ ~Terminal(rec[b])
        /\ rec[b].registered /\ rec[b].app_slug # NoSlug
        /\ runner' = [runner EXCEPT ![b].pc = "finish",
                                    ![b].slug = rec[b].app_slug]
     \/ /\ ~Terminal(rec[b])
        /\ ~(rec[b].registered /\ rec[b].app_slug # NoSlug)
        /\ runner' = [runner EXCEPT
             ![b].seen = View(rec[b]), ![b].slug = rec[b].slug,
             ![b].tries = 0, ![b].cand = 1,
             ![b].pc = IF rec[b].slug = NoSlug THEN "pick" ELSE "mark"]
  /\ OnlyRunner

Candidate(b) == Candidates[b][runner[b].cand]

(* Mutant: the last candidate is never tried.                              *)
MoreCandidatesShort(b) == runner[b].cand < Len(Candidates[b])

MoreCandidates(b) == runner[b].cand <= Len(Candidates[b])

Untried(b) == MoreCandidates(b) /\ Candidate(b) \notin runner[b].seen.slugs_tried

(* _registry: a transient answer is retried until the attempts are used up.*)
RetryOrFail(b) ==
  IF runner[b].tries + 1 < RegistryAttempts
  THEN runner' = [runner EXCEPT ![b].tries = @ + 1]
  ELSE FailWith(b, "registry_unavailable")

SkipTried(b) ==
  /\ At(b, "pick") /\ MoreCandidates(b) /\ ~Untried(b)
  /\ runner' = [runner EXCEPT ![b].cand = @ + 1]
  /\ OnlyRunner

(* GET /apps/{slug} for the next untried candidate.                        *)
ProbeSlug(b) ==
  /\ At(b, "pick") /\ Untried(b)
  /\ \/ registry[Candidate(b)] # Unowned
        /\ runner' = [runner EXCEPT ![b].pc = "taken", ![b].tries = 0]
     \/ registry[Candidate(b)] = Unowned
        /\ runner' = [runner EXCEPT ![b].pc = "keepSlug", ![b].tries = 0,
                                    ![b].slug = Candidate(b)]
     \/ RetryOrFail(b)
     \/ FailWith(b, "registry_rejected")
  /\ OnlyRunner

NoCandidateLeft(b) ==
  /\ At(b, "pick") /\ ~MoreCandidates(b)
  /\ FailWith(b, "slug_unavailable")
  /\ OnlyRunner

NoteTaken(b) ==
  /\ At(b, "taken")
  /\ Persist(b, [rec[b] EXCEPT !.slugs_tried = @ \cup {Candidate(b)}],
             [runner[b] EXCEPT !.cand = @ + 1, !.next = "pick"])

(* Mutant: the chosen slug stays in memory.                                *)
KeepSlugInMemory(b) ==
  /\ At(b, "keepSlug")
  /\ Persist(b, [rec[b] EXCEPT !.register_attempted = FALSE], Then(b, "mark"))

KeepSlug(b) ==
  /\ At(b, "keepSlug")
  /\ Persist(b, [rec[b] EXCEPT !.slug = runner[b].slug,
                               !.register_attempted = FALSE],
             Then(b, "mark"))

(* Mutants: the attempt is not stored; it is stored before it is read.     *)
MarkAttemptUnstored(b) ==
  /\ At(b, "mark")
  /\ Persist(b, rec[b],
             [runner[b] EXCEPT !.resumed = runner[b].seen.register_attempted,
                               !.tries = 0, !.next = "post"])

MarkAttemptThenRead(b) ==
  /\ At(b, "mark")
  /\ Persist(b, [rec[b] EXCEPT !.register_attempted = TRUE],
             [runner[b] EXCEPT !.resumed = TRUE, !.tries = 0, !.next = "post"])

(* register_attempted is written before the POST; resumed is its value as  *)
(* read before that write.                                                 *)
MarkAttempt(b) ==
  /\ At(b, "mark")
  /\ Persist(b, [rec[b] EXCEPT !.register_attempted = TRUE],
             [runner[b] EXCEPT !.resumed = runner[b].seen.register_attempted,
                               !.tries = 0, !.next = "post"])

(* POST /apps.  The registry decides and its answer is read in one step.   *)
PostAnswered(b) ==
  /\ At(b, "post")
  /\ \/ /\ registry[runner[b].slug] = Unowned
        /\ registry' = [registry EXCEPT ![runner[b].slug] = b]
        /\ Goto(b, "record")
     \/ /\ registry[runner[b].slug] # Unowned
        /\ Goto(b, IF runner[b].resumed THEN "record" ELSE "retire")
        /\ UNCHANGED registry
     \/ RetryOrFail(b) /\ UNCHANGED registry                     \* 429, 5xx
     \/ FailWith(b, "registry_rejected") /\ UNCHANGED registry   \* other 4xx
  /\ UNCHANGED <<rec, up, crashes, storeFaults, accepting, canceller,
                 wire, lost>>

(* Transport error: the sender retries or gives up, the request may land.  *)
PostLost(b) ==
  /\ At(b, "post") /\ lost < MaxLost
  /\ RetryOrFail(b)
  /\ wire' = wire \cup {<<b, runner[b].slug>>}
  /\ lost' = lost + 1
  /\ UNCHANGED <<rec, up, crashes, storeFaults, accepting, canceller,
                 registry>>

(* Nobody reads the answer of a POST that lands late.                      *)
PostLands(p) ==
  /\ p \in wire
  /\ wire' = wire \ {p}
  /\ registry' = IF registry[p[2]] = Unowned
                 THEN [registry EXCEPT ![p[2]] = p[1]] ELSE registry
  /\ UNCHANGED <<rec, up, crashes, storeFaults, runner, accepting,
                 canceller, lost>>

(* Another owner registers a slug at FuzeFront.                            *)
ForeignRegisters(s) ==
  /\ registry[s] = Unowned
  /\ registry' = [registry EXCEPT ![s] = Foreign]
  /\ UNCHANGED <<rec, up, crashes, storeFaults, runner, accepting,
                 canceller, wire, lost>>

(* Mutant: a slug given up is not remembered.                              *)
RetireSlugForgets(b) ==
  /\ At(b, "retire")
  /\ Persist(b, [rec[b] EXCEPT !.slug = NoSlug], Then(b, "register"))

(* SlugConflict on a first attempt: give the slug up and go round again.   *)
RetireSlug(b) ==
  /\ At(b, "retire")
  /\ Persist(b, [rec[b] EXCEPT !.slugs_tried = @ \cup {runner[b].slug},
                               !.slug = NoSlug],
             Then(b, "register"))

(* Mutant: the registered slug is not recorded.                            *)
RecordRegistrationOnly(b) ==
  /\ At(b, "record")
  /\ Persist(b, [rec[b] EXCEPT !.registered = TRUE], Then(b, "finish"))

RecordRegistration(b) ==
  /\ At(b, "record")
  /\ Persist(b, [rec[b] EXCEPT !.registered = TRUE,
                               !.app_slug = runner[b].slug],
             Then(b, "finish"))

(* Mutant: the callback names the base slug.                               *)
FinishNamesBase(b) ==
  /\ At(b, "finish")
  /\ Persist(b, Announce(rec[b], "deployed", Candidates[b][1]), Then(b, "off"))

Finish(b) ==
  /\ At(b, "finish")
  /\ Persist(b, Announce(rec[b], "deployed", runner[b].slug), Then(b, "off"))

(* Mutant: _fail does not look whether the session has ended.              *)
FailAnyway(b) ==
  /\ At(b, "fail")
  /\ rec' = [rec EXCEPT ![b] = Announce(rec[b], "failed", NoSlug)]
  /\ Stop(b)
  /\ UNCHANGED <<up, crashes, storeFaults, accepting, canceller,
                 registry, wire, lost>>

(* _fail: a no-op on a terminal session; the task ends either way.         *)
Fail(b) ==
  /\ At(b, "fail")
  /\ IF Terminal(rec[b]) THEN UNCHANGED rec
     ELSE rec' = [rec EXCEPT ![b] =
            [Announce(rec[b], "failed", NoSlug) EXCEPT
               !.error_code = runner[b].code]]
  /\ Stop(b)
  /\ UNCHANGED <<up, crashes, storeFaults, accepting, canceller,
                 registry, wire, lost>>

StoreSteps == {"start", "begin", "keepArtifact", "announceDeploying",
               "keepDeploy", "register", "taken", "keepSlug", "mark",
               "retire", "record", "finish", "readBack"}

(* A store operation raises: run() turns it into _fail("internal_error");  *)
(* when _fail's own update raises, the task dies with the session active.  *)
RunnerStoreFault(b) ==
  /\ up /\ StoreRaises
  /\ \/ runner[b].pc \in StoreSteps /\ FailWith(b, "internal_error")
     \/ runner[b].pc = "fail" /\ Stop(b)
  /\ UNCHANGED <<rec, up, crashes, accepting, canceller,
                 registry, wire, lost>>

-----------------------------------------------------------------------------
(* cancel: the atomic update, a get, task.cancel(), then the deployer.     *)
CancelCommits(b) ==
  /\ up /\ Active(rec[b])
  /\ rec' = [rec EXCEPT ![b] = Cancelled(@)]
  /\ canceller' = [canceller EXCEPT ![b] = "get"]
  /\ UNCHANGED <<up, crashes, storeFaults, runner, accepting,
                 registry, wire, lost>>

(* Requests in flight when their task dies may still arrive.               *)
Abandoned(B) == {<<b, runner[b].slug>> : b \in {c \in B : runner[c].pc = "post"}}

(* Mutant: cancel() leaves the task alone.                                 *)
CancelForgetsTask(b) ==
  /\ up /\ canceller[b] = "get"
  /\ canceller' = [canceller EXCEPT ![b] = "deployer"]
  /\ UNCHANGED <<rec, up, crashes, storeFaults, runner, accepting,
                 registry, wire, lost>>

(* After its get, cancel() kills the task without another await between.   *)
CancelKillsTask(b) ==
  /\ up /\ canceller[b] = "get"
  /\ canceller' = [canceller EXCEPT ![b] = "deployer"]
  /\ wire' = wire \cup Abandoned({b})
  /\ Stop(b)
  /\ UNCHANGED <<rec, up, crashes, storeFaults, accepting, registry, lost>>

(* deployer.cancel is best effort: it returns or raises, and cancel answers.*)
CancelReturns(b) ==
  /\ up /\ canceller[b] = "deployer"
  /\ canceller' = [canceller EXCEPT ![b] = "done"]
  /\ UNCHANGED <<rec, up, crashes, storeFaults, runner, accepting,
                 registry, wire, lost>>

(* The get raises: the caller sees an error and the task is never killed.  *)
CancelStoreFault(b) ==
  /\ up /\ canceller[b] = "get" /\ StoreRaises
  /\ canceller' = [canceller EXCEPT ![b] = "raised"]
  /\ UNCHANGED <<rec, up, crashes, runner, accepting, registry, wire, lost>>

-----------------------------------------------------------------------------
(* Everything in memory is gone; requests already sent are not.            *)
RunnersDie ==
  /\ wire' = wire \cup Abandoned(Sessions)
  /\ runner' = [b \in Sessions |-> Idle]
  /\ accepting' = {}
  /\ canceller' = [b \in Sessions |-> "none"]
  /\ UNCHANGED <<rec, storeFaults, registry, lost>>

(* Mutant: only sessions that began to build are resumed.                  *)
RunnersResumeBegun ==
  /\ runner' = [b \in Sessions |->
       IF rec[b].status \in {"building", "deploying"}
       THEN [Idle EXCEPT !.pc = "start"] ELSE Idle]
  /\ UNCHANGED <<rec, crashes, storeFaults, accepting, canceller,
                 registry, wire, lost>>

(* start(): enqueue what list_active returns.                              *)
RunnersResume ==
  /\ \E listed \in SUBSET ActiveSessions :
       /\ Listed(listed, ActiveSessions)
       /\ runner' = [b \in Sessions |->
            IF b \in listed THEN [Idle EXCEPT !.pc = "start"] ELSE Idle]
  /\ UNCHANGED <<rec, crashes, storeFaults, accepting, canceller,
                 registry, wire, lost>>

(* start() logs and swallows a failing list_active: nothing is resumed.    *)
ResumeFails ==
  /\ StoreRaises
  /\ UNCHANGED <<rec, crashes, runner, accepting, canceller,
                 registry, wire, lost>>

-----------------------------------------------------------------------------
(* A step of the runner task of b, its environment's answers included.     *)
RunnerStep(b) ==
  \/ RunnerStarts(b)
  \/ AnnounceBuilding(b)
  \/ ReadBack(b)
  \/ Build(b)
  \/ KeepArtifact(b)
  \/ AnnounceDeploying(b)
  \/ Deploy(b)
  \/ KeepDeploy(b)
  \/ EnterRegister(b)
  \/ SkipTried(b)
  \/ ProbeSlug(b)
  \/ NoCandidateLeft(b)
  \/ NoteTaken(b)
  \/ KeepSlug(b)
  \/ MarkAttempt(b)
  \/ PostAnswered(b)
  \/ RetireSlug(b)
  \/ RecordRegistration(b)
  \/ Finish(b)
  \/ Fail(b)

CancelStep(b) ==
  \/ CancelCommits(b)
  \/ CancelKillsTask(b)
  \/ CancelReturns(b)
  \/ CancelStoreFault(b)

SessionStep(b) ==
  \/ Accept(b)
  \/ Enqueue(b)
  \/ RunnerStep(b)
  \/ PostLost(b)
  \/ RunnerStoreFault(b)
  \/ CancelStep(b)

RegistryStep ==
  \/ \E p \in wire : PostLands(p)
  \/ \E s \in Slugs : ForeignRegisters(s)

RunnerInitAll == StoreInit /\ RunnerInit

RunnerNext ==
  \/ \E b \in Sessions : SessionStep(b)
  \/ RegistryStep
  \/ ProcessStops /\ RunnersDie
  \/ ProcessStarts /\ (RunnersResume \/ ResumeFails)

RunnerSpec == RunnerInitAll /\ [][RunnerNext]_<<storeVars, runnerVars>>

-----------------------------------------------------------------------------
Snapshot ==
  [status : Status, artifact : BOOLEAN, deploy_result : BOOLEAN,
   slug : Slugs \cup {NoSlug}, slugs_tried : SUBSET Slugs,
   register_attempted : BOOLEAN]

PC == StoreSteps \cup {"off", "build", "deploy", "pick", "post", "fail"}

Label == {"off", "begun", "artifactKept", "announced", "register", "pick",
          "mark", "post", "finish"}

Runner ==
  [pc : PC, next : Label, seen : Snapshot, slug : Slugs \cup {NoSlug},
   resumed : BOOLEAN, tries : Nat, cand : Nat \ {0}, code : ErrorCode]

(* Every variable has its type.                                            *)
TypeOK ==
  /\ rec \in [Sessions -> BuildRecord]
  /\ up \in BOOLEAN /\ crashes \in Nat /\ storeFaults \in Nat
  /\ runner \in [Sessions -> Runner]
  /\ accepting \subseteq Sessions
  /\ canceller \in [Sessions -> {"none", "get", "deployer", "done", "raised"}]
  /\ registry \in [Slugs -> Owners \cup {Unowned}]
  /\ wire \subseteq Sessions \X Slugs
  /\ lost \in Nat

(* Every application FuzeFront holds for a session is at the slug its      *)
(* record names or at one the record gave up, whatever crashes, lost       *)
(* answers and cancellations came between: nothing registers unrecorded.   *)
RegistryTraceable ==
  \A b \in Sessions, s \in Slugs :
    registry[s] = b => s = rec[b].slug \/ s \in rec[b].slugs_tried

(* A session recorded as registered owns the slug it reports, as long as   *)
(* the process has not restarted (a resumed runner takes any 409 for its   *)
(* own earlier POST).                                                      *)
OwnAppUnlessRestarted ==
  crashes = 0 => \A b \in Sessions :
                   rec[b].registered => registry[rec[b].app_slug] = b

(* Restarts alone never register a second copy of a session's app: only a  *)
(* lost answer can.                                                        *)
OneAppUnlessLost ==
  lost = 0 => \A b \in Sessions, s, t \in Slugs :
                registry[s] = b /\ registry[t] = b => s = t

(* IllegalTransition is never raised: whenever the runner is about to write *)
(* a status of a session that is not terminal, advance accepts it.         *)
AdvanceNeverRefused ==
  \A b \in Sessions : ~Terminal(rec[b]) =>
    /\ runner[b].pc = "begin" => CanAdvance(rec[b], "building")
    /\ runner[b].pc = "announceDeploying" => CanAdvance(rec[b], "deploying")
    /\ runner[b].pc = "finish" => CanAdvance(rec[b], "deployed")
    /\ runner[b].pc = "fail" => CanAdvance(rec[b], "failed")

(* Once cancel() has answered, no task works for the session: the deployer *)
(* is not called and nothing is posted for it again.  (A task that accept  *)
(* starts late reads the terminal row and ends.)                           *)
CancelledIsQuiet ==
  \A b \in Sessions :
    rec[b].status = "cancelled" /\ canceller[b] \notin {"get", "raised"}
      => runner[b].pc \in {"off", "start", "fail"}

(* A step whose result is stored is never run again, and a step runs only  *)
(* on the stored results of the ones before it, across any restarts.       *)
FinishedStepsNotRedone ==
  \A b \in Sessions :
    /\ runner[b].pc \in {"build", "keepArtifact"} => ~rec[b].artifact
    /\ runner[b].pc \in {"deploy", "keepDeploy"} =>
         rec[b].artifact /\ ~rec[b].deploy_result
    /\ runner[b].pc \in {"pick", "keepSlug", "mark", "post", "retire"} =>
         rec[b].deploy_result /\ ~rec[b].registered

(* While the store answers and the listing limit is not reached, every     *)
(* session that is not terminal has a task or is about to get one.         *)
NoOrphan ==
  up /\ storeFaults = 0 /\ Cardinality(Sessions) <= ListLimit =>
    \A b \in ActiveSessions : runner[b].pc # "off" \/ b \in accepting

(* slug_unavailable is told only when every candidate slug is truly taken. *)
SlugUnavailableIsTrue ==
  \A b \in Sessions : rec[b].error_code = "slug_unavailable" =>
    \A i \in DOMAIN Candidates[b] : registry[Candidates[b][i]] # Unowned

(* The outbox tells the history: strictly forward statuses, the last one   *)
(* the session's own (a cancellation is not reported), and the deployed    *)
(* callback names the slug that was recorded.                              *)
OutboxTellsHistory ==
  \A b \in Sessions : LET o == rec[b].outbox IN
    /\ \A i, j \in DOMAIN o : i < j => CanTransition(o[i].status, o[j].status)
    /\ rec[b].status \in ReportedStatus =>
         o # << >> /\ o[Len(o)].status = rec[b].status
    /\ rec[b].status \in {"absent", "accepted"} => o = << >>
    /\ \A i \in DOMAIN o : o[i].status = "deployed" =>
         rec[b].registered /\ o[i].app = rec[b].app_slug

(* A terminal session keeps its status, its registration, its error and    *)
(* the callbacks it announced: no late step of anyone rewrites them.       *)
TerminalIsFinal ==
  [][\A b \in Sessions : Terminal(rec[b]) =>
       /\ rec'[b].status = rec[b].status
       /\ rec'[b].app_slug = rec[b].app_slug
       /\ rec'[b].error_code = rec[b].error_code
       /\ Len(rec'[b].outbox) = Len(rec[b].outbox)]_rec

(* What comments and docs of the repository say and the code does not do.  *)

(* runtime.py:427: a 409 after a resume means our own POST landed before.  *)
ResumedConflictIsOwn ==
  \A b \in Sessions : rec[b].registered => registry[rec[b].app_slug] = b

(* docs/app-builds.md:85-86: a 409 moves to the next slug before anything  *)
(* is registered for the session.                                          *)
RetiredSlugIsForeign ==
  \A b \in Sessions : \A s \in rec[b].slugs_tried : registry[s] # b

(* docs/app-builds.md:69-70: a pod restart resumes unfinished sessions.    *)
NobodyForgotten ==
  up => \A b \in ActiveSessions : runner[b].pc # "off" \/ b \in accepting
=============================================================================
