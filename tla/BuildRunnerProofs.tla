-------------------------- MODULE BuildRunnerProofs --------------------------
(***************************************************************************)
(* The runner tasks keep their invariants, whatever the number of sessions,*)
(* slugs, candidates, attempts, restarts, faults and lost answers.         *)
(***************************************************************************)
EXTENDS SandboxDeployer, BuildRecordsProofs, FiniteSetTheorems

-----------------------------------------------------------------------------
(* The inductive invariant, per session.                                   *)

(* A session without a row has no task and no application.                 *)
AbsentInv(b) ==
  ~Exists(rec[b]) => rec[b] = NoRow /\ runner[b] = Idle /\ b \notin accepting

(* Which results are stored at each status, terminal ones included.        *)
ResultsInv(b) ==
  /\ rec[b].status \in {"absent", "accepted"} => ~rec[b].artifact
  /\ rec[b].status = "building" => ~rec[b].deploy_result
  /\ rec[b].status = "deploying" => rec[b].artifact
  /\ rec[b].deploy_result => rec[b].artifact
  /\ rec[b].registered => rec[b].deploy_result /\ rec[b].app_slug # NoSlug

(* Where the task of b stands, counting a read-back as the step after it.  *)
Standing(b, pcs, labels) ==
  \/ runner[b].pc \in pcs
  \/ runner[b].pc = "readBack" /\ runner[b].next \in labels

(* What is stored when the task of b stands at a step, terminal or not.    *)
StoredInv(b) ==
  /\ Standing(b, {"build", "keepArtifact"}, {"begun"}) => ~rec[b].artifact
  /\ Standing(b, {"announceDeploying"}, {"artifactKept"}) => rec[b].artifact
  /\ Standing(b, {"deploy", "keepDeploy"}, {}) =>
       rec[b].artifact /\ ~rec[b].deploy_result
  /\ Standing(b, {}, {"announced"}) => rec[b].artifact
  /\ Standing(b, {"register", "pick", "taken", "keepSlug", "mark", "post",
                  "retire", "record", "finish"},
                 {"register", "pick", "mark", "post", "finish"}) =>
       rec[b].deploy_result
  /\ Standing(b, {"pick", "taken", "keepSlug", "mark", "post", "retire",
                  "record"},
                 {"pick", "mark", "post"}) => ~rec[b].registered
  /\ Standing(b, {"finish"}, {"finish"}) => rec[b].registered

(* The status at each step, unless the session has ended meanwhile.        *)
StatusInv(b) ==
  ~Terminal(rec[b]) =>
    /\ Standing(b, {"begin"}, {}) => rec[b].status = "accepted"
    /\ Standing(b, {"build", "keepArtifact", "announceDeploying"},
                   {"begun", "artifactKept"}) => rec[b].status = "building"
    /\ Standing(b, {"deploy", "keepDeploy", "register", "pick", "taken",
                    "keepSlug", "mark", "post", "retire", "record", "finish"},
                   {"announced", "register", "pick", "mark", "post",
                    "finish"}) => rec[b].status = "deploying"

(* The task's slug is the stored one from the choice to the last answer,   *)
(* and no slug is stored while it is choosing.                             *)
SlugInv(b) ==
  /\ Standing(b, {"pick", "taken", "keepSlug"}, {"pick"}) =>
       rec[b].slug = NoSlug
  /\ Standing(b, {"mark", "post", "record", "retire"}, {"mark", "post"}) =>
       runner[b].slug = rec[b].slug
  /\ Standing(b, {"keepSlug", "mark", "post", "record", "retire", "finish"},
                 {"mark", "post", "finish"}) =>
       runner[b].slug \in Slugs
  /\ Standing(b, {"taken"}, {}) =>
       MoreCandidates(b)

(* A slug at which b has an application or a request on the wire is known  *)
(* to its record.                                                          *)
NamesSlug(b, s) == s = rec[b].slug \/ s \in rec[b].slugs_tried

TraceInv(b) ==
  \A s \in Slugs : registry[s] = b \/ <<b, s>> \in wire => NamesSlug(b, s)

SessionInv(b) ==
  /\ AbsentInv(b)
  /\ ResultsInv(b)
  /\ StoredInv(b)
  /\ StatusInv(b)
  /\ SlugInv(b)
  /\ TraceInv(b)

RunnerInv ==
  /\ TypeOK
  /\ \A b \in Sessions : SessionInv(b)

-----------------------------------------------------------------------------
(* What a step of b leaves alone for every other session.                  *)
Frame(b) ==
  \A c \in Sessions \ {b} :
    /\ rec'[c] = rec[c] /\ runner'[c] = runner[c]
    /\ c \in accepting' <=> c \in accepting
    /\ \A s \in Slugs : /\ registry'[s] = c => registry[s] = c
                        /\ <<c, s>> \in wire' => <<c, s>> \in wire

LEMMA OtherSession ==
  ASSUME NEW c \in Sessions, SessionInv(c),
         rec'[c] = rec[c], runner'[c] = runner[c],
         c \in accepting' <=> c \in accepting,
         \A s \in Slugs : /\ registry'[s] = c => registry[s] = c
                          /\ <<c, s>> \in wire' => <<c, s>> \in wire
  PROVE  SessionInv(c)'
<1>1. AbsentInv(c)'
  BY DEF SessionInv, AbsentInv, Exists
<1>2. ResultsInv(c)'
  BY DEF SessionInv, ResultsInv
<1>3. StoredInv(c)'
  BY DEF SessionInv, StoredInv, Standing
<1>4. StatusInv(c)'
  BY DEF SessionInv, StatusInv, Standing, Terminal
<1>5. SlugInv(c)'
  BY DEF SessionInv, SlugInv, Standing, MoreCandidates
<1>6. TraceInv(c)'
  BY DEF SessionInv, TraceInv, NamesSlug
<1> QED
  BY <1>1, <1>2, <1>3, <1>4, <1>5, <1>6 DEF SessionInv

LEMMA FromFrame ==
  ASSUME RunnerInv, NEW b \in Sessions, Frame(b), TypeOK', SessionInv(b)'
  PROVE  RunnerInv'
<1>1. \A c \in Sessions \ {b} : SessionInv(c)'
  BY OtherSession DEF Frame, RunnerInv
<1> QED
  BY <1>1 DEF RunnerInv

LEMMA IdleType == Idle \in Runner
BY DEF Idle, Runner, PC, Label, Snapshot, View, NoRow, StoreSteps, Status, ErrorCode

LEMMA ViewType == ASSUME NEW r \in BuildRecord PROVE View(r) \in Snapshot
BY DEF View, BuildRecord, Snapshot

(* A task that ends leaves nothing behind that its session's row does not  *)
(* account for.                                                            *)
LEMMA StopKeeps ==
  ASSUME NEW b \in Sessions, SessionInv(b),
         rec'[b] = rec[b], runner'[b] = Idle,
         b \in accepting' => b \in accepting,
         \A s \in Slugs : /\ registry'[s] = b => registry[s] = b
                          /\ <<b, s>> \in wire' => NamesSlug(b, s)
  PROVE  SessionInv(b)'
<1>1. AbsentInv(b)'
  BY DEF SessionInv, AbsentInv, Exists
<1>2. ResultsInv(b)'
  BY DEF SessionInv, ResultsInv
<1>3. StoredInv(b)'
  BY DEF SessionInv, StoredInv, Standing, Idle
<1>4. StatusInv(b)'
  BY DEF SessionInv, StatusInv, Standing, Terminal, Idle
<1>5. SlugInv(b)'
  BY DEF SessionInv, SlugInv, Standing, MoreCandidates, Idle
<1>6. TraceInv(b)'
  BY DEF SessionInv, TraceInv, NamesSlug
<1> QED
  BY <1>1, <1>2, <1>3, <1>4, <1>5, <1>6 DEF SessionInv

(* _persist on a session that has ended: the task stops.                   *)
LEMMA PersistStops ==
  ASSUME RunnerInv, NEW b \in Sessions, NEW new, NEW local,
         Persist(b, new, local), Terminal(rec[b])
  PROVE  RunnerInv'
<1>1. rec' = rec /\ runner' = [runner EXCEPT ![b] = Idle]
  BY DEF Persist, Stop
<1>2. UNCHANGED <<up, crashes, storeFaults, accepting, canceller,
                  registry, wire, lost>>
  BY DEF Persist
<1>3. TypeOK'
  BY <1>1, <1>2, IdleType DEF RunnerInv, TypeOK
<1>4. Frame(b)
  BY <1>1, <1>2 DEF RunnerInv, TypeOK, Frame
<1>5. SessionInv(b)'
  BY <1>1, <1>2, StopKeeps DEF RunnerInv, TypeOK, SessionInv, TraceInv
<1> QED
  BY <1>3, <1>4, <1>5, FromFrame

(* _persist on a session that goes on: the row is written, the task reads  *)
(* it back.                                                                *)
LEMMA PersistWrites ==
  ASSUME RunnerInv, NEW b \in Sessions, NEW new \in BuildRecord,
         NEW local \in Runner, Persist(b, new, local), ~Terminal(rec[b])
  PROVE  /\ rec'[b] = new
         /\ runner'[b] = [local EXCEPT !.pc = "readBack"]
         /\ UNCHANGED <<accepting, registry, wire>>
         /\ TypeOK'
         /\ Frame(b)
<1>1. /\ rec' = [rec EXCEPT ![b] = new]
      /\ runner' = [runner EXCEPT ![b] = [local EXCEPT !.pc = "readBack"]]
      /\ UNCHANGED <<up, crashes, storeFaults, accepting, canceller,
                     registry, wire, lost>>
  BY DEF Persist
<1>2. [local EXCEPT !.pc = "readBack"] \in Runner
  BY DEF Runner, PC, StoreSteps
<1>3. TypeOK'
  BY <1>1, <1>2 DEF RunnerInv, TypeOK
<1> QED
  BY <1>1, <1>3 DEF RunnerInv, TypeOK, Frame

(* A step that moves only the task of b.                                   *)
LEMMA OnlyTaskMoves ==
  ASSUME RunnerInv, NEW b \in Sessions, NEW r \in Runner,
         runner' = [runner EXCEPT ![b] = r], OnlyRunner
  PROVE  /\ rec'[b] = rec[b] /\ runner'[b] = r
         /\ UNCHANGED <<accepting, registry, wire>>
         /\ TypeOK'
         /\ Frame(b)
<1>1. TypeOK'
  BY DEF OnlyRunner, RunnerInv, TypeOK
<1> QED
  BY <1>1 DEF OnlyRunner, RunnerInv, TypeOK, Frame

(* A task on its way to _fail asks nothing of its session's row.           *)
LEMMA FailingKeeps ==
  ASSUME NEW b \in Sessions, SessionInv(b), Exists(rec[b]),
         rec'[b] = rec[b], runner'[b].pc = "fail",
         UNCHANGED <<accepting, registry>>,
         \A s \in Slugs : <<b, s>> \in wire' => <<b, s>> \in wire \/ NamesSlug(b, s)
  PROVE  SessionInv(b)'
<1>1. AbsentInv(b)'
  BY DEF SessionInv, AbsentInv, Exists
<1>2. ResultsInv(b)'
  BY DEF SessionInv, ResultsInv
<1>3. StoredInv(b)'
  BY DEF StoredInv, Standing
<1>4. StatusInv(b)'
  BY DEF StatusInv, Standing
<1>5. SlugInv(b)'
  BY DEF SlugInv, Standing
<1>6. TraceInv(b)'
  BY DEF SessionInv, TraceInv, NamesSlug
<1> QED
  BY <1>1, <1>2, <1>3, <1>4, <1>5, <1>6 DEF SessionInv

(* A task that stands anywhere works for a session with a row.             *)
LEMMA TaskHasRow ==
  ASSUME NEW b \in Sessions, SessionInv(b), runner[b].pc # "off"
  PROVE  Exists(rec[b])
BY DEF SessionInv, AbsentInv, Idle

LEMMA StopInv ==
  ASSUME RunnerInv, NEW b \in Sessions, Stop(b), OnlyRunner
  PROVE  RunnerInv'
<1>1. SessionInv(b)
  BY DEF RunnerInv
<1>2. /\ rec'[b] = rec[b] /\ runner'[b] = Idle
      /\ UNCHANGED <<accepting, registry, wire>> /\ TypeOK' /\ Frame(b)
  BY IdleType, OnlyTaskMoves DEF Stop
<1>3. SessionInv(b)'
  BY <1>1, <1>2, StopKeeps DEF SessionInv, TraceInv
<1> QED
  BY <1>2, <1>3, FromFrame

LEMMA FailWithInv ==
  ASSUME RunnerInv, NEW b \in Sessions, NEW code \in ErrorCode,
         FailWith(b, code), OnlyRunner, runner[b].pc # "off"
  PROVE  RunnerInv'
<1> DEFINE r == [runner[b] EXCEPT !.pc = "fail", !.code = code]
<1>1. SessionInv(b) /\ runner[b] \in Runner
  BY DEF RunnerInv, TypeOK
<1>2. r \in Runner
  BY <1>1 DEF Runner, PC
<1>3. runner' = [runner EXCEPT ![b] = r]
  BY DEF FailWith, RunnerInv, TypeOK
<1>4. /\ rec'[b] = rec[b] /\ runner'[b] = r
      /\ UNCHANGED <<accepting, registry, wire>> /\ TypeOK' /\ Frame(b)
  BY <1>2, <1>3, OnlyTaskMoves
<1>5. runner'[b].pc = "fail"
  BY <1>1, <1>4 DEF Runner
<1>6. SessionInv(b)'
  BY <1>1, <1>4, <1>5, FailingKeeps, TaskHasRow
<1> QED
  BY <1>4, <1>6, FromFrame

-----------------------------------------------------------------------------
(* A candidate is a slug.                                                  *)
LEMMA CandidateType ==
  ASSUME TypeOK, NEW b \in Sessions, MoreCandidates(b)
  PROVE  Candidate(b) \in Slugs
<1>1. Candidates[b] \in Seq(Slugs)
  BY RunnerAssumption
<1>2. runner[b].cand \in 1..Len(Candidates[b])
  BY <1>1, LenProperties DEF TypeOK, Runner, MoreCandidates
<1> QED
  BY <1>1, <1>2, ElementOfSeq DEF Candidate

(* The steps of a task that go through _persist: such a step keeps the   *)
(* invariant when the row it writes and the read-back it leads to do,    *)
(* unless the session had ended.                                         *)
LEMMA PersistInv ==
  ASSUME RunnerInv, NEW b \in Sessions, NEW new \in BuildRecord,
         NEW local \in Runner, Persist(b, new, local),
         (/\ ~Terminal(rec[b])
          /\ rec'[b] = new
          /\ runner'[b] = [local EXCEPT !.pc = "readBack"]
          /\ UNCHANGED <<accepting, registry, wire>>) => SessionInv(b)'
  PROVE  RunnerInv'
<1>1. CASE Terminal(rec[b])
  BY <1>1, PersistStops
<1>2. CASE ~Terminal(rec[b])
  <2>1. /\ rec'[b] = new
        /\ runner'[b] = [local EXCEPT !.pc = "readBack"]
        /\ UNCHANGED <<accepting, registry, wire>> /\ TypeOK' /\ Frame(b)
    BY <1>2, PersistWrites
  <2> QED
    BY <1>2, <2>1, FromFrame
<1> QED
  BY <1>1, <1>2

LEMMA AnnounceBuildingInv ==
  ASSUME RunnerInv, NEW b \in Sessions, AnnounceBuilding(b)
  PROVE  RunnerInv'
<1> DEFINE new == Announce(rec[b], "building", NoSlug)
           local == Then(b, "begun")
<1>1. Persist(b, new, local) /\ runner[b].pc = "begin"
  BY DEF AnnounceBuilding, At
<1>2. rec[b] \in BuildRecord /\ runner[b] \in Runner /\ SessionInv(b)
  BY DEF RunnerInv, TypeOK
<1>3. new \in BuildRecord
  BY <1>1, <1>2, AnnounceType DEF ReportedStatus
<1>4. local \in Runner
  BY <1>2 DEF Then, Runner, Label, Snapshot
<1>5. ASSUME ~Terminal(rec[b]), rec'[b] = new,
             runner'[b] = [local EXCEPT !.pc = "readBack"],
             UNCHANGED <<accepting, registry, wire>>
      PROVE  SessionInv(b)'
  BY <1>1, <1>2, <1>5, NoSlugAssumption
  DEF SessionInv, AbsentInv, ResultsInv, StoredInv, StatusInv, SlugInv,
      TraceInv, NamesSlug, Standing, Then, Terminal, TerminalStatus,
      Exists, BuildRecord, Runner, Announce
<1> QED
  BY <1>1, <1>3, <1>4, <1>5, PersistInv

LEMMA KeepArtifactInv ==
  ASSUME RunnerInv, NEW b \in Sessions, KeepArtifact(b)
  PROVE  RunnerInv'
<1> DEFINE new == [rec[b] EXCEPT !.artifact = TRUE]
           local == Then(b, "artifactKept")
<1>1. Persist(b, new, local) /\ runner[b].pc = "keepArtifact"
  BY DEF KeepArtifact, At
<1>2. rec[b] \in BuildRecord /\ runner[b] \in Runner /\ SessionInv(b)
  BY DEF RunnerInv, TypeOK
<1>3. new \in BuildRecord
  BY <1>1, <1>2 DEF BuildRecord
<1>4. local \in Runner
  BY <1>2 DEF Then, Runner, Label, Snapshot
<1>5. ASSUME ~Terminal(rec[b]), rec'[b] = new,
             runner'[b] = [local EXCEPT !.pc = "readBack"],
             UNCHANGED <<accepting, registry, wire>>
      PROVE  SessionInv(b)'
  BY <1>1, <1>2, <1>5, NoSlugAssumption
  DEF SessionInv, AbsentInv, ResultsInv, StoredInv, StatusInv, SlugInv,
      TraceInv, NamesSlug, Standing, Then, Terminal, TerminalStatus,
      Exists, BuildRecord, Runner
<1> QED
  BY <1>1, <1>3, <1>4, <1>5, PersistInv

LEMMA AnnounceDeployingInv ==
  ASSUME RunnerInv, NEW b \in Sessions, AnnounceDeploying(b)
  PROVE  RunnerInv'
<1> DEFINE new == Announce(rec[b], "deploying", NoSlug)
           local == Then(b, "announced")
<1>1. Persist(b, new, local) /\ runner[b].pc = "announceDeploying"
  BY DEF AnnounceDeploying, At
<1>2. rec[b] \in BuildRecord /\ runner[b] \in Runner /\ SessionInv(b)
  BY DEF RunnerInv, TypeOK
<1>3. new \in BuildRecord
  BY <1>1, <1>2, AnnounceType DEF ReportedStatus
<1>4. local \in Runner
  BY <1>2 DEF Then, Runner, Label, Snapshot
<1>5. ASSUME ~Terminal(rec[b]), rec'[b] = new,
             runner'[b] = [local EXCEPT !.pc = "readBack"],
             UNCHANGED <<accepting, registry, wire>>
      PROVE  SessionInv(b)'
  BY <1>1, <1>2, <1>5, NoSlugAssumption
  DEF SessionInv, AbsentInv, ResultsInv, StoredInv, StatusInv, SlugInv,
      TraceInv, NamesSlug, Standing, Then, Terminal, TerminalStatus,
      Exists, BuildRecord, Runner, Announce
<1> QED
  BY <1>1, <1>3, <1>4, <1>5, PersistInv

LEMMA KeepDeployInv ==
  ASSUME RunnerInv, NEW b \in Sessions, KeepDeploy(b)
  PROVE  RunnerInv'
<1> DEFINE new == [rec[b] EXCEPT !.deploy_result = TRUE]
           local == Then(b, "register")
<1>1. Persist(b, new, local) /\ runner[b].pc = "keepDeploy"
  BY DEF KeepDeploy, At
<1>2. rec[b] \in BuildRecord /\ runner[b] \in Runner /\ SessionInv(b)
  BY DEF RunnerInv, TypeOK
<1>3. new \in BuildRecord
  BY <1>1, <1>2 DEF BuildRecord
<1>4. local \in Runner
  BY <1>2 DEF Then, Runner, Label, Snapshot
<1>5. ASSUME ~Terminal(rec[b]), rec'[b] = new,
             runner'[b] = [local EXCEPT !.pc = "readBack"],
             UNCHANGED <<accepting, registry, wire>>
      PROVE  SessionInv(b)'
  BY <1>1, <1>2, <1>5, NoSlugAssumption
  DEF SessionInv, AbsentInv, ResultsInv, StoredInv, StatusInv, SlugInv,
      TraceInv, NamesSlug, Standing, Then, Terminal, TerminalStatus,
      Exists, BuildRecord, Runner
<1> QED
  BY <1>1, <1>3, <1>4, <1>5, PersistInv

LEMMA NoteTakenInv ==
  ASSUME RunnerInv, NEW b \in Sessions, NoteTaken(b)
  PROVE  RunnerInv'
<1> DEFINE new == [rec[b] EXCEPT !.slugs_tried = @ \cup {Candidate(b)}]
           local == [runner[b] EXCEPT !.cand = @ + 1, !.next = "pick"]
<1>1. Persist(b, new, local) /\ runner[b].pc = "taken"
  BY DEF NoteTaken, At
<1>2. rec[b] \in BuildRecord /\ runner[b] \in Runner /\ SessionInv(b)
  BY DEF RunnerInv, TypeOK
<1>3. new \in BuildRecord
  <2>1. TypeOK /\ MoreCandidates(b)
    BY <1>1, <1>2 DEF RunnerInv, SessionInv, SlugInv, Standing
  <2>2. Candidate(b) \in Slugs
    BY <2>1, CandidateType
  <2> QED
    BY <1>2, <2>2 DEF BuildRecord
<1>4. local \in Runner
  <2>1. runner[b].cand + 1 \in Nat \ {0}
    BY <1>2 DEF Runner
  <2> QED
    BY <1>2, <2>1 DEF Runner, Label
<1>5. ASSUME ~Terminal(rec[b]), rec'[b] = new,
             runner'[b] = [local EXCEPT !.pc = "readBack"],
             UNCHANGED <<accepting, registry, wire>>
      PROVE  SessionInv(b)'
  BY <1>1, <1>2, <1>5, NoSlugAssumption
  DEF SessionInv, AbsentInv, ResultsInv, StoredInv, StatusInv, SlugInv,
      TraceInv, NamesSlug, Standing, Then, Terminal, TerminalStatus,
      Exists, BuildRecord, Runner
<1> QED
  BY <1>1, <1>3, <1>4, <1>5, PersistInv

LEMMA KeepSlugInv ==
  ASSUME RunnerInv, NEW b \in Sessions, KeepSlug(b)
  PROVE  RunnerInv'
<1> DEFINE new == [rec[b] EXCEPT !.slug = runner[b].slug,
                               !.register_attempted = FALSE]
           local == Then(b, "mark")
<1>1. Persist(b, new, local) /\ runner[b].pc = "keepSlug"
  BY DEF KeepSlug, At
<1>2. rec[b] \in BuildRecord /\ runner[b] \in Runner /\ SessionInv(b)
  BY DEF RunnerInv, TypeOK
<1>3. new \in BuildRecord
  BY <1>1, <1>2 DEF BuildRecord, SessionInv, SlugInv, Standing
<1>4. local \in Runner
  BY <1>2 DEF Then, Runner, Label, Snapshot
<1>5. ASSUME ~Terminal(rec[b]), rec'[b] = new,
             runner'[b] = [local EXCEPT !.pc = "readBack"],
             UNCHANGED <<accepting, registry, wire>>
      PROVE  SessionInv(b)'
  BY <1>1, <1>2, <1>5, NoSlugAssumption
  DEF SessionInv, AbsentInv, ResultsInv, StoredInv, StatusInv, SlugInv,
      TraceInv, NamesSlug, Standing, Then, Terminal, TerminalStatus,
      Exists, BuildRecord, Runner
<1> QED
  BY <1>1, <1>3, <1>4, <1>5, PersistInv

LEMMA MarkAttemptInv ==
  ASSUME RunnerInv, NEW b \in Sessions, MarkAttempt(b)
  PROVE  RunnerInv'
<1> DEFINE new == [rec[b] EXCEPT !.register_attempted = TRUE]
           local == [runner[b] EXCEPT !.resumed = runner[b].seen.register_attempted,
                                !.tries = 0, !.next = "post"]
<1>1. Persist(b, new, local) /\ runner[b].pc = "mark"
  BY DEF MarkAttempt, At
<1>2. rec[b] \in BuildRecord /\ runner[b] \in Runner /\ SessionInv(b)
  BY DEF RunnerInv, TypeOK
<1>3. new \in BuildRecord
  BY <1>1, <1>2 DEF BuildRecord
<1>4. local \in Runner
  BY <1>2 DEF Then, Runner, Label, Snapshot
<1>5. ASSUME ~Terminal(rec[b]), rec'[b] = new,
             runner'[b] = [local EXCEPT !.pc = "readBack"],
             UNCHANGED <<accepting, registry, wire>>
      PROVE  SessionInv(b)'
  BY <1>1, <1>2, <1>5, NoSlugAssumption
  DEF SessionInv, AbsentInv, ResultsInv, StoredInv, StatusInv, SlugInv,
      TraceInv, NamesSlug, Standing, Then, Terminal, TerminalStatus,
      Exists, BuildRecord, Runner
<1> QED
  BY <1>1, <1>3, <1>4, <1>5, PersistInv

LEMMA RetireSlugInv ==
  ASSUME RunnerInv, NEW b \in Sessions, RetireSlug(b)
  PROVE  RunnerInv'
<1> DEFINE new == [rec[b] EXCEPT !.slugs_tried = @ \cup {runner[b].slug},
                               !.slug = NoSlug]
           local == Then(b, "register")
<1>1. Persist(b, new, local) /\ runner[b].pc = "retire"
  BY DEF RetireSlug, At
<1>2. rec[b] \in BuildRecord /\ runner[b] \in Runner /\ SessionInv(b)
  BY DEF RunnerInv, TypeOK
<1>3. new \in BuildRecord
  BY <1>1, <1>2 DEF BuildRecord, SessionInv, SlugInv, Standing
<1>4. local \in Runner
  BY <1>2 DEF Then, Runner, Label, Snapshot
<1>5. ASSUME ~Terminal(rec[b]), rec'[b] = new,
             runner'[b] = [local EXCEPT !.pc = "readBack"],
             UNCHANGED <<accepting, registry, wire>>
      PROVE  SessionInv(b)'
  BY <1>1, <1>2, <1>5, NoSlugAssumption
  DEF SessionInv, AbsentInv, ResultsInv, StoredInv, StatusInv, SlugInv,
      TraceInv, NamesSlug, Standing, Then, Terminal, TerminalStatus,
      Exists, BuildRecord, Runner
<1> QED
  BY <1>1, <1>3, <1>4, <1>5, PersistInv

LEMMA RecordRegistrationInv ==
  ASSUME RunnerInv, NEW b \in Sessions, RecordRegistration(b)
  PROVE  RunnerInv'
<1> DEFINE new == [rec[b] EXCEPT !.registered = TRUE,
                               !.app_slug = runner[b].slug]
           local == Then(b, "finish")
<1>1. Persist(b, new, local) /\ runner[b].pc = "record"
  BY DEF RecordRegistration, At
<1>2. rec[b] \in BuildRecord /\ runner[b] \in Runner /\ SessionInv(b)
  BY DEF RunnerInv, TypeOK
<1>3. new \in BuildRecord
  BY <1>1, <1>2 DEF BuildRecord, SessionInv, SlugInv, Standing
<1>4. local \in Runner
  BY <1>2 DEF Then, Runner, Label, Snapshot
<1>5. ASSUME ~Terminal(rec[b]), rec'[b] = new,
             runner'[b] = [local EXCEPT !.pc = "readBack"],
             UNCHANGED <<accepting, registry, wire>>
      PROVE  SessionInv(b)'
  BY <1>1, <1>2, <1>5, NoSlugAssumption
  DEF SessionInv, AbsentInv, ResultsInv, StoredInv, StatusInv, SlugInv,
      TraceInv, NamesSlug, Standing, Then, Terminal, TerminalStatus,
      Exists, BuildRecord, Runner
<1> QED
  BY <1>1, <1>3, <1>4, <1>5, PersistInv

LEMMA FinishInv ==
  ASSUME RunnerInv, NEW b \in Sessions, Finish(b)
  PROVE  RunnerInv'
<1> DEFINE new == Announce(rec[b], "deployed", runner[b].slug)
           local == Then(b, "off")
<1>1. Persist(b, new, local) /\ runner[b].pc = "finish"
  BY DEF Finish, At
<1>2. rec[b] \in BuildRecord /\ runner[b] \in Runner /\ SessionInv(b)
  BY DEF RunnerInv, TypeOK
<1>3. new \in BuildRecord
  BY <1>1, <1>2, AnnounceType DEF ReportedStatus, Runner
<1>4. local \in Runner
  BY <1>2 DEF Then, Runner, Label, Snapshot
<1>5. ASSUME ~Terminal(rec[b]), rec'[b] = new,
             runner'[b] = [local EXCEPT !.pc = "readBack"],
             UNCHANGED <<accepting, registry, wire>>
      PROVE  SessionInv(b)'
  BY <1>1, <1>2, <1>5, NoSlugAssumption
  DEF SessionInv, AbsentInv, ResultsInv, StoredInv, StatusInv, SlugInv,
      TraceInv, NamesSlug, Standing, Then, Terminal, TerminalStatus,
      Exists, BuildRecord, Runner, Announce
<1> QED
  BY <1>1, <1>3, <1>4, <1>5, PersistInv

-----------------------------------------------------------------------------
(* The steps of a task that read the row, or call out, and write nothing.  *)

(* Such a step keeps the invariant when the place it moves to does.        *)
LEMMA TaskMoveInv ==
  ASSUME RunnerInv, NEW b \in Sessions, NEW r \in Runner,
         runner' = [runner EXCEPT ![b] = r], OnlyRunner,
         (/\ rec'[b] = rec[b] /\ runner'[b] = r
          /\ UNCHANGED <<accepting, registry, wire>>) => SessionInv(b)'
  PROVE  RunnerInv'
BY OnlyTaskMoves, FromFrame

LEMMA RunnerStartsInv ==
  ASSUME RunnerInv, NEW b \in Sessions, RunnerStarts(b)
  PROVE  RunnerInv'
<1> DEFINE r == [runner[b] EXCEPT !.seen = View(rec[b]),
                   !.pc = IF rec[b].status = "accepted"
                          THEN "begin" ELSE AfterBegin(View(rec[b]))]
<1>1. rec[b] \in BuildRecord /\ runner[b] \in Runner /\ SessionInv(b)
  BY DEF RunnerInv, TypeOK
<1>2. runner[b].pc = "start" /\ OnlyRunner
  BY DEF RunnerStarts, At
<1>3. CASE ~Active(rec[b])
  BY <1>2, <1>3, StopInv DEF RunnerStarts
<1>4. CASE Active(rec[b])
  <2>1. r \in Runner
    BY <1>1, ViewType
    DEF Runner, AfterBegin, AfterArtifact, AfterDeploying, PC, StoreSteps
  <2>2. runner' = [runner EXCEPT ![b] = r]
    BY <1>4 DEF RunnerStarts, RunnerInv, TypeOK
  <2>3. ASSUME rec'[b] = rec[b], runner'[b] = r,
               UNCHANGED <<accepting, registry, wire>>
        PROVE  SessionInv(b)'
    BY <1>1, <1>4, <2>3
    DEF SessionInv, AbsentInv, ResultsInv, StoredInv, StatusInv, SlugInv,
        TraceInv, NamesSlug, Standing, Terminal, TerminalStatus, Status,
        Exists, Active, BuildRecord, Runner, AfterBegin, AfterArtifact,
        AfterDeploying, View
  <2> QED
    BY <1>2, <2>1, <2>2, <2>3, TaskMoveInv
<1> QED
  BY <1>3, <1>4

LEMMA ReadBackInv ==
  ASSUME RunnerInv, NEW b \in Sessions, ReadBack(b)
  PROVE  RunnerInv'
<1> DEFINE pc == Continue(runner[b].next, View(rec[b]))
           r == [runner[b] EXCEPT !.seen = View(rec[b]), !.next = "off",
                                  !.pc = pc]
<1>1. rec[b] \in BuildRecord /\ runner[b] \in Runner /\ SessionInv(b)
  BY DEF RunnerInv, TypeOK
<1>2. runner[b].pc = "readBack" /\ OnlyRunner
  BY DEF ReadBack, At
<1>3. CASE runner[b].next = "off"
  BY <1>2, <1>3, StopInv DEF ReadBack
<1>4. CASE runner[b].next # "off"
  <2>1. pc \in PC
    BY <1>1, <1>4
    DEF Runner, Label, Continue, AfterBegin, AfterArtifact, AfterDeploying,
        PC, StoreSteps
  <2>2. r \in Runner
    BY <1>1, <2>1, ViewType DEF Runner, Label
  <2>3. runner' = [runner EXCEPT ![b] = r]
    BY <1>4 DEF ReadBack, RunnerInv, TypeOK
  <2>4. ASSUME rec'[b] = rec[b], runner'[b] = r,
               UNCHANGED <<accepting, registry, wire>>
        PROVE  SessionInv(b)'
    BY <1>1, <1>2, <1>4, <2>4
    DEF SessionInv, AbsentInv, ResultsInv, StoredInv, StatusInv, SlugInv,
        TraceInv, NamesSlug, Standing, Terminal, TerminalStatus, Status,
        Exists, BuildRecord, Runner, Label, Continue, AfterBegin,
        AfterArtifact, AfterDeploying, View
  <2> QED
    BY <1>2, <2>2, <2>3, <2>4, TaskMoveInv
<1> QED
  BY <1>3, <1>4

LEMMA BuildInv ==
  ASSUME RunnerInv, NEW b \in Sessions, Build(b)
  PROVE  RunnerInv'
<1> DEFINE r == [runner[b] EXCEPT !.pc = "keepArtifact"]
<1>1. rec[b] \in BuildRecord /\ runner[b] \in Runner /\ SessionInv(b)
  BY DEF RunnerInv, TypeOK
<1>2. runner[b].pc = "build" /\ OnlyRunner
  BY DEF Build, At
<1>3. CASE Goto(b, "keepArtifact")
  <2>1. r \in Runner
    BY <1>1 DEF Runner, PC, StoreSteps
  <2>2. runner' = [runner EXCEPT ![b] = r]
    BY <1>3 DEF Goto, RunnerInv, TypeOK
  <2>3. ASSUME rec'[b] = rec[b], runner'[b] = r,
               UNCHANGED <<accepting, registry, wire>>
        PROVE  SessionInv(b)'
    BY <1>1, <1>2, <2>3
    DEF SessionInv, AbsentInv, ResultsInv, StoredInv, StatusInv, SlugInv,
        TraceInv, NamesSlug, Standing, Terminal, Exists, Runner, Idle
  <2> QED
    BY <1>2, <2>1, <2>2, <2>3, TaskMoveInv
<1>4. CASE \E code \in {"deploy_failed", "internal_error"} : FailWith(b, code)
  BY <1>2, <1>4, FailWithInv DEF ErrorCode
<1> QED
  BY <1>3, <1>4 DEF Build

LEMMA DeployInv ==
  ASSUME RunnerInv, NEW b \in Sessions, Deploy(b)
  PROVE  RunnerInv'
<1> DEFINE r == [runner[b] EXCEPT !.pc = "keepDeploy"]
<1>1. rec[b] \in BuildRecord /\ runner[b] \in Runner /\ SessionInv(b)
  BY DEF RunnerInv, TypeOK
<1>2. runner[b].pc = "deploy" /\ OnlyRunner
  BY DEF Deploy, At
<1>3. CASE Goto(b, "keepDeploy")
  <2>1. r \in Runner
    BY <1>1 DEF Runner, PC, StoreSteps
  <2>2. runner' = [runner EXCEPT ![b] = r]
    BY <1>3 DEF Goto, RunnerInv, TypeOK
  <2>3. ASSUME rec'[b] = rec[b], runner'[b] = r,
               UNCHANGED <<accepting, registry, wire>>
        PROVE  SessionInv(b)'
    BY <1>1, <1>2, <2>3
    DEF SessionInv, AbsentInv, ResultsInv, StoredInv, StatusInv, SlugInv,
        TraceInv, NamesSlug, Standing, Terminal, Exists, Runner, Idle
  <2> QED
    BY <1>2, <2>1, <2>2, <2>3, TaskMoveInv
<1>4. CASE \E code \in {"deploy_failed", "manifest_invalid", "internal_error"} :
             FailWith(b, code)
  BY <1>2, <1>4, FailWithInv DEF ErrorCode
<1> QED
  BY <1>3, <1>4 DEF Deploy

LEMMA EnterRegisterInv ==
  ASSUME RunnerInv, NEW b \in Sessions, EnterRegister(b)
  PROVE  RunnerInv'
<1>1. rec[b] \in BuildRecord /\ runner[b] \in Runner /\ SessionInv(b)
  BY DEF RunnerInv, TypeOK
<1>2. runner[b].pc = "register" /\ OnlyRunner
  BY DEF EnterRegister, At
<1>3. CASE Terminal(rec[b])
  BY <1>2, <1>3, StopInv DEF EnterRegister
<1>4. CASE ~Terminal(rec[b]) /\ rec[b].registered /\ rec[b].app_slug # NoSlug
  <2> DEFINE r == [runner[b] EXCEPT !.pc = "finish", !.slug = rec[b].app_slug]
  <2>1. r \in Runner
    BY <1>1 DEF Runner, BuildRecord, PC, StoreSteps
  <2>2. runner' = [runner EXCEPT ![b] = r]
    BY <1>4 DEF EnterRegister, RunnerInv, TypeOK
  <2>3. ASSUME rec'[b] = rec[b], runner'[b] = r,
               UNCHANGED <<accepting, registry, wire>>
        PROVE  SessionInv(b)'
    BY <1>1, <1>2, <1>4, <2>3
    DEF SessionInv, AbsentInv, ResultsInv, StoredInv, StatusInv, SlugInv,
        TraceInv, NamesSlug, Standing, Terminal, Exists, Runner, Idle,
        BuildRecord
  <2> QED
    BY <1>2, <2>1, <2>2, <2>3, TaskMoveInv
<1>5. CASE ~Terminal(rec[b]) /\ ~(rec[b].registered /\ rec[b].app_slug # NoSlug)
  <2> DEFINE r == [runner[b] EXCEPT
                     !.seen = View(rec[b]), !.slug = rec[b].slug,
                     !.tries = 0, !.cand = 1,
                     !.pc = IF rec[b].slug = NoSlug THEN "pick" ELSE "mark"]
  <2>1. r \in Runner
    <3>1. View(rec[b]) \in Snapshot
      BY <1>1, ViewType
    <3>2. rec[b].slug \in Slugs \cup {NoSlug}
      BY <1>1 DEF BuildRecord
    <3>3. (IF rec[b].slug = NoSlug THEN "pick" ELSE "mark") \in PC
      BY DEF PC, StoreSteps
    <3>4. 0 \in Nat /\ 1 \in Nat \ {0}
      OBVIOUS
    <3> QED
      BY <1>1, <3>1, <3>2, <3>3, <3>4 DEF Runner
  <2>2. runner' = [runner EXCEPT ![b] = r]
    BY <1>5 DEF EnterRegister, RunnerInv, TypeOK
  <2>3. ASSUME rec'[b] = rec[b], runner'[b] = r,
               UNCHANGED <<accepting, registry, wire>>
        PROVE  SessionInv(b)'
    BY <1>1, <1>2, <1>5, <2>3
    DEF SessionInv, AbsentInv, ResultsInv, StoredInv, StatusInv, SlugInv,
        TraceInv, NamesSlug, Standing, Terminal, Exists, Runner, Idle,
        BuildRecord
  <2> QED
    BY <1>2, <2>1, <2>2, <2>3, TaskMoveInv
<1> QED
  BY <1>3, <1>4, <1>5

(* A call of the registry that is tried again, or given up.                *)
LEMMA RetryInv ==
  ASSUME RunnerInv, NEW b \in Sessions, RetryOrFail(b), OnlyRunner,
         runner[b].pc \in {"pick", "post"}
  PROVE  RunnerInv'
<1> DEFINE r == [runner[b] EXCEPT !.tries = @ + 1]
<1>1. rec[b] \in BuildRecord /\ runner[b] \in Runner /\ SessionInv(b)
  BY DEF RunnerInv, TypeOK
<1>2. CASE runner' = [runner EXCEPT ![b].tries = @ + 1]
  <2>1. r \in Runner
    BY <1>1 DEF Runner
  <2>2. runner' = [runner EXCEPT ![b] = r]
    BY <1>2 DEF RunnerInv, TypeOK
  <2>3. ASSUME rec'[b] = rec[b], runner'[b] = r,
               UNCHANGED <<accepting, registry, wire>>
        PROVE  SessionInv(b)'
    BY <1>1, <2>3
    DEF SessionInv, AbsentInv, ResultsInv, StoredInv, StatusInv, SlugInv,
        TraceInv, NamesSlug, Standing, Terminal, Exists, Runner, Idle
  <2> QED
    BY <2>1, <2>2, <2>3, TaskMoveInv
<1>3. CASE FailWith(b, "registry_unavailable")
  BY <1>3, FailWithInv DEF ErrorCode
<1> QED
  BY <1>2, <1>3 DEF RetryOrFail

LEMMA SkipTriedInv ==
  ASSUME RunnerInv, NEW b \in Sessions, SkipTried(b)
  PROVE  RunnerInv'
<1> DEFINE r == [runner[b] EXCEPT !.cand = @ + 1]
<1>1. rec[b] \in BuildRecord /\ runner[b] \in Runner /\ SessionInv(b)
  BY DEF RunnerInv, TypeOK
<1>2. runner[b].pc = "pick" /\ OnlyRunner
  BY DEF SkipTried, At
<1>3. r \in Runner
  BY <1>1 DEF Runner
<1>4. runner' = [runner EXCEPT ![b] = r]
  BY DEF SkipTried, RunnerInv, TypeOK
<1>5. ASSUME rec'[b] = rec[b], runner'[b] = r,
             UNCHANGED <<accepting, registry, wire>>
      PROVE  SessionInv(b)'
  BY <1>1, <1>2, <1>5
    DEF SessionInv, AbsentInv, ResultsInv, StoredInv, StatusInv, SlugInv,
        TraceInv, NamesSlug, Standing, Terminal, Exists, Runner, Idle
<1> QED
  BY <1>2, <1>3, <1>4, <1>5, TaskMoveInv

LEMMA ProbeSlugInv ==
  ASSUME RunnerInv, NEW b \in Sessions, ProbeSlug(b)
  PROVE  RunnerInv'
<1>1. TypeOK /\ rec[b] \in BuildRecord /\ runner[b] \in Runner /\ SessionInv(b)
  BY DEF RunnerInv, TypeOK
<1>2. runner[b].pc = "pick" /\ OnlyRunner /\ MoreCandidates(b)
  BY DEF ProbeSlug, At, Untried
<1>3. Candidate(b) \in Slugs
  BY <1>1, <1>2, CandidateType
<1>4. CASE runner' = [runner EXCEPT ![b].pc = "taken", ![b].tries = 0]
  <2> DEFINE r == [runner[b] EXCEPT !.pc = "taken", !.tries = 0]
  <2>1. r \in Runner
    BY <1>1 DEF Runner, PC, StoreSteps
  <2>2. runner' = [runner EXCEPT ![b] = r]
    BY <1>4 DEF RunnerInv, TypeOK
  <2>3. ASSUME rec'[b] = rec[b], runner'[b] = r,
               UNCHANGED <<accepting, registry, wire>>
        PROVE  SessionInv(b)'
    BY <1>1, <1>2, <2>3
    DEF SessionInv, AbsentInv, ResultsInv, StoredInv, StatusInv, SlugInv,
        TraceInv, NamesSlug, Standing, Terminal, Exists, Runner, Idle,
        MoreCandidates
  <2> QED
    BY <1>2, <2>1, <2>2, <2>3, TaskMoveInv
<1>5. CASE runner' = [runner EXCEPT ![b].pc = "keepSlug", ![b].tries = 0,
                                    ![b].slug = Candidate(b)]
  <2> DEFINE r == [runner[b] EXCEPT !.pc = "keepSlug", !.tries = 0,
                                    !.slug = Candidate(b)]
  <2>1. r \in Runner
    BY <1>1, <1>3 DEF Runner, PC, StoreSteps
  <2>2. runner' = [runner EXCEPT ![b] = r]
    BY <1>5 DEF RunnerInv, TypeOK
  <2>3. ASSUME rec'[b] = rec[b], runner'[b] = r,
               UNCHANGED <<accepting, registry, wire>>
        PROVE  SessionInv(b)'
    BY <1>1, <1>2, <1>3, <2>3
    DEF SessionInv, AbsentInv, ResultsInv, StoredInv, StatusInv, SlugInv,
        TraceInv, NamesSlug, Standing, Terminal, Exists, Runner, Idle
  <2> QED
    BY <1>2, <2>1, <2>2, <2>3, TaskMoveInv
<1>6. CASE RetryOrFail(b)
  BY <1>2, <1>6, RetryInv
<1>7. CASE FailWith(b, "registry_rejected")
  BY <1>2, <1>7, FailWithInv DEF ErrorCode
<1> QED
  BY <1>4, <1>5, <1>6, <1>7 DEF ProbeSlug

LEMMA NoCandidateLeftInv ==
  ASSUME RunnerInv, NEW b \in Sessions, NoCandidateLeft(b)
  PROVE  RunnerInv'
BY FailWithInv DEF NoCandidateLeft, At, ErrorCode

-----------------------------------------------------------------------------
(* The POST of a registration, its answers and its loss.                   *)

LEMMA PostAnsweredInv ==
  ASSUME RunnerInv, NEW b \in Sessions, PostAnswered(b)
  PROVE  RunnerInv'
<1>1. /\ TypeOK /\ rec[b] \in BuildRecord /\ runner[b] \in Runner
      /\ SessionInv(b)
  BY DEF RunnerInv, TypeOK
<1>2. /\ runner[b].pc = "post"
      /\ UNCHANGED <<rec, up, crashes, storeFaults, accepting, canceller,
                     wire, lost>>
  BY DEF PostAnswered, At
<1>3. runner[b].slug \in Slugs /\ runner[b].slug = rec[b].slug
  BY <1>1, <1>2 DEF SessionInv, SlugInv, Standing
<1>4. CASE registry' = [registry EXCEPT ![runner[b].slug] = b]
           /\ Goto(b, "record")
  <2> DEFINE r == [runner[b] EXCEPT !.pc = "record"]
  <2>1. r \in Runner
    BY <1>1 DEF Runner, PC, StoreSteps
  <2>2. runner' = [runner EXCEPT ![b] = r] /\ runner'[b] = r
    BY <1>1, <1>4 DEF Goto, TypeOK
  <2>3. registry' \in [Slugs -> Owners \cup {Unowned}]
    BY <1>1, <1>4 DEF TypeOK, Owners
  <2>4. TypeOK'
    BY <1>1, <1>2, <2>1, <2>2, <2>3 DEF TypeOK
  <2>5. Frame(b)
    BY <1>1, <1>2, <1>4, <2>2 DEF Frame, TypeOK
  <2>6. SessionInv(b)'
    BY <1>1, <1>2, <1>3, <1>4, <2>2
    DEF SessionInv, AbsentInv, ResultsInv, StoredInv, StatusInv, SlugInv,
        TraceInv, NamesSlug, Standing, Terminal, Exists, Runner, Idle, TypeOK
  <2> QED
    BY <2>4, <2>5, <2>6, FromFrame
<1>5. CASE /\ Goto(b, IF runner[b].resumed THEN "record" ELSE "retire")
           /\ UNCHANGED registry
  <2> DEFINE pc == IF runner[b].resumed THEN "record" ELSE "retire"
             r == [runner[b] EXCEPT !.pc = pc]
  <2>1. r \in Runner
    BY <1>1 DEF Runner, PC, StoreSteps
  <2>2. runner' = [runner EXCEPT ![b] = r] /\ OnlyRunner
    BY <1>1, <1>2, <1>5 DEF Goto, TypeOK, OnlyRunner
  <2>3. ASSUME rec'[b] = rec[b], runner'[b] = r,
               UNCHANGED <<accepting, registry, wire>>
        PROVE  SessionInv(b)'
    BY <1>1, <1>2, <1>3, <2>3
    DEF SessionInv, AbsentInv, ResultsInv, StoredInv, StatusInv, SlugInv,
        TraceInv, NamesSlug, Standing, Terminal, Exists, Runner, Idle
  <2> QED
    BY <2>1, <2>2, <2>3, TaskMoveInv
<1>6. CASE RetryOrFail(b) /\ UNCHANGED registry
  BY <1>2, <1>6, RetryInv DEF OnlyRunner
<1>7. CASE FailWith(b, "registry_rejected") /\ UNCHANGED registry
  BY <1>2, <1>7, FailWithInv DEF OnlyRunner, ErrorCode
<1> QED
  BY <1>4, <1>5, <1>6, <1>7 DEF PostAnswered

(* A retried or given up call changes the task only, and keeps its slug.   *)
LEMMA RetryTask ==
  ASSUME TypeOK, NEW b \in Sessions, RetryOrFail(b)
  PROVE  /\ runner' \in [Sessions -> Runner]
         /\ \A c \in Sessions \ {b} : runner'[c] = runner[c]
         /\ runner'[b].pc \in {runner[b].pc, "fail"}
         /\ runner'[b].next = runner[b].next
         /\ runner'[b].slug = runner[b].slug
<1>1. runner[b] \in Runner
  BY DEF TypeOK
<1>2. CASE runner' = [runner EXCEPT ![b].tries = @ + 1]
  <2>1. [runner[b] EXCEPT !.tries = @ + 1] \in Runner
    BY <1>1 DEF Runner
  <2> QED
    BY <1>1, <1>2, <2>1 DEF TypeOK, Runner
<1>3. CASE FailWith(b, "registry_unavailable")
  <2>1. [runner[b] EXCEPT !.pc = "fail", !.code = "registry_unavailable"]
          \in Runner
    BY <1>1 DEF Runner, PC, ErrorCode
  <2> QED
    BY <1>1, <1>3, <2>1 DEF TypeOK, Runner, FailWith
<1> QED
  BY <1>2, <1>3 DEF RetryOrFail

LEMMA PostLostInv ==
  ASSUME RunnerInv, NEW b \in Sessions, PostLost(b)
  PROVE  RunnerInv'
<1>1. /\ TypeOK /\ rec[b] \in BuildRecord /\ runner[b] \in Runner
      /\ SessionInv(b)
  BY DEF RunnerInv, TypeOK
<1>2. /\ runner[b].pc = "post" /\ RetryOrFail(b)
      /\ wire' = wire \cup {<<b, runner[b].slug>>} /\ lost' = lost + 1
      /\ UNCHANGED <<rec, up, crashes, storeFaults, accepting, canceller,
                     registry>>
  BY DEF PostLost, At
<1>3. runner[b].slug \in Slugs /\ runner[b].slug = rec[b].slug
  BY <1>1, <1>2 DEF SessionInv, SlugInv, Standing
<1>4. /\ runner' \in [Sessions -> Runner]
      /\ \A c \in Sessions \ {b} : runner'[c] = runner[c]
      /\ runner'[b].pc \in {runner[b].pc, "fail"}
      /\ runner'[b].next = runner[b].next
      /\ runner'[b].slug = runner[b].slug
  BY <1>1, <1>2, RetryTask
<1>5. TypeOK'
  BY <1>1, <1>2, <1>3, <1>4 DEF TypeOK
<1>6. Frame(b)
  BY <1>2, <1>4 DEF Frame
<1>7. SessionInv(b)'
  BY <1>1, <1>2, <1>3, <1>4
    DEF SessionInv, AbsentInv, ResultsInv, StoredInv, StatusInv, SlugInv,
        TraceInv, NamesSlug, Standing, Terminal, Exists, Runner, Idle
<1> QED
  BY <1>5, <1>6, <1>7, FromFrame

LEMMA PostLandsInv ==
  ASSUME RunnerInv, NEW p \in wire, PostLands(p)
  PROVE  RunnerInv'
<1>1. TypeOK /\ p \in Sessions \X Slugs
  BY DEF RunnerInv, TypeOK
<1>2. PICK c \in Sessions, s \in Slugs : p = <<c, s>>
  BY <1>1
<1>3. /\ wire' = wire \ {p}
      /\ registry' = IF registry[s] = Unowned
                     THEN [registry EXCEPT ![s] = c] ELSE registry
      /\ UNCHANGED <<rec, up, crashes, storeFaults, runner, accepting,
                     canceller, lost>>
  BY <1>2 DEF PostLands
<1>4. TypeOK'
  BY <1>1, <1>3 DEF TypeOK, Owners
<1>5. ASSUME NEW b \in Sessions, NEW t \in Slugs,
             registry'[t] = b \/ <<b, t>> \in wire'
      PROVE  registry[t] = b \/ <<b, t>> \in wire
  BY <1>1, <1>2, <1>3, <1>5 DEF TypeOK
<1>6. ASSUME NEW b \in Sessions PROVE SessionInv(b)'
  <2>1. SessionInv(b) /\ rec'[b] = rec[b] /\ runner'[b] = runner[b]
    BY <1>3 DEF RunnerInv
  <2>2. TraceInv(b)'
    BY <1>5, <2>1 DEF SessionInv, TraceInv, NamesSlug
  <2> QED
    BY <1>3, <2>1, <2>2
    DEF SessionInv, AbsentInv, ResultsInv, StoredInv, StatusInv, SlugInv,
        Standing, Terminal, Exists, MoreCandidates
<1> QED
  BY <1>4, <1>6 DEF RunnerInv

LEMMA ForeignRegistersInv ==
  ASSUME RunnerInv, NEW s \in Slugs, ForeignRegisters(s)
  PROVE  RunnerInv'
<1>1. /\ TypeOK /\ registry' = [registry EXCEPT ![s] = Foreign]
      /\ UNCHANGED <<rec, up, crashes, storeFaults, runner, accepting,
                     canceller, wire, lost>>
  BY DEF RunnerInv, ForeignRegisters
<1>2. TypeOK'
  BY <1>1 DEF TypeOK, Owners
<1>3. ASSUME NEW b \in Sessions PROVE SessionInv(b)'
  <2>1. \A t \in Slugs : registry'[t] = b => registry[t] = b
    BY <1>1, RunnerAssumption DEF TypeOK
  <2> QED
    BY <1>1, <2>1, OtherSession DEF RunnerInv
<1> QED
  BY <1>2, <1>3 DEF RunnerInv

-----------------------------------------------------------------------------
(* The end of a task, the requests that start and cancel it.               *)

LEMMA FailInv ==
  ASSUME RunnerInv, NEW b \in Sessions, Fail(b)
  PROVE  RunnerInv'
<1> DEFINE new == [Announce(rec[b], "failed", NoSlug) EXCEPT
                     !.error_code = runner[b].code]
<1>1. /\ TypeOK /\ rec[b] \in BuildRecord /\ runner[b] \in Runner
      /\ SessionInv(b)
  BY DEF RunnerInv, TypeOK
<1>2. /\ runner[b].pc = "fail" /\ runner' = [runner EXCEPT ![b] = Idle]
      /\ UNCHANGED <<up, crashes, storeFaults, accepting, canceller,
                     registry, wire, lost>>
  BY DEF Fail, At, Stop
<1>3. CASE Terminal(rec[b])
  <2>1. OnlyRunner /\ Stop(b)
    BY <1>2, <1>3 DEF OnlyRunner, Fail
  <2> QED
    BY <2>1, StopInv
<1>4. CASE ~Terminal(rec[b])
  <2>1. rec' = [rec EXCEPT ![b] = new]
    BY <1>4 DEF Fail
  <2>2. Announce(rec[b], "failed", NoSlug) \in BuildRecord
    BY <1>1, AnnounceType DEF ReportedStatus
  <2>3. new \in BuildRecord
    BY <1>1, <2>2 DEF BuildRecord, Runner
  <2>4. TypeOK'
    BY <1>1, <1>2, <2>1, <2>3, IdleType DEF TypeOK
  <2>5. Frame(b)
    BY <1>1, <1>2, <2>1 DEF Frame, TypeOK
  <2>6. rec'[b] = new /\ runner'[b] = Idle
    BY <1>1, <1>2, <2>1 DEF TypeOK
  <2>7. /\ new.status = "failed"
        /\ new.slug = rec[b].slug /\ new.slugs_tried = rec[b].slugs_tried
        /\ new.artifact = rec[b].artifact
        /\ new.deploy_result = rec[b].deploy_result
        /\ new.registered = rec[b].registered
        /\ new.app_slug = rec[b].app_slug
    BY <1>1 DEF BuildRecord, Announce
  <2>8. SessionInv(b)'
    BY <1>1, <1>2, <1>4, <2>6, <2>7
    DEF SessionInv, AbsentInv, ResultsInv, StoredInv, StatusInv, SlugInv,
        TraceInv, NamesSlug, Standing, Terminal, Exists, Runner, Idle, TerminalStatus
  <2> QED
    BY <2>4, <2>5, <2>8, FromFrame
<1> QED
  BY <1>3, <1>4

LEMMA RunnerStoreFaultInv ==
  ASSUME RunnerInv, NEW b \in Sessions, RunnerStoreFault(b)
  PROVE  RunnerInv'
<1>1. TypeOK /\ runner[b] \in Runner /\ SessionInv(b)
  BY DEF RunnerInv, TypeOK
<1>2. /\ storeFaults' \in Nat
      /\ UNCHANGED <<rec, up, crashes, accepting, canceller,
                     registry, wire, lost>>
  BY <1>1 DEF RunnerStoreFault, StoreRaises, TypeOK
<1>3. CASE runner[b].pc \in StoreSteps /\ FailWith(b, "internal_error")
  <2> DEFINE r == [runner[b] EXCEPT !.pc = "fail", !.code = "internal_error"]
  <2>1. r \in Runner
    BY <1>1 DEF Runner, PC, ErrorCode
  <2>2. runner' = [runner EXCEPT ![b] = r]
    BY <1>1, <1>3 DEF FailWith, TypeOK
  <2>3. TypeOK' /\ Frame(b)
    BY <1>1, <1>2, <2>1, <2>2 DEF TypeOK, Frame
  <2>4. runner'[b].pc = "fail"
    BY <1>1, <2>2 DEF TypeOK, Runner
  <2>5. Exists(rec[b])
    BY <1>1, <1>3, TaskHasRow DEF StoreSteps
  <2>6. SessionInv(b)'
    BY <1>1, <1>2, <2>4, <2>5, FailingKeeps
  <2> QED
    BY <2>3, <2>6, FromFrame
<1>4. CASE Stop(b)
  <2>1. TypeOK' /\ Frame(b) /\ runner'[b] = Idle
    BY <1>1, <1>2, <1>4, IdleType DEF TypeOK, Frame, Stop
  <2>2. SessionInv(b)'
    BY <1>1, <1>2, <2>1, StopKeeps DEF SessionInv, TraceInv
  <2> QED
    BY <2>1, <2>2, FromFrame
<1> QED
  BY <1>3, <1>4 DEF RunnerStoreFault

LEMMA AcceptInv ==
  ASSUME RunnerInv, NEW b \in Sessions, Accept(b)
  PROVE  RunnerInv'
<1>1. /\ TypeOK /\ SessionInv(b) /\ ~Exists(rec[b])
      /\ rec[b] = NoRow /\ runner[b] = Idle
  BY DEF RunnerInv, Accept, SessionInv, AbsentInv
<1>2. /\ rec' = [rec EXCEPT ![b] = NewRecord]
      /\ accepting' = accepting \cup {b}
      /\ UNCHANGED <<up, crashes, storeFaults, runner, canceller,
                     registry, wire, lost>>
  BY DEF Accept
<1>3. rec[b] \in BuildRecord
  BY <1>1 DEF TypeOK
<1>4. NewRecord \in BuildRecord
  BY <1>1, <1>3 DEF NewRecord, BuildRecord, Status
<1>5. TypeOK' /\ Frame(b) /\ rec'[b] = NewRecord /\ runner'[b] = Idle
  BY <1>1, <1>2, <1>4 DEF TypeOK, Frame
<1>6. SessionInv(b)'
  BY <1>1, <1>2, <1>5
    DEF SessionInv, AbsentInv, ResultsInv, StoredInv, StatusInv, SlugInv,
        TraceInv, NamesSlug, Standing, Terminal, Exists, Runner, Idle,
        NewRecord, NoRow, TerminalStatus
<1> QED
  BY <1>5, <1>6, FromFrame

LEMMA EnqueueInv ==
  ASSUME RunnerInv, NEW b \in Sessions, Enqueue(b)
  PROVE  RunnerInv'
<1> DEFINE r == IF runner[b].pc = "off"
                THEN [runner[b] EXCEPT !.pc = "start"] ELSE runner[b]
<1>1. TypeOK /\ runner[b] \in Runner /\ SessionInv(b) /\ Exists(rec[b])
  BY DEF RunnerInv, TypeOK, Enqueue, SessionInv, AbsentInv
<1>2. /\ accepting' = accepting \ {b}
      /\ UNCHANGED <<rec, up, crashes, storeFaults, canceller,
                     registry, wire, lost>>
  BY DEF Enqueue
<1>3. r \in Runner
  BY <1>1 DEF Runner, PC, StoreSteps
<1>4. runner' = [runner EXCEPT ![b] = r]
  BY <1>1 DEF Enqueue, Goto, TypeOK
<1>5. TypeOK' /\ Frame(b) /\ runner'[b] = r
  BY <1>1, <1>2, <1>3, <1>4 DEF TypeOK, Frame
<1>6. SessionInv(b)'
  BY <1>1, <1>2, <1>5
    DEF SessionInv, AbsentInv, ResultsInv, StoredInv, StatusInv, SlugInv,
        TraceInv, NamesSlug, Standing, Terminal, Exists, Runner, Idle, MoreCandidates
<1> QED
  BY <1>5, <1>6, FromFrame

LEMMA CancelCommitsInv ==
  ASSUME RunnerInv, NEW b \in Sessions, CancelCommits(b)
  PROVE  RunnerInv'
<1> DEFINE new == Cancelled(rec[b])
<1>1. /\ TypeOK /\ rec[b] \in BuildRecord /\ SessionInv(b)
      /\ Active(rec[b])
  BY DEF RunnerInv, TypeOK, CancelCommits
<1>2. /\ rec' = [rec EXCEPT ![b] = new]
      /\ canceller' = [canceller EXCEPT ![b] = "get"]
      /\ UNCHANGED <<up, crashes, storeFaults, runner, accepting,
                     registry, wire, lost>>
  BY DEF CancelCommits
<1>3. new \in BuildRecord
  BY <1>1, CancelledType
<1>4. TypeOK' /\ Frame(b) /\ rec'[b] = new /\ runner'[b] = runner[b]
  BY <1>1, <1>2, <1>3 DEF TypeOK, Frame
<1>5. /\ new.status = "cancelled"
      /\ new.slug = rec[b].slug /\ new.slugs_tried = rec[b].slugs_tried
      /\ new.artifact = rec[b].artifact
      /\ new.deploy_result = rec[b].deploy_result
      /\ new.registered = rec[b].registered
      /\ new.app_slug = rec[b].app_slug
  BY <1>1 DEF BuildRecord, Cancelled
<1>6. SessionInv(b)'
  BY <1>1, <1>2, <1>4, <1>5
    DEF SessionInv, AbsentInv, ResultsInv, StoredInv, StatusInv, SlugInv,
        TraceInv, NamesSlug, Standing, Terminal, TerminalStatus, Exists,
        Active, MoreCandidates
<1> QED
  BY <1>4, <1>6, FromFrame

(* What is left on the wire by a task that dies names a recorded slug.     *)
LEMMA AbandonedIsNamed ==
  ASSUME RunnerInv, NEW B \in SUBSET Sessions
  PROVE  /\ Abandoned(B) \subseteq Sessions \X Slugs
         /\ \A b \in Sessions, s \in Slugs :
              <<b, s>> \in Abandoned(B) => b \in B /\ NamesSlug(b, s)
<1>1. ASSUME NEW c \in B, runner[c].pc = "post"
      PROVE  runner[c].slug \in Slugs /\ runner[c].slug = rec[c].slug
  BY <1>1 DEF RunnerInv, SessionInv, SlugInv, Standing
<1> QED
  BY <1>1 DEF Abandoned, NamesSlug

LEMMA CancelKillsTaskInv ==
  ASSUME RunnerInv, NEW b \in Sessions, CancelKillsTask(b)
  PROVE  RunnerInv'
<1>1. TypeOK /\ SessionInv(b)
  BY DEF RunnerInv
<1>2. /\ canceller' = [canceller EXCEPT ![b] = "deployer"]
      /\ wire' = wire \cup Abandoned({b})
      /\ runner' = [runner EXCEPT ![b] = Idle]
      /\ UNCHANGED <<rec, up, crashes, storeFaults, accepting, registry,
                     lost>>
  BY DEF CancelKillsTask, Stop
<1>3. /\ Abandoned({b}) \subseteq Sessions \X Slugs
      /\ \A c \in Sessions, s \in Slugs :
           <<c, s>> \in Abandoned({b}) => c = b /\ NamesSlug(c, s)
  BY AbandonedIsNamed
<1>4. TypeOK' /\ Frame(b) /\ runner'[b] = Idle
  BY <1>1, <1>2, <1>3, IdleType DEF TypeOK, Frame
<1>5. SessionInv(b)'
  BY <1>1, <1>2, <1>3, <1>4, StopKeeps DEF SessionInv, TraceInv
<1> QED
  BY <1>4, <1>5, FromFrame

(* The rest of cancel() touches neither the row nor the task.              *)
LEMMA CancelReturnsInv ==
  ASSUME RunnerInv, NEW b \in Sessions,
         CancelReturns(b) \/ CancelStoreFault(b)
  PROVE  RunnerInv'
<1>1. /\ UNCHANGED <<rec, runner, accepting, registry, wire>>
      /\ TypeOK'
  BY DEF CancelReturns, CancelStoreFault, StoreRaises, RunnerInv, TypeOK
<1> QED
  BY <1>1, OtherSession DEF RunnerInv

-----------------------------------------------------------------------------
(* The process stops and starts.                                           *)

LEMMA ProcessStopsInv ==
  ASSUME RunnerInv, ProcessStops /\ RunnersDie
  PROVE  RunnerInv'
<1>1. /\ TypeOK
      /\ wire' = wire \cup Abandoned(Sessions)
      /\ runner' = [b \in Sessions |-> Idle]
      /\ accepting' = {}
      /\ canceller' = [b \in Sessions |-> "none"]
      /\ up' = FALSE /\ crashes' = crashes + 1
      /\ UNCHANGED <<rec, storeFaults, registry, lost>>
  BY DEF RunnerInv, ProcessStops, RunnersDie
<1>2. /\ Abandoned(Sessions) \subseteq Sessions \X Slugs
      /\ \A c \in Sessions, s \in Slugs :
           <<c, s>> \in Abandoned(Sessions) => NamesSlug(c, s)
  BY AbandonedIsNamed
<1>3. TypeOK'
  <2>1. runner' \in [Sessions -> Runner]
    BY <1>1, IdleType
  <2>2. wire' \subseteq Sessions \X Slugs
    <3>1. wire \subseteq Sessions \X Slugs
      BY <1>1 DEF TypeOK
    <3> QED
      BY <1>1, <1>2, <3>1
  <2>3. up' \in BOOLEAN
    BY DEF ProcessStops
  <2>4. crashes' \in Nat
    <3>1. crashes \in Nat /\ crashes' = crashes + 1
      BY <1>1 DEF TypeOK
    <3> QED
      BY <3>1
  <2>5. canceller' \in [Sessions -> {"none", "get", "deployer", "done",
                                     "raised"}]
    BY <1>1
  <2> QED
    BY <1>1, <2>1, <2>2, <2>3, <2>4, <2>5 DEF TypeOK
<1>4. ASSUME NEW b \in Sessions PROVE SessionInv(b)'
  <2>1. SessionInv(b)
    BY DEF RunnerInv
  <2> QED
    BY <1>1, <1>2, <2>1, StopKeeps DEF SessionInv, TraceInv
<1> QED
  BY <1>3, <1>4 DEF RunnerInv

(* A task about to start asks nothing of its row but to exist.             *)
LEMMA StartKeeps ==
  ASSUME NEW b \in Sessions, SessionInv(b), Exists(rec[b]),
         rec'[b] = rec[b], runner'[b] = [Idle EXCEPT !.pc = "start"],
         UNCHANGED <<accepting, registry, wire>>
  PROVE  SessionInv(b)'
<1>1. runner'[b].pc = "start"
  BY DEF Idle
<1> QED
  BY <1>1
  DEF SessionInv, AbsentInv, ResultsInv, StoredInv, StatusInv, SlugInv,
      TraceInv, NamesSlug, Standing, Exists

LEMMA ProcessStartsInv ==
  ASSUME RunnerInv, ProcessStarts, RunnersResume \/ ResumeFails
  PROVE  RunnerInv'
<1>1. /\ TypeOK /\ up' = TRUE
      /\ UNCHANGED <<rec, crashes, accepting, canceller, registry, wire,
                     lost>>
      /\ storeFaults' \in Nat
  BY DEF RunnerInv, TypeOK, ProcessStarts, RunnersResume, ResumeFails,
         StoreRaises
<1>2. CASE RunnersResume
  <2> DEFINE start == [Idle EXCEPT !.pc = "start"]
  <2>1. PICK listed \in SUBSET ActiveSessions :
          runner' = [b \in Sessions |-> IF b \in listed THEN start ELSE Idle]
    BY <1>2 DEF RunnersResume
  <2>2. start \in Runner
    BY IdleType DEF Runner, PC, StoreSteps
  <2>3. TypeOK'
    BY <1>1, <2>1, <2>2, IdleType DEF TypeOK
  <2>4. ASSUME NEW b \in Sessions PROVE SessionInv(b)'
    <3>1. SessionInv(b) /\ rec'[b] = rec[b]
      BY <1>1 DEF RunnerInv
    <3>2. CASE b \in listed
      <4>1. Exists(rec[b])
        BY <2>1, <3>2 DEF ActiveSessions, Active
      <4>2. runner'[b] = start
        BY <2>1, <3>2
      <4> QED
        BY <1>1, <3>1, <4>1, <4>2, StartKeeps
    <3>3. CASE b \notin listed
      <4>1. runner'[b] = Idle
        BY <2>1, <3>3
      <4> QED
        BY <1>1, <3>1, <4>1, StopKeeps DEF SessionInv, TraceInv
    <3> QED
      BY <3>2, <3>3
  <2> QED
    BY <2>3, <2>4 DEF RunnerInv
<1>3. CASE ResumeFails
  <2>1. runner' = runner
    BY <1>3 DEF ResumeFails
  <2>2. TypeOK'
    BY <1>1, <2>1 DEF TypeOK
  <2> QED
    BY <1>1, <2>1, <2>2, OtherSession DEF RunnerInv
<1> QED
  BY <1>2, <1>3

-----------------------------------------------------------------------------
(* The theorems.                                                           *)

LEMMA RunnerInitInv == RunnerInitAll => RunnerInv
<1> SUFFICES ASSUME RunnerInitAll PROVE RunnerInv
  OBVIOUS
<1>1. NoRow \in BuildRecord
  <2>1. << >> \in Seq(Entry)
    BY EmptySeq
  <2> QED
    BY <2>1 DEF NoRow, BuildRecord, Status, ErrorCode
<1>2. TypeOK
  BY <1>1, IdleType DEF RunnerInitAll, StoreInit, RunnerInit, TypeOK
<1>3. ASSUME NEW b \in Sessions PROVE SessionInv(b)
  <2>1. /\ rec[b] = NoRow /\ runner[b] = Idle /\ b \notin accepting
        /\ \A s \in Slugs : registry[s] # b /\ <<b, s>> \notin wire
    BY RunnerAssumption DEF RunnerInitAll, StoreInit, RunnerInit
  <2> QED
    BY <2>1
    DEF SessionInv, AbsentInv, ResultsInv, StoredInv, StatusInv, SlugInv,
        TraceInv, Standing, Idle, NoRow, Exists
<1> QED
  BY <1>2, <1>3 DEF RunnerInv

LEMMA RunnerStepInv ==
  ASSUME RunnerInv, NEW b \in Sessions, RunnerStep(b)
  PROVE  RunnerInv'
BY RunnerStartsInv, AnnounceBuildingInv, ReadBackInv, BuildInv,
   KeepArtifactInv, AnnounceDeployingInv, DeployInv, KeepDeployInv,
   EnterRegisterInv, SkipTriedInv, ProbeSlugInv, NoCandidateLeftInv,
   NoteTakenInv, KeepSlugInv, MarkAttemptInv, PostAnsweredInv, RetireSlugInv,
   RecordRegistrationInv, FinishInv, FailInv
DEF RunnerStep

LEMMA SessionStepInv ==
  ASSUME RunnerInv, NEW b \in Sessions, SessionStep(b)
  PROVE  RunnerInv'
BY AcceptInv, EnqueueInv, RunnerStepInv, PostLostInv, RunnerStoreFaultInv,
   CancelCommitsInv, CancelKillsTaskInv, CancelReturnsInv
DEF SessionStep, CancelStep

LEMMA RunnerStutterInv ==
  ASSUME RunnerInv, UNCHANGED <<storeVars, runnerVars>>
  PROVE  RunnerInv'
<1>1. UNCHANGED <<rec, up, crashes, storeFaults, runner, accepting,
                  canceller, registry, wire, lost>>
  BY DEF storeVars, runnerVars
<1>2. TypeOK'
  BY <1>1 DEF RunnerInv, TypeOK
<1> QED
  BY <1>1, <1>2, OtherSession DEF RunnerInv

LEMMA RunnerNextInv ==
  ASSUME RunnerInv, [RunnerNext]_<<storeVars, runnerVars>>
  PROVE  RunnerInv'
BY SessionStepInv, PostLandsInv, ForeignRegistersInv, ProcessStopsInv,
   ProcessStartsInv, RunnerStutterInv
DEF RunnerNext, RegistryStep

(* The inductive invariant holds of every behaviour.                       *)
THEOREM RunnerInvariant == RunnerSpec => []RunnerInv
BY RunnerInitInv, RunnerNextInv, PTL DEF RunnerSpec

(* Every variable of the runner tasks keeps its type.                      *)
THEOREM RunnerTypes == RunnerSpec => []TypeOK
<1>1. RunnerInv => TypeOK
  BY DEF RunnerInv
<1> QED
  BY <1>1, RunnerInvariant, PTL

(* What the invariant says of the session's row, its task and FuzeFront.   *)
LEMMA RunnerInvSays ==
  ASSUME RunnerInv
  PROVE  RegistryTraceable /\ AdvanceNeverRefused /\ FinishedStepsNotRedone
<1>1. RegistryTraceable
  BY DEF RunnerInv, SessionInv, TraceInv, NamesSlug, RegistryTraceable
<1>2. AdvanceNeverRefused
  <2> SUFFICES ASSUME NEW b \in Sessions, ~Terminal(rec[b])
               PROVE  /\ runner[b].pc = "begin" =>
                           CanAdvance(rec[b], "building")
                      /\ runner[b].pc = "announceDeploying" =>
                           CanAdvance(rec[b], "deploying")
                      /\ runner[b].pc = "finish" =>
                           CanAdvance(rec[b], "deployed")
                      /\ runner[b].pc = "fail" => CanAdvance(rec[b], "failed")
    BY DEF AdvanceNeverRefused
  <2>1. SessionInv(b)
    BY DEF RunnerInv
  <2> QED
    BY <2>1
    DEF SessionInv, StatusInv, StoredInv, ResultsInv, Standing, Terminal,
        TerminalStatus, CanAdvance, CanTransition, Rank
<1>3. FinishedStepsNotRedone
  BY DEF RunnerInv, SessionInv, StoredInv, Standing, FinishedStepsNotRedone
<1> QED
  BY <1>1, <1>2, <1>3

(* Every application FuzeFront holds for a session is at a slug the        *)
(* session's row names or gave up, whatever crashes, lost answers, faults  *)
(* and cancellations came between.                                         *)
THEOREM ApplicationsAreTraceable == RunnerSpec => []RegistryTraceable
<1>1. RunnerInv => RegistryTraceable
  BY RunnerInvSays
<1> QED
  BY <1>1, RunnerInvariant, PTL

(* BuildRecord.advance never raises IllegalTransition in a runner: no      *)
(* restart, cancellation or fault brings a task to a write its row refuses.*)
THEOREM AdvanceIsNeverRefused == RunnerSpec => []AdvanceNeverRefused
<1>1. RunnerInv => AdvanceNeverRefused
  BY RunnerInvSays
<1> QED
  BY <1>1, RunnerInvariant, PTL

(* A build or a deployment whose result is stored is never run again, and  *)
(* each step runs only on the stored results of those before it.           *)
THEOREM StepsAreNotRedone == RunnerSpec => []FinishedStepsNotRedone
<1>1. RunnerInv => FinishedStepsNotRedone
  BY RunnerInvSays
<1> QED
  BY <1>1, RunnerInvariant, PTL

-----------------------------------------------------------------------------
(* A row that is terminal is written by nobody of this module.             *)

LEMMA PersistKeepsEnded ==
  ASSUME TypeOK, NEW b \in Sessions, NEW c \in Sessions, NEW new, NEW local,
         Persist(c, new, local), Terminal(rec[b])
  PROVE  rec'[b] = rec[b]
BY DEF Persist, TypeOK

LEMMA StepKeepsEnded ==
  ASSUME TypeOK, NEW b \in Sessions, NEW c \in Sessions, SessionStep(c),
         Terminal(rec[b])
  PROVE  rec'[b] = rec[b]
<1>1. CASE Accept(c) \/ CancelCommits(c)
  BY <1>1 DEF Accept, CancelCommits, Active, Exists, Terminal, TerminalStatus,
              TypeOK
<1>2. CASE Fail(c)
  BY <1>2 DEF Fail, TypeOK
<1>3. CASE \/ AnnounceBuilding(c) \/ KeepArtifact(c) \/ AnnounceDeploying(c)
           \/ KeepDeploy(c) \/ NoteTaken(c) \/ KeepSlug(c) \/ MarkAttempt(c)
           \/ RetireSlug(c) \/ RecordRegistration(c) \/ Finish(c)
  BY <1>3, PersistKeepsEnded
  DEF AnnounceBuilding, KeepArtifact, AnnounceDeploying, KeepDeploy,
      NoteTaken, KeepSlug, MarkAttempt, RetireSlug, RecordRegistration, Finish
<1>4. CASE \/ RunnerStarts(c) \/ ReadBack(c) \/ Build(c) \/ Deploy(c)
           \/ EnterRegister(c) \/ SkipTried(c) \/ ProbeSlug(c)
           \/ NoCandidateLeft(c)
  BY <1>4
  DEF RunnerStarts, ReadBack, Build, Deploy, EnterRegister, SkipTried,
      ProbeSlug, NoCandidateLeft, OnlyRunner
<1>5. CASE \/ Enqueue(c) \/ PostAnswered(c) \/ PostLost(c)
           \/ RunnerStoreFault(c) \/ CancelKillsTask(c) \/ CancelReturns(c)
           \/ CancelStoreFault(c)
  BY <1>5
  DEF Enqueue, PostAnswered, PostLost, RunnerStoreFault, CancelKillsTask,
      CancelReturns, CancelStoreFault
<1> QED
  BY <1>1, <1>2, <1>3, <1>4, <1>5 DEF SessionStep, RunnerStep, CancelStep

LEMMA NextKeepsEnded ==
  ASSUME TypeOK, NEW b \in Sessions, Terminal(rec[b]),
         [RunnerNext]_<<storeVars, runnerVars>>
  PROVE  rec'[b] = rec[b]
<1>1. CASE \E c \in Sessions : SessionStep(c)
  BY <1>1, StepKeepsEnded
<1>2. CASE RegistryStep
  BY <1>2 DEF RegistryStep, PostLands, ForeignRegisters
<1>3. CASE ProcessStops /\ RunnersDie
  BY <1>3 DEF RunnersDie
<1>4. CASE ProcessStarts /\ (RunnersResume \/ ResumeFails)
  BY <1>4 DEF RunnersResume, ResumeFails
<1>5. CASE UNCHANGED <<storeVars, runnerVars>>
  BY <1>5 DEF storeVars
<1> QED
  BY <1>1, <1>2, <1>3, <1>4, <1>5 DEF RunnerNext

(* The end of a session is final: no task that was still running, no late  *)
(* answer, no cancellation and no restart rewrites its status, its         *)
(* registration, its error or what it announced.                           *)
THEOREM EndsAreFinal == RunnerSpec => TerminalIsFinal
<1>1. RunnerInv /\ [RunnerNext]_<<storeVars, runnerVars>> =>
        [\A b \in Sessions : Terminal(rec[b]) =>
           /\ rec'[b].status = rec[b].status
           /\ rec'[b].app_slug = rec[b].app_slug
           /\ rec'[b].error_code = rec[b].error_code
           /\ Len(rec'[b].outbox) = Len(rec[b].outbox)]_rec
  BY NextKeepsEnded DEF RunnerInv
<1> QED
  BY <1>1, RunnerInvariant, PTL DEF RunnerSpec, TerminalIsFinal

-----------------------------------------------------------------------------

-----------------------------------------------------------------------------
(* What a step of one session leaves to another, and what only grows.      *)

Untouched(b) ==
  /\ rec'[b] = rec[b] /\ runner'[b] = runner[b] /\ canceller'[b] = canceller[b]
  /\ b \in accepting' <=> b \in accepting
  /\ \A s \in Slugs : /\ registry'[s] = b => registry[s] = b
                      /\ <<b, s>> \in wire' => <<b, s>> \in wire

Owned(s) == registry[s] # Unowned

OwnersRemain == \A s \in Slugs : Owned(s) => registry'[s] = registry[s]

Growing ==
  /\ OwnersRemain
  /\ up' = up /\ crashes' = crashes
  /\ storeFaults' = 0 => storeFaults = 0
  /\ lost' = 0 => lost = 0

LEMMA PersistLeaves ==
  ASSUME TypeOK, NEW c \in Sessions, NEW new, NEW local, Persist(c, new, local)
  PROVE  Growing /\ \A b \in Sessions \ {c} : Untouched(b)
BY DEF TypeOK, Persist, Stop, Growing, OwnersRemain, Untouched, Owned

LEMMA StepLeaves ==
  ASSUME TypeOK, NEW c \in Sessions, SessionStep(c)
  PROVE  Growing /\ \A b \in Sessions \ {c} : Untouched(b)
<1>1. CASE \/ AnnounceBuilding(c) \/ KeepArtifact(c) \/ AnnounceDeploying(c)
           \/ KeepDeploy(c) \/ NoteTaken(c) \/ KeepSlug(c) \/ MarkAttempt(c)
           \/ RetireSlug(c) \/ RecordRegistration(c) \/ Finish(c)
  BY <1>1, PersistLeaves
  DEF AnnounceBuilding, KeepArtifact, AnnounceDeploying, KeepDeploy,
      NoteTaken, KeepSlug, MarkAttempt, RetireSlug, RecordRegistration, Finish
<1>2. CASE RunnerStarts(c) \/ ReadBack(c) \/ Build(c) \/ Deploy(c)
  BY <1>2
  DEF RunnerStarts, ReadBack, Build, Deploy, OnlyRunner, Stop, Goto, FailWith,
      TypeOK, Growing, OwnersRemain, Untouched, Owned
<1>3. CASE EnterRegister(c) \/ SkipTried(c) \/ ProbeSlug(c) \/ NoCandidateLeft(c)
  BY <1>3
  DEF EnterRegister, SkipTried, ProbeSlug, NoCandidateLeft, OnlyRunner, Stop,
      RetryOrFail, FailWith, TypeOK, Growing, OwnersRemain, Untouched, Owned
<1>4. CASE Fail(c)
  BY <1>4 DEF Fail, Stop, TypeOK, Growing, OwnersRemain, Untouched, Owned
<1>5. CASE Accept(c) \/ Enqueue(c)
  BY <1>5 DEF Accept, Enqueue, Goto, TypeOK, Growing, OwnersRemain, Untouched, Owned
<1>6. CASE PostAnswered(c)
  BY <1>6 DEF PostAnswered, Goto, RetryOrFail, FailWith, TypeOK, Growing, OwnersRemain,
              Untouched, Owned
<1>7. CASE PostLost(c)
  <2>1. Growing
    BY <1>7 DEF PostLost, TypeOK, Growing, OwnersRemain, Owned
  <2>2. \A b \in Sessions \ {c} : Untouched(b)
    BY <1>7 DEF PostLost, RetryOrFail, FailWith, TypeOK, Untouched
  <2> QED
    BY <2>1, <2>2
<1>8. CASE RunnerStoreFault(c)
  <2>1. Growing
    BY <1>8 DEF RunnerStoreFault, StoreRaises, TypeOK, Growing, OwnersRemain, Owned
  <2>2. \A b \in Sessions \ {c} : Untouched(b)
    BY <1>8 DEF RunnerStoreFault, Stop, FailWith, TypeOK, Untouched
  <2> QED
    BY <2>1, <2>2
<1>9. CASE CancelCommits(c) \/ CancelReturns(c)
  BY <1>9 DEF CancelCommits, CancelReturns, TypeOK, Growing, OwnersRemain, Untouched, Owned
<1>10. CASE CancelKillsTask(c)
  BY <1>10 DEF CancelKillsTask, Abandoned, Stop, TypeOK, Growing, OwnersRemain, Untouched, Owned
<1>11. CASE CancelStoreFault(c)
  <2>1. Growing
    BY <1>11 DEF CancelStoreFault, StoreRaises, TypeOK, Growing, OwnersRemain, Owned
  <2>2. \A b \in Sessions \ {c} : Untouched(b)
    BY <1>11 DEF CancelStoreFault, TypeOK, Untouched
  <2> QED
    BY <2>1, <2>2
<1> QED
  BY <1>1, <1>2, <1>3, <1>4, <1>5, <1>6, <1>7, <1>8, <1>9, <1>10, <1>11
  DEF SessionStep, RunnerStep, CancelStep

-----------------------------------------------------------------------------
(* Cancellation.                                                           *)

(* cancel() has work to do only for a session that it has cancelled; while *)
(* it has, the session's task may still run.                               *)
QuietInv(b) ==
  /\ canceller[b] # "none" => rec[b].status = "cancelled"
  /\ rec[b].status = "cancelled" /\ canceller[b] \notin {"get", "raised"}
       => runner[b].pc \in {"off", "start", "fail"}

LEMMA PersistIsQuiet ==
  ASSUME TypeOK, NEW b \in Sessions, QuietInv(b), NEW new, NEW local,
         Persist(b, new, local), ~Terminal(rec[b]) => new.status # "cancelled",
         ~Terminal(rec[b]) => canceller[b] = "none"
  PROVE  QuietInv(b)'
BY DEF TypeOK, QuietInv, Persist, Stop, Idle, Terminal, TerminalStatus

LEMMA AnnounceStatus ==
  ASSUME NEW r \in BuildRecord, NEW s, NEW app
  PROVE  Announce(r, s, app).status = s
BY DEF Announce, BuildRecord

LEMMA StepIsQuiet ==
  ASSUME TypeOK, NEW b \in Sessions, QuietInv(b), SessionStep(b)
  PROVE  QuietInv(b)'
<1>1. rec[b] \in BuildRecord /\ runner[b] \in Runner /\ (~Terminal(rec[b]) => canceller[b] = "none")
  BY DEF TypeOK, QuietInv, Terminal, TerminalStatus
<1>2. CASE AnnounceBuilding(b) \/ AnnounceDeploying(b) \/ Finish(b)
  BY <1>1, <1>2, PersistIsQuiet, AnnounceStatus
  DEF AnnounceBuilding, AnnounceDeploying, Finish
<1>3. CASE \/ KeepArtifact(b) \/ KeepDeploy(b) \/ NoteTaken(b) \/ KeepSlug(b)
           \/ MarkAttempt(b) \/ RetireSlug(b) \/ RecordRegistration(b)
  <2>1. ~Terminal(rec[b]) => rec[b].status # "cancelled"
    BY DEF Terminal, TerminalStatus
  <2>2. CASE KeepArtifact(b) \/ KeepDeploy(b)
    BY <1>1, <2>1, <2>2, PersistIsQuiet DEF KeepArtifact, KeepDeploy, BuildRecord
  <2>3. CASE NoteTaken(b) \/ RetireSlug(b)
    <3>1. [rec[b] EXCEPT !.slugs_tried = @ \cup {runner[b].slug}, !.slug = NoSlug].status = rec[b].status
      BY <1>1 DEF BuildRecord
    <3>2. [rec[b] EXCEPT !.slugs_tried = @ \cup {Candidate(b)}].status = rec[b].status
      BY <1>1 DEF BuildRecord
    <3>3. CASE RetireSlug(b)
      BY <1>1, <2>1, <3>1, <3>3, PersistIsQuiet DEF RetireSlug
    <3>4. CASE NoteTaken(b)
      BY <1>1, <2>1, <3>2, <3>4, PersistIsQuiet DEF NoteTaken
    <3> QED
      BY <2>3, <3>3, <3>4
  <2>4. CASE KeepSlug(b) \/ MarkAttempt(b)
    <3>1. [rec[b] EXCEPT !.slug = runner[b].slug, !.register_attempted = FALSE].status = rec[b].status
      BY <1>1 DEF BuildRecord
    <3>2. [rec[b] EXCEPT !.register_attempted = TRUE].status = rec[b].status
      BY <1>1 DEF BuildRecord
    <3>3. CASE KeepSlug(b)
      BY <1>1, <2>1, <3>1, <3>3, PersistIsQuiet DEF KeepSlug
    <3>4. CASE MarkAttempt(b)
      BY <1>1, <2>1, <3>2, <3>4, PersistIsQuiet DEF MarkAttempt
    <3> QED
      BY <2>4, <3>3, <3>4
  <2>5. CASE RecordRegistration(b)
    <3>1. [rec[b] EXCEPT !.registered = TRUE, !.app_slug = runner[b].slug].status = rec[b].status
      BY <1>1 DEF BuildRecord
    <3> QED
      BY <1>1, <2>1, <2>5, <3>1, PersistIsQuiet DEF RecordRegistration
  <2> QED
    BY <1>3, <2>2, <2>3, <2>4, <2>5
<1>4. CASE RunnerStarts(b)
  BY <1>1, <1>4 DEF RunnerStarts, At, OnlyRunner, Stop, Idle, Active, Terminal,
     TerminalStatus, TypeOK, QuietInv
<1>5. CASE ReadBack(b) \/ Build(b) \/ Deploy(b)
  BY <1>1, <1>5 DEF ReadBack, Build, Deploy, At, OnlyRunner, Stop, Idle, Goto, FailWith,
     TypeOK, QuietInv
<1>6. CASE EnterRegister(b) \/ SkipTried(b) \/ ProbeSlug(b) \/ NoCandidateLeft(b)
  BY <1>1, <1>6 DEF EnterRegister, SkipTried, ProbeSlug, NoCandidateLeft, RetryOrFail, At,
     OnlyRunner, Stop, Idle, FailWith, TypeOK, QuietInv
<1>7. CASE PostAnswered(b) \/ PostLost(b)
  BY <1>1, <1>7 DEF PostAnswered, PostLost, RetryOrFail, At, Goto, FailWith, TypeOK, QuietInv
<1>8. CASE Fail(b)
  BY <1>1, <1>8 DEF Fail, Stop, Idle, Announce, TypeOK, BuildRecord, QuietInv, Terminal, TerminalStatus
<1>9. CASE Accept(b) \/ Enqueue(b)
  <2>1. CASE Accept(b)
    BY <1>1, <2>1 DEF Accept, NewRecord, NoRow, Exists, TypeOK, QuietInv
  <2>2. CASE Enqueue(b)
    <3>1. runner'[b].pc = IF runner[b].pc = "off" THEN "start" ELSE runner[b].pc
      BY <1>1, <2>2 DEF Enqueue, Goto, TypeOK, Runner
    <3> QED
      BY <2>2, <3>1 DEF Enqueue, QuietInv
  <2> QED
    BY <1>9, <2>1, <2>2
<1>10. CASE RunnerStoreFault(b)
  <2>1. runner'[b].pc \in {"off", "fail"}
    BY <1>1, <1>10 DEF RunnerStoreFault, Stop, Idle, FailWith, TypeOK, Runner
  <2> QED
    BY <1>10, <2>1 DEF RunnerStoreFault, QuietInv
<1>11. CASE CancelCommits(b)
  <2>1. Cancelled(rec[b]).status = "cancelled"
    BY <1>1 DEF Cancelled, BuildRecord
  <2> QED
    BY <1>1, <2>1, <1>11 DEF CancelCommits, TypeOK, QuietInv
<1>12. CASE CancelKillsTask(b) \/ CancelReturns(b) \/ CancelStoreFault(b)
  BY <1>1, <1>12 DEF CancelKillsTask, CancelReturns, CancelStoreFault, Stop, Idle, TypeOK, QuietInv
<1> QED
  BY <1>2, <1>3, <1>4, <1>5, <1>6, <1>7, <1>8, <1>9, <1>10, <1>11, <1>12
  DEF SessionStep, RunnerStep, CancelStep

LEMMA RestartIsQuiet ==
  ASSUME TypeOK, NEW b \in Sessions, QuietInv(b),
         \/ ProcessStops /\ RunnersDie
         \/ ProcessStarts /\ (RunnersResume \/ ResumeFails)
  PROVE  QuietInv(b)'
<1>1. CASE ProcessStops /\ RunnersDie
  BY <1>1 DEF ProcessStops, RunnersDie, Idle, QuietInv
<1>2. CASE ProcessStarts /\ RunnersResume
  BY <1>2 DEF ProcessStarts, RunnersResume, Idle, QuietInv
<1>3. CASE ProcessStarts /\ ResumeFails
  BY <1>3 DEF ProcessStarts, ResumeFails, QuietInv
<1> QED
  BY <1>1, <1>2, <1>3

LEMMA QuietInvariant == RunnerSpec => [](\A b \in Sessions : QuietInv(b))
<1>1. RunnerInitAll => \A b \in Sessions : QuietInv(b)
  BY DEF RunnerInitAll, StoreInit, RunnerInit, NoRow, QuietInv
<1>2. TypeOK /\ (\A b \in Sessions : QuietInv(b)) /\ [RunnerNext]_<<storeVars, runnerVars>>
        => (\A b \in Sessions : QuietInv(b))'
  <2> SUFFICES ASSUME TypeOK, \A c \in Sessions : QuietInv(c),
                      [RunnerNext]_<<storeVars, runnerVars>>, NEW b \in Sessions
               PROVE  QuietInv(b)'
    OBVIOUS
  <2>1. ASSUME NEW c \in Sessions, SessionStep(c) PROVE QuietInv(b)'
    <3>1. CASE c = b
      BY <2>1, <3>1, StepIsQuiet
    <3>2. CASE c # b
      BY <2>1, <3>2, StepLeaves DEF Untouched, QuietInv
    <3> QED
      BY <3>1, <3>2
  <2>2. CASE RegistryStep \/ UNCHANGED <<storeVars, runnerVars>>
    BY <2>2 DEF RegistryStep, PostLands, ForeignRegisters, storeVars, runnerVars, QuietInv
  <2> QED
    BY <2>1, <2>2, RestartIsQuiet DEF RunnerNext
<1> QED
  BY <1>1, <1>2, RunnerTypes, PTL DEF RunnerSpec

(* Once cancel() has answered, no task works for the session again,        *)
(* whatever was running when it came.                                      *)
THEOREM CancelledStaysQuiet == RunnerSpec => []CancelledIsQuiet
<1>1. (\A b \in Sessions : QuietInv(b)) => CancelledIsQuiet
  BY DEF QuietInv, CancelledIsQuiet
<1> QED
  BY <1>1, QuietInvariant, PTL

-----------------------------------------------------------------------------
(* The slugs.                                                              *)

AllTaken(b) == \A i \in DOMAIN Candidates[b] : Owned(Candidates[b][i])

(* A slug that is passed over has an owner, and owners stay.               *)
TakenInv(b) ==
  /\ \A s \in rec[b].slugs_tried \cup runner[b].seen.slugs_tried : Owned(s)
  /\ Standing(b, {"pick", "taken"}, {"pick"}) =>
       \A i \in DOMAIN Candidates[b] : i < runner[b].cand => Owned(Candidates[b][i])
  /\ runner[b].pc = "taken" => Owned(Candidate(b))
  /\ runner[b].pc = "retire" => Owned(runner[b].slug)
  /\ runner[b].pc = "fail" /\ runner[b].code = "slug_unavailable" => AllTaken(b)
  /\ rec[b].error_code = "slug_unavailable" => AllTaken(b)

LEMMA OwnersStay ==
  ASSUME OwnersRemain, NEW b \in Sessions, TypeOK
  PROVE  /\ \A s \in Slugs : Owned(s) => Owned(s)'
         /\ \A i \in DOMAIN Candidates[b] : Candidates[b][i] \in Slugs
         /\ AllTaken(b) => AllTaken(b)'
<1>1. \A s \in Slugs : Owned(s) => Owned(s)'
  BY DEF OwnersRemain, Owned
<1>2. Candidates[b] \in Seq(Slugs)
  BY RunnerAssumption
<1>3. \A i \in DOMAIN Candidates[b] : Candidates[b][i] \in Slugs
  BY <1>2, ElementOfSeq, LenProperties
<1> QED
  BY <1>1, <1>3 DEF AllTaken

LEMMA TriedAreSlugs ==
  ASSUME TypeOK, NEW b \in Sessions
  PROVE  rec[b].slugs_tried \subseteq Slugs /\ runner[b].seen.slugs_tried \subseteq Slugs
BY DEF TypeOK, BuildRecord, Runner, Snapshot

(* A step that neither passes over a slug nor blames them.                 *)
LEMMA TakenElsewhere ==
  ASSUME TypeOK, NEW b \in Sessions, TakenInv(b), OwnersRemain,
         rec'[b].slugs_tried = rec[b].slugs_tried,
         rec'[b].error_code = rec[b].error_code,
         runner'[b].seen.slugs_tried \subseteq rec[b].slugs_tried \cup runner[b].seen.slugs_tried,
         ~Standing(b, {"pick", "taken", "retire"}, {"pick"})',
         runner'[b].pc = "fail" => runner'[b].code # "slug_unavailable"
  PROVE  TakenInv(b)'
<1>1. /\ \A s \in Slugs : Owned(s) => Owned(s)'
      /\ AllTaken(b) => AllTaken(b)'
  BY OwnersStay
<1>2. (\A s \in rec[b].slugs_tried \cup runner[b].seen.slugs_tried : Owned(s))'
  BY <1>1, TriedAreSlugs DEF TakenInv
<1> QED
  BY <1>1, <1>2 DEF TakenInv, Standing

LEMMA IdleTries == Idle.pc = "off" /\ Idle.next = "off" /\ Idle.seen.slugs_tried = {} /\ Idle.cand = 1
BY DEF Idle, View, NoRow

(* A step through _persist.                                                *)
LEMMA TakenPersists ==
  ASSUME TypeOK, NEW b \in Sessions, TakenInv(b), NEW new \in BuildRecord, NEW local \in Runner,
         Persist(b, new, local), OwnersRemain,
         new.error_code = rec[b].error_code, local.seen = runner[b].seen,
         \A s \in new.slugs_tried : s \in rec[b].slugs_tried \/ Owned(s),
         local.next = "pick" =>
           \A i \in DOMAIN Candidates[b] : i < local.cand => Owned(Candidates[b][i])
  PROVE  TakenInv(b)'
<1>1. /\ \A s \in Slugs : Owned(s) => Owned(s)'
      /\ \A i \in DOMAIN Candidates[b] : Candidates[b][i] \in Slugs
      /\ AllTaken(b) => AllTaken(b)'
  BY OwnersStay
<1>2. CASE Terminal(rec[b])
  <2>1. rec' = rec /\ runner'[b] = Idle
    BY <1>2 DEF Persist, Stop, TypeOK
  <2> QED
    BY <2>1, IdleTries, TakenElsewhere DEF Standing
<1>3. CASE ~Terminal(rec[b])
  <2>1. rec'[b] = new /\ runner'[b] = [local EXCEPT !.pc = "readBack"]
    BY <1>3 DEF Persist, TypeOK
  <2>2. /\ runner'[b].pc = "readBack" /\ runner'[b].next = local.next
        /\ runner'[b].cand = local.cand /\ runner'[b].seen = runner[b].seen
    BY <2>1 DEF Runner
  <2>3. (\A s \in rec[b].slugs_tried \cup runner[b].seen.slugs_tried : Owned(s))'
    <3>1. new.slugs_tried \subseteq Slugs
      BY DEF BuildRecord
    <3> QED
      BY <1>1, <2>1, <2>2, <3>1, TriedAreSlugs DEF TakenInv
  <2> QED
    BY <1>1, <2>1, <2>2, <2>3 DEF TakenInv, Standing
<1> QED
  BY <1>2, <1>3

-----------------------------------------------------------------------------
(* What a step writes through _persist, field by field.                    *)

SameSlugs(b, new) ==
  /\ new.slug = rec[b].slug /\ new.slugs_tried = rec[b].slugs_tried
  /\ new.register_attempted = rec[b].register_attempted

SameRegistration(b, new) ==
  new.registered = rec[b].registered /\ new.app_slug = rec[b].app_slug

Writes(b, new, local) ==
  /\ Persist(b, new, local)
  /\ new.error_code = rec[b].error_code
  /\ local.seen = runner[b].seen /\ local.slug = runner[b].slug
  /\ \/ /\ runner[b].pc \in {"begin", "keepArtifact", "announceDeploying", "keepDeploy"}
        /\ SameSlugs(b, new) /\ SameRegistration(b, new)
        /\ local.next \in {"begun", "artifactKept", "announced", "register"}
     \/ /\ runner[b].pc = "finish" /\ new.status = "deployed" /\ local.next = "off"
        /\ SameSlugs(b, new) /\ SameRegistration(b, new)
     \/ /\ runner[b].pc = "taken" /\ local.next = "pick" /\ local.cand = runner[b].cand + 1
        /\ new.slug = rec[b].slug /\ new.register_attempted = rec[b].register_attempted
        /\ new.slugs_tried = rec[b].slugs_tried \cup {Candidate(b)}
        /\ SameRegistration(b, new)
     \/ /\ runner[b].pc = "keepSlug" /\ local.next = "mark"
        /\ new.slug = runner[b].slug /\ ~new.register_attempted
        /\ new.slugs_tried = rec[b].slugs_tried /\ SameRegistration(b, new)
     \/ /\ runner[b].pc = "mark" /\ local.next = "post"
        /\ local.resumed = runner[b].seen.register_attempted
        /\ new.slug = rec[b].slug /\ new.register_attempted
        /\ new.slugs_tried = rec[b].slugs_tried /\ SameRegistration(b, new)
     \/ /\ runner[b].pc = "retire" /\ local.next = "register"
        /\ new.slug = NoSlug /\ new.register_attempted = rec[b].register_attempted
        /\ new.slugs_tried = rec[b].slugs_tried \cup {runner[b].slug}
        /\ SameRegistration(b, new)
     \/ /\ runner[b].pc = "record" /\ local.next = "finish" /\ SameSlugs(b, new)
        /\ new.registered /\ new.app_slug = runner[b].slug

LEMMA StepWrites ==
  ASSUME RunnerInv, NEW b \in Sessions,
         \/ AnnounceBuilding(b) \/ KeepArtifact(b) \/ AnnounceDeploying(b)
         \/ KeepDeploy(b) \/ NoteTaken(b) \/ KeepSlug(b) \/ MarkAttempt(b)
         \/ RetireSlug(b) \/ RecordRegistration(b) \/ Finish(b)
  PROVE  \E new \in BuildRecord, local \in Runner : Writes(b, new, local)
<1>1. rec[b] \in BuildRecord /\ runner[b] \in Runner /\ SessionInv(b)
  BY DEF RunnerInv, TypeOK
<1>2. ASSUME NEW label \in Label
      PROVE  /\ Then(b, label) \in Runner /\ Then(b, label).next = label
             /\ Then(b, label).seen = runner[b].seen /\ Then(b, label).slug = runner[b].slug
  BY <1>1 DEF Then, Runner
<1>3. \A label \in {"begun", "artifactKept", "announced", "register", "off", "mark", "finish"} : label \in Label
  BY DEF Label
<1>4. ASSUME NEW s \in ReportedStatus, NEW app \in Slugs \cup {NoSlug}
      PROVE  LET new == Announce(rec[b], s, app) IN
             /\ new \in BuildRecord /\ new.status = s /\ new.error_code = rec[b].error_code
             /\ SameSlugs(b, new) /\ SameRegistration(b, new)
  <2>1. Announce(rec[b], s, app) \in BuildRecord
    BY <1>1, AnnounceType
  <2> QED
    BY <1>1, <2>1 DEF Announce, BuildRecord, SameSlugs, SameRegistration
<1>5. CASE AnnounceBuilding(b)
  BY <1>2, <1>3, <1>4, <1>5 DEF AnnounceBuilding, At, Writes, ReportedStatus
<1>6. CASE AnnounceDeploying(b)
  BY <1>2, <1>3, <1>4, <1>6 DEF AnnounceDeploying, At, Writes, ReportedStatus
<1>7. CASE Finish(b)
  <2>1. runner[b].slug \in Slugs \cup {NoSlug}
    BY <1>1 DEF Runner
  <2> QED
    BY <1>2, <1>3, <1>4, <1>7, <2>1 DEF Finish, At, Writes, ReportedStatus
<1>8. CASE KeepArtifact(b)
  <2> DEFINE new == [rec[b] EXCEPT !.artifact = TRUE]
  <2>1. new \in BuildRecord /\ new.error_code = rec[b].error_code /\ SameSlugs(b, new) /\ SameRegistration(b, new)
    BY <1>1 DEF BuildRecord, SameSlugs, SameRegistration
  <2> QED
    BY <1>2, <1>3, <1>8, <2>1 DEF KeepArtifact, At, Writes
<1>9. CASE KeepDeploy(b)
  <2> DEFINE new == [rec[b] EXCEPT !.deploy_result = TRUE]
  <2>1. new \in BuildRecord /\ new.error_code = rec[b].error_code /\ SameSlugs(b, new) /\ SameRegistration(b, new)
    BY <1>1 DEF BuildRecord, SameSlugs, SameRegistration
  <2> QED
    BY <1>2, <1>3, <1>9, <2>1 DEF KeepDeploy, At, Writes
<1>10. CASE NoteTaken(b)
  <2> DEFINE new == [rec[b] EXCEPT !.slugs_tried = @ \cup {Candidate(b)}]
             local == [runner[b] EXCEPT !.cand = @ + 1, !.next = "pick"]
  <2>1. MoreCandidates(b)
    BY <1>1, <1>10 DEF NoteTaken, At, SessionInv, SlugInv, Standing
  <2>2. Candidate(b) \in Slugs
    BY <2>1, CandidateType DEF RunnerInv
  <2>3. /\ new \in BuildRecord /\ new.error_code = rec[b].error_code
        /\ new.slug = rec[b].slug /\ new.register_attempted = rec[b].register_attempted
        /\ new.slugs_tried = rec[b].slugs_tried \cup {Candidate(b)} /\ SameRegistration(b, new)
    BY <1>1, <2>2 DEF BuildRecord, SameRegistration
  <2>4. PICK n \in Nat \ {0} : n = runner[b].cand + 1
    BY <1>1 DEF Runner
  <2>5. /\ local \in Runner /\ local.next = "pick" /\ local.cand = runner[b].cand + 1
        /\ local.seen = runner[b].seen /\ local.slug = runner[b].slug
    BY <1>1, <2>4 DEF Runner, Label
  <2> QED
    BY <1>10, <2>3, <2>5 DEF NoteTaken, At, Writes
<1>11. CASE KeepSlug(b)
  <2> DEFINE new == [rec[b] EXCEPT !.slug = runner[b].slug, !.register_attempted = FALSE]
  <2>1. /\ new \in BuildRecord /\ new.error_code = rec[b].error_code
        /\ new.slug = runner[b].slug /\ ~new.register_attempted
        /\ new.slugs_tried = rec[b].slugs_tried /\ SameRegistration(b, new)
    BY <1>1 DEF BuildRecord, Runner, SameRegistration
  <2> QED
    BY <1>2, <1>3, <1>11, <2>1 DEF KeepSlug, At, Writes
<1>12. CASE MarkAttempt(b)
  <2> DEFINE new == [rec[b] EXCEPT !.register_attempted = TRUE]
             local == [runner[b] EXCEPT !.resumed = runner[b].seen.register_attempted,
                                        !.tries = 0, !.next = "post"]
  <2>1. /\ new \in BuildRecord /\ new.error_code = rec[b].error_code
        /\ new.slug = rec[b].slug /\ new.register_attempted
        /\ new.slugs_tried = rec[b].slugs_tried /\ SameRegistration(b, new)
    BY <1>1 DEF BuildRecord, SameRegistration
  <2>2. runner[b].seen.register_attempted \in BOOLEAN
    BY <1>1 DEF Runner, Snapshot
  <2>3. /\ local \in Runner /\ local.next = "post" /\ local.resumed = runner[b].seen.register_attempted
        /\ local.seen = runner[b].seen /\ local.slug = runner[b].slug
    BY <1>1, <2>2 DEF Runner, Label
  <2> QED
    BY <1>12, <2>1, <2>3 DEF MarkAttempt, At, Writes
<1>13. CASE RetireSlug(b)
  <2> DEFINE new == [rec[b] EXCEPT !.slugs_tried = @ \cup {runner[b].slug}, !.slug = NoSlug]
  <2>1. runner[b].slug \in Slugs
    BY <1>1, <1>13 DEF RetireSlug, At, SessionInv, SlugInv, Standing
  <2>2. /\ new \in BuildRecord /\ new.error_code = rec[b].error_code
        /\ new.slug = NoSlug /\ new.register_attempted = rec[b].register_attempted
        /\ new.slugs_tried = rec[b].slugs_tried \cup {runner[b].slug} /\ SameRegistration(b, new)
    BY <1>1, <2>1 DEF BuildRecord, SameRegistration
  <2> QED
    BY <1>2, <1>3, <1>13, <2>2 DEF RetireSlug, At, Writes
<1>14. CASE RecordRegistration(b)
  <2> DEFINE new == [rec[b] EXCEPT !.registered = TRUE, !.app_slug = runner[b].slug]
  <2>1. /\ new \in BuildRecord /\ new.error_code = rec[b].error_code
        /\ SameSlugs(b, new) /\ new.registered /\ new.app_slug = runner[b].slug
    BY <1>1 DEF BuildRecord, Runner, SameSlugs
  <2> QED
    BY <1>2, <1>3, <1>14, <2>1 DEF RecordRegistration, At, Writes
<1> QED
  BY <1>5, <1>6, <1>7, <1>8, <1>9, <1>10, <1>11, <1>12, <1>13, <1>14

-----------------------------------------------------------------------------
(* What a step does that only moves the task, field by field.              *)

FirstSteps == {"begin", "build", "announceDeploying", "deploy", "register"}

Moves(b, r) ==
  \/ /\ runner[b].pc \in {"start", "readBack", "register"} /\ r = Idle
     /\ runner[b].pc = "readBack" => runner[b].next = "off"
     /\ ~Active(rec[b]) \/ runner[b].pc = "readBack"
  \/ /\ runner[b].pc = "start" /\ r.pc \in FirstSteps /\ r.seen = View(rec[b])
  \/ /\ runner[b].pc = "readBack" /\ r.seen = View(rec[b])
     /\ r.slug = runner[b].slug /\ r.resumed = runner[b].resumed /\ r.cand = runner[b].cand
     /\ \/ runner[b].next \in {"begun", "artifactKept", "announced"} /\ r.pc \in FirstSteps
        \/ runner[b].next \in {"register", "pick", "mark", "post", "finish"} /\ r.pc = runner[b].next
  \/ /\ r.pc \in {"keepArtifact", "keepDeploy"} /\ runner[b].pc \in {"build", "deploy"}
     /\ r.seen = runner[b].seen
  \/ /\ r.pc = "fail" /\ r.code # "slug_unavailable" /\ r.seen = runner[b].seen
  \/ /\ runner[b].pc = "register" /\ r.pc = "finish" /\ r.seen = runner[b].seen
     /\ rec[b].registered /\ r.slug = rec[b].app_slug
  \/ /\ runner[b].pc = "register" /\ r.seen = View(rec[b])
     /\ r.slug = rec[b].slug /\ r.cand = 1
     /\ r.pc = IF rec[b].slug = NoSlug THEN "pick" ELSE "mark"
  \/ /\ runner[b].pc = "pick" /\ r.pc = "pick" /\ r.seen = runner[b].seen
     /\ \/ r.cand = runner[b].cand
        \/ r.cand = runner[b].cand + 1 /\ Candidate(b) \in runner[b].seen.slugs_tried
  \/ /\ runner[b].pc = "pick" /\ r.pc = "taken" /\ r.seen = runner[b].seen
     /\ r.cand = runner[b].cand /\ Owned(Candidate(b))
  \/ /\ runner[b].pc = "pick" /\ r.pc = "keepSlug" /\ r.seen = runner[b].seen
  \/ /\ runner[b].pc = "pick" /\ r.pc = "fail" /\ r.seen = runner[b].seen
     /\ ~MoreCandidates(b)

LEMMA TaskMoves ==
  ASSUME RunnerInv, NEW b \in Sessions,
         \/ RunnerStarts(b) \/ ReadBack(b) \/ Build(b) \/ Deploy(b) \/ EnterRegister(b)
         \/ SkipTried(b) \/ ProbeSlug(b) \/ NoCandidateLeft(b)
  PROVE  OnlyRunner /\ Moves(b, runner'[b])
<1>1. runner[b] \in Runner /\ runner \in [Sessions -> Runner]
  BY DEF RunnerInv, TypeOK
<1>2. CASE RunnerStarts(b)
  BY <1>1, <1>2 DEF RunnerStarts, At, Stop, AfterBegin, AfterArtifact, AfterDeploying, FirstSteps, Moves, Runner
<1>3. CASE ReadBack(b)
  <2>1. CASE runner[b].next = "off"
    BY <1>1, <1>3, <2>1 DEF ReadBack, At, Stop, Moves, Runner
  <2>2. CASE runner[b].next # "off"
    <3> DEFINE pc == Continue(runner[b].next, View(rec[b]))
    <3>1. runner' = [runner EXCEPT ![b] = [runner[b] EXCEPT !.seen = View(rec[b]), !.next = "off", !.pc = pc]]
      BY <1>1, <1>3, <2>2 DEF ReadBack, Runner
    <3>2. \/ runner[b].next \in {"begun", "artifactKept", "announced"} /\ pc \in FirstSteps
          \/ runner[b].next \in {"register", "pick", "mark", "post", "finish"} /\ pc = runner[b].next
      BY <1>1, <2>2 DEF Runner, Label, Continue, AfterBegin, AfterArtifact, AfterDeploying, FirstSteps
    <3> HIDE DEF pc
    <3>3. /\ runner'[b].seen = View(rec[b]) /\ runner'[b].pc = pc /\ runner'[b].slug = runner[b].slug
          /\ runner'[b].resumed = runner[b].resumed /\ runner'[b].cand = runner[b].cand
      BY <1>1, <3>1 DEF Runner
    <3> QED
      BY <1>3, <3>2, <3>3 DEF ReadBack, At, Moves
  <2> QED
    BY <1>3, <2>1, <2>2 DEF ReadBack
<1>4. CASE Build(b)
  BY <1>1, <1>4 DEF Build, At, Goto, FailWith, Moves, Runner
<1>5. CASE Deploy(b)
  BY <1>1, <1>5 DEF Deploy, At, Goto, FailWith, Moves, Runner
<1>6. CASE EnterRegister(b)
  <2>1. CASE Terminal(rec[b])
    BY <1>1, <1>6, <2>1 DEF EnterRegister, At, Stop, Moves, Active, Runner
  <2>2. CASE ~Terminal(rec[b]) /\ rec[b].registered /\ rec[b].app_slug # NoSlug
    BY <1>1, <1>6, <2>2 DEF EnterRegister, At, Moves, Runner
  <2>3. CASE ~Terminal(rec[b]) /\ ~(rec[b].registered /\ rec[b].app_slug # NoSlug)
    BY <1>1, <1>6, <2>3 DEF EnterRegister, At, Moves, Runner
  <2> QED
    BY <1>6, <2>1, <2>2, <2>3 DEF EnterRegister
<1>7. CASE SkipTried(b)
  BY <1>1, <1>7 DEF SkipTried, Untried, At, Moves, Runner
<1>8. CASE ProbeSlug(b)
  BY <1>1, <1>8 DEF ProbeSlug, At, RetryOrFail, FailWith, Moves, Runner, Owned
<1>9. CASE NoCandidateLeft(b)
  BY <1>1, <1>9 DEF NoCandidateLeft, At, FailWith, Moves, Runner
<1> QED
  BY <1>2, <1>3, <1>4, <1>5, <1>6, <1>7, <1>8, <1>9
  DEF RunnerStarts, ReadBack, Build, Deploy, EnterRegister, SkipTried, ProbeSlug, NoCandidateLeft

-----------------------------------------------------------------------------
(* slug_unavailable.                                                       *)

LEMMA CandidateIndex ==
  ASSUME NEW b \in Sessions, NEW i \in DOMAIN Candidates[b] PROVE i \in Nat \ {0}
<1>1. Candidates[b] \in Seq(Slugs)
  BY RunnerAssumption
<1>2. DOMAIN Candidates[b] = 1..Len(Candidates[b]) /\ Len(Candidates[b]) \in Nat
  BY <1>1, LenProperties
<1> QED
  BY <1>2

LEMMA AllPassedOver ==
  ASSUME TypeOK, NEW b \in Sessions, ~MoreCandidates(b),
         \A i \in DOMAIN Candidates[b] : i < runner[b].cand => Owned(Candidates[b][i])
  PROVE  AllTaken(b)
<1>1. Candidates[b] \in Seq(Slugs) /\ runner[b].cand \in Nat
  BY RunnerAssumption DEF TypeOK, Runner
<1>2. DOMAIN Candidates[b] = 1..Len(Candidates[b]) /\ Len(Candidates[b]) \in Nat
  BY <1>1, LenProperties
<1> QED
  BY <1>1, <1>2 DEF AllTaken, MoreCandidates

LEMMA StepTakes ==
  ASSUME RunnerInv, NEW b \in Sessions, TakenInv(b), SessionStep(b)
  PROVE  TakenInv(b)'
<1>1. TypeOK /\ rec[b] \in BuildRecord /\ runner[b] \in Runner /\ OwnersRemain
  BY StepLeaves DEF RunnerInv, TypeOK, Growing
<1>2. CASE \/ AnnounceBuilding(b) \/ KeepArtifact(b) \/ AnnounceDeploying(b)
           \/ KeepDeploy(b) \/ NoteTaken(b) \/ KeepSlug(b) \/ MarkAttempt(b)
           \/ RetireSlug(b) \/ RecordRegistration(b) \/ Finish(b)
  <2>1. PICK new \in BuildRecord, local \in Runner : Writes(b, new, local)
    BY <1>2, StepWrites
  <2>2. \A s \in new.slugs_tried : s \in rec[b].slugs_tried \/ Owned(s)
    BY <2>1 DEF Writes, SameSlugs, TakenInv
  <2>3. local.next = "pick" =>
          \A i \in DOMAIN Candidates[b] : i < local.cand => Owned(Candidates[b][i])
    <3> SUFFICES ASSUME local.next = "pick", NEW i \in DOMAIN Candidates[b], i < local.cand
                 PROVE  Owned(Candidates[b][i])
      OBVIOUS
    <3>1. runner[b].pc = "taken" /\ local.cand = runner[b].cand + 1 /\ runner[b].cand \in Nat
      BY <2>1, <1>1 DEF Writes, Runner
    <3>2. i \in Nat
      BY CandidateIndex
    <3>3. i < runner[b].cand \/ i = runner[b].cand
      BY <3>1, <3>2
    <3> QED
      BY <3>1, <3>3 DEF TakenInv, Standing, Candidate
  <2> QED
    BY <1>1, <2>1, <2>2, <2>3, TakenPersists DEF Writes
<1>3. CASE \/ RunnerStarts(b) \/ ReadBack(b) \/ Build(b) \/ Deploy(b) \/ EnterRegister(b)
           \/ SkipTried(b) \/ ProbeSlug(b) \/ NoCandidateLeft(b)
  <2> DEFINE r == runner'[b]
  <2>1. OnlyRunner /\ Moves(b, r)
    BY <1>3, TaskMoves
  <2>2. rec' = rec /\ registry' = registry
    BY <2>1 DEF OnlyRunner
  <2>3. r.seen.slugs_tried \subseteq rec[b].slugs_tried \cup runner[b].seen.slugs_tried
    BY <2>1, IdleTries DEF Moves, View
  <2>4. (\A s \in rec[b].slugs_tried \cup runner[b].seen.slugs_tried : Owned(s))'
    BY <2>2, <2>3 DEF TakenInv, Owned
  <2>5. r.pc = "retire" => FALSE
    BY <2>1, IdleTries DEF Moves, FirstSteps
  <2>6. r.pc = "taken" => Owned(Candidates[b][r.cand])
    BY <2>1, IdleTries DEF Moves, FirstSteps, Candidate
  <2>7. Standing(b, {"pick", "taken"}, {"pick"})' =>
          \A i \in DOMAIN Candidates[b] : i < r.cand => Owned(Candidates[b][i])
    <3>0. Standing(b, {"pick", "taken"}, {"pick"})' =>
            r.pc \in {"pick", "taken"} \/ (r.pc = "readBack" /\ r.next = "pick")
      BY DEF Standing
    <3> SUFFICES ASSUME r.pc \in {"pick", "taken"} \/ (r.pc = "readBack" /\ r.next = "pick"),
                        NEW i \in DOMAIN Candidates[b], i < r.cand
                 PROVE  Owned(Candidates[b][i])
      BY <3>0
    <3>1. i \in Nat \ {0}
      BY CandidateIndex
    <3>2. /\ r.cand # 1
          /\ Standing(b, {"pick", "taken"}, {"pick"})
          /\ \/ r.cand = runner[b].cand
             \/ r.cand = runner[b].cand + 1 /\ Candidate(b) \in runner[b].seen.slugs_tried
      BY <2>1, <3>1, IdleTries DEF Moves, FirstSteps, Standing
    <3>3. i < runner[b].cand \/ (i = runner[b].cand /\ Candidate(b) \in runner[b].seen.slugs_tried)
      <4>1. runner[b].cand \in Nat
        BY <1>1 DEF Runner
      <4> HIDE DEF r
      <4> QED
        BY <3>1, <3>2, <4>1
    <3> QED
      BY <3>2, <3>3 DEF TakenInv, Candidate
  <2>8. r.pc = "fail" /\ r.code = "slug_unavailable" => AllTaken(b)
    <3> SUFFICES ASSUME r.pc = "fail", r.code = "slug_unavailable" PROVE AllTaken(b)
      OBVIOUS
    <3>1. runner[b].pc = "pick" /\ ~MoreCandidates(b)
      BY <2>1, IdleTries DEF Moves, FirstSteps
    <3> QED
      BY <1>1, <3>1, AllPassedOver DEF TakenInv, Standing
  <2> HIDE DEF r
  <2> QED
    BY <2>2, <2>4, <2>5, <2>6, <2>7, <2>8 DEF r, TakenInv, AllTaken, Owned, Candidate, Standing
<1>4. CASE PostAnswered(b) \/ PostLost(b)
  <2>1. /\ runner'[b].seen = runner[b].seen /\ rec' = rec /\ runner[b].pc = "post"
        /\ runner'[b].pc \in {"record", "retire", "post", "fail"}
        /\ runner'[b].pc = "retire" => Owned(runner[b].slug) /\ runner'[b].slug = runner[b].slug
        /\ runner'[b].pc = "fail" => runner'[b].code # "slug_unavailable"
    <3>1. CASE PostAnswered(b)
      BY <1>1, <3>1 DEF PostAnswered, At, Goto, RetryOrFail, FailWith, Runner, TypeOK, Owned
    <3>2. CASE PostLost(b)
      BY <1>1, <3>2 DEF PostLost, At, RetryOrFail, FailWith, Runner, TypeOK
    <3> QED
      BY <1>4, <3>1, <3>2
  <2>2. CASE runner'[b].pc # "retire"
    BY <1>1, <2>1, <2>2, TakenElsewhere DEF Standing
  <2>3. CASE runner'[b].pc = "retire"
    <3>1. runner[b].slug \in Slugs
      BY <2>1 DEF RunnerInv, SessionInv, SlugInv, Standing
    <3>2. /\ \A s \in Slugs : Owned(s) => Owned(s)'
          /\ AllTaken(b) => AllTaken(b)'
      BY <1>1, OwnersStay
    <3> QED
      BY <1>1, <2>1, <2>3, <3>1, <3>2, TriedAreSlugs DEF TakenInv, Standing
  <2> QED
    BY <2>2, <2>3
<1>5. CASE Fail(b)
  <2>1. /\ runner'[b] = Idle /\ runner[b].pc = "fail" /\ registry' = registry
        /\ rec'[b].slugs_tried = rec[b].slugs_tried
        /\ rec'[b].error_code \in {rec[b].error_code, runner[b].code}
    <3>1. [Announce(rec[b], "failed", NoSlug) EXCEPT !.error_code = runner[b].code].slugs_tried
            = rec[b].slugs_tried
      BY <1>1 DEF Announce, BuildRecord
    <3>2. [Announce(rec[b], "failed", NoSlug) EXCEPT !.error_code = runner[b].code].error_code
            = runner[b].code
      BY <1>1 DEF Announce, BuildRecord
    <3> QED
      BY <1>1, <1>5, <3>1, <3>2 DEF Fail, At, Stop, TypeOK
  <2> QED
    BY <2>1, IdleTries DEF TakenInv, AllTaken, Owned, Standing
<1>6. CASE RunnerStoreFault(b)
  <2>1. /\ runner'[b] = Idle \/ (runner'[b].pc = "fail" /\ runner'[b].code = "internal_error")
        /\ runner'[b].seen \in {runner[b].seen, Idle.seen} /\ rec' = rec
    <3>1. CASE Stop(b)
      BY <1>1, <1>6, <3>1 DEF RunnerStoreFault, Stop, TypeOK
    <3>2. CASE FailWith(b, "internal_error")
      BY <1>1, <1>6, <3>2 DEF RunnerStoreFault, FailWith, TypeOK, Runner
    <3> QED
      BY <1>6, <3>1, <3>2 DEF RunnerStoreFault
  <2> QED
    BY <1>1, <2>1, IdleTries, TakenElsewhere DEF Standing
<1>7. CASE Accept(b)
  <2>1. /\ runner[b] = Idle /\ runner'[b] = Idle
        /\ rec'[b].slugs_tried = rec[b].slugs_tried /\ rec'[b].error_code = rec[b].error_code
    BY <1>1, <1>7 DEF Accept, NewRecord, NoRow, RunnerInv, SessionInv, AbsentInv, TypeOK
  <2> QED
    BY <1>1, <2>1, IdleTries, TakenElsewhere DEF Standing
<1>8. CASE Enqueue(b)
  <2>1. /\ runner'[b] = runner[b] \/ (runner'[b].pc = "start" /\ runner'[b].seen = runner[b].seen)
        /\ UNCHANGED <<rec, registry>>
    BY <1>1, <1>8 DEF Enqueue, Goto, TypeOK, Runner
  <2> QED
    BY <2>1 DEF TakenInv, AllTaken, Owned, Candidate, Standing
<1>9. CASE CancelCommits(b) \/ CancelReturns(b) \/ CancelStoreFault(b)
  <2>1. /\ UNCHANGED <<runner, registry>>
        /\ rec'[b].slugs_tried = rec[b].slugs_tried /\ rec'[b].error_code = rec[b].error_code
    <3>1. CASE CancelCommits(b)
      <4>1. /\ Cancelled(rec[b]).slugs_tried = rec[b].slugs_tried
            /\ Cancelled(rec[b]).error_code = rec[b].error_code
        BY <1>1 DEF Cancelled, BuildRecord
      <4> QED
        BY <1>1, <3>1, <4>1 DEF CancelCommits, TypeOK
    <3>2. CASE CancelReturns(b) \/ CancelStoreFault(b)
      BY <3>2 DEF CancelReturns, CancelStoreFault
    <3> QED
      BY <1>9, <3>1, <3>2
  <2> QED
    BY <2>1 DEF TakenInv, AllTaken, Owned, Candidate, Standing
<1>10. CASE CancelKillsTask(b)
  <2>1. runner'[b] = Idle /\ rec' = rec
    BY <1>1, <1>10 DEF CancelKillsTask, Stop, TypeOK
  <2> QED
    BY <1>1, <2>1, IdleTries, TakenElsewhere DEF Standing
<1> QED
  BY <1>2, <1>3, <1>4, <1>5, <1>6, <1>7, <1>8, <1>9, <1>10
  DEF SessionStep, RunnerStep, CancelStep

LEMMA RegistryLeaves ==
  ASSUME TypeOK, RegistryStep
  PROVE  /\ Growing /\ UNCHANGED <<rec, runner, canceller, accepting, storeFaults, up, crashes, lost>>
         /\ \A b \in Sessions, s \in Slugs :
              /\ <<b, s>> \in wire' => <<b, s>> \in wire
              /\ registry'[s] = b => registry[s] = b \/ <<b, s>> \in wire
<1>1. CASE \E p \in wire : PostLands(p)
  <2>1. PICK p \in wire : PostLands(p)
    BY <1>1
  <2>2. PICK c \in Sessions, t \in Slugs : p = <<c, t>>
    BY <2>1 DEF TypeOK
  <2>3. registry' = IF registry[t] = Unowned THEN [registry EXCEPT ![t] = c] ELSE registry
    BY <2>1, <2>2 DEF PostLands
  <2> QED
    BY <2>1, <2>2, <2>3 DEF PostLands, TypeOK, Growing, OwnersRemain, Owned
<1>2. CASE \E s \in Slugs : ForeignRegisters(s)
  BY <1>2, RunnerAssumption DEF ForeignRegisters, TypeOK, Growing, OwnersRemain, Owned
<1> QED
  BY <1>1, <1>2 DEF RegistryStep

(* A restart leaves the rows and FuzeFront alone.                          *)
LEMMA RestartLeaves ==
  ASSUME RunnerInv, NEW b \in Sessions,
         \/ ProcessStops /\ RunnersDie
         \/ ProcessStarts /\ (RunnersResume \/ ResumeFails)
  PROVE  /\ rec' = rec /\ registry' = registry /\ lost' = lost
         /\ \/ runner'[b] = runner[b] \/ runner'[b] = Idle
            \/ runner'[b] = [Idle EXCEPT !.pc = "start"]
<1>1. CASE ProcessStops /\ RunnersDie
  BY <1>1 DEF ProcessStops, RunnersDie
<1>2. CASE ProcessStarts /\ RunnersResume
  BY <1>2 DEF ProcessStarts, RunnersResume
<1>3. CASE ProcessStarts /\ ResumeFails
  BY <1>3 DEF ProcessStarts, ResumeFails
<1> QED
  BY <1>1, <1>2, <1>3

(* slug_unavailable is reported only when every candidate has an owner,    *)
(* however many sessions choose at once and however often they resume.     *)
THEOREM UnavailableIsTrue == RunnerSpec => []SlugUnavailableIsTrue
<1>1. RunnerInitAll => \A b \in Sessions : TakenInv(b)
  BY IdleTries DEF RunnerInitAll, StoreInit, RunnerInit, NoRow, TakenInv, Standing
<1>2. RunnerInv /\ (\A b \in Sessions : TakenInv(b)) /\ [RunnerNext]_<<storeVars, runnerVars>>
        => (\A b \in Sessions : TakenInv(b))'
  <2> SUFFICES ASSUME RunnerInv, \A c \in Sessions : TakenInv(c),
                      [RunnerNext]_<<storeVars, runnerVars>>, NEW b \in Sessions
               PROVE  TakenInv(b)'
    OBVIOUS
  <2>1. TypeOK
    BY DEF RunnerInv
  <2>2. ASSUME rec'[b] = rec[b], runner'[b] = runner[b], OwnersRemain PROVE TakenInv(b)'
    <3>1. /\ \A s \in Slugs : Owned(s) => Owned(s)'
          /\ AllTaken(b) => AllTaken(b)'
          /\ \A i \in DOMAIN Candidates[b] : Candidates[b][i] \in Slugs
      BY <2>1, <2>2, OwnersStay
    <3>2. runner[b].pc = "taken" => Candidate(b) \in Slugs
      BY <2>1, CandidateType DEF RunnerInv, SessionInv, SlugInv, Standing
    <3>3. runner[b].pc = "retire" => runner[b].slug \in Slugs
      BY DEF RunnerInv, SessionInv, SlugInv, Standing
    <3> QED
      BY <2>1, <2>2, <3>1, <3>2, <3>3, TriedAreSlugs DEF TakenInv, Standing, Candidate
  <2>3. ASSUME NEW c \in Sessions, SessionStep(c) PROVE TakenInv(b)'
    <3>1. CASE c = b
      BY <2>3, <3>1, StepTakes
    <3>2. CASE c # b
      BY <2>1, <2>2, <2>3, <3>2, StepLeaves DEF Untouched, Growing
    <3> QED
      BY <3>1, <3>2
  <2>4. CASE RegistryStep
    BY <2>1, <2>2, <2>4, RegistryLeaves DEF Growing
  <2>5. CASE UNCHANGED <<storeVars, runnerVars>>
    BY <2>2, <2>5 DEF storeVars, runnerVars, OwnersRemain
  <2>6. CASE \/ ProcessStops /\ RunnersDie
             \/ ProcessStarts /\ (RunnersResume \/ ResumeFails)
    <3>1. OwnersRemain /\ rec' = rec
      BY <2>6, RestartLeaves DEF OwnersRemain
    <3>2. CASE runner'[b] = runner[b]
      BY <2>2, <3>1, <3>2
    <3>3. CASE runner'[b] = Idle \/ runner'[b] = [Idle EXCEPT !.pc = "start"]
      <4>1. runner'[b].pc \in {"off", "start"} /\ runner'[b].seen.slugs_tried = {}
        BY <3>3, IdleTries DEF Idle
      <4> QED
        BY <2>1, <3>1, <4>1, TakenElsewhere DEF Standing
    <3> QED
      BY <2>6, <3>2, <3>3, RestartLeaves
  <2> QED
    BY <2>3, <2>4, <2>5, <2>6 DEF RunnerNext
<1>3. (\A b \in Sessions : TakenInv(b)) => SlugUnavailableIsTrue
  BY DEF TakenInv, AllTaken, Owned, SlugUnavailableIsTrue
<1> QED
  BY <1>1, <1>2, <1>3, RunnerInvariant, PTL DEF RunnerSpec

-----------------------------------------------------------------------------
(* Orphans.                                                                *)

(* A task that reads back its last write has ended its session, and an     *)
(* active session has a task or gets one, until the store raises.          *)
RunnerHolds(b) ==
  /\ runner[b].pc = "readBack" /\ runner[b].next = "off" => Terminal(rec[b])
  /\ up /\ storeFaults = 0 /\ Cardinality(Sessions) <= ListLimit /\ Active(rec[b])
       => runner[b].pc # "off" \/ b \in accepting

LEMMA StepHolds ==
  ASSUME RunnerInv, NEW b \in Sessions, QuietInv(b), RunnerHolds(b), SessionStep(b)
  PROVE  RunnerHolds(b)'
<1>1. TypeOK /\ rec[b] \in BuildRecord /\ runner[b] \in Runner /\ Growing
  BY StepLeaves DEF RunnerInv, TypeOK
<1>2. CASE \/ AnnounceBuilding(b) \/ KeepArtifact(b) \/ AnnounceDeploying(b)
           \/ KeepDeploy(b) \/ NoteTaken(b) \/ KeepSlug(b) \/ MarkAttempt(b)
           \/ RetireSlug(b) \/ RecordRegistration(b) \/ Finish(b)
  <2>1. PICK new \in BuildRecord, local \in Runner : Writes(b, new, local)
    BY <1>2, StepWrites
  <2>2. CASE Terminal(rec[b])
    <3>1. rec' = rec /\ runner'[b] = Idle
      BY <1>1, <2>1, <2>2 DEF Writes, Persist, Stop, TypeOK
    <3> QED
      BY <2>2, <3>1, IdleTries DEF RunnerHolds, Terminal, Active
  <2>3. CASE ~Terminal(rec[b])
    <3>1. rec'[b] = new /\ runner'[b] = [local EXCEPT !.pc = "readBack"]
      BY <1>1, <2>1, <2>3 DEF Writes, Persist, TypeOK
    <3>2. runner'[b].pc = "readBack" /\ runner'[b].next = local.next
      BY <3>1 DEF Runner
    <3>3. local.next = "off" => new.status = "deployed"
      BY <2>1 DEF Writes
    <3> QED
      BY <3>1, <3>2, <3>3 DEF RunnerHolds, Terminal, TerminalStatus
  <2> QED
    BY <2>2, <2>3
<1>3. CASE \/ RunnerStarts(b) \/ ReadBack(b) \/ Build(b) \/ Deploy(b) \/ EnterRegister(b)
           \/ SkipTried(b) \/ ProbeSlug(b) \/ NoCandidateLeft(b)
  <2>1. OnlyRunner /\ Moves(b, runner'[b])
    BY <1>3, TaskMoves
  <2>2. UNCHANGED <<rec, up, storeFaults, accepting>>
    BY <2>1 DEF OnlyRunner
  <2>3. runner'[b].pc # "readBack" /\ (runner'[b].pc = "off" => ~Active(rec[b]))
    BY <2>1, IdleTries DEF Moves, FirstSteps, RunnerHolds, Active
  <2> QED
    BY <2>2, <2>3 DEF RunnerHolds, Active, Terminal, Exists
<1>4. CASE PostAnswered(b) \/ PostLost(b)
  <2>1. rec' = rec /\ runner'[b].pc \in {"record", "retire", "post", "fail"}
    <3>1. CASE PostAnswered(b)
      BY <1>1, <3>1 DEF PostAnswered, At, Goto, RetryOrFail, FailWith, Runner, TypeOK
    <3>2. CASE PostLost(b)
      BY <1>1, <3>2 DEF PostLost, At, RetryOrFail, FailWith, Runner, TypeOK
    <3> QED
      BY <1>4, <3>1, <3>2
  <2> QED
    BY <2>1 DEF RunnerHolds
<1>5. CASE Fail(b)
  <2>1. [Announce(rec[b], "failed", NoSlug) EXCEPT !.error_code = runner[b].code].status = "failed"
    BY <1>1 DEF Announce, BuildRecord
  <2>2. Terminal(rec[b])' /\ runner'[b] = Idle
    BY <1>1, <1>5, <2>1 DEF Fail, Stop, TypeOK, Terminal, TerminalStatus
  <2> QED
    BY <2>2, IdleTries DEF RunnerHolds, Active
<1>6. CASE RunnerStoreFault(b)
  <2>1. storeFaults' # 0
    BY <1>1, <1>6 DEF RunnerStoreFault, StoreRaises, TypeOK
  <2>2. runner'[b].pc \in {"off", "fail"}
    BY <1>1, <1>6 DEF RunnerStoreFault, Stop, Idle, FailWith, TypeOK, Runner
  <2> QED
    BY <2>1, <2>2 DEF RunnerHolds
<1>7. CASE Accept(b)
  <2>1. b \in accepting' /\ runner'[b] = Idle
    BY <1>7 DEF Accept, RunnerInv, SessionInv, AbsentInv
  <2> QED
    BY <2>1, IdleTries DEF RunnerHolds
<1>8. CASE Enqueue(b)
  <2>1. /\ runner'[b].pc # "off" /\ rec' = rec
        /\ runner'[b].pc = "start" \/ runner'[b] = runner[b]
    BY <1>1, <1>8 DEF Enqueue, Goto, TypeOK, Runner
  <2> QED
    BY <2>1 DEF RunnerHolds
<1>9. CASE CancelCommits(b)
  <2>1. Cancelled(rec[b]).status = "cancelled"
    BY <1>1 DEF Cancelled, BuildRecord
  <2>2. Terminal(rec[b])'
    BY <1>1, <1>9, <2>1 DEF CancelCommits, TypeOK, Terminal, TerminalStatus
  <2> QED
    BY <2>2 DEF RunnerHolds, Active
<1>10. CASE CancelReturns(b) \/ CancelStoreFault(b)
  BY <1>1, <1>10 DEF CancelReturns, CancelStoreFault, Growing, RunnerHolds
<1>11. CASE CancelKillsTask(b)
  <2>1. runner'[b] = Idle /\ rec' = rec /\ rec[b].status = "cancelled"
    BY <1>1, <1>11 DEF CancelKillsTask, Stop, TypeOK, QuietInv
  <2> QED
    BY <2>1, IdleTries DEF RunnerHolds, Active, Terminal, TerminalStatus
<1> QED
  BY <1>2, <1>3, <1>4, <1>5, <1>6, <1>7, <1>8, <1>9, <1>10, <1>11
  DEF SessionStep, RunnerStep, CancelStep

LEMMA RestartHolds ==
  ASSUME IsFiniteSet(Sessions), RunnerInv, NEW b \in Sessions, RunnerHolds(b),
         \/ ProcessStops /\ RunnersDie
         \/ ProcessStarts /\ (RunnersResume \/ ResumeFails)
  PROVE  RunnerHolds(b)'
<1>1. CASE ProcessStops /\ RunnersDie
  BY <1>1, IdleTries DEF ProcessStops, RunnersDie, RunnerHolds
<1>2. CASE ProcessStarts /\ RunnersResume
  <2>1. PICK listed \in SUBSET ActiveSessions :
          /\ Listed(listed, ActiveSessions)
          /\ runner' = [c \in Sessions |-> IF c \in listed THEN [Idle EXCEPT !.pc = "start"] ELSE Idle]
    BY <1>2 DEF RunnersResume
  <2>2. [Idle EXCEPT !.pc = "start"].pc = "start" /\ rec' = rec /\ storeFaults' = storeFaults
    BY <1>2 DEF Idle, RunnersResume
  <2>3. Cardinality(Sessions) <= ListLimit => listed = ActiveSessions
    <3>1. /\ IsFiniteSet(ActiveSessions) /\ Cardinality(ActiveSessions) <= Cardinality(Sessions)
      BY FS_Subset, ActiveSessions \subseteq Sessions DEF ActiveSessions
    <3>2. Cardinality(ActiveSessions) \in Nat /\ Cardinality(Sessions) \in Nat /\ ListLimit \in Nat
      BY <3>1, FS_CardinalityType, StoreAssumption
    <3> QED
      BY <2>1, <3>1, <3>2 DEF Listed
  <2>4. CASE b \in listed
    BY <2>1, <2>2, <2>4 DEF RunnerHolds
  <2>5. CASE b \notin listed
    <3>1. runner'[b] = Idle
      BY <2>1, <2>5
    <3>2. Cardinality(Sessions) <= ListLimit => ~Active(rec[b])
      BY <2>3, <2>5 DEF ActiveSessions
    <3> QED
      BY <2>2, <3>1, <3>2, IdleTries DEF RunnerHolds, Active, Exists, Terminal
  <2> QED
    BY <2>4, <2>5
<1>3. CASE ProcessStarts /\ ResumeFails
  <2>1. storeFaults' # 0 /\ UNCHANGED <<rec, runner>>
    BY <1>3 DEF ResumeFails, StoreRaises, RunnerInv, TypeOK
  <2> QED
    BY <2>1 DEF RunnerHolds, Terminal
<1> QED
  BY <1>1, <1>2, <1>3

(* While the store answers and the listing limit is not reached, every     *)
(* session that is not terminal has a task or is about to get one, after   *)
(* any number of restarts.                                                 *)
THEOREM NoSessionIsOrphaned == ASSUME IsFiniteSet(Sessions) PROVE RunnerSpec => []NoOrphan
<1>1. RunnerInitAll => \A b \in Sessions : RunnerHolds(b)
  BY IdleTries DEF RunnerInitAll, StoreInit, RunnerInit, NoRow, RunnerHolds, Active, Exists
<1>2. RunnerInv /\ (\A b \in Sessions : QuietInv(b)) /\ (\A b \in Sessions : RunnerHolds(b))
      /\ [RunnerNext]_<<storeVars, runnerVars>> => (\A b \in Sessions : RunnerHolds(b))'
  <2> SUFFICES ASSUME RunnerInv, \A c \in Sessions : QuietInv(c), \A c \in Sessions : RunnerHolds(c),
                      [RunnerNext]_<<storeVars, runnerVars>>, NEW b \in Sessions
               PROVE  RunnerHolds(b)'
    OBVIOUS
  <2>1. TypeOK
    BY DEF RunnerInv
  <2>2. ASSUME NEW c \in Sessions, SessionStep(c) PROVE RunnerHolds(b)'
    <3>1. CASE c = b
      BY <2>2, <3>1, StepHolds
    <3>2. CASE c # b
      BY <2>1, <2>2, <3>2, StepLeaves DEF Untouched, Growing, RunnerHolds, Terminal, Active, Exists
    <3> QED
      BY <3>1, <3>2
  <2>3. CASE RegistryStep
    BY <2>1, <2>3, RegistryLeaves DEF RunnerHolds, Terminal, Active, Exists
  <2>4. CASE UNCHANGED <<storeVars, runnerVars>>
    BY <2>4 DEF storeVars, runnerVars, RunnerHolds, Terminal, Active, Exists
  <2> QED
    BY <2>2, <2>3, <2>4, RestartHolds DEF RunnerNext
<1>3. (\A b \in Sessions : RunnerHolds(b)) => NoOrphan
  BY DEF RunnerHolds, ActiveSessions, NoOrphan
<1> QED
  BY <1>1, <1>2, <1>3, RunnerInvariant, QuietInvariant, PTL DEF RunnerSpec

-----------------------------------------------------------------------------
(* One application per session.                                            *)

WritingStep(b) ==
  \/ AnnounceBuilding(b) \/ KeepArtifact(b) \/ AnnounceDeploying(b)
  \/ KeepDeploy(b) \/ NoteTaken(b) \/ KeepSlug(b) \/ MarkAttempt(b)
  \/ RetireSlug(b) \/ RecordRegistration(b) \/ Finish(b)

MovingStep(b) ==
  \/ RunnerStarts(b) \/ ReadBack(b) \/ Build(b) \/ Deploy(b) \/ EnterRegister(b)
  \/ SkipTried(b) \/ ProbeSlug(b) \/ NoCandidateLeft(b)

(* Steps that end a session or a task, or leave the task where it is, write*)
(* nothing of the registration.                                            *)
Ends(b) ==
  /\ rec'[b].slug = rec[b].slug /\ rec'[b].register_attempted = rec[b].register_attempted
  /\ rec'[b].registered = rec[b].registered /\ rec'[b].app_slug = rec[b].app_slug
  /\ registry' = registry /\ accepting' = accepting
  /\ \A s \in Slugs : <<b, s>> \in wire' =>
       <<b, s>> \in wire \/ (runner[b].pc = "post" /\ s = runner[b].slug)
  /\ \/ runner'[b].pc \in {"off", "fail"}
     \/ runner'[b] = runner[b]

LEMMA StepEnds ==
  ASSUME TypeOK, NEW b \in Sessions, Fail(b) \/ RunnerStoreFault(b) \/ CancelStep(b)
  PROVE  Ends(b)
<1>1. rec[b] \in BuildRecord /\ runner[b] \in Runner
  BY DEF TypeOK
<1>2. CASE Fail(b)
  <2> DEFINE new == [Announce(rec[b], "failed", NoSlug) EXCEPT !.error_code = runner[b].code]
  <2>1. /\ new.slug = rec[b].slug /\ new.register_attempted = rec[b].register_attempted
        /\ new.registered = rec[b].registered /\ new.app_slug = rec[b].app_slug
    BY <1>1 DEF Announce, BuildRecord
  <2>2. runner'[b] = Idle /\ (rec'[b] = rec[b] \/ rec'[b] = new)
    BY <1>2 DEF Fail, Stop, TypeOK
  <2>3. registry' = registry /\ accepting' = accepting /\ wire' = wire
    BY <1>2 DEF Fail
  <2> HIDE DEF new
  <2> QED
    BY <2>1, <2>2, <2>3, IdleTries DEF Ends
<1>3. CASE RunnerStoreFault(b)
  BY <1>1, <1>3, IdleTries DEF RunnerStoreFault, Stop, FailWith, TypeOK, Runner, Ends
<1>4. CASE CancelCommits(b)
  <2>1. rec'[b] = Cancelled(rec[b])
    BY <1>4 DEF CancelCommits, TypeOK
  <2>2. /\ rec'[b].slug = rec[b].slug /\ rec'[b].register_attempted = rec[b].register_attempted
        /\ rec'[b].registered = rec[b].registered /\ rec'[b].app_slug = rec[b].app_slug
    BY <1>1, <2>1 DEF Cancelled, BuildRecord
  <2> QED
    BY <1>4, <2>2 DEF CancelCommits, Ends
<1>5. CASE CancelKillsTask(b)
  BY <1>1, <1>5, IdleTries DEF CancelKillsTask, Stop, Abandoned, TypeOK, Ends
<1>6. CASE CancelReturns(b) \/ CancelStoreFault(b)
  BY <1>6 DEF CancelReturns, CancelStoreFault, Ends
<1> QED
  BY <1>2, <1>3, <1>4, <1>5, <1>6 DEF CancelStep

(* As long as no answer is lost: an application or a request of b is at the*)
(* slug its record names, and the record tells of the attempt; a task that *)
(* does not know of an earlier attempt has neither.                        *)
NothingOut(b) == \A s \in Slugs : registry[s] # b /\ <<b, s>> \notin wire

OneInv(b) ==
  /\ \A s \in Slugs : registry[s] = b \/ <<b, s>> \in wire =>
       s = rec[b].slug /\ rec[b].register_attempted
  /\ Standing(b, {"post"}, {"post"}) /\ ~runner[b].resumed => NothingOut(b)
  /\ runner[b].pc = "retire" => NothingOut(b)
  /\ Standing(b, {"post", "retire", "record"}, {"post"}) => rec[b].register_attempted
  /\ runner[b].pc = "mark" => runner[b].seen.register_attempted = rec[b].register_attempted

LEMMA StepIsOne ==
  ASSUME RunnerInv, NEW b \in Sessions, OneInv(b), SessionStep(b), lost' = lost
  PROVE  OneInv(b)'
<1>1. /\ TypeOK /\ rec[b] \in BuildRecord /\ runner[b] \in Runner /\ SlugInv(b)
      /\ NoSlug \notin Slugs /\ AbsentInv(b)
  BY NoSlugAssumption DEF RunnerInv, SessionInv, TypeOK
<1>2. CASE WritingStep(b)
  <2>1. PICK new \in BuildRecord, local \in Runner : Writes(b, new, local)
    BY <1>2, StepWrites DEF WritingStep
  <2>2. registry' = registry /\ wire' = wire
    BY <2>1 DEF Writes, Persist
  <2>3. CASE Terminal(rec[b])
    <3>1. rec' = rec /\ runner'[b] = Idle
      BY <1>1, <2>1, <2>3 DEF Writes, Persist, Stop, TypeOK
    <3> QED
      BY <2>2, <3>1, IdleTries DEF OneInv, Standing
  <2>4. CASE ~Terminal(rec[b])
    <3>1. rec'[b] = new /\ runner'[b] = [local EXCEPT !.pc = "readBack"]
      BY <1>1, <2>1, <2>4 DEF Writes, Persist, TypeOK
    <3>2. /\ runner'[b].pc = "readBack" /\ runner'[b].next = local.next
          /\ runner'[b].resumed = local.resumed
      BY <3>1 DEF Runner
    <3>3. \A s \in Slugs : registry[s] = b \/ <<b, s>> \in wire => s = new.slug /\ new.register_attempted
      <4>1. CASE runner[b].pc = "keepSlug"
        BY <1>1, <4>1 DEF SlugInv, Standing, OneInv
      <4>2. CASE runner[b].pc = "retire"
        BY <4>2 DEF OneInv, NothingOut
      <4>3. CASE runner[b].pc \notin {"keepSlug", "retire"}
        BY <2>1, <4>3 DEF Writes, SameSlugs, OneInv
      <4> QED
        BY <4>1, <4>2, <4>3
    <3>4. local.next = "post" => new.register_attempted /\ local.resumed = rec[b].register_attempted
      BY <2>1 DEF Writes, OneInv
    <3>5. local.next = "post" /\ ~local.resumed => NothingOut(b)
      BY <3>4 DEF OneInv, NothingOut
    <3> QED
      BY <2>2, <3>1, <3>2, <3>3, <3>4, <3>5 DEF OneInv, Standing, NothingOut
  <2> QED
    BY <2>3, <2>4
<1>3. CASE MovingStep(b)
  <2>1. OnlyRunner /\ Moves(b, runner'[b])
    BY <1>3, TaskMoves DEF MovingStep
  <2>2. rec' = rec /\ registry' = registry /\ wire' = wire
    BY <2>1 DEF OnlyRunner
  <2>3. View(rec[b]).register_attempted = rec[b].register_attempted
    BY DEF View
  <2>4. /\ runner'[b].pc \notin {"readBack", "retire", "record"}
        /\ runner'[b].pc = "mark" => runner'[b].seen = View(rec[b])
    BY <2>1, IdleTries DEF Moves, FirstSteps
  <2>5. runner'[b].pc = "post" =>
          Standing(b, {}, {"post"}) /\ runner'[b].resumed = runner[b].resumed
    BY <2>1, IdleTries DEF Moves, FirstSteps, Standing
  <2> QED
    BY <2>2, <2>3, <2>4, <2>5 DEF OneInv, Standing, NothingOut
<1>4. CASE PostAnswered(b)
  <2>1. rec' = rec /\ wire' = wire /\ runner[b].pc = "post"
    BY <1>4 DEF PostAnswered, At
  <2>2. runner[b].slug = rec[b].slug /\ rec[b].register_attempted
    BY <1>1, <2>1 DEF SlugInv, OneInv, Standing
  <2>3. CASE registry' = [registry EXCEPT ![runner[b].slug] = b] /\ Goto(b, "record")
    BY <1>1, <2>1, <2>2, <2>3 DEF Goto, TypeOK, Runner, OneInv, Standing
  <2>4. CASE registry' = registry /\ Goto(b, IF runner[b].resumed THEN "record" ELSE "retire")
    BY <1>1, <2>1, <2>2, <2>4 DEF Goto, TypeOK, Runner, OneInv, Standing, NothingOut
  <2>5. CASE registry' = registry /\ (RetryOrFail(b) \/ FailWith(b, "registry_rejected"))
    <3>1. /\ runner'[b].pc \in {"post", "fail"} /\ runner'[b].resumed = runner[b].resumed
      BY <1>1, <2>1, <2>5 DEF RetryOrFail, FailWith, TypeOK, Runner
    <3> QED
      BY <2>1, <2>2, <2>5, <3>1 DEF OneInv, Standing, NothingOut
  <2> QED
    BY <1>4, <2>3, <2>4, <2>5 DEF PostAnswered
<1>5. CASE Fail(b) \/ RunnerStoreFault(b) \/ CancelStep(b)
  <2>1. Ends(b)
    BY <1>1, <1>5, StepEnds
  <2>2. runner[b].pc = "post" => runner[b].slug = rec[b].slug /\ rec[b].register_attempted
    BY <1>1 DEF SlugInv, OneInv, Standing
  <2>3. \A s \in Slugs : (registry[s] = b \/ <<b, s>> \in wire)' =>
           s = rec'[b].slug /\ rec'[b].register_attempted
    BY <2>1, <2>2 DEF Ends, OneInv
  <2>4. CASE runner'[b].pc \in {"off", "fail"}
    BY <2>3, <2>4 DEF OneInv, Standing
  <2>5. CASE runner'[b] = runner[b] /\ runner[b].pc \notin {"off", "fail"}
    <3>1. wire' = wire
      BY <1>1, <1>5, <2>5, IdleTries
      DEF Fail, RunnerStoreFault, CancelStep, CancelCommits, CancelKillsTask, CancelReturns,
          CancelStoreFault, Stop, TypeOK
    <3> QED
      BY <2>1, <2>3, <2>5, <3>1 DEF Ends, OneInv, Standing, NothingOut
  <2> QED
    BY <2>1, <2>4, <2>5 DEF Ends
<1>6. CASE Accept(b)
  <2>1. rec[b] = NoRow /\ runner'[b] = Idle /\ registry' = registry /\ wire' = wire
    BY <1>1, <1>6 DEF Accept, AbsentInv
  <2> QED
    BY <2>1, IdleTries DEF OneInv, Standing, NoRow
<1>7. CASE Enqueue(b)
  <2>1. /\ rec' = rec /\ registry' = registry /\ wire' = wire
        /\ runner'[b].pc = "start" \/ runner'[b] = runner[b]
    BY <1>1, <1>7 DEF Enqueue, Goto, TypeOK, Runner
  <2> QED
    BY <2>1 DEF OneInv, Standing, NothingOut
<1>8. ~PostLost(b)
  BY <1>1 DEF PostLost, TypeOK
<1> QED
  BY <1>2, <1>3, <1>4, <1>5, <1>6, <1>7, <1>8 DEF SessionStep, RunnerStep, WritingStep, MovingStep

LEMMA RestartIsOne ==
  ASSUME RunnerInv, NEW b \in Sessions, OneInv(b),
         \/ ProcessStops /\ RunnersDie
         \/ ProcessStarts /\ (RunnersResume \/ ResumeFails)
  PROVE  OneInv(b)'
<1>1. /\ rec' = rec /\ registry' = registry
      /\ \/ runner'[b] = runner[b] \/ runner'[b] = Idle
         \/ runner'[b] = [Idle EXCEPT !.pc = "start"]
  BY RestartLeaves
<1>2. CASE ProcessStops /\ RunnersDie
  <2>1. runner'[b] = Idle /\ wire' = wire \cup Abandoned(Sessions)
    BY <1>2 DEF RunnersDie
  <2>2. \A s \in Slugs : <<b, s>> \in Abandoned(Sessions) =>
           s = rec[b].slug /\ rec[b].register_attempted
    BY DEF Abandoned, RunnerInv, SessionInv, SlugInv, Standing, OneInv
  <2> QED
    BY <1>1, <2>1, <2>2, IdleTries DEF OneInv, Standing
<1>3. CASE ProcessStarts /\ (RunnersResume \/ ResumeFails)
  <2>1. wire' = wire
    BY <1>3 DEF RunnersResume, ResumeFails
  <2>2. [Idle EXCEPT !.pc = "start"].pc = "start"
    BY DEF Idle
  <2> QED
    BY <1>1, <2>1, <2>2, IdleTries DEF OneInv, Standing, NothingOut
<1> QED
  BY <1>2, <1>3

(* Restarts alone never leave two applications of one session at FuzeFront:*)
(* only a lost answer can.                                                 *)
THEOREM OneApplicationEach == RunnerSpec => []OneAppUnlessLost
<1> DEFINE AllOne == lost = 0 => \A b \in Sessions : OneInv(b)
<1>1. RunnerInitAll => AllOne
  BY IdleTries, RunnerAssumption
  DEF RunnerInitAll, StoreInit, RunnerInit, OneInv, Standing, NothingOut
<1>2. RunnerInv /\ AllOne /\ [RunnerNext]_<<storeVars, runnerVars>> => AllOne'
  <2> SUFFICES ASSUME RunnerInv, AllOne, [RunnerNext]_<<storeVars, runnerVars>>, lost' = 0,
                      NEW b \in Sessions
               PROVE  OneInv(b)'
    OBVIOUS
  <2>1. TypeOK
    BY DEF RunnerInv
  <2>2. ASSUME NEW c \in Sessions, SessionStep(c) PROVE OneInv(b)'
    <3>1. lost = 0
      BY <2>1, <2>2, StepLeaves DEF Growing
    <3>2. CASE c = b
      BY <2>2, <3>1, <3>2, StepIsOne
    <3>3. CASE c # b
      <4>1. Untouched(b)
        BY <2>1, <2>2, <3>3, StepLeaves
      <4> QED
        BY <3>1, <4>1 DEF Untouched, OneInv, Standing, NothingOut
    <3> QED
      BY <3>2, <3>3
  <2>3. CASE RegistryStep
    BY <2>1, <2>3, RegistryLeaves DEF OneInv, Standing, NothingOut
  <2>4. CASE UNCHANGED <<storeVars, runnerVars>>
    BY <2>4 DEF storeVars, runnerVars, OneInv, Standing, NothingOut
  <2>5. CASE \/ ProcessStops /\ RunnersDie
             \/ ProcessStarts /\ (RunnersResume \/ ResumeFails)
    BY <2>5, RestartLeaves, RestartIsOne
  <2> QED
    BY <2>2, <2>3, <2>4, <2>5 DEF RunnerNext
<1>3. AllOne => OneAppUnlessLost
  <2> SUFFICES ASSUME AllOne, lost = 0, NEW b \in Sessions, NEW s \in Slugs, NEW t \in Slugs,
                      registry[s] = b, registry[t] = b
               PROVE  s = t
    BY DEF OneAppUnlessLost
  <2>1. OneInv(b)
    OBVIOUS
  <2>2. s = rec[b].slug /\ t = rec[b].slug
    BY <2>1 DEF OneInv
  <2> QED
    BY <2>2
<1> QED
  BY <1>1, <1>2, <1>3, RunnerInvariant, PTL DEF RunnerSpec

-----------------------------------------------------------------------------
(* Until the first restart no task finds an earlier attempt: a slug is     *)
(* chosen only by a task that knows it to be new.                          *)

BeforeMark == {"start", "begin", "build", "keepArtifact", "announceDeploying", "deploy",
               "keepDeploy", "register", "pick", "taken", "keepSlug"}

OwnInv(b) ==
  /\ b \in accepting => runner[b].pc = "off" /\ rec[b].slug = NoSlug
  /\ Standing(b, BeforeMark, {"begun", "artifactKept", "announced", "register", "pick"}) =>
       rec[b].slug = NoSlug
  /\ Standing(b, {"mark"}, {"mark"}) => ~rec[b].register_attempted
  /\ runner[b].pc = "mark" => ~runner[b].seen.register_attempted
  /\ Standing(b, {"post"}, {"post"}) => ~runner[b].resumed
  /\ runner[b].pc = "record" => registry[runner[b].slug] = b
  /\ rec[b].registered => registry[rec[b].app_slug] = b

LEMMA OwnersAreSlugs ==
  ASSUME RunnerInv, NEW b \in Sessions, OwnersRemain
  PROVE  /\ rec[b].registered => rec[b].app_slug \in Slugs
         /\ runner[b].pc = "record" => runner[b].slug \in Slugs
         /\ \A s \in Slugs : registry[s] = b => registry'[s] = b
<1>1. rec[b].registered => rec[b].app_slug \in Slugs
  BY DEF RunnerInv, TypeOK, SessionInv, ResultsInv, BuildRecord
<1>2. runner[b].pc = "record" => runner[b].slug \in Slugs
  BY DEF RunnerInv, SessionInv, SlugInv, Standing
<1>3. \A s \in Slugs : registry[s] = b => registry'[s] = b
  BY RunnerAssumption DEF OwnersRemain, Owned
<1> QED
  BY <1>1, <1>2, <1>3

LEMMA StepIsOwn ==
  ASSUME RunnerInv, NEW b \in Sessions, OwnInv(b), SessionStep(b)
  PROVE  OwnInv(b)'
<1>1. /\ TypeOK /\ rec[b] \in BuildRecord /\ runner[b] \in Runner /\ SlugInv(b)
      /\ AbsentInv(b) /\ OwnersRemain
  BY StepLeaves DEF RunnerInv, SessionInv, TypeOK, Growing
<1>2. CASE WritingStep(b)
  <2>1. PICK new \in BuildRecord, local \in Runner : Writes(b, new, local)
    BY <1>2, StepWrites DEF WritingStep
  <2>2. registry' = registry /\ accepting' = accepting
    BY <2>1 DEF Writes, Persist
  <2>3. CASE Terminal(rec[b])
    <3>1. rec' = rec /\ runner'[b] = Idle
      BY <1>1, <2>1, <2>3 DEF Writes, Persist, Stop, TypeOK
    <3> QED
      BY <2>2, <3>1, IdleTries DEF OwnInv, Standing, BeforeMark
  <2>4. CASE ~Terminal(rec[b])
    <3>1. rec'[b] = new /\ runner'[b] = [local EXCEPT !.pc = "readBack"]
      BY <1>1, <2>1, <2>4 DEF Writes, Persist, TypeOK
    <3>2. /\ runner'[b].pc = "readBack" /\ runner'[b].next = local.next
          /\ runner'[b].resumed = local.resumed
      BY <3>1 DEF Runner
    <3>3. runner[b].pc # "off"
      BY <2>1 DEF Writes
    <3>4. local.next \in {"begun", "artifactKept", "announced", "register", "pick"} =>
            new.slug = NoSlug
      BY <2>1 DEF Writes, SameSlugs, OwnInv, Standing, BeforeMark
    <3>5. local.next = "mark" => ~new.register_attempted
      BY <2>1 DEF Writes
    <3>6. local.next = "post" => ~local.resumed
      BY <2>1 DEF Writes, OwnInv
    <3>7. new.registered => registry[new.app_slug] = b
      BY <2>1 DEF Writes, SameRegistration, OwnInv
    <3> QED
      BY <2>2, <3>1, <3>2, <3>3, <3>4, <3>5, <3>6, <3>7 DEF OwnInv, Standing, BeforeMark
  <2> QED
    BY <2>3, <2>4
<1>3. CASE MovingStep(b)
  <2>1. OnlyRunner /\ Moves(b, runner'[b])
    BY <1>3, TaskMoves DEF MovingStep
  <2>2. rec' = rec /\ registry' = registry /\ accepting' = accepting
    BY <2>1 DEF OnlyRunner
  <2>3. View(rec[b]).register_attempted = rec[b].register_attempted
    BY DEF View
  <2>4. runner'[b].pc \notin {"readBack", "retire", "record"}
    BY <2>1, IdleTries DEF Moves, FirstSteps
  <2>8. runner[b].pc # "off"
    BY <1>3 DEF MovingStep, RunnerStarts, ReadBack, Build, Deploy, EnterRegister, SkipTried,
                ProbeSlug, NoCandidateLeft, At
  <2>5. runner'[b].pc \in BeforeMark =>
          Standing(b, BeforeMark, {"begun", "artifactKept", "announced", "register", "pick"})
    BY <2>1, IdleTries DEF Moves, FirstSteps, BeforeMark, Standing
  <2>6. runner'[b].pc = "mark" =>
          Standing(b, {}, {"mark"}) /\ runner'[b].seen = View(rec[b])
    BY <2>1, IdleTries DEF Moves, FirstSteps, BeforeMark, Standing, OwnInv
  <2>7. runner'[b].pc = "post" =>
          Standing(b, {}, {"post"}) /\ runner'[b].resumed = runner[b].resumed
    BY <2>1, IdleTries DEF Moves, FirstSteps, Standing
  <2> QED
    BY <2>2, <2>3, <2>4, <2>5, <2>6, <2>7, <2>8 DEF OwnInv, Standing
<1>4. CASE PostAnswered(b) \/ PostLost(b)
  <2>1. rec' = rec /\ accepting' = accepting /\ runner[b].pc = "post" /\ ~runner[b].resumed
    BY <1>4 DEF PostAnswered, PostLost, At, OwnInv, Standing
  <2>2. rec[b].registered => registry'[rec[b].app_slug] = b
    BY <1>1, OwnersAreSlugs DEF OwnInv
  <2>3. CASE registry' = [registry EXCEPT ![runner[b].slug] = b] /\ Goto(b, "record")
    <3>1. runner[b].slug \in Slugs
      BY <1>1, <2>1 DEF SlugInv, Standing
    <3>2. runner'[b].pc = "record" /\ runner'[b].slug = runner[b].slug
      BY <1>1, <2>3 DEF Goto, TypeOK, Runner
    <3>3. registry'[runner[b].slug] = b
      BY <1>1, <2>3, <3>1 DEF TypeOK
    <3> QED
      BY <2>1, <2>2, <3>2, <3>3 DEF OwnInv, Standing, BeforeMark
  <2>4. CASE Goto(b, IF runner[b].resumed THEN "record" ELSE "retire")
    <3>1. runner'[b].pc = "retire"
      BY <1>1, <2>1, <2>4 DEF Goto, TypeOK, Runner
    <3> QED
      BY <2>1, <2>2, <3>1 DEF OwnInv, Standing, BeforeMark
  <2>5. CASE RetryOrFail(b) \/ FailWith(b, "registry_rejected")
    <3>1. runner'[b].pc \in {"post", "fail"} /\ runner'[b].resumed = runner[b].resumed
      BY <1>1, <2>1, <2>5 DEF RetryOrFail, FailWith, TypeOK, Runner
    <3> QED
      BY <2>1, <2>2, <3>1 DEF OwnInv, Standing, BeforeMark
  <2> QED
    BY <1>4, <2>3, <2>4, <2>5 DEF PostAnswered, PostLost
<1>5. CASE Fail(b) \/ RunnerStoreFault(b) \/ CancelStep(b)
  <2>1. Ends(b)
    BY <1>1, <1>5, StepEnds
  <2>2. b \in accepting => runner'[b].pc = "off"
    <3>1. CASE Fail(b)
      BY <3>1 DEF Fail, At, OwnInv
    <3>2. CASE RunnerStoreFault(b)
      BY <3>2 DEF RunnerStoreFault, StoreSteps, OwnInv
    <3>3. CASE CancelStep(b)
      BY <1>1, <3>3, IdleTries
      DEF CancelStep, CancelCommits, CancelKillsTask, CancelReturns, CancelStoreFault, Stop,
          TypeOK, OwnInv
    <3> QED
      BY <1>5, <3>1, <3>2, <3>3
  <2> QED
    BY <2>1, <2>2 DEF Ends, OwnInv, Standing, BeforeMark
<1>6. CASE Accept(b)
  <2>1. rec[b] = NoRow /\ runner[b] = Idle /\ runner' = runner /\ registry' = registry
    BY <1>1, <1>6 DEF Accept, AbsentInv
  <2>2. rec'[b] = NewRecord
    BY <1>1, <1>6 DEF Accept, TypeOK
  <2>3. NewRecord.slug = NoSlug /\ ~NewRecord.registered
    BY DEF NewRecord, NoRow
  <2> QED
    BY <2>1, <2>2, <2>3, IdleTries DEF OwnInv, Standing, BeforeMark
<1>7. CASE Enqueue(b)
  <2>1. /\ rec' = rec /\ registry' = registry /\ b \notin accepting'
        /\ rec[b].slug = NoSlug /\ runner[b].pc = "off"
    BY <1>7 DEF Enqueue, OwnInv
  <2>2. runner'[b].pc = "start"
    BY <1>1, <1>7, <2>1 DEF Enqueue, Goto, TypeOK, Runner
  <2> QED
    BY <2>1, <2>2 DEF OwnInv, Standing, BeforeMark
<1> QED
  BY <1>2, <1>3, <1>4, <1>5, <1>6, <1>7 DEF SessionStep, RunnerStep, WritingStep, MovingStep

(* A session that is recorded as registered owns the slug it reports, as   *)
(* long as the process has not restarted: a 409 is never taken for its own.*)
THEOREM OwnApplication == RunnerSpec => []OwnAppUnlessRestarted
<1> DEFINE AllOwn == crashes = 0 => up /\ \A b \in Sessions : OwnInv(b)
<1>1. RunnerInitAll => AllOwn
  BY IdleTries DEF RunnerInitAll, StoreInit, RunnerInit, OwnInv, Standing, BeforeMark, NoRow
<1>2. RunnerInv /\ AllOwn /\ [RunnerNext]_<<storeVars, runnerVars>> => AllOwn'
  <2> SUFFICES ASSUME RunnerInv, AllOwn, [RunnerNext]_<<storeVars, runnerVars>>, crashes' = 0
               PROVE  up' /\ \A b \in Sessions : OwnInv(b)'
    OBVIOUS
  <2>1. TypeOK
    BY DEF RunnerInv
  <2>2. ASSUME NEW c \in Sessions, SessionStep(c) PROVE up' /\ \A b \in Sessions : OwnInv(b)'
    <3>1. Growing /\ crashes = 0 /\ up'
      BY <2>1, <2>2, StepLeaves DEF Growing
    <3> SUFFICES ASSUME NEW b \in Sessions PROVE OwnInv(b)'
      BY <3>1
    <3>2. CASE c = b
      BY <2>2, <3>1, <3>2, StepIsOwn
    <3>3. CASE c # b
      <4>1. Untouched(b)
        BY <2>1, <2>2, <3>3, StepLeaves
      <4>2. OwnInv(b) /\ OwnersRemain
        BY <3>1 DEF Growing
      <4> QED
        BY <4>1, <4>2, OwnersAreSlugs DEF Untouched, OwnInv, Standing
    <3> QED
      BY <3>2, <3>3
  <2>3. CASE RegistryStep
    <3>1. /\ UNCHANGED <<rec, runner, accepting, up, crashes>> /\ OwnersRemain
      BY <2>1, <2>3, RegistryLeaves DEF Growing
    <3> SUFFICES ASSUME NEW b \in Sessions PROVE OwnInv(b)'
      BY <3>1
    <3> QED
      BY <3>1, OwnersAreSlugs DEF OwnInv, Standing
  <2>4. CASE UNCHANGED <<storeVars, runnerVars>>
    BY <2>4 DEF storeVars, runnerVars, OwnInv, Standing
  <2>5. ~(ProcessStops /\ RunnersDie) /\ ~(ProcessStarts /\ (RunnersResume \/ ResumeFails))
    BY <2>1 DEF ProcessStops, ProcessStarts, RunnersResume, ResumeFails, TypeOK
  <2> QED
    BY <2>2, <2>3, <2>4, <2>5 DEF RunnerNext
<1>3. AllOwn => OwnAppUnlessRestarted
  BY DEF OwnInv, OwnAppUnlessRestarted
<1> QED
  BY <1>1, <1>2, <1>3, RunnerInvariant, PTL DEF RunnerSpec

-----------------------------------------------------------------------------
(* The deployer that is wired by default.                                  *)

LEMMA IntegrationIsRefused == ~ValidIntegration(DeployedIntegration)
BY DEF ValidIntegration, DeployedIntegration, IntegrationTypes

(* Nothing of b is deployed or on its way to FuzeFront.                    *)
BareInv(b) ==
  /\ rec[b].status # "deployed" /\ ~rec[b].deploy_result
  /\ runner[b].pc # "keepDeploy" /\ NothingOut(b)

(* A write that leaves the deployment result alone keeps a session bare.   *)
LEMMA PersistIsBare ==
  ASSUME TypeOK, NEW b \in Sessions, BareInv(b), NEW new, NEW local \in Runner,
         Persist(b, new, local), new.status # "deployed", ~new.deploy_result
  PROVE  BareInv(b)'
<1>1. CASE Terminal(rec[b])
  <2>1. rec' = rec /\ runner'[b] = Idle /\ registry' = registry /\ wire' = wire
    BY <1>1 DEF Persist, Stop, TypeOK
  <2> QED
    BY <2>1, IdleTries DEF BareInv, NothingOut
<1>2. CASE ~Terminal(rec[b])
  <2>1. /\ rec'[b] = new /\ runner'[b] = [local EXCEPT !.pc = "readBack"]
        /\ registry' = registry /\ wire' = wire
    BY <1>2 DEF Persist, TypeOK
  <2>2. runner'[b].pc = "readBack"
    BY <2>1 DEF Runner
  <2> QED
    BY <2>1, <2>2 DEF BareInv, NothingOut
<1> QED
  BY <1>1, <1>2

LEMMA StepIsBare ==
  ASSUME RunnerInv, NEW b \in Sessions, BareInv(b), SessionStep(b), DeployerAnswers
  PROVE  BareInv(b)'
<1>1. /\ TypeOK /\ rec[b] \in BuildRecord /\ runner[b] \in Runner /\ StoredInv(b)
      /\ AbsentInv(b)
  BY DEF RunnerInv, SessionInv, TypeOK
<1>2. /\ runner[b].pc \notin {"keepDeploy", "register", "pick", "taken", "keepSlug", "mark", "post",
                             "retire", "record", "finish"}
      /\ runner[b].pc = "readBack" => runner[b].next \notin {"register", "pick", "mark", "post", "finish"}
  BY <1>1 DEF StoredInv, Standing, BareInv
<1>3. CASE AnnounceBuilding(b) \/ KeepArtifact(b) \/ AnnounceDeploying(b)
  <2>1. ASSUME NEW target \in {"building", "deploying"}
        PROVE  /\ Announce(rec[b], target, NoSlug).status = target
               /\ ~Announce(rec[b], target, NoSlug).deploy_result
    BY <1>1 DEF Announce, BuildRecord, BareInv
  <2>2. /\ [rec[b] EXCEPT !.artifact = TRUE].status # "deployed"
        /\ ~[rec[b] EXCEPT !.artifact = TRUE].deploy_result
    BY <1>1 DEF BuildRecord, BareInv
  <2>3. ASSUME NEW label \in Label PROVE Then(b, label) \in Runner
    BY <1>1 DEF Then, Runner
  <2>4. {"begun", "artifactKept", "announced"} \subseteq Label
    BY DEF Label
  <2>5. CASE AnnounceBuilding(b)
    BY <1>1, <2>1, <2>3, <2>4, <2>5, PersistIsBare DEF AnnounceBuilding
  <2>6. CASE KeepArtifact(b)
    BY <1>1, <2>2, <2>3, <2>4, <2>6, PersistIsBare DEF KeepArtifact
  <2>7. CASE AnnounceDeploying(b)
    BY <1>1, <2>1, <2>3, <2>4, <2>7, PersistIsBare DEF AnnounceDeploying
  <2> QED
    BY <1>3, <2>5, <2>6, <2>7
<1>4. CASE RunnerStarts(b) \/ ReadBack(b) \/ Build(b) \/ Deploy(b)
  <2>1. OnlyRunner /\ Moves(b, runner'[b])
    BY <1>4, TaskMoves
  <2>2. rec' = rec /\ registry' = registry /\ wire' = wire
    BY <2>1 DEF OnlyRunner
  <2>3. CASE Build(b)
    BY <1>1, <2>2, <2>3 DEF Build, Goto, FailWith, Runner, TypeOK, BareInv, NothingOut
  <2>4. CASE Deploy(b)
    BY <2>2, <2>4, IntegrationIsRefused DEF Deploy, DeployerAnswers, BareInv, NothingOut
  <2>5. CASE RunnerStarts(b) \/ ReadBack(b)
    <3>1. runner[b].pc \in {"start", "readBack"}
      BY <2>5 DEF RunnerStarts, ReadBack, At
    <3>2. runner'[b].pc # "keepDeploy"
      BY <2>1, <3>1, IdleTries DEF Moves, FirstSteps
    <3> QED
      BY <2>2, <3>2 DEF BareInv, NothingOut
  <2> QED
    BY <1>4, <2>3, <2>4, <2>5
<1>5. CASE Fail(b)
  <2> DEFINE new == [Announce(rec[b], "failed", NoSlug) EXCEPT !.error_code = runner[b].code]
  <2>1. new.status = "failed" /\ new.deploy_result = rec[b].deploy_result
    BY <1>1 DEF Announce, BuildRecord
  <2>2. runner'[b] = Idle /\ (rec'[b] = rec[b] \/ rec'[b] = new)
    BY <1>1, <1>5 DEF Fail, Stop, TypeOK
  <2>3. registry' = registry /\ wire' = wire
    BY <1>5 DEF Fail
  <2> HIDE DEF new
  <2> QED
    BY <2>1, <2>2, <2>3, IdleTries DEF BareInv, NothingOut
<1>6. CASE RunnerStoreFault(b)
  BY <1>1, <1>6, IdleTries DEF RunnerStoreFault, Stop, FailWith, TypeOK, Runner, BareInv, NothingOut
<1>7. CASE CancelCommits(b)
  <2>1. rec'[b] = Cancelled(rec[b])
    BY <1>1, <1>7 DEF CancelCommits, TypeOK
  <2>2. rec'[b].status = "cancelled" /\ rec'[b].deploy_result = rec[b].deploy_result
    BY <1>1, <2>1 DEF Cancelled, BuildRecord
  <2> QED
    BY <1>7, <2>2 DEF CancelCommits, BareInv, NothingOut
<1>8. CASE CancelKillsTask(b)
  <2>1. wire' = wire /\ runner'[b] = Idle
    BY <1>1, <1>2, <1>8 DEF CancelKillsTask, Stop, Abandoned, TypeOK
  <2> QED
    BY <1>8, <2>1, IdleTries DEF CancelKillsTask, BareInv, NothingOut
<1>9. CASE CancelReturns(b) \/ CancelStoreFault(b)
  BY <1>9 DEF CancelReturns, CancelStoreFault, BareInv, NothingOut
<1>10. CASE Accept(b)
  <2>1. rec'[b] = NewRecord /\ runner' = runner /\ registry' = registry /\ wire' = wire
    BY <1>1, <1>10 DEF Accept, TypeOK
  <2>2. NewRecord.status = "accepted" /\ ~NewRecord.deploy_result
    BY DEF NewRecord, NoRow
  <2> QED
    BY <2>1, <2>2 DEF BareInv, NothingOut
<1>11. CASE Enqueue(b)
  <2>1. /\ rec' = rec /\ registry' = registry /\ wire' = wire
        /\ runner'[b].pc = "start" \/ runner'[b] = runner[b]
    BY <1>1, <1>11 DEF Enqueue, Goto, TypeOK, Runner
  <2> QED
    BY <2>1 DEF BareInv, NothingOut
<1>12. /\ ~KeepDeploy(b) /\ ~EnterRegister(b) /\ ~SkipTried(b) /\ ~ProbeSlug(b) /\ ~NoCandidateLeft(b)
       /\ ~NoteTaken(b) /\ ~KeepSlug(b) /\ ~MarkAttempt(b) /\ ~PostAnswered(b) /\ ~PostLost(b)
       /\ ~RetireSlug(b) /\ ~RecordRegistration(b) /\ ~Finish(b)
  BY <1>2
  DEF KeepDeploy, EnterRegister, SkipTried, ProbeSlug, NoCandidateLeft, NoteTaken, KeepSlug, MarkAttempt,
      PostAnswered, PostLost, RetireSlug, RecordRegistration, Finish, At
<1> QED
  BY <1>3, <1>4, <1>5, <1>6, <1>7, <1>8, <1>9, <1>10, <1>11, <1>12 DEF SessionStep, RunnerStep, CancelStep

(* With the deployer that is wired by default no session ever registers an *)
(* application or ends deployed, whatever else happens.                    *)
THEOREM DefaultNeverDeploys == DeployedSpec => []NothingIsDeployed
<1> DEFINE AllBare == \A b \in Sessions : BareInv(b)
<1>1. RunnerInitAll => AllBare
  BY IdleTries, RunnerAssumption DEF RunnerInitAll, StoreInit, RunnerInit, BareInv, NothingOut, NoRow
<1>2. DeployedNext => RunnerNext \/ UNCHANGED <<storeVars, runnerVars>>
  BY DEF DeployedNext, DeployedStep, SpawnBuildPod
<1>3. RunnerInv /\ AllBare /\ [DeployedNext]_deployedVars => AllBare'
  <2> SUFFICES ASSUME RunnerInv, AllBare, [DeployedNext]_deployedVars, NEW b \in Sessions
               PROVE  BareInv(b)'
    OBVIOUS
  <2>1. TypeOK /\ BareInv(b) /\ StoredInv(b)
    BY DEF RunnerInv, SessionInv
  <2>2. CASE UNCHANGED <<storeVars, runnerVars>>
    BY <2>1, <2>2 DEF storeVars, runnerVars, BareInv, NothingOut
  <2>3. CASE RunnerNext /\ DeployerAnswers
    <3>1. ASSUME NEW c \in Sessions, SessionStep(c) PROVE BareInv(b)'
      <4>1. CASE c = b
        BY <2>1, <2>3, <3>1, <4>1, StepIsBare
      <4>2. CASE c # b
        <5>1. Untouched(b)
          BY <2>1, <3>1, <4>2, StepLeaves
        <5> QED
          BY <2>1, <5>1 DEF Untouched, BareInv, NothingOut
      <4> QED
        BY <4>1, <4>2
    <3>2. CASE RegistryStep
      BY <2>1, <3>2, RegistryLeaves DEF BareInv, NothingOut
    <3>3. CASE \/ ProcessStops /\ RunnersDie
               \/ ProcessStarts /\ (RunnersResume \/ ResumeFails)
      <4>1. /\ rec' = rec /\ registry' = registry
            /\ \/ runner'[b] = runner[b] \/ runner'[b] = Idle
               \/ runner'[b] = [Idle EXCEPT !.pc = "start"]
        BY <3>3, RestartLeaves
      <4>2. [Idle EXCEPT !.pc = "start"].pc = "start"
        BY DEF Idle
      <4>3. runner[b].pc # "post"
        BY <2>1 DEF StoredInv, Standing, BareInv
      <4>4. \A s \in Slugs : <<b, s>> \in wire' => <<b, s>> \in wire
        BY <3>3, <4>3 DEF RunnersDie, RunnersResume, ResumeFails, Abandoned
      <4> QED
        BY <2>1, <4>1, <4>2, <4>4, IdleTries DEF BareInv, NothingOut
    <3> QED
      BY <2>3, <3>1, <3>2, <3>3 DEF RunnerNext
  <2> QED
    BY <2>2, <2>3 DEF DeployedNext, DeployedStep, SpawnBuildPod, deployedVars
<1>4. AllBare => NothingIsDeployed
  BY DEF BareInv, NothingOut, NothingIsDeployed
<1>5. DeployedSpec => RunnerSpec
  <2>1. [DeployedNext]_deployedVars => [RunnerNext]_<<storeVars, runnerVars>>
    BY <1>2 DEF deployedVars
  <2> QED
    BY <2>1, PTL DEF DeployedSpec, RunnerSpec
<1> QED
  BY <1>1, <1>3, <1>4, <1>5, RunnerInvariant, PTL DEF DeployedSpec
=============================================================================
