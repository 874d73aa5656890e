----------------------------- MODULE AgentProofs -----------------------------
(***************************************************************************)
(* What holds of what an agent lives in, whatever the values of the        *)
(* constants.  The parts share no state; each has its own specification,   *)
(* and the theorems name it.                                               *)
(***************************************************************************)
EXTENDS AgentParts, BrainStore, FiniteSetTheorems, WellFoundedInduction, TLAPS

-----------------------------------------------------------------------------
(* The relay between browsers and pods.                                    *)

(* A handler goes by the id of its agent or by the default one; an entry   *)
(* under another id is of a handler that reads and goes by that id.        *)
RelayInv ==
  /\ agent \in [Sockets -> Agents \cup {"none"}] /\ key \in [Sockets -> Agents \cup {"none"}]
  /\ relay \in [Agents -> Sockets \cup {"none"}]
  /\ sock \in [Sockets -> {"new", "open", "lost", "closed"}]
  /\ handler \in [Sockets -> {"no", "greeting", "reading", "ended"}]
  /\ \A s \in Sockets : /\ sock[s] = "new" => handler[s] = "no"
                        /\ handler[s] # "no" => key[s] \in {agent[s], Default} /\ agent[s] \in Agents
  /\ TheRelay!NamedEntriesLive

LEMMA PodConnectsToRelay ==
  ASSUME RelayInv, NEW s \in Sockets, NEW a \in Agents, NEW k \in Agents, TheRelay!PodConnects(s, a, k)
  PROVE  RelayInv'
<1>1. /\ agent' = [agent EXCEPT ![s] = a] /\ key' = [key EXCEPT ![s] = k] /\ k \in {a, Default}
      /\ sock' = [sock EXCEPT ![s] = "open"] /\ handler' = [handler EXCEPT ![s] = "greeting"]
      /\ relay' = [relay EXCEPT ![k] = s] /\ sock[s] = "new"
  BY DEF TheRelay!PodConnects
<1>2. \A b \in Agents \ {Default} : relay[b] # s \/ s = "none"
  BY <1>1 DEF RelayInv, TheRelay!NamedEntriesLive, TheRelay!None
<1>3. TheRelay!NamedEntriesLive'
  BY <1>1, <1>2 DEF RelayInv, TheRelay!NamedEntriesLive, TheRelay!None
<1>4. QED BY <1>1, <1>3 DEF RelayInv

LEMMA PodRegistersInRelay ==
  ASSUME RelayInv, NEW s \in Sockets, TheRelay!PodRegisters(s) PROVE RelayInv'
<1>1. /\ key' = [key EXCEPT ![s] = agent[s]] /\ handler' = [handler EXCEPT ![s] = "reading"]
      /\ relay' = IF key[s] = agent[s] THEN relay ELSE [relay EXCEPT ![agent[s]] = s]
      /\ handler[s] = "greeting" /\ sock[s] # "new" /\ UNCHANGED <<agent, sock>>
  BY DEF TheRelay!PodRegisters
<1>2. agent[s] \in Agents /\ key[s] \in {agent[s], Default}
  BY <1>1 DEF RelayInv
<1>3. \A b \in Agents \ {Default} : relay[b] = s /\ s # "none" => b = agent[s]
  BY <1>2 DEF RelayInv, TheRelay!NamedEntriesLive, TheRelay!None
<1>4. TheRelay!NamedEntriesLive'
  BY <1>1, <1>2, <1>3 DEF RelayInv, TheRelay!NamedEntriesLive, TheRelay!None
<1>5. QED BY <1>1, <1>2, <1>4 DEF RelayInv

LEMMA SocketsOfRelayEnd ==
  ASSUME RelayInv, NEW s \in Sockets, TheRelay!PodGoes(s) \/ TheRelay!SocketCloses(s) PROVE RelayInv'
  BY DEF TheRelay!PodGoes, TheRelay!SocketCloses, RelayInv, TheRelay!NamedEntriesLive, TheRelay!None

(* The finally deletes whatever entry the id has: its own or a later       *)
(* connection's.  One under another id would stay.                         *)
LEMMA HandlerOfRelayEnds ==
  ASSUME RelayInv, NEW s \in Sockets, TheRelay!HandlerEnds(s) PROVE RelayInv'
<1>1. /\ handler' = [handler EXCEPT ![s] = "ended"] /\ relay' = [relay EXCEPT ![key[s]] = "none"]
      /\ handler[s] # "no" /\ UNCHANGED <<agent, key, sock>> /\ sock[s] # "new"
  BY DEF TheRelay!HandlerEnds, TheRelay!None
<1>2. \A b \in Agents \ {Default} : relay'[b] # "none" => relay'[b] = relay[b] /\ relay[b] # s
  BY <1>1 DEF RelayInv, TheRelay!NamedEntriesLive, TheRelay!None
<1>3. /\ relay' \in [Agents -> Sockets \cup {"none"}]
      /\ handler' \in [Sockets -> {"no", "greeting", "reading", "ended"}]
  BY <1>1 DEF RelayInv
<1>4. QED BY <1>1, <1>2, <1>3 DEF RelayInv, TheRelay!NamedEntriesLive, TheRelay!None

LEMMA ChatOfRelay ==
  ASSUME RelayInv, UNCHANGED <<agent, key, sock, handler, relay>> PROVE RelayInv'
  BY DEF RelayInv, TheRelay!NamedEntriesLive, TheRelay!None

(* CONNECTED_AGENT_PODS holds, under the id of an agent, no socket whose   *)
(* handler has ended or goes by another id, however connections of pods    *)
(* overlap and in whatever order they register and end                     *)
(* (agent_relay_websocket, image_registry_router.py).  Of the default id   *)
(* it does not hold.                                                       *)
THEOREM RelayNamesTheLiving == TheRelay!Spec => []NamedEntriesLive
<1>1. TheRelay!Init => RelayInv
  BY DEF TheRelay!Init, TheRelay!None, RelayInv, TheRelay!NamedEntriesLive
<1>2. RelayInv /\ [TheRelay!Next]_(TheRelay!vars) => RelayInv'
  <2> SUFFICES ASSUME RelayInv, [TheRelay!Next]_(TheRelay!vars) PROVE RelayInv'
    OBVIOUS
  <2>1. CASE UNCHANGED TheRelay!vars
    BY <2>1, ChatOfRelay DEF TheRelay!vars
  <2>2. ASSUME NEW s \in Sockets, TheRelay!Broadcast(s) PROVE RelayInv'
    BY <2>2, ChatOfRelay DEF TheRelay!Broadcast, TheRelay!DropDead, TheRelay!SendTo, TheRelay!podVars
  <2>3. ASSUME NEW b \in Browsers,
               TheRelay!BrowserConnects(b) \/ TheRelay!BrowserGoes(b) \/ TheRelay!BrowserLeaves(b)
        PROVE  RelayInv'
    BY <2>3, ChatOfRelay DEF TheRelay!BrowserConnects, TheRelay!BrowserGoes, TheRelay!BrowserLeaves,
           TheRelay!podVars
  <2>4. ASSUME NEW m \in Prompts,
               \/ TheRelay!Announce(m) \/ TheRelay!LookUp(m) \/ TheRelay!AnswerHere(m)
               \/ TheRelay!PodRuns(m) \/ TheRelay!PodAnswers(m)
               \/ \E b \in Browsers, a \in Agents : TheRelay!Ask(m, b, a)
        PROVE  RelayInv'
    <3>1. UNCHANGED TheRelay!podVars
      BY <2>4 DEF TheRelay!Announce, TheRelay!LookUp, TheRelay!AnswerHere, TheRelay!PodRuns,
             TheRelay!PodAnswers, TheRelay!Ask, TheRelay!SendRaises
    <3>2. QED BY <3>1, ChatOfRelay DEF TheRelay!podVars
  <2>5. ASSUME NEW s \in Sockets, \E a, k \in Agents : TheRelay!PodConnects(s, a, k) PROVE RelayInv'
    BY <2>5, PodConnectsToRelay
  <2>6. QED BY <2>1, <2>2, <2>3, <2>4, <2>5, PodRegistersInRelay, SocketsOfRelayEnd, HandlerOfRelayEnds
            DEF TheRelay!Next
<1>3. RelayInv => NamedEntriesLive
  BY DEF RelayInv, TheRelay!NamedEntriesLive, NamedEntriesLive
<1>4. QED BY <1>1, <1>2, <1>3, PTL DEF TheRelay!Spec

-----------------------------------------------------------------------------
(* The expertise of an agent.                                              *)

Learnings == [at : {"idle", "reading", "writing"}, read : Nat, met : BOOLEAN]

(* What an update has read was not more than the outcomes at that time,    *)
(* and not less than those counted alone since; two that are under way     *)
(* have met.                                                               *)
SkillInv ==
  /\ skill \in Nat /\ outcomes \in Nat /\ alone \in Nat
  /\ learner \in [Writers -> Learnings]
  /\ \A w \in Writers : /\ learner[w].read <= outcomes
                        /\ learner[w].at = "writing" => alone <= learner[w].read
  /\ \A v, w \in Writers : v # w /\ learner[v].at # "idle" /\ learner[w].at # "idle" => learner[w].met
  /\ TheMemory!CountsUnlessMet

LEMMA MemoryOfSkill ==
  ASSUME SkillInv, UNCHANGED <<skill, learner, outcomes, alone>> PROVE SkillInv'
  BY DEF SkillInv, TheMemory!CountsUnlessMet

LEMMA LearnOfSkill ==
  ASSUME SkillInv, NEW w \in Writers, TheMemory!Learn(w) PROVE SkillInv'
<1>1. /\ learner' = [v \in Writers |-> IF v = w THEN [at |-> "reading", read |-> 0, met |-> TheMemory!Active # {}]
                                       ELSE [learner[v] EXCEPT !.met = v \in TheMemory!Active]]
      /\ UNCHANGED <<skill, outcomes, alone>>
  BY DEF TheMemory!Learn, TheMemory!NoRow
<1>2. \A v \in Writers : v \in TheMemory!Active <=> learner[v].at # "idle"
  BY DEF TheMemory!Active
<1>3. /\ learner'[w] \in Learnings /\ learner'[w].at = "reading" /\ learner'[w].read = 0
      /\ \A v \in Writers : learner[v].at # "idle" => learner'[w].met
  <2>1. learner'[w] = [at |-> "reading", read |-> 0, met |-> TheMemory!Active # {}]
    BY <1>1
  <2>2. CASE TheMemory!Active # {}
    <3>1. (TheMemory!Active # {}) = TRUE
      BY <2>2
    <3>2. learner'[w] = [at |-> "reading", read |-> 0, met |-> TRUE]
      BY <2>1, <3>1, Zenon
    <3>3. QED BY <3>2 DEF Learnings
  <2>3. CASE TheMemory!Active = {}
    <3>1. (TheMemory!Active # {}) = FALSE
      BY <2>3
    <3>2. learner'[w] = [at |-> "reading", read |-> 0, met |-> FALSE]
      BY <2>1, <3>1, Zenon
    <3>3. QED BY <1>2, <2>3, <3>2 DEF Learnings
  <2>4. QED BY <2>2, <2>3
<1>4. ASSUME NEW v \in Writers \ {w}
       PROVE  /\ learner'[v] \in Learnings
              /\ learner'[v].at = learner[v].at /\ learner'[v].read = learner[v].read
              /\ learner[v].at # "idle" => learner'[v].met
  <2>1. learner'[v] = [learner[v] EXCEPT !.met = v \in TheMemory!Active] /\ learner[v] \in Learnings
    BY <1>1 DEF SkillInv
  <2>2. CASE v \in TheMemory!Active
    <3>1. learner'[v] = [learner[v] EXCEPT !.met = TRUE]
      BY <2>1, <2>2
    <3>2. QED BY <2>1, <3>1 DEF Learnings
  <2>3. CASE v \notin TheMemory!Active
    <3>1. (v \in TheMemory!Active) = FALSE
      BY <2>3
    <3>2. learner'[v] = [learner[v] EXCEPT !.met = FALSE]
      BY <2>1, <3>1, Zenon
    <3>3. QED BY <1>2, <2>1, <2>3, <3>2 DEF Learnings
  <2>4. QED BY <2>2, <2>3
<1>5. learner' \in [Writers -> Learnings]
  BY <1>1, <1>3, <1>4
<1>6. \A v \in Writers : /\ learner'[v].read <= outcomes'
                         /\ learner'[v].at = "writing" => alone' <= learner'[v].read
  BY <1>1, <1>3, <1>4 DEF SkillInv
<1>7. \A u, v \in Writers : u # v /\ learner'[u].at # "idle" /\ learner'[v].at # "idle" => learner'[v].met
  <2> SUFFICES ASSUME NEW u \in Writers, NEW v \in Writers, u # v, learner'[u].at # "idle",
                      learner'[v].at # "idle"
               PROVE  learner'[v].met
    OBVIOUS
  <2>1. CASE v = w
    BY <1>3, <1>4, <2>1
  <2>2. CASE v # w
    BY <1>4, <2>2
  <2>3. QED BY <2>1, <2>2
<1>8. QED BY <1>1, <1>5, <1>6, <1>7 DEF SkillInv, TheMemory!CountsUnlessMet

LEMMA ReadOfSkill ==
  ASSUME SkillInv, NEW w \in Writers, TheMemory!ReadSkill(w) PROVE SkillInv'
<1>1. /\ learner' = [learner EXCEPT ![w].at = "writing", ![w].read = skill] /\ learner[w].at = "reading"
      /\ UNCHANGED <<skill, outcomes, alone>>
  BY DEF TheMemory!ReadSkill
<1>2. /\ learner' \in [Writers -> Learnings]
      /\ learner'[w].read = skill /\ \A v \in Writers \ {w} : learner'[v] = learner[v]
      /\ \A v \in Writers : /\ learner[v].met => learner'[v].met
                            /\ learner'[v].at # "idle" => learner[v].at # "idle"
  <2>1. learner[w] \in Learnings /\ skill \in Nat
    BY DEF SkillInv
  <2>2. learner'[w] = [learner[w] EXCEPT !.at = "writing", !.read = skill]
    BY <1>1 DEF SkillInv
  <2>3. /\ learner'[w] \in Learnings /\ learner'[w].read = skill
        /\ learner[w].met => learner'[w].met
    BY <2>1, <2>2 DEF Learnings
  <2>4. \A v \in Writers \ {w} : learner'[v] = learner[v]
    BY <1>1 DEF SkillInv
  <2>5. QED BY <1>1, <2>3, <2>4 DEF SkillInv
<1>3. \A v \in Writers : /\ learner'[v].read <= outcomes'
                         /\ learner'[v].at = "writing" => alone' <= learner'[v].read
  BY <1>1, <1>2 DEF SkillInv, TheMemory!CountsUnlessMet
<1>4. QED BY <1>1, <1>2, <1>3 DEF SkillInv, TheMemory!CountsUnlessMet

(* An update that ends: whoever is still under way has met it, so that it  *)
(* does not count as alone.                                                *)
LEMMA EndOfSkill ==
  ASSUME SkillInv, NEW w \in Writers, NEW told \in BOOLEAN, TheMemory!Learned(w, told),
         learner[w].at # "idle", skill' \in Nat, alone' <= skill', skill' <= outcomes + 1
  PROVE  SkillInv'
<1>1. /\ learner' = [learner EXCEPT ![w] = [at |-> "idle", read |-> 0, met |-> FALSE]]
      /\ outcomes' = outcomes + 1
      /\ alone' = IF told /\ ~learner[w].met THEN alone + 1 ELSE alone
  BY DEF TheMemory!Learned, TheMemory!Rest, TheMemory!NoRow
<1>2. /\ learner' \in [Writers -> Learnings]
      /\ learner'[w] = [at |-> "idle", read |-> 0, met |-> FALSE]
      /\ \A v \in Writers \ {w} : learner'[v] = learner[v]
  BY <1>1 DEF SkillInv, Learnings
<1>3. ASSUME NEW v \in Writers \ {w}, learner[v].at = "writing" PROVE alone' = alone
  <2>1. learner[w].met
    BY <1>3 DEF SkillInv
  <2>2. QED BY <1>1, <2>1
<1>4. ASSUME NEW v \in Writers
      PROVE  /\ learner'[v].read <= outcomes'
             /\ learner'[v].at = "writing" => alone' <= learner'[v].read
  <2>1. CASE v = w
    BY <1>1, <1>2, <2>1 DEF SkillInv
  <2>2. CASE v # w
    <3>1. /\ learner'[v] = learner[v] /\ learner[v].read \in Nat /\ learner[v].read <= outcomes
          /\ learner[v].at = "writing" => alone <= learner[v].read /\ alone' = alone
      BY <1>2, <1>3, <2>2 DEF SkillInv, Learnings
    <3>2. QED BY <1>1, <3>1 DEF SkillInv
  <2>3. QED BY <2>1, <2>2
<1>5. outcomes' \in Nat /\ alone' \in Nat
  BY <1>1 DEF SkillInv
<1>6. \A u, v \in Writers : u # v /\ learner'[u].at # "idle" /\ learner'[v].at # "idle" => learner'[v].met
  BY <1>2 DEF SkillInv
<1>7. QED BY <1>1, <1>2, <1>4, <1>5, <1>6 DEF SkillInv, TheMemory!CountsUnlessMet

LEMMA WriteOfSkill ==
  ASSUME SkillInv, NEW w \in Writers, TheMemory!WriteSkill(w) PROVE SkillInv'
<1>1. /\ TheMemory!Learned(w, TRUE) /\ learner[w].at = "writing"
      /\ skill' = IF learner[w].read # 0 THEN learner[w].read + 1 ELSE IF skill = 0 THEN 1 ELSE skill
  BY DEF TheMemory!WriteSkill, TheMemory!NoRow
<1>2. /\ learner[w].read \in Nat /\ learner[w].read <= outcomes /\ alone <= learner[w].read
      /\ alone <= skill /\ skill <= outcomes /\ skill \in Nat /\ outcomes \in Nat /\ alone \in Nat
  BY <1>1 DEF SkillInv, Learnings, TheMemory!CountsUnlessMet
<1>3. alone' \in {alone, alone + 1}
  BY <1>1 DEF TheMemory!Learned
<1>4. skill' \in Nat /\ alone' <= skill' /\ skill' <= outcomes + 1
  BY <1>1, <1>2, <1>3
<1>5. QED BY <1>1, <1>4, EndOfSkill

LEMMA RaiseOfSkill ==
  ASSUME SkillInv, NEW w \in Writers, TheMemory!RaiseSkill(w) PROVE SkillInv'
<1>1. TheMemory!Learned(w, FALSE) /\ learner[w].at # "idle" /\ skill' = skill
  BY DEF TheMemory!RaiseSkill
<1>2. alone' = alone
  BY <1>1 DEF TheMemory!Learned
<1>3. skill' \in Nat /\ alone' <= skill' /\ skill' <= outcomes + 1
  BY <1>1, <1>2 DEF SkillInv, TheMemory!CountsUnlessMet
<1>4. QED BY <1>1, <1>3, EndOfSkill

(* The row of a skill never counts more outcomes than there were, nor      *)
(* fewer than those whose update met no other and did not raise, however   *)
(* updates interleave (_update_expertise, agent_memory_manager.py).        *)
THEOREM SkillsAreCounted == TheMemory!Spec => []CountsUnlessMet
<1>1. TheMemory!Init => SkillInv
  BY DEF TheMemory!Init, TheMemory!NoRow, TheMemory!Rest, SkillInv, Learnings, TheMemory!CountsUnlessMet
<1>2. SkillInv /\ [TheMemory!Next]_(TheMemory!vars) => SkillInv'
  <2> SUFFICES ASSUME SkillInv, [TheMemory!Next]_(TheMemory!vars) PROVE SkillInv'
    OBVIOUS
  <2>1. CASE UNCHANGED TheMemory!vars
    BY <2>1, MemoryOfSkill DEF TheMemory!vars
  <2>2. CASE TheMemory!Wake \/ \E w \in Writers : TheMemory!Store(w)
    BY <2>2, MemoryOfSkill DEF TheMemory!Wake, TheMemory!Store, TheMemory!expertise
  <2>3. CASE \E f \in TheMemory!Flushers : TheMemory!Insert(f) \/ TheMemory!Commit(f) \/ TheMemory!Clear(f)
    BY <2>3, MemoryOfSkill DEF TheMemory!Insert, TheMemory!Commit, TheMemory!Clear, TheMemory!expertise
  <2>4. QED BY <2>1, <2>2, <2>3, LearnOfSkill, ReadOfSkill, WriteOfSkill, RaiseOfSkill DEF TheMemory!Next
<1>3. SkillInv => CountsUnlessMet
  BY DEF SkillInv, TheMemory!CountsUnlessMet, CountsUnlessMet
<1>4. QED BY <1>1, <1>2, <1>3, PTL DEF TheMemory!Spec

-----------------------------------------------------------------------------
(* The buffer of memories.                                                 *)

Flushes == [at : {"idle", "acquiring", "inserting", "committed", "refused"}, batch : SUBSET Nat]

(* While a batch is being written the buffer holds what is in it and what  *)
(* came since; a batch that was answered is in the table.                  *)
BufferInv ==
  /\ created \in Nat /\ buffer \in Seq(Nat)
  /\ flush \in [TheMemory!Flushers -> Flushes]
  /\ \A f \in TheMemory!Flushers :
       /\ TheMemory!Writing(f) => TheMemory!Buffered \subseteq flush[f].batch \cup met
       /\ flush[f].at = "committed" => flush[f].batch \subseteq stored
  /\ TheMemory!KeptUnlessMet

LEMMA AppendedIsBuffered ==
  ASSUME NEW m \in Nat, buffer \in Seq(Nat), buffer' = Append(buffer, m)
  PROVE  buffer' \in Seq(Nat) /\ TheMemory!Buffered' = TheMemory!Buffered \cup {m}
<1>1. /\ buffer' \in Seq(Nat) /\ Len(buffer') = Len(buffer) + 1 /\ Len(buffer) \in Nat
      /\ \A k \in 1..Len(buffer) : buffer'[k] = buffer[k]
      /\ buffer'[Len(buffer) + 1] = m
  OBVIOUS
<1>2. DOMAIN buffer = 1..Len(buffer) /\ DOMAIN buffer' = 1..(Len(buffer) + 1)
  BY <1>1
<1>3. DOMAIN buffer' = DOMAIN buffer \cup {Len(buffer) + 1}
  BY <1>1, <1>2
<1>4. QED BY <1>1, <1>2, <1>3 DEF TheMemory!Buffered

LEMMA BufferedAreNats ==
  ASSUME buffer \in Seq(Nat) PROVE TheMemory!Buffered \subseteq Nat
  BY DEF TheMemory!Buffered

LEMMA ExpertiseOfBuffer ==
  ASSUME BufferInv, UNCHANGED TheMemory!memory PROVE BufferInv'
  BY DEF BufferInv, TheMemory!memory, TheMemory!Buffered, TheMemory!KeptUnlessMet, TheMemory!Writing

(* A new memory is noted when it comes while a batch is being written.     *)
LEMMA StoreInBuffer ==
  ASSUME BufferInv, NEW w \in Writers, TheMemory!Store(w) PROVE BufferInv'
<1>1. TheMemory!Buffered' = TheMemory!Buffered \cup {created + 1} /\ buffer' \in Seq(Nat)
  BY AppendedIsBuffered DEF TheMemory!Store, BufferInv
<1>2. /\ created' = created + 1 /\ stored' = stored /\ w \in TheMemory!Flushers
      /\ flush[w].at = "idle" /\ flush' \in {flush, [flush EXCEPT ![w].at = "acquiring"]}
      /\ met' = IF \E f \in TheMemory!Flushers : TheMemory!Writing(f) THEN met \cup {created + 1} ELSE met
  BY DEF TheMemory!Store, TheMemory!Busy, TheMemory!Flushers
<1>3. /\ flush' \in [TheMemory!Flushers -> Flushes]
      /\ \A f \in TheMemory!Flushers :
           /\ TheMemory!Writing(f)' => TheMemory!Writing(f)
           /\ flush'[f].batch = flush[f].batch /\ (flush'[f].at = "committed" => flush[f].at = "committed")
  <2>1. CASE flush' = flush
    BY <2>1 DEF BufferInv, TheMemory!Writing
  <2>2. CASE flush' = [flush EXCEPT ![w].at = "acquiring"]
    BY <1>2, <2>2 DEF BufferInv, Flushes, TheMemory!Writing
  <2>3. QED BY <1>2, <2>1, <2>2
<1>4. \A f \in TheMemory!Flushers :
        TheMemory!Writing(f)' => TheMemory!Buffered' \subseteq flush'[f].batch \cup met'
  BY <1>1, <1>2, <1>3 DEF BufferInv
<1>5. 1..created' = (1..created) \cup {created + 1}
  BY <1>2 DEF BufferInv
<1>6. TheMemory!KeptUnlessMet'
  BY <1>1, <1>2, <1>5 DEF BufferInv, TheMemory!KeptUnlessMet
<1>7. QED BY <1>1, <1>2, <1>3, <1>4, <1>6 DEF BufferInv

LEMMA InsertFromBuffer ==
  ASSUME BufferInv, NEW f \in TheMemory!Flushers, TheMemory!Insert(f) PROVE BufferInv'
<1>1. /\ flush' = [flush EXCEPT ![f] = [at |-> "inserting", batch |-> TheMemory!Buffered]]
      /\ UNCHANGED <<created, buffer, met, stored>>
  BY DEF TheMemory!Insert
<1>2. TheMemory!Buffered' = TheMemory!Buffered /\ TheMemory!Buffered \subseteq Nat
  BY <1>1, BufferedAreNats DEF BufferInv, TheMemory!Buffered
<1>3. /\ flush' \in [TheMemory!Flushers -> Flushes]
      /\ flush'[f] = [at |-> "inserting", batch |-> TheMemory!Buffered]
      /\ \A g \in TheMemory!Flushers \ {f} : flush'[g] = flush[g]
  BY <1>1, <1>2 DEF BufferInv, Flushes
<1>4. QED BY <1>1, <1>2, <1>3 DEF BufferInv, TheMemory!KeptUnlessMet, TheMemory!Writing

LEMMA CommitOfBuffer ==
  ASSUME BufferInv, NEW f \in TheMemory!Flushers, TheMemory!Commit(f) PROVE BufferInv'
<1>1. /\ UNCHANGED <<created, buffer, met>> /\ stored \subseteq stored' /\ flush[f].at = "inserting"
      /\ \E a \in {"committed", "refused"} :
           /\ flush' = [flush EXCEPT ![f].at = a]
           /\ a = "committed" => flush[f].batch \subseteq stored'
  BY DEF TheMemory!Commit
<1>2. /\ flush' \in [TheMemory!Flushers -> Flushes]
      /\ flush'[f].batch = flush[f].batch
      /\ flush'[f].at = "committed" => flush[f].batch \subseteq stored'
      /\ \A g \in TheMemory!Flushers \ {f} : flush'[g] = flush[g]
  BY <1>1 DEF BufferInv, Flushes
<1>3. TheMemory!Buffered' = TheMemory!Buffered
  BY <1>1 DEF TheMemory!Buffered
<1>4. \A g \in TheMemory!Flushers : TheMemory!Writing(g)' => TheMemory!Writing(g)
  BY <1>1, <1>2 DEF TheMemory!Writing
<1>5. QED BY <1>1, <1>2, <1>3, <1>4 DEF BufferInv, TheMemory!KeptUnlessMet

(* What the clearing drops was in the batch, or came while it was written. *)
LEMMA ClearOfBuffer ==
  ASSUME BufferInv, NEW f \in TheMemory!Flushers, TheMemory!Clear(f) PROVE BufferInv'
<1>1. /\ flush' = [flush EXCEPT ![f] = [at |-> "idle", batch |-> {}]]
      /\ UNCHANGED <<created, met, stored>>
      /\ buffer' = IF flush[f].at = "committed" THEN <<>> ELSE buffer
  BY DEF TheMemory!Clear, TheMemory!Quiet
<1>2. /\ flush' \in [TheMemory!Flushers -> Flushes]
      /\ flush'[f].at = "idle" /\ \A g \in TheMemory!Flushers \ {f} : flush'[g] = flush[g]
  BY <1>1 DEF BufferInv, Flushes
<1>3. /\ TheMemory!Buffered' = IF flush[f].at = "committed" THEN {} ELSE TheMemory!Buffered
      /\ buffer' \in Seq(Nat)
  BY <1>1 DEF BufferInv, TheMemory!Buffered
<1>4. flush[f].at = "committed" => TheMemory!Buffered \subseteq stored \cup met
  BY DEF BufferInv, TheMemory!Writing
<1>5. TheMemory!KeptUnlessMet'
  BY <1>1, <1>3, <1>4 DEF BufferInv, TheMemory!KeptUnlessMet
<1>6. \A g \in TheMemory!Flushers : TheMemory!Writing(g)' => TheMemory!Writing(g) /\ g # f
  BY <1>2 DEF TheMemory!Writing
<1>7. QED BY <1>1, <1>2, <1>3, <1>5, <1>6 DEF BufferInv

(* A memory that store_memory returned for stays in the buffer or goes to  *)
(* the table, whoever flushes beside whom, unless it came while a batch    *)
(* was being written (_flush_memory_buffer, agent_memory_manager.py).      *)
THEOREM MemoriesAreKept == TheMemory!Spec => []KeptUnlessMet
<1>1. TheMemory!Init => BufferInv
  BY DEF TheMemory!Init, TheMemory!Quiet, BufferInv, Flushes, TheMemory!Buffered,
         TheMemory!KeptUnlessMet, TheMemory!Writing
<1>2. BufferInv /\ [TheMemory!Next]_(TheMemory!vars) => BufferInv'
  <2> SUFFICES ASSUME BufferInv, [TheMemory!Next]_(TheMemory!vars) PROVE BufferInv'
    OBVIOUS
  <2>1. CASE UNCHANGED TheMemory!vars
    BY <2>1, ExpertiseOfBuffer DEF TheMemory!vars, TheMemory!memory
  <2>2. CASE TheMemory!Wake
    <3>1. /\ Flusher \in TheMemory!Flushers /\ flush[Flusher].at = "idle"
          /\ flush' = [flush EXCEPT ![Flusher].at = "acquiring"]
          /\ UNCHANGED <<created, buffer, met, stored>>
      BY <2>2 DEF TheMemory!Wake, TheMemory!Flushers
    <3>2. /\ flush' \in [TheMemory!Flushers -> Flushes]
          /\ \A f \in TheMemory!Flushers :
               /\ TheMemory!Writing(f)' <=> TheMemory!Writing(f)
               /\ flush'[f].batch = flush[f].batch /\ (flush'[f].at = "committed" <=> flush[f].at = "committed")
      BY <3>1 DEF BufferInv, Flushes, TheMemory!Writing
    <3>3. QED BY <3>1, <3>2 DEF BufferInv, TheMemory!Buffered, TheMemory!KeptUnlessMet
  <2>3. ASSUME NEW w \in Writers,
               TheMemory!Learn(w) \/ TheMemory!ReadSkill(w) \/ TheMemory!WriteSkill(w)
        PROVE  BufferInv'
    BY <2>3, ExpertiseOfBuffer DEF TheMemory!Learn, TheMemory!ReadSkill, TheMemory!WriteSkill
  <2>4. ASSUME NEW w \in Writers, TheMemory!RaiseSkill(w) PROVE BufferInv'
    BY <2>4 DEF TheMemory!RaiseSkill, BufferInv, TheMemory!Buffered, TheMemory!KeptUnlessMet,
           TheMemory!Writing
  <2>5. QED BY <2>1, <2>2, <2>3, <2>4, StoreInBuffer, InsertFromBuffer, CommitOfBuffer, ClearOfBuffer
            DEF TheMemory!Next
<1>3. BufferInv => KeptUnlessMet
  BY DEF BufferInv, TheMemory!KeptUnlessMet, KeptUnlessMet
<1>4. QED BY <1>1, <1>2, <1>3, PTL DEF TheMemory!Spec

-----------------------------------------------------------------------------
(* The sockets of the browsers.                                            *)

LEMMA Least ==
  ASSUME NEW S \in SUBSET Nat, S # {} PROVE \E m \in S : \A k \in S : m <= k
<1> DEFINE R == OpToRel(<, Nat)
<1>1. IsWellFoundedOn(R, Nat)
  BY NatLessThanWellFounded
<1>2. \A m, k \in Nat : <<k, m>> \in R <=> k < m
  BY DEF OpToRel
<1> HIDE DEF R
<1>3. PICK m \in S : \A k \in S : ~(<<k, m>> \in R)
  BY <1>1, WFMin
<1>4. \A k \in S : ~(k < m)
  BY <1>2, <1>3
<1>5. QED BY <1>4

SendShape ==
  [at : {"new", "sending", "iterating", "done", "raised"}, to : Feeds \cup {All}, todo : SUBSET Conns,
   failed : SUBSET Conns, pos : Nat, size : Nat, visited : Nat]

SocketShape ==
  /\ order \in Seq(Conns) /\ registered \subseteq Conns
  /\ index \in [Feeds -> SUBSET Conns]
  /\ subs \in [Conns -> {"asked", "dropped", "renewed"}]
  /\ connected \in [Conns -> BOOLEAN]
  /\ client \in [Conns -> {"open", "closed", "lost"}]
  /\ endpoint \in [Conns -> {"new", "confirming", "serving", "over"}]

SendsShape ==
  send \in [Updates -> SendShape] /\ due \in [Updates -> SUBSET Conns] /\ got \in [Updates -> SUBSET Conns]

InOrder(c, from) == \E i \in 1..Len(order) : from < i /\ order[i] = c

(* A registered connection is in the dict and in the index of all it       *)
(* follows, and its flag stands while its client is there.                 *)
Entered ==
  \A c \in registered :
    /\ endpoint[c] # "new" /\ InOrder(c, 0)
    /\ client[c] = "open" => connected[c]
    /\ \A f \in scope[c] : c \in index[f]

Follows(c) == c \in registered /\ client[c] = "open" /\ subs[c] = "asked"

(* Whom an update is for, and what is left of its way to them.             *)
OnItsWay(u) ==
  /\ send[u].at = "new" => send[u].pos = 0
  /\ \A c \in due[u] :
       /\ send[u].at # "new" /\ endpoint[c] # "new"
       /\ Follows(c) => \/ c \in got[u]
                        \/ send[u].at = "sending" /\ c \in send[u].todo
                        \/ send[u].at = "iterating" /\ InOrder(c, send[u].pos)
                        \/ send[u].at = "raised"

SocketInv == SocketShape /\ SendsShape /\ Entered /\ \A u \in Updates : OnItsWay(u)

(* No step lets a connection follow again that has stopped to, and the     *)
(* dict keeps its order.                                                   *)
NoneReturns ==
  \A c \in Conns : endpoint[c] # "new" =>
    endpoint'[c] # "new" /\ (Follows(c)' => Follows(c))

Ordered == Len(order) <= Len(order') /\ \A i \in 1..Len(order) : order'[i] = order[i]

LEMMA StaysInOrder ==
  ASSUME order \in Seq(Conns), order' \in Seq(Conns), Ordered, NEW c, NEW n \in Nat, InOrder(c, n)
  PROVE  InOrder(c, n)'
<1>1. Len(order) \in Nat /\ Len(order') \in Nat
  OBVIOUS
<1>2. QED BY <1>1 DEF InOrder, Ordered

LEMMA OthersStay ==
  ASSUME SocketInv, SocketShape', NEW u \in Updates, send'[u] = send[u], due'[u] = due[u],
         \A c \in got[u] : c \in got'[u], NoneReturns, Ordered
  PROVE  OnItsWay(u)'
<1>1. send[u].pos \in Nat /\ due[u] \subseteq Conns
  BY DEF SocketInv, SendsShape, SendShape
<1>2. \A c \in Conns : InOrder(c, send[u].pos) => InOrder(c, send[u].pos)'
  BY <1>1, StaysInOrder DEF SocketInv, SocketShape
<1>3. QED BY <1>1, <1>2 DEF SocketInv, OnItsWay, NoneReturns, InOrder

LEMMA ConnectOfSocket ==
  ASSUME TheSockets!SocketsAssumption, SocketInv, NEW c \in Conns, TheSockets!Connect(c) PROVE SocketInv'
<1>1. /\ endpoint[c] = "new" /\ endpoint' = [endpoint EXCEPT ![c] = "confirming"]
      /\ order' = Append(order, c) /\ registered' = registered \cup {c}
      /\ index' = [f \in Feeds |-> IF f \in scope[c] THEN index[f] \cup {c} ELSE index[f]]
      /\ connected' = [connected EXCEPT ![c] = TRUE]
      /\ UNCHANGED <<subs, client, send, due, got>>
  BY DEF TheSockets!Connect, TheSockets!At, TheSockets!Go
<1>2. SocketShape'
  BY <1>1 DEF SocketInv, SocketShape
<1>3. order \in Seq(Conns) /\ Len(order) \in Nat
  BY DEF SocketInv, SocketShape
<1>4. Ordered /\ Len(order') = Len(order) + 1 /\ order'[Len(order) + 1] = c
  BY <1>1, <1>3 DEF Ordered
<1>5. InOrder(c, 0)'
  BY <1>3, <1>4 DEF InOrder
<1>6. \A d \in Conns : InOrder(d, 0) => InOrder(d, 0)'
  BY <1>2, <1>3, <1>4, StaysInOrder DEF SocketShape
<1>7. Entered'
  <2> SUFFICES ASSUME NEW d \in registered'
               PROVE  /\ endpoint'[d] # "new" /\ InOrder(d, 0)'
                      /\ client'[d] = "open" => connected'[d]
                      /\ \A f \in scope[d] : d \in index'[f]
    BY DEF Entered
  <2>1. d \in Conns /\ c \in Conns /\ scope[d] \subseteq Feeds
    BY <1>2 DEF SocketShape, TheSockets!SocketsAssumption
  <2>2. CASE d = c
    BY <2>1, <2>2, <1>1, <1>5 DEF SocketInv, SocketShape
  <2>3. CASE d # c
    <3>1. d \in registered
      BY <2>3, <1>1
    <3>2. QED BY <2>1, <2>3, <3>1, <1>1, <1>6 DEF SocketInv, SocketShape, Entered
  <2>4. QED BY <2>2, <2>3
<1>8. NoneReturns
  BY <1>1 DEF NoneReturns, Follows, SocketInv, SocketShape
<1>9. \A u \in Updates : OnItsWay(u)'
  BY <1>1, <1>2, <1>4, <1>8, OthersStay
<1>10. QED BY <1>1, <1>2, <1>7, <1>9 DEF SocketInv, SendsShape

(* What a step of a client or of its endpoint leaves alone.                *)
LEMMA ClientOfSocket ==
  ASSUME SocketInv, NEW c \in Conns,
         \/ TheSockets!Confirm(c) \/ TheSockets!Ping(c) \/ TheSockets!Subscribe(c)
         \/ TheSockets!Leave(c) \/ TheSockets!Age(c)
  PROVE  SocketInv'
<1>1. /\ UNCHANGED <<order, registered, index, send, due, got>> /\ SocketShape'
      /\ \A d \in Conns :
           /\ endpoint[d] # "new" => endpoint'[d] # "new"
           /\ client'[d] = "open" => client[d] = "open" /\ (connected[d] => connected'[d])
           /\ subs'[d] = "asked" => subs[d] = "asked"
  <2>1. CASE TheSockets!Confirm(c)
    BY <2>1 DEF TheSockets!Confirm, TheSockets!At, TheSockets!Go, TheSockets!SendOk, TheSockets!SendFails,
       SocketInv, SocketShape
  <2>2. CASE TheSockets!Ping(c)
    BY <2>2 DEF TheSockets!Ping, SocketInv, SocketShape
  <2>3. CASE TheSockets!Subscribe(c)
    BY <2>3 DEF TheSockets!Subscribe, SocketInv, SocketShape
  <2>4. CASE TheSockets!Leave(c)
    BY <2>4 DEF TheSockets!Leave, SocketInv, SocketShape
  <2>5. CASE TheSockets!Age(c)
    BY <2>5 DEF TheSockets!Age, SocketInv, SocketShape
  <2>6. QED BY <2>1, <2>2, <2>3, <2>4, <2>5
<1>2. NoneReturns /\ Ordered
  BY <1>1 DEF NoneReturns, Ordered, Follows, SocketInv, SocketShape
<1>3. Entered'
  BY <1>1 DEF Entered, InOrder, SocketInv, SocketShape
<1>4. \A u \in Updates : OnItsWay(u)'
  BY <1>1, <1>2, OthersStay
<1>5. QED BY <1>1, <1>3, <1>4 DEF SocketInv, SendsShape

LEMMA Disconnected ==
  ASSUME TheSockets!SocketsAssumption, SocketInv, NEW gone \in SUBSET Conns, TheSockets!Disconnect(gone),
         UNCHANGED <<order, subs, client>>, SocketShape',
         \A d \in Conns : endpoint[d] # "new" => endpoint'[d] # "new"
  PROVE  NoneReturns /\ Ordered /\ Entered'
<1>1. NoneReturns /\ Ordered
  BY DEF NoneReturns, Ordered, Follows, TheSockets!Disconnect, SocketInv, SocketShape
<1>2. Entered'
  <2> SUFFICES ASSUME NEW d \in registered'
               PROVE  /\ endpoint'[d] # "new" /\ InOrder(d, 0)'
                      /\ client'[d] = "open" => connected'[d]
                      /\ \A f \in scope[d] : d \in index'[f]
    BY DEF Entered
  <2>1. d \in registered /\ d \in Conns /\ d \notin gone /\ scope[d] \subseteq Feeds
    BY DEF TheSockets!Disconnect, TheSockets!SocketsAssumption, SocketInv, SocketShape
  <2>2. endpoint'[d] # "new" /\ InOrder(d, 0)'
    BY <2>1 DEF SocketInv, Entered, InOrder
  <2>3. client'[d] = "open" => connected'[d]
    BY <2>1 DEF TheSockets!Disconnect, SocketInv, Entered
  <2>4. \A f \in scope[d] : d \in index'[f]
    BY <2>1 DEF TheSockets!Disconnect, SocketInv, Entered
  <2>5. QED BY <2>2, <2>3, <2>4
<1>3. QED BY <1>1, <1>2

LEMMA DisconnectKeeps ==
  ASSUME SocketInv, NEW gone \in SUBSET Conns, TheSockets!Disconnect(gone),
         UNCHANGED <<order, subs, client>>, endpoint' \in [Conns -> {"new", "confirming", "serving", "over"}]
  PROVE  SocketShape'
<1>1. registered' \subseteq Conns /\ connected' \in [Conns -> BOOLEAN]
  BY DEF TheSockets!Disconnect, SocketInv, SocketShape
<1>2. index' \in [Feeds -> SUBSET Conns]
  BY DEF TheSockets!Disconnect, SocketInv, SocketShape
<1>3. QED BY <1>1, <1>2 DEF SocketInv, SocketShape

LEMMA GoneOfSocket ==
  ASSUME TheSockets!SocketsAssumption, SocketInv, TheSockets!Sweep \/ \E c \in Conns : TheSockets!Finish(c) PROVE SocketInv'
<1>1. PICK gone \in SUBSET Conns :
        /\ TheSockets!Disconnect(gone) /\ UNCHANGED <<order, subs, client, send, due, got>>
        /\ endpoint' \in [Conns -> {"new", "confirming", "serving", "over"}]
        /\ \A d \in Conns : endpoint[d] # "new" => endpoint'[d] # "new"
  <2>1. CASE TheSockets!Sweep
    <3>1. {c \in registered : stale[c]} \in SUBSET Conns
      BY DEF SocketInv, SocketShape
    <3>2. QED BY <2>1, <3>1 DEF TheSockets!Sweep, SocketInv, SocketShape
  <2>2. ASSUME NEW c \in Conns, TheSockets!Finish(c)
        PROVE  /\ TheSockets!Disconnect({c} \cap registered) /\ {c} \cap registered \in SUBSET Conns
               /\ UNCHANGED <<order, subs, client, send, due, got>>
               /\ endpoint' \in [Conns -> {"new", "confirming", "serving", "over"}]
               /\ \A d \in Conns : endpoint[d] # "new" => endpoint'[d] # "new"
    BY <2>2 DEF TheSockets!Finish, TheSockets!At, TheSockets!Go, SocketInv, SocketShape
  <2>3. QED BY <2>1, <2>2
<1>2. SocketShape'
  BY <1>1, DisconnectKeeps
<1>3. NoneReturns /\ Ordered /\ Entered'
  BY <1>1, <1>2, Disconnected
<1>4. \A u \in Updates : OnItsWay(u)'
  BY <1>1, <1>2, <1>3, OthersStay
<1>5. QED BY <1>1, <1>2, <1>3, <1>4 DEF SocketInv, SendsShape

(* A send reaches whoever follows, and takes the flag only of a connection *)
(* whose client has gone.                                                  *)
LEMMA SentTo ==
  ASSUME SocketInv, NEW u \in Updates, NEW c \in Conns,
         TheSockets!SendTo(u, c) \/ UNCHANGED <<got, connected>>,
         UNCHANGED <<order, registered, index, subs, client, endpoint>>
  PROVE  /\ SocketShape' /\ Entered' /\ NoneReturns /\ Ordered
         /\ got' \in [Updates -> SUBSET Conns] /\ \A v \in Updates : got[v] \subseteq got'[v]
         /\ TheSockets!SendTo(u, c) /\ Follows(c) => c \in got'[u]
<1>1. /\ connected' \in [Conns -> BOOLEAN]
      /\ \A d \in Conns : connected[d] /\ client[d] = "open" => connected'[d]
  BY DEF TheSockets!SendTo, TheSockets!SendOk, TheSockets!SendFails, SocketInv, SocketShape
<1>2. got' \in [Updates -> SUBSET Conns] /\ \A v \in Updates : got[v] \subseteq got'[v]
  <2>1. CASE UNCHANGED got
    BY <2>1 DEF SocketInv, SendsShape
  <2>2. CASE got' = [got EXCEPT ![u] = IF client[c] = "open" THEN @ \cup {c} ELSE @]
    BY <2>2 DEF SocketInv, SendsShape
  <2>3. QED BY <2>1, <2>2 DEF TheSockets!SendTo
<1>3. TheSockets!SendTo(u, c) /\ Follows(c) => c \in got'[u]
  BY DEF TheSockets!SendTo, TheSockets!SendOk, TheSockets!SendFails, Follows, Entered, SocketInv, SendsShape
<1>4. SocketShape' /\ NoneReturns /\ Ordered
  BY <1>1 DEF SocketInv, SocketShape, NoneReturns, Follows, Ordered
<1>5. Entered'
  <2> SUFFICES ASSUME NEW d \in registered'
               PROVE  /\ endpoint'[d] # "new" /\ InOrder(d, 0)'
                      /\ client'[d] = "open" => connected'[d]
                      /\ \A f \in scope[d] : d \in index'[f]
    BY DEF Entered
  <2>1. QED BY <1>1 DEF SocketInv, SocketShape, Entered, InOrder
<1>6. QED BY <1>2, <1>3, <1>4, <1>5

(* Finite and how many mean the same in both modules.                      *)
LEMMA SameFiniteSets ==
  TheSockets!SocketsAssumption => IsFiniteSet(Conns)
  BY DEF TheSockets!SocketsAssumption, IsFiniteSet, TheSockets!IsFiniteSet

LEMMA SameCardinality == TheSockets!Cardinality(registered) = Cardinality(registered)
  BY DEF Cardinality, TheSockets!Cardinality, IsFiniteSet, TheSockets!IsFiniteSet

LEMMA StartOfSocket ==
  ASSUME TheSockets!SocketsAssumption, SocketInv, NEW u \in Updates, NEW t \in Feeds \cup {All},
         TheSockets!Start(u, t)
  PROVE  SocketInv'
<1>1. /\ send[u].at = "new" /\ send \in [Updates -> SendShape]
      /\ UNCHANGED <<order, registered, index, subs, connected, client, endpoint, got>>
      /\ due' = [due EXCEPT ![u] = {c \in registered : t = All \/ t \in scope[c]}]
  BY DEF TheSockets!Start, TheSockets!sockets, SocketInv, SendsShape
<1>2. SocketShape' /\ Entered' /\ NoneReturns /\ Ordered
  BY <1>1 DEF SocketInv, SocketShape, Entered, InOrder, NoneReturns, Follows, Ordered
<1>3. registered \subseteq Conns /\ Cardinality(registered) \in Nat
  <2>1. registered \subseteq Conns /\ IsFiniteSet(Conns)
    BY SameFiniteSets DEF SocketInv, SocketShape
  <2>2. QED BY <2>1, FS_Subset, FS_CardinalityType
<1>4. CASE t = All
  <2>1. send' = [send EXCEPT ![u] = [send[u] EXCEPT !.at = "iterating", !.size = Cardinality(registered)]]
    BY <1>4, SameCardinality DEF TheSockets!Start
  <2>2. /\ send'[u].at = "iterating" /\ send'[u].pos = send[u].pos /\ send'[u] \in SendShape
    BY <2>1, <1>1, <1>3 DEF SendShape
  <2>3. send' \in [Updates -> SendShape] /\ \A v \in Updates \ {u} : send'[v] = send[v] /\ due'[v] = due[v]
    BY <2>1, <2>2, <1>1 DEF SocketInv, SendsShape
  <2>4. due' \in [Updates -> SUBSET Conns] /\ due'[u] \subseteq registered
    BY <1>1, <1>3 DEF SocketInv, SendsShape
  <2>5. OnItsWay(u)'
    <3>1. send[u].pos = 0
      BY <1>1 DEF SocketInv, OnItsWay
    <3>2. QED BY <3>1, <2>2, <2>4, <1>1, <1>2 DEF OnItsWay, Entered, InOrder
  <2>6. \A v \in Updates \ {u} : OnItsWay(v)'
    BY <2>3, <1>1, <1>2, OthersStay
  <2>7. QED BY <1>1, <1>2, <2>3, <2>4, <2>5, <2>6 DEF SocketInv, SendsShape
<1>5. CASE t # All
  <2>1. send' = [send EXCEPT ![u] = [send[u] EXCEPT !.at = "sending", !.to = t, !.todo = index[t]]]
    BY <1>5 DEF TheSockets!Start
  <2>2. /\ send'[u].at = "sending" /\ send'[u].todo = index[t] /\ send'[u] \in SendShape
    BY <2>1, <1>1, <1>5 DEF SendShape, SocketInv, SocketShape
  <2>3. send' \in [Updates -> SendShape] /\ \A v \in Updates \ {u} : send'[v] = send[v] /\ due'[v] = due[v]
    BY <2>1, <2>2, <1>1 DEF SocketInv, SendsShape
  <2>4. /\ due' \in [Updates -> SUBSET Conns]
        /\ \A c \in due'[u] : c \in registered /\ t \in scope[c]
    BY <1>1, <1>3, <1>5 DEF SocketInv, SendsShape
  <2>5. OnItsWay(u)'
    BY <2>2, <2>4, <1>1, <1>2 DEF OnItsWay, Entered, SocketInv
  <2>6. \A v \in Updates \ {u} : OnItsWay(v)'
    BY <2>3, <1>1, <1>2, OthersStay
  <2>7. QED BY <1>1, <1>2, <2>3, <2>4, <2>5, <2>6 DEF SocketInv, SendsShape
<1>6. QED BY <1>4, <1>5

(* What a step of a send comes to, when it is right about its own update.  *)
LEMMA StepOfSend ==
  ASSUME SocketInv, NEW u \in Updates, NEW it \in SendShape, send' = [send EXCEPT ![u] = it],
         UNCHANGED due, SocketShape', Entered', NoneReturns, Ordered,
         got' \in [Updates -> SUBSET Conns], \A v \in Updates : got[v] \subseteq got'[v],
         OnItsWay(u)'
  PROVE  SocketInv'
<1>1. send' \in [Updates -> SendShape] /\ \A v \in Updates \ {u} : send'[v] = send[v]
  BY DEF SocketInv, SendsShape
<1>2. \A v \in Updates \ {u} : OnItsWay(v)'
  BY <1>1, OthersStay
<1>3. QED BY <1>1, <1>2 DEF SocketInv, SendsShape

LEMMA DeliverOfSocket ==
  ASSUME SocketInv, NEW u \in Updates, NEW c \in Conns, TheSockets!Deliver(u, c) PROVE SocketInv'
<1> DEFINE it == [send[u] EXCEPT !.todo = @ \ {c}]
<1>1. /\ send[u].at = "sending" /\ send[u] \in SendShape /\ send' = [send EXCEPT ![u] = it]
      /\ UNCHANGED <<order, registered, index, subs, client, endpoint, due>>
      /\ TheSockets!SendTo(u, c) \/ UNCHANGED <<got, connected>>
      /\ c \in registered /\ subs[c] # "dropped" => TheSockets!SendTo(u, c)
  BY DEF TheSockets!Deliver, TheSockets!Subscribed, SocketInv, SendsShape
<1>2. it \in SendShape /\ it.at = "sending" /\ it.todo = send[u].todo \ {c}
  BY <1>1 DEF SendShape
<1>3. send'[u] = it
  BY <1>1 DEF SocketInv, SendsShape
<1> HIDE DEF it
<1>4. /\ SocketShape' /\ Entered' /\ NoneReturns /\ Ordered
      /\ got' \in [Updates -> SUBSET Conns] /\ \A v \in Updates : got[v] \subseteq got'[v]
      /\ TheSockets!SendTo(u, c) /\ Follows(c) => c \in got'[u]
  BY <1>1, SentTo
<1>5. OnItsWay(u)'
  <2>1. due'[u] \subseteq Conns /\ due'[u] = due[u]
    BY <1>1 DEF SocketInv, SendsShape
  <2>2. Follows(c) => c \in got'[u]
    BY <1>1, <1>4 DEF Follows
  <2>3. \A d \in due[u] : Follows(d) => d \in got[u] \/ d \in send[u].todo
    BY <1>1 DEF SocketInv, OnItsWay
  <2>4. \A d \in due[u] : endpoint'[d] # "new" /\ (Follows(d)' => Follows(d))
    BY <2>1, <1>4 DEF SocketInv, OnItsWay, NoneReturns
  <2>5. QED BY <2>1, <2>2, <2>3, <2>4, <1>2, <1>3, <1>4 DEF OnItsWay
<1>6. QED BY <1>1, <1>2, <1>4, <1>5, StepOfSend

LEMMA EndOfSocket ==
  ASSUME SocketInv, NEW u \in Updates, TheSockets!Delivered(u) \/ TheSockets!Raise(u) PROVE SocketInv'
<1>1. /\ UNCHANGED <<order, registered, index, subs, connected, client, endpoint, due, got>>
      /\ send[u] \in SendShape
  BY DEF TheSockets!Delivered, TheSockets!Raise, TheSockets!sockets, SocketInv, SendsShape
<1>2. /\ SocketShape' /\ Entered' /\ NoneReturns /\ Ordered
      /\ got' \in [Updates -> SUBSET Conns] /\ \A v \in Updates : got[v] \subseteq got'[v]
  BY <1>1 DEF SocketInv, SocketShape, SendsShape, Entered, InOrder, NoneReturns, Follows, Ordered
<1>3. ASSUME NEW place \in {"done", "raised"}, send' = [send EXCEPT ![u] = [send[u] EXCEPT !.at = place]],
             send[u].at # "new",
             place = "done" => send[u].at = "sending" /\ send[u].todo = {}
      PROVE  SocketInv'
  <2> DEFINE it == [send[u] EXCEPT !.at = place]
  <2>1. it \in SendShape /\ it.at = place
    BY <1>1 DEF SendShape
  <2>2. send'[u] = it
    BY <1>3 DEF SocketInv, SendsShape
  <2>3. OnItsWay(u)'
    <3>1. \A d \in due[u] : endpoint'[d] # "new" /\ (Follows(d)' <=> Follows(d)) /\ got'[u] = got[u]
      BY <1>1 DEF SocketInv, OnItsWay, Follows
    <3>2. place = "done" => \A d \in due[u] : Follows(d) => d \in got[u]
      BY <1>3 DEF SocketInv, OnItsWay
    <3>3. QED BY <1>1, <2>1, <2>2, <3>1, <3>2 DEF OnItsWay
  <2>4. QED BY <1>1, <1>2, <1>3, <2>1, <2>3, StepOfSend
<1>4. CASE TheSockets!Delivered(u)
  BY <1>3, <1>4 DEF TheSockets!Delivered
<1>5. CASE TheSockets!Raise(u)
  BY <1>3, <1>5 DEF TheSockets!Raise
<1>6. QED BY <1>4, <1>5

LEMMA VisitedOfSocket ==
  ASSUME TheSockets!SocketsAssumption, SocketInv, NEW u \in Updates, TheSockets!Visited(u) PROVE SocketInv'
<1> DEFINE it == [send[u] EXCEPT !.at = "done"]
           gone == send[u].failed \cap registered
<1>1. /\ send[u].at = "iterating" /\ send[u] \in SendShape /\ send' = [send EXCEPT ![u] = it]
      /\ TheSockets!Ahead(u) = {} /\ TheSockets!Disconnect(gone) /\ gone \in SUBSET Conns
      /\ UNCHANGED <<order, subs, client, endpoint, due, got>>
  BY DEF TheSockets!Visited, SocketInv, SendsShape, SocketShape
<1>2. it \in SendShape /\ it.at = "done" /\ send'[u] = it
  BY <1>1 DEF SendShape, SocketInv, SendsShape
<1> HIDE DEF it, gone
<1>3. SocketShape'
  BY <1>1, DisconnectKeeps DEF SocketInv, SocketShape
<1>4. NoneReturns /\ Ordered /\ Entered'
  BY <1>1, <1>3, Disconnected
<1>5. OnItsWay(u)'
  <2>1. due[u] \subseteq Conns /\ send[u].pos \in Nat
    BY <1>1 DEF SocketInv, SendsShape, SendShape
  <2>2. \A d \in due[u] : Follows(d) => d \in got[u]
    <3> TAKE d \in due[u]
    <3> HAVE Follows(d)
    <3>1. d \in got[u] \/ InOrder(d, send[u].pos)
      BY <1>1 DEF SocketInv, OnItsWay
    <3>2. ~InOrder(d, send[u].pos)
      <4>1. \A i \in 1..Len(order) : ~(i > send[u].pos /\ order[i] \in registered)
        BY <1>1 DEF TheSockets!Ahead
      <4>2. QED BY <2>1, <4>1 DEF InOrder, Follows, SocketInv, SocketShape
    <3>3. QED BY <3>1, <3>2
  <2>3. \A d \in due[u] : endpoint'[d] # "new" /\ (Follows(d)' => Follows(d))
    BY <2>1, <1>4 DEF SocketInv, OnItsWay, NoneReturns
  <2>4. QED BY <1>1, <1>2, <2>2, <2>3 DEF OnItsWay
<1>6. QED BY <1>1, <1>2, <1>3, <1>4, <1>5, StepOfSend DEF SocketInv, SendsShape

LEMMA VisitOfSocket ==
  ASSUME SocketInv, NEW u \in Updates, TheSockets!Visit(u) PROVE SocketInv'
<1>1. /\ send[u].at = "iterating" /\ send[u] \in SendShape /\ TheSockets!Ahead(u) # {}
      /\ UNCHANGED <<order, registered, index, subs, client, endpoint, due>>
      /\ send \in [Updates -> SendShape]
  BY DEF TheSockets!Visit, SocketInv, SendsShape
<1>2. PICK i \in TheSockets!Ahead(u) :
        /\ \A k \in TheSockets!Ahead(u) : i <= k
        /\ TheSockets!SendTo(u, order[i]) \/ UNCHANGED <<got, connected>>
        /\ connected[order[i]] /\ subs[order[i]] # "dropped" => TheSockets!SendTo(u, order[i])
        /\ send' = [send EXCEPT ![u] = [send[u] EXCEPT
              !.pos = i, !.visited = send[u].visited + 1,
              !.failed = IF connected'[order[i]] THEN send[u].failed ELSE send[u].failed \cup {order[i]}]]
  <2> DEFINE j == CHOOSE j \in TheSockets!Ahead(u) : \A k \in TheSockets!Ahead(u) : j <= k
  <2>1. /\ TheSockets!SendTo(u, order[j]) \/ UNCHANGED <<got, connected>>
        /\ connected[order[j]] /\ subs[order[j]] # "dropped" => TheSockets!SendTo(u, order[j])
        /\ send' = [send EXCEPT ![u] = [send[u] EXCEPT
              !.pos = j, !.visited = send[u].visited + 1,
              !.failed = IF connected'[order[j]] THEN send[u].failed ELSE send[u].failed \cup {order[j]}]]
    BY DEF TheSockets!Visit, TheSockets!Subscribed
  <2>2. TheSockets!Ahead(u) \in SUBSET Nat
    BY DEF TheSockets!Ahead
  <2>3. \E n \in TheSockets!Ahead(u) : \A k \in TheSockets!Ahead(u) : n <= k
    BY <1>1, <2>2, Least
  <2>4. j \in TheSockets!Ahead(u) /\ \A k \in TheSockets!Ahead(u) : j <= k
    BY <2>3
  <2> HIDE DEF j
  <2>5. QED BY <2>1, <2>4
<1>3. i \in Nat /\ order[i] \in Conns /\ order[i] \in registered /\ i \in 1..Len(order)
  BY <1>2 DEF TheSockets!Ahead, SocketInv, SocketShape
<1>4. PICK c \in Conns : c = order[i]
  BY <1>3
<1>5. PICK it \in SendShape : it.at = "iterating" /\ it.pos = i /\ send' = [send EXCEPT ![u] = it]
  <2>1. PICK failed \in SUBSET Conns : failed = IF connected'[c] THEN send[u].failed ELSE send[u].failed \cup {c}
    BY <1>1 DEF SendShape
  <2>2. [send[u] EXCEPT !.pos = i, !.visited = send[u].visited + 1, !.failed = failed] \in SendShape
    <3>1. PICK visited \in Nat : visited = send[u].visited + 1
      BY <1>1 DEF SendShape
    <3>2. [send[u] EXCEPT !.pos = i, !.visited = visited, !.failed = failed] \in SendShape
      BY <1>1, <1>3 DEF SendShape
    <3>3. QED BY <3>1, <3>2
  <2>3. send' = [send EXCEPT ![u] = [send[u] EXCEPT !.pos = i, !.visited = send[u].visited + 1, !.failed = failed]]
    BY <1>2, <1>4, <2>1
  <2>4. [send[u] EXCEPT !.pos = i, !.visited = send[u].visited + 1, !.failed = failed].at = "iterating"
    BY <1>1 DEF SendShape
  <2>5. [send[u] EXCEPT !.pos = i, !.visited = send[u].visited + 1, !.failed = failed].pos = i
    BY <1>1 DEF SendShape
  <2>6. QED BY <2>2, <2>3, <2>4, <2>5
<1>6. send'[u] = it
  BY <1>1, <1>5
<1>7. /\ SocketShape' /\ Entered' /\ NoneReturns /\ Ordered
      /\ got' \in [Updates -> SUBSET Conns] /\ \A v \in Updates : got[v] \subseteq got'[v]
      /\ TheSockets!SendTo(u, c) /\ Follows(c) => c \in got'[u]
  BY <1>1, <1>2, <1>4, SentTo
<1>8. Follows(c) => c \in got'[u]
  BY <1>1, <1>2, <1>4, <1>7 DEF Follows, SocketInv, Entered
<1>9. OnItsWay(u)'
  <2>1. due[u] \subseteq Conns /\ send[u].pos \in Nat /\ Len(order) \in Nat
    BY <1>1 DEF SocketInv, SocketShape, SendsShape, SendShape
  <2>2. \A d \in due[u] : Follows(d) => d \in got'[u] \/ InOrder(d, i)
    <3> TAKE d \in due[u]
    <3> HAVE Follows(d)
    <3>1. CASE d \in got[u]
      BY <3>1, <1>7
    <3>2. CASE InOrder(d, send[u].pos)
      <4>1. PICK k \in 1..Len(order) : send[u].pos < k /\ order[k] = d
        BY <3>2 DEF InOrder
      <4>2. k \in TheSockets!Ahead(u)
        BY <4>1, <2>1 DEF TheSockets!Ahead, Follows
      <4>3. i <= k
        BY <1>2, <4>2
      <4>4. CASE i = k
        BY <4>1, <4>4, <1>4, <1>8
      <4>5. CASE i # k
        BY <4>1, <4>3, <4>5, <1>3, <2>1 DEF InOrder
      <4>6. QED BY <4>4, <4>5
    <3>3. QED BY <3>1, <3>2, <1>1 DEF SocketInv, OnItsWay
  <2>3. \A d \in due[u] : endpoint'[d] # "new" /\ (Follows(d)' => Follows(d))
    BY <2>1, <1>7 DEF SocketInv, OnItsWay, NoneReturns
  <2>4. \A d \in due[u] : InOrder(d, i) => InOrder(d, send[u].pos)'
    BY <1>1, <1>5, <1>6 DEF InOrder
  <2>5. QED BY <1>1, <1>5, <1>6, <2>2, <2>3, <2>4 DEF OnItsWay
<1>10. QED BY <1>1, <1>5, <1>7, <1>9, StepOfSend

(* When an update has been sent, every client that follows its target and  *)
(* was there all along has it, however many connect, leave, fail or are    *)
(* swept out meanwhile (websocket_manager.py).                             *)
THEOREM FollowersAreTold ==
  ASSUME TheSockets!SocketsAssumption
  PROVE  TheSockets!Spec => []WatchersAreTold
<1>1. TheSockets!Init => SocketInv
  <2> SUFFICES ASSUME TheSockets!Init PROVE SocketInv
    OBVIOUS
  <2>1. SocketShape /\ Entered
    BY DEF TheSockets!Init, SocketShape, Entered
  <2>2. TheSockets!Unsent \in SendShape
    BY DEF TheSockets!Unsent, SendShape
  <2>3. SendsShape
    BY <2>2 DEF TheSockets!Init, SendsShape
  <2>4. \A u \in Updates : OnItsWay(u)
    BY DEF TheSockets!Init, TheSockets!Unsent, OnItsWay
  <2>5. QED BY <2>1, <2>3, <2>4 DEF SocketInv
<1>2. SocketInv /\ [TheSockets!Next]_(TheSockets!vars) => SocketInv'
  <2> SUFFICES ASSUME SocketInv, [TheSockets!Next]_(TheSockets!vars) PROVE SocketInv'
    OBVIOUS
  <2>1. CASE UNCHANGED TheSockets!vars
    BY <2>1 DEF TheSockets!vars, TheSockets!sockets, SocketInv, SocketShape, SendsShape, Entered, InOrder,
       OnItsWay, Follows
  <2>2. CASE TheSockets!Next
    BY <2>2, ConnectOfSocket, ClientOfSocket, GoneOfSocket, StartOfSocket, DeliverOfSocket, EndOfSocket,
       VisitedOfSocket, VisitOfSocket DEF TheSockets!Next
  <2>3. QED BY <2>1, <2>2
<1>3. SocketInv => WatchersAreTold
  BY DEF SocketInv, OnItsWay, Follows, TheSockets!WatchersAreTold, WatchersAreTold
<1>4. QED BY <1>1, <1>2, <1>3, PTL DEF TheSockets!Spec

-----------------------------------------------------------------------------
(* The tasks of memory-enabled agents.                                     *)

RunShape ==
  [task : Tasks, in : Containers,
   at : {"marking", "working", "completing", "failing", "succeeded", "failed", "lost"}]

HistoryInv ==
  /\ runs \in Seq(RunShape) /\ tasks \in Seq(Tasks)
  /\ status \in [Tasks -> {"none", "pending", "executing", "completed", "failed"}]
  /\ fetched \in [Containers -> SUBSET Tasks]
  /\ TheTasks!StatusIsHistory

(* Coroutines stay in the list; none is marking again, and ends are final. *)
RunsGoOn ==
  \A r \in DOMAIN runs :
    /\ r \in DOMAIN runs' /\ runs'[r].task = runs[r].task
    /\ runs[r].at # "marking" => runs'[r].at # "marking"
    /\ runs[r].at \in {"succeeded", "failed"} => runs'[r].at = runs[r].at

(* What the table newly says is what a coroutine has come to.              *)
SaysWhatIs ==
  \A t \in Tasks :
    \/ status'[t] = status[t] \/ status'[t] = "pending"
    \/ \E r \in DOMAIN runs' :
         /\ runs'[r].task = t
         /\ \/ status'[t] = "executing" /\ runs'[r].at # "marking"
            \/ status'[t] = "completed" /\ runs'[r].at = "succeeded"
            \/ status'[t] = "failed" /\ runs'[r].at = "failed"

LEMMA HistoryGoesOn ==
  ASSUME HistoryInv, RunsGoOn, SaysWhatIs PROVE TheTasks!StatusIsHistory'
<1> SUFFICES ASSUME NEW t \in Tasks
             PROVE  /\ status'[t] = "executing" => \E r \in DOMAIN runs' : runs'[r].task = t /\ runs'[r].at # "marking"
                    /\ status'[t] = "completed" => \E r \in DOMAIN runs' : runs'[r].task = t /\ runs'[r].at = "succeeded"
                    /\ status'[t] = "failed" => \E r \in DOMAIN runs' : runs'[r].task = t /\ runs'[r].at = "failed"
  BY DEF TheTasks!StatusIsHistory
<1>1. CASE status'[t] = status[t]
  <2>1. /\ status[t] = "executing" => \E r \in DOMAIN runs : runs[r].task = t /\ runs[r].at # "marking"
        /\ status[t] = "completed" => \E r \in DOMAIN runs : runs[r].task = t /\ runs[r].at = "succeeded"
        /\ status[t] = "failed" => \E r \in DOMAIN runs : runs[r].task = t /\ runs[r].at = "failed"
    BY DEF HistoryInv, TheTasks!StatusIsHistory
  <2>2. QED BY <1>1, <2>1 DEF RunsGoOn
<1>2. CASE status'[t] = "pending"
  BY <1>2
<1>3. QED BY <1>1, <1>2 DEF SaysWhatIs

LEMMA NothingIsSaid == ASSUME status' = status PROVE SaysWhatIs
  BY DEF SaysWhatIs

(* The end of a container ends its coroutines, but not their history.      *)
LEMMA ContainerOfTasksDies ==
  ASSUME HistoryInv, NEW c, TheTasks!Dies(c), UNCHANGED <<status, tasks>> PROVE HistoryInv'
<1> fetched' \in [Containers -> SUBSET Tasks]
  BY DEF TheTasks!Dies, HistoryInv
<1>1. Len(runs) \in Nat /\ DOMAIN runs = 1..Len(runs) /\ \A r \in DOMAIN runs : runs[r] \in RunShape
  BY DEF HistoryInv
<1>2. /\ DOMAIN runs' = 1..Len(runs)
      /\ \A r \in DOMAIN runs : \/ runs'[r] = runs[r]
                                \/ /\ runs[r].at \in {"marking", "working", "completing", "failing"}
                                   /\ runs'[r] = [runs[r] EXCEPT !.at = "lost"]
  BY <1>1 DEF TheTasks!Dies, TheTasks!Live
<1>3. \A r \in 1..Len(runs) : runs'[r] \in RunShape
  BY <1>1, <1>2 DEF RunShape
<1>4. runs' \in Seq(RunShape)
  <2>1. runs' = [r \in 1..Len(runs) |-> runs'[r]]
    BY <1>1 DEF TheTasks!Dies
  <2>2. QED BY <1>1, <1>3, <2>1
<1>5. RunsGoOn
  BY <1>1, <1>2 DEF RunsGoOn, RunShape
<1>6. SaysWhatIs
  BY NothingIsSaid
<1>7. QED BY <1>4, <1>5, <1>6, HistoryGoesOn DEF HistoryInv

LEMMA SetAsSequence ==
  ASSUME NEW S \in SUBSET Tasks, IsFiniteSet(Tasks) PROVE TheTasks!SetToSeq(S) \in Seq(Tasks)
<1>1. IsFiniteSet(S) /\ Cardinality(S) \in Nat
  BY FS_Subset, FS_CardinalityType
<1>2. \E f \in [1..Cardinality(S) -> S] : TheTasks!IsInjective(f)
  BY <1>1, FS_NatBijection, FS_CardinalityType
  DEF ExistsBijection, Bijection, Injection, IsInjective, TheTasks!IsInjective
<1>3. TheTasks!SetToSeq(S) \in [1..Cardinality(S) -> S]
  <2> DEFINE F == [1..Cardinality(S) -> S]
  <2>1. TheTasks!SetToSeq(S) = CHOOSE f \in F : TheTasks!IsInjective(f)
    <3>1. TheTasks!Cardinality(S) = Cardinality(S)
      BY Zenon DEF TheTasks!Cardinality, Cardinality, TheTasks!IsFiniteSet, IsFiniteSet
    <3>2. QED BY <3>1, Zenon DEF TheTasks!SetToSeq, TheTasks!IsInjective
  <2> HIDE DEF F
  <2>2. \E f \in F : TheTasks!IsInjective(f)
    BY <1>2 DEF F
  <2>3. (CHOOSE f \in F : TheTasks!IsInjective(f)) \in F
    BY <2>2, Zenon
  <2>4. QED BY <2>1, <2>3 DEF F
<1>4. QED BY <1>1, <1>3

LEMMA TasksStart ==
  ASSUME IsFiniteSet(Tasks), HistoryInv, NEW c \in Containers, TheTasks!StartAndReap(c) PROVE HistoryInv'
<1> DEFINE new == TheTasks!SetToSeq(fetched[c])
           begun == [k \in DOMAIN new |-> [task |-> new[k], in |-> c, at |-> "marking"]]
<1>1. new \in Seq(Tasks)
  BY SetAsSequence DEF HistoryInv
<1>2. begun \in Seq(RunShape)
  <2>1. Len(new) \in Nat /\ DOMAIN new = 1..Len(new) /\ \A k \in 1..Len(new) : new[k] \in Tasks
    BY <1>1
  <2> HIDE DEF new
  <2>2. begun \in [1..Len(new) -> RunShape]
    BY <2>1 DEF RunShape
  <2>3. QED BY <2>1, <2>2
<1>3. /\ runs' = runs \o begun /\ UNCHANGED <<tasks, status>>
      /\ fetched' \in [Containers -> SUBSET Tasks]
  BY DEF TheTasks!StartAndReap, TheTasks!rows, HistoryInv
<1> HIDE DEF new, begun
<1>4. runs' \in Seq(RunShape) /\ RunsGoOn
  BY <1>2, <1>3 DEF HistoryInv, RunsGoOn
<1>5. QED BY <1>3, <1>4, NothingIsSaid, HistoryGoesOn DEF HistoryInv

LEMMA CoroutineGoesOn ==
  ASSUME HistoryInv, NEW r \in DOMAIN runs,
         TheTasks!MarkExecuting(r) \/ TheTasks!Work(r) \/ TheTasks!ReportEnd(r)
  PROVE  HistoryInv'
<1> DEFINE t == runs[r].task
<1>1. r \in 1..Len(runs) /\ runs[r] \in RunShape /\ t \in Tasks
  <2>1. DOMAIN runs = 1..Len(runs) /\ \A q \in 1..Len(runs) : runs[q] \in RunShape
    BY DEF HistoryInv
  <2>2. QED BY <2>1 DEF RunShape
<1>2. ASSUME NEW place \in {"working", "completing", "failing", "succeeded", "failed"}, TheTasks!RunGoes(r, place),
             runs[r].at \notin {"succeeded", "failed"}
      PROVE  /\ runs' \in Seq(RunShape) /\ RunsGoOn /\ r \in DOMAIN runs'
             /\ runs'[r].at = place /\ runs'[r].task = t
  <2>1. /\ runs' = [runs EXCEPT ![r] = [runs[r] EXCEPT !.at = place]]
        /\ [runs[r] EXCEPT !.at = place] \in RunShape
    BY <1>1, <1>2 DEF TheTasks!RunGoes, RunShape
  <2>2. runs' \in Seq(RunShape)
    BY <1>1, <2>1 DEF HistoryInv
  <2>3. DOMAIN runs' = DOMAIN runs /\ runs'[r] = [runs[r] EXCEPT !.at = place]
        /\ \A q \in DOMAIN runs \ {r} : runs'[q] = runs[q]
    BY <1>1, <2>1 DEF HistoryInv
  <2>4. runs'[r].at = place /\ runs'[r].task = t
    BY <1>1, <2>3 DEF RunShape
  <2>5. QED BY <1>2, <2>2, <2>3, <2>4 DEF RunsGoOn
<1>3. ASSUME NEW s \in {"executing", "completed", "failed"}, TheTasks!Report(t, s)
      PROVE  /\ status' \in [Tasks -> {"none", "pending", "executing", "completed", "failed"}]
             /\ \A u \in Tasks : status'[u] = status[u] \/ (u = t /\ status'[u] = s)
  BY <1>1, <1>3 DEF TheTasks!Report, HistoryInv
<1>4. tasks' = tasks /\ fetched' = fetched
  BY DEF TheTasks!MarkExecuting, TheTasks!Work, TheTasks!ReportEnd, TheTasks!rows
<1> HIDE DEF t
<1>5. CASE TheTasks!MarkExecuting(r)
  <2>1. TheTasks!RunGoes(r, "working") /\ TheTasks!Report(t, "executing") /\ runs[r].at = "marking"
    BY <1>5 DEF TheTasks!MarkExecuting, t
  <2>2. SaysWhatIs
    BY <1>2, <1>3, <2>1 DEF SaysWhatIs
  <2>3. QED BY <1>2, <1>3, <1>4, <2>1, <2>2, HistoryGoesOn DEF HistoryInv
<1>6. CASE TheTasks!Work(r)
  <2>1. status' = status /\ runs[r].at = "working"
        /\ (TheTasks!RunGoes(r, "completing") \/ TheTasks!RunGoes(r, "failing"))
    BY <1>6 DEF TheTasks!Work, TheTasks!rows
  <2>2. QED BY <1>2, <1>4, <2>1, NothingIsSaid, HistoryGoesOn DEF HistoryInv
<1>7. CASE TheTasks!ReportEnd(r)
  <2>1. \/ runs[r].at = "completing" /\ TheTasks!RunGoes(r, "succeeded") /\ TheTasks!Report(t, "completed")
        \/ runs[r].at = "failing" /\ TheTasks!RunGoes(r, "failed") /\ TheTasks!Report(t, "failed")
    BY <1>7 DEF TheTasks!ReportEnd, t
  <2>2. SaysWhatIs
    BY <1>2, <1>3, <2>1 DEF SaysWhatIs
  <2>3. QED BY <1>2, <1>3, <1>4, <2>1, <2>2, HistoryGoesOn DEF HistoryInv
<1>8. QED BY <1>5, <1>6, <1>7

(* What the table says of a task happened in a container, whichever copies *)
(* of it race for the row, whichever containers die and whichever requests *)
(* fail (_execute_task_with_memory, autonomous_agent_with_memory.py).      *)
THEOREM TableIsHistory ==
  ASSUME IsFiniteSet(Tasks) PROVE TheTasks!Spec => []StatusIsHistory
<1>1. TheTasks!Init => HistoryInv
  BY DEF TheTasks!Init, TheTasks!None, HistoryInv, TheTasks!StatusIsHistory
<1>2. HistoryInv /\ [TheTasks!Next]_(TheTasks!vars) => HistoryInv'
  <2> SUFFICES ASSUME HistoryInv, [TheTasks!Next]_(TheTasks!vars) PROVE HistoryInv'
    OBVIOUS
  <2>1. ASSUME UNCHANGED <<runs, tasks, status>>, fetched' \in [Containers -> SUBSET Tasks] PROVE HistoryInv'
    <3>1. RunsGoOn /\ SaysWhatIs
      BY <2>1 DEF RunsGoOn, SaysWhatIs
    <3>2. QED BY <2>1, <3>1, HistoryGoesOn DEF HistoryInv
  <2> fetched \in [Containers -> SUBSET Tasks]
    BY DEF HistoryInv
  <2>2. CASE UNCHANGED TheTasks!vars
    BY <2>1, <2>2 DEF TheTasks!vars
  <2>3. ASSUME NEW c \in Containers, TheTasks!Deploy(c) \/ TheTasks!Track(c) PROVE HistoryInv'
    BY <2>1, <2>3 DEF TheTasks!Deploy, TheTasks!Track, TheTasks!rows, TheTasks!agent
  <2>9. ASSUME NEW c \in Containers, TheTasks!Poll(c) PROVE HistoryInv'
    <3>1. UNCHANGED <<runs, tasks, status>>
      BY <2>9 DEF TheTasks!Poll, TheTasks!rows
    <3>2. \A n : TheTasks!PendingTasks(n) \subseteq Tasks
      <4>1. \A k \in DOMAIN tasks : tasks[k] \in Tasks
        BY DEF HistoryInv
      <4>2. QED BY <4>1 DEF TheTasks!PendingTasks
    <3>3. fetched' \in [Containers -> SUBSET Tasks]
      BY <2>9, <3>2 DEF TheTasks!Poll
    <3>4. QED BY <2>1, <3>1, <3>3
  <2>4. ASSUME NEW c \in Containers, TheTasks!Crash(c) PROVE HistoryInv'
    BY <2>4, ContainerOfTasksDies DEF TheTasks!Crash, TheTasks!rows
  <2>5. ASSUME NEW s \in Stoppers, TheTasks!Stop(s) \/ TheTasks!Destroy(s) \/ TheTasks!Forget(s)
        PROVE  HistoryInv'
    BY <2>1, <2>5, ContainerOfTasksDies
    DEF TheTasks!Stop, TheTasks!Destroy, TheTasks!Forget, TheTasks!rows, TheTasks!agent
  <2>6. ASSUME NEW t \in Tasks, TheTasks!Assign(t) PROVE HistoryInv'
    BY <2>1, <2>6 DEF TheTasks!Assign, TheTasks!rows, TheTasks!agent
  <2>7. ASSUME NEW t \in Tasks, TheTasks!Insert(t) PROVE HistoryInv'
    <3>1. /\ runs' = runs /\ tasks' \in Seq(Tasks) /\ fetched' = fetched
          /\ status' \in [Tasks -> {"none", "pending", "executing", "completed", "failed"}]
          /\ \A u \in Tasks : status'[u] = status[u] \/ status'[u] = "pending"
      BY <2>7 DEF TheTasks!Insert, TheTasks!agent, HistoryInv
    <3>2. RunsGoOn /\ SaysWhatIs
      BY <3>1 DEF RunsGoOn, SaysWhatIs
    <3>3. QED BY <3>1, <3>2, HistoryGoesOn DEF HistoryInv
  <2>8. QED BY <2>2, <2>3, <2>4, <2>5, <2>6, <2>7, <2>9, TasksStart, CoroutineGoesOn DEF TheTasks!Next
<1>3. HistoryInv => StatusIsHistory
  BY DEF HistoryInv, StatusIsHistory
<1>4. QED BY <1>1, <1>2, <1>3, PTL DEF TheTasks!Spec

-----------------------------------------------------------------------------
(* The deployments of a memory-enabled agent.                              *)

(* Outside those that were disturbed, what runs is being deployed or       *)
(* tracked, a stop is of the container that is tracked, and it forgets the *)
(* entry only when what it stopped is gone.                                *)
DeployedInv ==
  /\ container \in [Containers -> {"none", "up", "gone"}]
  /\ tracked \in Containers \cup {"none"}
  /\ stopping \in [Stoppers -> [at : {"idle", "destroying", "forgetting"}, container : Containers \cup {"none"}]]
  /\ \A c \in Containers : container[c] = "up" => c \in deploying \/ tracked = c \/ c \in disturbed
  /\ \A s \in Stoppers : stopping[s].at # "idle" =>
       tracked = "none" \/ tracked = stopping[s].container \/ tracked \in disturbed
  /\ \A s \in Stoppers : stopping[s].at = "forgetting" =>
       tracked = "none" \/ tracked \in disturbed \/ container[tracked] = "gone"

LEMMA OrchestratorRests ==
  ASSUME DeployedInv, UNCHANGED <<tracked, container, deploying, stopping, disturbed>> PROVE DeployedInv'
  BY DEF DeployedInv

LEMMA ContainerIsTracked ==
  ASSUME "none" \notin Containers, DeployedInv, NEW c \in Containers, TheTasks!Track(c) PROVE DeployedInv'
<1>1. UNCHANGED <<container, stopping>> /\ deploying' = deploying \ {c}
  BY DEF TheTasks!Track
<1>2. CASE tracked' = c /\ disturbed' = disturbed \cup TheTasks!Disturbed(c)
  <2>1. disturbed \subseteq disturbed' /\ (tracked # "none" => tracked \in disturbed')
    BY <1>2 DEF TheTasks!Disturbed, TheTasks!None
  <2>2. \A s \in Stoppers : stopping[s].at # "idle" => c \in disturbed'
    <3>1. \A s \in Stoppers : stopping[s].at # "idle" => stopping[s] # TheTasks!Idle
      BY DEF TheTasks!Idle
    <3>2. \A s \in Stoppers : stopping[s] # TheTasks!Idle => c \in TheTasks!Disturbed(c)
      BY DEF TheTasks!Disturbed
    <3>3. QED BY <1>2, <3>1, <3>2
  <2>3. \A o \in Containers : container'[o] = "up" => o \in deploying' \/ tracked' = o \/ o \in disturbed'
    <3>1. \A o \in Containers : container[o] = "up" => o \in deploying \/ tracked = o \/ o \in disturbed
      BY DEF DeployedInv
    <3>2. QED BY <1>1, <1>2, <2>1, <3>1
  <2>4. \A s \in Stoppers : stopping'[s].at # "idle" => tracked' \in disturbed'
    BY <1>1, <1>2, <2>2
  <2>5. \A s \in Stoppers : stopping'[s].at = "forgetting" => tracked' \in disturbed'
    BY <2>4
  <2>6. QED BY <1>1, <1>2, <2>3, <2>4, <2>5 DEF DeployedInv
<1>3. CASE tracked' = tracked /\ disturbed' = disturbed \cup {c}
  BY <1>1, <1>3 DEF DeployedInv
<1>4. QED BY <1>2, <1>3 DEF TheTasks!Track

LEMMA ContainerIsStopped ==
  ASSUME DeployedInv, NEW s \in Stoppers, TheTasks!Stop(s) \/ TheTasks!Destroy(s) \/ TheTasks!Forget(s)
  PROVE  DeployedInv'
<1>1. CASE TheTasks!Stop(s)
  BY <1>1 DEF TheTasks!Stop, DeployedInv
<1>2. CASE TheTasks!Destroy(s)
  <2> DEFINE c == stopping[s].container
  <2>1. /\ UNCHANGED <<tracked, deploying>> /\ stopping[s].at = "destroying"
        /\ stopping' = [stopping EXCEPT ![s].at = "forgetting"]
    BY <1>2 DEF TheTasks!Destroy
  <2>2. /\ stopping' \in [Stoppers -> [at : {"idle", "destroying", "forgetting"},
                                       container : Containers \cup {"none"}]]
        /\ \A o \in Stoppers : /\ stopping'[o].container = stopping[o].container
                               /\ o # s => stopping'[o] = stopping[o]
    BY <2>1 DEF DeployedInv
  <2>3. CASE container' = [container EXCEPT ![c] = "gone"] /\ disturbed' = disturbed
    BY <2>1, <2>2, <2>3 DEF DeployedInv
  <2>4. CASE container' = container /\ disturbed' = disturbed \cup {c}
    BY <2>1, <2>2, <2>4 DEF DeployedInv
  <2>5. QED BY <1>2, <2>3, <2>4 DEF TheTasks!Destroy, TheTasks!Dies
<1>3. CASE TheTasks!Forget(s)
  BY <1>3 DEF TheTasks!Forget, TheTasks!None, TheTasks!Idle, DeployedInv
<1>4. QED BY <1>1, <1>2, <1>3

(* Whatever is deployed again, stopped while it is being deployed, or      *)
(* fails: when nobody deploys or stops, a container that runs is the one   *)
(* the manager tracks, unless a later one took its entry, it was entered   *)
(* during a stop of another, or a request failed for it                    *)
(* (deploy_memory_enabled_agent, stop_memory_enabled_agent,                *)
(* agent_manager.py).                                                      *)
THEOREM WhatRunsIsTracked ==
  ASSUME "none" \notin Containers PROVE TheTasks!Spec => []UpIsTrackedUnlessMet
<1>1. TheTasks!Init => DeployedInv
  BY DEF TheTasks!Init, TheTasks!None, TheTasks!Idle, DeployedInv
<1>2. DeployedInv /\ [TheTasks!Next]_(TheTasks!vars) => DeployedInv'
  <2> SUFFICES ASSUME DeployedInv, [TheTasks!Next]_(TheTasks!vars) PROVE DeployedInv'
    OBVIOUS
  <2>1. CASE UNCHANGED TheTasks!vars
    BY <2>1, OrchestratorRests DEF TheTasks!vars
  <2>2. ASSUME NEW c \in Containers, TheTasks!Deploy(c) PROVE DeployedInv'
    BY <2>2 DEF TheTasks!Deploy, DeployedInv
  <2>3. ASSUME NEW c \in Containers, TheTasks!Crash(c) PROVE DeployedInv'
    BY <2>3 DEF TheTasks!Crash, TheTasks!Dies, TheTasks!orchestrator, DeployedInv
  <2>4. ASSUME NEW c \in Containers, TheTasks!Poll(c) \/ TheTasks!StartAndReap(c) PROVE DeployedInv'
    BY <2>4, OrchestratorRests DEF TheTasks!Poll, TheTasks!StartAndReap, TheTasks!orchestrator
  <2>5. ASSUME NEW t \in Tasks, TheTasks!Assign(t) \/ TheTasks!Insert(t) PROVE DeployedInv'
    BY <2>5, OrchestratorRests DEF TheTasks!Assign, TheTasks!Insert
  <2>6. ASSUME NEW r \in DOMAIN runs,
               TheTasks!MarkExecuting(r) \/ TheTasks!Work(r) \/ TheTasks!ReportEnd(r)
        PROVE  DeployedInv'
    BY <2>6, OrchestratorRests
    DEF TheTasks!MarkExecuting, TheTasks!Work, TheTasks!ReportEnd, TheTasks!orchestrator
  <2>7. QED BY <2>1, <2>2, <2>3, <2>4, <2>5, <2>6, ContainerIsTracked, ContainerIsStopped DEF TheTasks!Next
<1>3. DeployedInv => UpIsTrackedUnlessMet
  BY DEF DeployedInv, UpIsTrackedUnlessMet, TheTasks!UpIsTrackedUnlessMet, TheTasks!Quiet, TheTasks!Idle
<1>4. QED BY <1>1, <1>2, <1>3, PTL DEF TheTasks!Spec

-----------------------------------------------------------------------------
(* The documents of the brains.                                            *)

(* A deleted brain has no row unless one was inserted anew.                *)
RemovedHasNoRow == \A b \in removed \ again : row[b] = NoBrain

(* A call that deletes documents has deleted the row.                      *)
RowGoesFirst ==
  \A c \in Calls : kind[c] = "delete" /\ at[c] = "finishing" => on[c] \in removed

(* A document that is about to be counted is stored, or its brain is gone. *)
StoredOrRemoved ==
  \A c \in Calls :
    kind[c] = "add" /\ at[c] = "finishing" => c \in docs[on[c]] \/ on[c] \in removed

(* An update writes what it has found.                                     *)
FoundToUpdate ==
  \A c \in Calls : kind[c] = "update" /\ at[c] = "finishing" => seen[c] # NoBrain

(* A brain that has no row, and never lost one, is known with no more than *)
(* what it was given.                                                      *)
GivenAtFirst ==
  \A b \in Brains \ removed : row[b] = NoBrain =>
    kept[b] \subseteq Given /\ \A c \in Calls : on[c] = b => read[c] \subseteq Given

BrainInv ==
  /\ BrainTypes /\ RemovedHasNoRow /\ RowGoesFirst /\ StoredOrRemoved
  /\ FoundToUpdate /\ GivenAtFirst /\ CountedIsStored

-----------------------------------------------------------------------------
LEMMA InitBrains ==
  ASSUME BrainAssumption, Init PROVE BrainInv
<1>1. /\ row \in [Brains -> Values] /\ memory \in [Brains -> Values] /\ seen \in [Calls -> Values]
      /\ kept \in [Brains -> SUBSET Claims] /\ read \in [Calls -> SUBSET Claims]
  BY DEF Init, Defaults, Claimed, Claims, Values
<1>2. next \in [Calls -> 1..Chunks + 1]
  <2>1. 1 \in 1..Chunks + 1
    BY DEF BrainAssumption
  <2>2. QED BY <2>1 DEF Init
<1>3. /\ docs \in [Brains -> SUBSET Calls] /\ counted \in [Brains -> SUBSET Claims]
      /\ chunks \in [Brains -> SUBSET (1..Chunks)] /\ vectors \in [Brains -> Nat]
      /\ empty \in [Calls -> BOOLEAN]
  BY DEF Init
<1>4. BrainTypes
  BY <1>1, <1>2, <1>3 DEF Init, BrainTypes
<1>5. /\ RemovedHasNoRow /\ RowGoesFirst /\ StoredOrRemoved
      /\ FoundToUpdate /\ GivenAtFirst /\ CountedIsStored
  BY DEF Init, Claimed, RemovedHasNoRow, RowGoesFirst, StoredOrRemoved, FoundToUpdate, GivenAtFirst, CountedIsStored
<1>6. QED BY <1>4, <1>5 DEF BrainInv

(* What a call that goes on leaves of the others.                          *)
LEMMA OnlyOneGoes ==
  ASSUME BrainTypes, NEW c \in Calls,
         NEW place \in {"new", "checking", "seeding", "working", "finishing", "keeping", "done"},
         Go(c, place)
  PROVE  /\ at'[c] = place /\ \A d \in Calls \ {c} : at'[d] = at[d]
         /\ at' \in [Calls -> {"new", "checking", "seeding", "working", "finishing", "keeping", "done"}]
  BY DEF Go, BrainTypes

(* What is kept and what is read was kept or read before, was given, or    *)
(* comes from a row.                                                       *)
NothingMade ==
  /\ \A b \in Brains : \/ kept'[b] = kept[b] \/ kept'[b] \subseteq Given
                       \/ \E c \in Calls : on[c] = b /\ kept'[b] = read[c]
  /\ \A c \in Calls : \/ read'[c] = read[c] \/ read'[c] \subseteq Given
                      \/ read'[c] = kept[on[c]] \/ row[on[c]] # NoBrain

(* An update that comes to its write has found something.                  *)
NothingEmpty ==
  \A c \in Calls : kind[c] = "update" /\ at'[c] = "finishing" =>
    seen'[c] # NoBrain \/ (at[c] = "finishing" /\ seen'[c] = seen[c])

LEMMA FoundStays ==
  ASSUME BrainInv, NothingEmpty, kind' = kind PROVE FoundToUpdate'
  BY DEF BrainInv, NothingEmpty, FoundToUpdate

LEMMA GivenStays ==
  ASSUME BrainInv, NothingMade, on' = on, removed \subseteq removed',
         \A b \in Brains \ removed' : row'[b] = NoBrain => row[b] = NoBrain
  PROVE  GivenAtFirst'
<1> SUFFICES ASSUME NEW b \in Brains \ removed', row'[b] = NoBrain
             PROVE  kept'[b] \subseteq Given /\ \A c \in Calls : on[c] = b => read'[c] \subseteq Given
  BY DEF GivenAtFirst
<1>1. /\ row[b] = NoBrain /\ kept[b] \subseteq Given
      /\ \A c \in Calls : on[c] = b => read[c] \subseteq Given
  BY DEF BrainInv, GivenAtFirst
<1>2. QED BY <1>1 DEF NothingMade

(* A step that writes neither rows nor documents, nor takes an addition or *)
(* a deletion to its second statement.                                     *)
LEMMA Elsewhere ==
  ASSUME BrainInv, BrainTypes', NothingMade, NothingEmpty,
         UNCHANGED <<row, docs, counted, kind, on, removed, again>>,
         \A c \in Calls : at'[c] = "finishing" /\ kind[c] \in {"add", "delete"} => at[c] = "finishing"
  PROVE  BrainInv'
<1>1. GivenAtFirst' /\ FoundToUpdate'
  BY GivenStays, FoundStays
<1>2. QED BY <1>1 DEF BrainInv, RemovedHasNoRow, RowGoesFirst, StoredOrRemoved, CountedIsStored

LEMMA BeginBrains ==
  ASSUME BrainInv, NEW c \in Calls, Begin(c) PROVE BrainInv'
<1>1. Ensured \in {"working", "checking"}
  BY DEF Ensured
<1>2. Go(c, Ensured) /\ UNCHANGED <<tables, cache, ready, kind, on, found, empty, next, faults, history>>
  BY DEF Begin
<1>3. BrainTypes'
  BY <1>1, <1>2, OnlyOneGoes DEF BrainInv, BrainTypes, tables, cache, found, history
<1>4. \A d \in Calls : at'[d] = "finishing" => at[d] = "finishing"
  BY <1>1, <1>2, OnlyOneGoes DEF BrainInv
<1>5. QED BY <1>2, <1>3, <1>4, Elsewhere DEF NothingMade, NothingEmpty, tables, cache, found, history

LEMMA CheckBrains ==
  ASSUME BrainInv, NEW c \in Calls, Check(c) PROVE BrainInv'
<1>1. /\ Go(c, "seeding") /\ UNCHANGED <<tables, cache, ready, kind, on, found, next, faults, history>>
      /\ empty' \in [Calls -> BOOLEAN]
  BY DEF Check, BrainInv, BrainTypes
<1>2. BrainTypes'
  BY <1>1, OnlyOneGoes DEF BrainInv, BrainTypes, tables, cache, found, history
<1>3. \A d \in Calls : at'[d] = "finishing" => at[d] = "finishing"
  BY <1>1, OnlyOneGoes DEF BrainInv
<1>4. QED BY <1>1, <1>2, <1>3, Elsewhere DEF NothingMade, NothingEmpty, tables, cache, found, history

(* Rows that are inserted count what was given, or take the place of some  *)
(* that were deleted.                                                      *)
LEMMA InsertBrains ==
  ASSUME BrainInv, NEW c \in Calls, NEW place \in {"working", "keeping"}, Go(c, place),
         NEW brains \in SUBSET Brains, NEW counts \in [Brains -> SUBSET Claims], Insert(brains, counts),
         \A b \in brains : row[b] = NoBrain /\ (b \notin removed => counts[b] \subseteq Given),
         row' \in [Brains -> Values],
         \A b \in Brains \ brains : row[b] = NoBrain => row'[b] = NoBrain,
         seen' \in [Calls -> Values], read' \in [Calls -> SUBSET Claims], ready' \in BOOLEAN,
         NothingMade, NothingEmpty, \A b \in Brains : row[b] # NoBrain => row'[b] # NoBrain,
         UNCHANGED <<docs, chunks, cache, kind, on, empty, next, faults, removed, deleted, restarts>>
  PROVE  BrainInv'
<1>1. /\ \A b \in brains : counted'[b] = counts[b]
      /\ \A b \in Brains \ brains : counted'[b] = counted[b]
      /\ counted' \in [Brains -> SUBSET Claims] /\ vectors' \in [Brains -> Nat]
      /\ again' = again \cup (brains \cap removed)
  BY DEF Insert, BrainInv, BrainTypes
<1>2. BrainTypes'
  <2>1. again' \subseteq removed'
    BY <1>1 DEF BrainInv, BrainTypes
  <2>2. QED BY <1>1, <2>1, OnlyOneGoes DEF BrainInv, BrainTypes, cache
<1>3. RemovedHasNoRow'
  BY <1>1 DEF BrainInv, BrainTypes, RemovedHasNoRow
<1>4. RowGoesFirst' /\ StoredOrRemoved'
  BY OnlyOneGoes DEF BrainInv, RowGoesFirst, StoredOrRemoved
<1>5. CountedIsStored'
  <2> SUFFICES ASSUME NEW b \in Brains \ again', row'[b] # NoBrain
               PROVE  counted'[b] \subseteq docs[b] \cup Given
    BY DEF CountedIsStored
  <2>1. CASE b \in brains
    BY <2>1, <1>1
  <2>2. CASE b \notin brains
    BY <2>2, <1>1 DEF BrainInv, CountedIsStored
  <2>3. QED BY <2>1, <2>2
<1>6. GivenAtFirst' /\ FoundToUpdate'
  BY GivenStays, FoundStays
<1>7. QED BY <1>2, <1>3, <1>4, <1>5, <1>6 DEF BrainInv

LEMMA SeedBrains ==
  ASSUME BrainInv, NEW c \in Calls, Seed(c) PROVE BrainInv'
<1> DEFINE seeds == {b \in Brains : empty[c] /\ row[b] = NoBrain /\ memory[b] # NoBrain}
<1>1. /\ Go(c, "working") /\ ready' = TRUE /\ Insert(seeds, kept)
      /\ row' = [b \in Brains |-> IF b \in seeds THEN memory[b] ELSE row[b]]
      /\ UNCHANGED <<docs, chunks, cache, kind, on, found, empty, next, faults, removed, deleted, restarts>>
  BY DEF Seed
<1>2. seeds \in SUBSET Brains /\ \A b \in seeds : row[b] = NoBrain
  OBVIOUS
<1> HIDE DEF seeds
<1>3. /\ row' \in [Brains -> Values] /\ \A b \in Brains \ seeds : row'[b] = row[b]
      /\ \A b \in Brains : row[b] # NoBrain => row'[b] # NoBrain
  BY <1>1, <1>2 DEF BrainInv, BrainTypes
<1>4. /\ seen' \in [Calls -> Values] /\ read' \in [Calls -> SUBSET Claims]
      /\ kept \in [Brains -> SUBSET Claims] /\ NothingMade
  BY <1>1 DEF BrainInv, BrainTypes, NothingMade, cache, found
<1>5. \A b \in seeds : row[b] = NoBrain /\ (b \notin removed => kept[b] \subseteq Given)
  BY <1>2 DEF BrainInv, GivenAtFirst
<1>6. NothingEmpty
  BY <1>1, OnlyOneGoes DEF BrainInv, NothingEmpty, found
<1>7. QED BY <1>1, <1>2, <1>3, <1>4, <1>5, <1>6, InsertBrains

LEMMA CreateBrains ==
  ASSUME BrainAssumption, BrainInv, NEW c \in Calls, Create(c) PROVE BrainInv'
<1> DEFINE brains == IF row[on[c]] = NoBrain THEN {on[c]} ELSE {}
<1>1. PICK count \in SUBSET Given :
        Finds(c, {c}, count) /\ Insert(brains, [b \in Brains |-> count])
  BY DEF Create
<1>2. /\ Go(c, "keeping") /\ row' = [row EXCEPT ![on[c]] = {c}]
      /\ UNCHANGED <<docs, chunks, cache, ready, kind, on, empty, next, faults, removed, deleted, restarts>>
  BY DEF Create
<1>3. on[c] \in Brains
  BY DEF BrainInv, BrainTypes
<1>4. brains \in SUBSET Brains /\ \A b \in brains : row[b] = NoBrain
  BY <1>3
<1>5. \A b \in Brains \ brains : row[b] = NoBrain => row'[b] = NoBrain
  BY <1>2 DEF BrainInv, BrainTypes
<1> HIDE DEF brains
<1>6. [b \in Brains |-> count] \in [Brains -> SUBSET Claims]
  BY DEF Claims
<1>7. /\ row' \in [Brains -> Values] /\ seen' \in [Calls -> Values] /\ ready' \in BOOLEAN
      /\ read' \in [Calls -> SUBSET Claims] /\ NothingMade
  BY <1>1, <1>2 DEF BrainInv, BrainTypes, Values, Finds, Claims, NothingMade, cache
<1>8. \A b \in Brains : row[b] # NoBrain => row'[b] # NoBrain
  <2>1. {c} # NoBrain
    BY DEF BrainAssumption
  <2>2. QED BY <1>2, <2>1 DEF BrainInv, BrainTypes
<1>9. NothingEmpty
  BY <1>1, <1>2, OnlyOneGoes DEF BrainInv, BrainTypes, Finds, NothingEmpty
<1>10. /\ brains \in SUBSET Brains
       /\ \A b \in brains : row[b] = NoBrain /\ (b \notin removed => [d \in Brains |-> count][b] \subseteq Given)
  BY <1>4
<1>11. QED BY <1>1, <1>2, <1>5, <1>6, <1>7, <1>8, <1>9, <1>10, InsertBrains

(* What a call may find in memory.                                         *)
LEMMA FoundInMemory ==
  ASSUME BrainAssumption, BrainInv, NEW c \in Calls, FindsInMemory(c), UNCHANGED <<kept, on>>
  PROVE  /\ Go(c, "finishing") \/ Go(c, "done")
         /\ seen' \in [Calls -> Values] /\ read' \in [Calls -> SUBSET Claims] /\ NothingMade /\ NothingEmpty
<1>1. /\ on[c] \in Brains /\ memory[on[c]] \in Values /\ kept[on[c]] \in SUBSET Claims
      /\ seen \in [Calls -> Values] /\ read \in [Calls -> SUBSET Claims]
  BY DEF BrainInv, BrainTypes
<1>2. CASE memory[on[c]] # NoBrain
  <2>1. Finds(c, memory[on[c]] \cup {c}, kept[on[c]]) /\ Go(c, "finishing")
    BY <1>2 DEF FindsInMemory
  <2>2. memory[on[c]] \cup {c} \in Values \ {NoBrain}
    BY <1>1, <1>2 DEF Values, BrainAssumption
  <2>3. NothingEmpty
    BY <1>1, <2>1, <2>2, OnlyOneGoes DEF BrainInv, Finds, NothingEmpty
  <2>4. QED BY <1>1, <2>1, <2>2, <2>3 DEF Finds, NothingMade
<1>3. CASE memory[on[c]] = NoBrain
  <2>1. Go(c, "done") /\ UNCHANGED <<seen, read>>
    BY <1>3 DEF FindsInMemory, found
  <2>2. NothingEmpty
    BY <2>1, OnlyOneGoes DEF BrainInv, NothingEmpty
  <2>3. QED BY <1>1, <2>1, <2>2 DEF NothingMade
<1>4. QED BY <1>2, <1>3

LEMMA ReadForUpdateBrains ==
  ASSUME BrainAssumption, BrainInv, NEW c \in Calls, ReadForUpdate(c) PROVE BrainInv'
<1>1. kind[c] = "update" /\ UNCHANGED <<tables, cache, ready, kind, on, empty, next, faults, history>>
  BY DEF ReadForUpdate, Works
<1>2. /\ Go(c, "finishing") \/ Go(c, "done")
      /\ seen' \in [Calls -> Values] /\ read' \in [Calls -> SUBSET Claims] /\ NothingMade /\ NothingEmpty
  <2>1. CASE row[on[c]] # NoBrain
    <3>1. Finds(c, row[on[c]] \cup {c}, counted[on[c]]) /\ Go(c, "finishing")
      BY <2>1 DEF ReadForUpdate
    <3>2. /\ row[on[c]] \cup {c} \in Values \ {NoBrain} /\ counted[on[c]] \in SUBSET Claims
          /\ seen \in [Calls -> Values] /\ read \in [Calls -> SUBSET Claims]
      BY <2>1 DEF BrainInv, BrainTypes, Values, BrainAssumption
    <3>3. NothingEmpty
      BY <3>1, <3>2, OnlyOneGoes DEF BrainInv, Finds, NothingEmpty
    <3>4. QED BY <1>1, <2>1, <3>1, <3>2, <3>3 DEF Finds, NothingMade, cache
  <2>2. CASE row[on[c]] = NoBrain
    BY <1>1, <2>2, FoundInMemory DEF ReadForUpdate, cache
  <2>3. QED BY <2>1, <2>2
<1>3. BrainTypes'
  BY <1>1, <1>2, OnlyOneGoes DEF BrainInv, BrainTypes, tables, cache, history
<1>4. \A d \in Calls : at'[d] = "finishing" /\ kind[d] \in {"add", "delete"} => at[d] = "finishing"
  BY <1>1, <1>2, OnlyOneGoes DEF BrainInv
<1>5. QED BY <1>1, <1>2, <1>3, <1>4, Elsewhere DEF tables, history

LEMMA WriteUpdateBrains ==
  ASSUME BrainInv, NEW c \in Calls, WriteUpdate(c) PROVE BrainInv'
<1>1. /\ Go(c, "keeping") /\ row' = [row EXCEPT ![on[c]] = IF @ = NoBrain THEN NoBrain ELSE seen[c]]
      /\ kind[c] = "update" /\ at[c] = "finishing"
      /\ UNCHANGED <<docs, counted, chunks, vectors, cache, ready, kind, on, found, empty, next, faults, history>>
  BY DEF WriteUpdate
<1>2. row' \in [Brains -> Values] /\ \A b \in Brains : row[b] = NoBrain => row'[b] = NoBrain
  BY <1>1 DEF BrainInv, BrainTypes
<1>3. BrainTypes'
  BY <1>1, <1>2, OnlyOneGoes DEF BrainInv, BrainTypes, cache, found, history
<1>4. RemovedHasNoRow' /\ CountedIsStored'
  BY <1>1, <1>2 DEF BrainInv, BrainTypes, RemovedHasNoRow, CountedIsStored, history
<1>5. RowGoesFirst' /\ StoredOrRemoved'
  BY <1>1, OnlyOneGoes DEF BrainInv, RowGoesFirst, StoredOrRemoved, history
<1>6. GivenAtFirst'
  <2>1. \A b \in Brains : row'[b] = NoBrain => row[b] = NoBrain
    BY <1>1 DEF BrainInv, BrainTypes, FoundToUpdate
  <2>2. QED BY <1>1, <2>1, GivenStays DEF NothingMade, cache, found, history
<1>7. FoundToUpdate'
  BY <1>1, OnlyOneGoes, FoundStays DEF BrainInv, BrainTypes, NothingEmpty, found, history
<1>8. QED BY <1>3, <1>4, <1>5, <1>6, <1>7 DEF BrainInv

LEMMA KeepBrains ==
  ASSUME BrainInv, NEW c \in Calls, Keep(c) PROVE BrainInv'
<1>1. /\ Go(c, "done") /\ memory' = [memory EXCEPT ![on[c]] = seen[c]]
      /\ kept' = [kept EXCEPT ![on[c]] = read[c]]
      /\ deleted' \in {deleted, deleted \ {on[c]}}
      /\ UNCHANGED <<tables, ready, kind, on, found, empty, next, faults, removed, again, restarts>>
  BY DEF Keep
<1>2. BrainTypes'
  BY <1>1, OnlyOneGoes DEF BrainInv, BrainTypes, tables, cache, found
<1>3. \A d \in Calls : at'[d] = "finishing" => at[d] = "finishing"
  BY <1>1, OnlyOneGoes DEF BrainInv
<1>4. NothingMade /\ NothingEmpty
  BY <1>1, <1>3 DEF BrainInv, BrainTypes, NothingMade, NothingEmpty, found
<1>5. QED BY <1>1, <1>2, <1>3, <1>4, Elsewhere DEF tables

LEMMA DeleteRowBrains ==
  ASSUME BrainInv, NEW c \in Calls, DeleteRow(c) PROVE BrainInv'
<1>1. /\ Go(c, "finishing") /\ row' = [row EXCEPT ![on[c]] = NoBrain] /\ removed' = removed \cup {on[c]}
      /\ seen' = [seen EXCEPT ![c] = row[on[c]]] /\ kind[c] = "delete"
      /\ UNCHANGED <<read, docs, counted, vectors, chunks, cache, ready, kind, on, empty, next, faults, again, deleted, restarts>>
  BY DEF DeleteRow, Works
<1>2. on[c] \in Brains /\ row'[on[c]] = NoBrain /\ \A b \in Brains \ {on[c]} : row'[b] = row[b]
  BY <1>1 DEF BrainInv, BrainTypes
<1>3. BrainTypes'
  <2>1. row' \in [Brains -> Values] /\ seen' \in [Calls -> Values]
    BY <1>1 DEF BrainInv, BrainTypes, Values
  <2>2. removed' \subseteq Brains /\ again' \subseteq removed'
    BY <1>1, <1>2 DEF BrainInv, BrainTypes
  <2>3. QED BY <1>1, <2>1, <2>2, OnlyOneGoes DEF BrainInv, BrainTypes, cache
<1>4. RemovedHasNoRow' /\ CountedIsStored'
  BY <1>1, <1>2 DEF BrainInv, BrainTypes, RemovedHasNoRow, CountedIsStored
<1>5. RowGoesFirst' /\ StoredOrRemoved'
  BY <1>1, OnlyOneGoes DEF BrainInv, RowGoesFirst, StoredOrRemoved
<1>6. GivenAtFirst'
  BY <1>1, <1>2, GivenStays DEF BrainInv, BrainTypes, NothingMade, cache
<1>7. FoundToUpdate'
  BY <1>1, OnlyOneGoes, FoundStays DEF BrainInv, BrainTypes, NothingEmpty, found, history
<1>8. QED BY <1>3, <1>4, <1>5, <1>6, <1>7 DEF BrainInv

(* The documents go when the row has gone: no row is left that counts them.*)
LEMMA DeleteDocsBrains ==
  ASSUME BrainInv, NEW c \in Calls, DeleteDocs(c) PROVE BrainInv'
<1>1. /\ Go(c, "keeping") /\ docs' = [docs EXCEPT ![on[c]] = {}]
      /\ at[c] = "finishing" /\ kind[c] = "delete"
      /\ UNCHANGED <<row, counted, chunks, vectors, cache, ready, kind, on, found, empty, next, faults, history>>
  BY DEF DeleteDocs
<1>2. on[c] \in removed
  BY <1>1 DEF BrainInv, RowGoesFirst
<1>3. /\ docs' \in [Brains -> SUBSET Calls]
      /\ \A b \in Brains \ {on[c]} : docs'[b] = docs[b]
  BY <1>1 DEF BrainInv, BrainTypes
<1>4. BrainTypes'
  BY <1>1, <1>3, OnlyOneGoes DEF BrainInv, BrainTypes, cache, found, history
<1>5. RemovedHasNoRow' /\ CountedIsStored'
  BY <1>1, <1>2, <1>3 DEF BrainInv, RemovedHasNoRow, CountedIsStored, history
<1>6. RowGoesFirst' /\ StoredOrRemoved'
  BY <1>1, <1>2, <1>3, OnlyOneGoes DEF BrainInv, BrainTypes, RowGoesFirst, StoredOrRemoved, history
<1>7. GivenAtFirst'
  BY <1>1, GivenStays DEF NothingMade, cache, found, history
<1>8. FoundToUpdate'
  BY <1>1, OnlyOneGoes, FoundStays DEF BrainInv, BrainTypes, NothingEmpty, found, history
<1>9. QED BY <1>4, <1>5, <1>6, <1>7, <1>8 DEF BrainInv

LEMMA ForgetBrains ==
  ASSUME BrainInv, NEW c \in Calls, Forget(c) PROVE BrainInv'
<1>1. /\ Go(c, "done") /\ memory' = [memory EXCEPT ![on[c]] = NoBrain]
      /\ deleted' \in {deleted, deleted \cup {on[c]}}
      /\ UNCHANGED <<kept, tables, ready, kind, on, found, empty, next, faults, removed, again, restarts>>
  BY DEF Forget
<1>2. on[c] \in Brains /\ memory' \in [Brains -> Values]
  BY <1>1 DEF BrainInv, BrainTypes, Values
<1>3. BrainTypes'
  BY <1>1, <1>2, OnlyOneGoes DEF BrainInv, BrainTypes, tables, cache, found
<1>4. \A d \in Calls : at'[d] = "finishing" => at[d] = "finishing"
  BY <1>1, OnlyOneGoes DEF BrainInv
<1>5. QED BY <1>1, <1>3, <1>4, Elsewhere DEF NothingMade, NothingEmpty, tables, found

LEMMA InsertDocumentBrains ==
  ASSUME BrainInv, NEW c \in Calls, InsertDocument(c) PROVE BrainInv'
<1>1. /\ Go(c, "finishing") /\ docs' = [docs EXCEPT ![on[c]] = @ \cup {c}] /\ kind[c] = "add"
      /\ UNCHANGED <<row, counted, chunks, vectors, cache, ready, kind, on, found, empty, next, faults, history>>
  BY DEF InsertDocument, Works
<1>2. /\ docs' \in [Brains -> SUBSET Calls] /\ on[c] \in Brains /\ c \in docs'[on[c]]
      /\ \A b \in Brains : docs[b] \subseteq docs'[b]
  BY <1>1 DEF BrainInv, BrainTypes
<1>3. BrainTypes'
  BY <1>1, <1>2, OnlyOneGoes DEF BrainInv, BrainTypes, cache, found, history
<1>4. RemovedHasNoRow' /\ CountedIsStored'
  BY <1>1, <1>2 DEF BrainInv, RemovedHasNoRow, CountedIsStored, history
<1>5. RowGoesFirst' /\ StoredOrRemoved'
  BY <1>1, <1>2, OnlyOneGoes DEF BrainInv, BrainTypes, RowGoesFirst, StoredOrRemoved, history
<1>6. GivenAtFirst'
  BY <1>1, GivenStays DEF NothingMade, cache, found, history
<1>7. FoundToUpdate'
  BY <1>1, OnlyOneGoes, FoundStays DEF BrainInv, BrainTypes, NothingEmpty, found, history
<1>8. QED BY <1>3, <1>4, <1>5, <1>6, <1>7 DEF BrainInv

(* A document is counted in a row that is there: it was not deleted, or    *)
(* inserted anew since.                                                    *)
LEMMA CountDocumentBrains ==
  ASSUME BrainInv, NEW c \in Calls, CountDocument(c) PROVE BrainInv'
<1>1. /\ Go(c, "done") /\ at[c] = "finishing" /\ kind[c] = "add"
      /\ counted' = [counted EXCEPT ![on[c]] = IF row[on[c]] = NoBrain THEN @ ELSE @ \cup {c}]
      /\ UNCHANGED <<row, docs, chunks, vectors, cache, ready, kind, on, found, empty, next, faults, history>>
  BY DEF CountDocument, Count
<1>2. /\ counted' \in [Brains -> SUBSET Claims]
      /\ \A b \in Brains : counted'[b] # counted[b] =>
           b = on[c] /\ row[b] # NoBrain /\ counted'[b] = counted[b] \cup {c}
  BY <1>1 DEF BrainInv, BrainTypes, Claims
<1>3. BrainTypes'
  BY <1>1, <1>2, OnlyOneGoes DEF BrainInv, BrainTypes, cache, found, history
<1>4. CountedIsStored'
  <2> SUFFICES ASSUME NEW b \in Brains \ again, row[b] # NoBrain PROVE counted'[b] \subseteq docs[b] \cup Given
    BY <1>1 DEF CountedIsStored, history
  <2>1. counted[b] \subseteq docs[b] \cup Given /\ b \notin removed
    BY DEF BrainInv, CountedIsStored, RemovedHasNoRow
  <2>2. b = on[c] => c \in docs[b]
    BY <1>1, <2>1 DEF BrainInv, StoredOrRemoved
  <2>3. QED BY <1>2, <2>1, <2>2
<1>5. RemovedHasNoRow' /\ RowGoesFirst' /\ StoredOrRemoved'
  BY <1>1, OnlyOneGoes DEF BrainInv, RemovedHasNoRow, RowGoesFirst, StoredOrRemoved, history
<1>6. GivenAtFirst'
  BY <1>1, GivenStays DEF NothingMade, cache, found, history
<1>7. FoundToUpdate'
  BY <1>1, OnlyOneGoes, FoundStays DEF BrainInv, BrainTypes, NothingEmpty, found, history
<1>8. QED BY <1>3, <1>4, <1>5, <1>6, <1>7 DEF BrainInv

LEMMA UpsertChunkBrains ==
  ASSUME BrainAssumption, BrainInv, NEW c \in Calls, UpsertChunk(c) PROVE BrainInv'
<1>1. /\ next[c] <= Chunks /\ chunks' = [chunks EXCEPT ![on[c]] = @ \cup {next[c]}]
      /\ next' = [next EXCEPT ![c] = @ + 1]
      /\ UNCHANGED <<row, docs, counted, vectors, cache, ready, at, kind, on, found, empty, faults, history>>
  BY DEF UpsertChunk
<1>2. next[c] \in 1..Chunks /\ next[c] + 1 \in 1..Chunks + 1
  BY <1>1 DEF BrainInv, BrainTypes, BrainAssumption
<1>3. chunks' \in [Brains -> SUBSET (1..Chunks)] /\ next' \in [Calls -> 1..Chunks + 1]
  BY <1>1, <1>2 DEF BrainInv, BrainTypes
<1>4. BrainTypes'
  BY <1>1, <1>3 DEF BrainInv, BrainTypes, cache, found, history
<1>5. QED BY <1>1, <1>4, Elsewhere DEF NothingMade, NothingEmpty, cache, found, history

LEMMA CountChunksBrains ==
  ASSUME BrainAssumption, BrainInv, NEW c \in Calls, CountChunks(c) PROVE BrainInv'
<1>1. /\ Go(c, "done") /\ vectors' = [vectors EXCEPT ![on[c]] = IF row[on[c]] = NoBrain THEN @ ELSE @ + Chunks]
      /\ UNCHANGED <<row, docs, counted, chunks, cache, ready, kind, on, found, empty, next, faults, history>>
  BY DEF CountChunks
<1>2. vectors' \in [Brains -> Nat]
  <2>1. \A b \in Brains : vectors[b] \in Nat /\ vectors[b] + Chunks \in Nat
    BY DEF BrainInv, BrainTypes, BrainAssumption
  <2>2. QED BY <1>1, <2>1 DEF BrainInv, BrainTypes
<1>3. BrainTypes'
  BY <1>1, <1>2, OnlyOneGoes DEF BrainInv, BrainTypes, cache, found, history
<1>4. \A d \in Calls : at'[d] = "finishing" => at[d] = "finishing"
  BY <1>1, OnlyOneGoes DEF BrainInv
<1>5. QED BY <1>1, <1>3, <1>4, Elsewhere DEF NothingMade, NothingEmpty, cache, found, history

LEMMA RaiseBrains ==
  ASSUME BrainAssumption, BrainInv, NEW c \in Calls, Raise(c) PROVE BrainInv'
<1>1. UNCHANGED <<tables, cache, ready, kind, on, empty, next, history>>
  BY DEF Raise
<1>2. /\ Go(c, "done") \/ Go(c, "keeping") \/ (kind[c] = "update" /\ Go(c, "finishing"))
      /\ seen' \in [Calls -> Values] /\ read' \in [Calls -> SUBSET Claims] /\ NothingMade /\ NothingEmpty
  <2>1. seen \in [Calls -> Values] /\ read \in [Calls -> SUBSET Claims]
    BY DEF BrainInv, BrainTypes
  <2>2. CASE (Go(c, "done") \/ Go(c, "keeping")) /\ UNCHANGED found
    BY <1>1, <2>1, <2>2, OnlyOneGoes DEF BrainInv, NothingMade, NothingEmpty, cache, found
  <2>3. CASE kind[c] = "update" /\ FindsInMemory(c)
    BY <1>1, <2>3, FoundInMemory DEF cache
  <2>4. ASSUME NEW count \in SUBSET Given, Go(c, "keeping"), Finds(c, {c}, count)
        PROVE  <1>2
    <3>1. NothingEmpty
      BY <2>4, OnlyOneGoes DEF BrainInv, NothingEmpty, Finds, BrainTypes
    <3>2. QED BY <1>1, <2>1, <2>4, <3>1 DEF Finds, NothingMade, Values, Claims, cache
  <2>5. QED BY <2>2, <2>3, <2>4 DEF Raise
<1>3. /\ at' \in [Calls -> {"new", "checking", "seeding", "working", "finishing", "keeping", "done"}]
      /\ \A d \in Calls : at'[d] = "finishing" /\ kind[d] \in {"add", "delete"} => at[d] = "finishing"
  BY <1>1, <1>2, OnlyOneGoes DEF BrainInv
<1>4. BrainTypes'
  BY <1>1, <1>2, <1>3 DEF BrainInv, BrainTypes, tables, cache, history
<1>5. QED BY <1>1, <1>2, <1>3, <1>4, Elsewhere DEF tables, history

LEMMA RestartBrains ==
  ASSUME BrainAssumption, BrainInv, Restart PROVE BrainInv'
<1>1. /\ memory' = Defaults /\ kept' = Claimed /\ ready' = FALSE
      /\ at' = [c \in Calls |-> IF at[c] = "new" THEN "new" ELSE "done"]
      /\ UNCHANGED <<tables, kind, on, found, empty, next, faults, removed, again, deleted>>
  BY DEF Restart
<1>2. /\ memory' \in [Brains -> Values] /\ kept' \in [Brains -> SUBSET Claims]
      /\ \A b \in Brains : kept'[b] \subseteq Given
  BY <1>1 DEF Defaults, Claimed, Claims, Values
<1>3. BrainTypes'
  BY <1>1, <1>2 DEF BrainInv, BrainTypes, tables, found
<1>4. NothingMade /\ NothingEmpty
  BY <1>1, <1>2 DEF BrainInv, BrainTypes, NothingMade, NothingEmpty, found
<1>5. QED BY <1>1, <1>3, <1>4, Elsewhere DEF tables

LEMMA BrainStep ==
  ASSUME BrainAssumption, BrainInv, [Next]_vars PROVE BrainInv'
<1>1. CASE UNCHANGED vars
  <2>1. BrainTypes'
    BY <1>1 DEF vars, tables, cache, found, history, BrainInv, BrainTypes
  <2>2. QED BY <1>1, <2>1, Elsewhere DEF NothingMade, NothingEmpty, vars, tables, cache, found, history
<1>2. CASE Restart
  BY <1>2, RestartBrains
<1>3. ASSUME NEW c \in Calls, Begin(c) \/ Check(c) \/ Seed(c) \/ Create(c) \/ ReadForUpdate(c)
               \/ WriteUpdate(c) \/ Keep(c) PROVE BrainInv'
  BY <1>3, BeginBrains, CheckBrains, SeedBrains, CreateBrains, ReadForUpdateBrains,
     WriteUpdateBrains, KeepBrains
<1>4. ASSUME NEW c \in Calls, DeleteRow(c) \/ DeleteDocs(c) \/ Forget(c) \/ InsertDocument(c)
               \/ CountDocument(c) PROVE BrainInv'
  BY <1>4, DeleteRowBrains, DeleteDocsBrains, ForgetBrains, InsertDocumentBrains, CountDocumentBrains
<1>5. ASSUME NEW c \in Calls, UpsertChunk(c) \/ CountChunks(c) \/ Raise(c) PROVE BrainInv'
  BY <1>5, UpsertChunkBrains, CountChunksBrains, RaiseBrains
<1>6. QED BY <1>1, <1>2, <1>3, <1>4, <1>5 DEF Next

(* Beyond what it was given, a brain claims no document that is not stored *)
(* (add_document against delete_brain, brain_store.py), and the tables     *)
(* keep their types.                                                       *)
THEOREM DocumentsAreCounted ==
  ASSUME BrainAssumption PROVE Spec => [](CountedIsStored /\ BrainTypes)
<1>1. Init => BrainInv
  BY InitBrains
<1>2. BrainInv /\ [Next]_vars => BrainInv'
  BY BrainStep
<1>3. BrainInv => CountedIsStored /\ BrainTypes
  BY DEF BrainInv
<1>4. QED BY <1>1, <1>2, <1>3, PTL DEF Spec
=============================================================================
