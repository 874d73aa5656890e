------------------------- MODULE GoalConversations -------------------------
(***************************************************************************)
(* The conversations about a goal (goal_conversation_service.py) and the   *)
(* plans for it (milestone_task_engine.py).  Each service has a pool, and  *)
(* takes connections of it while it holds others.  A conversation is one   *)
(* row whose lists are read, extended and written back by calls that give  *)
(* way in between.  A call is a script of steps, each one await.           *)
(***************************************************************************)
EXTENDS Naturals, Sequences, FiniteSets

CONSTANTS
    Calls,
    kind,        \* what each of them does
    of,          \* the conversation it is about: the call that creates it
    Actionable,  \* messages whose text asks for an action
    PoolSize,    \* max_size of each pool
    Limit,       \* max_conversation_messages
    Months,      \* months of the goal
    MaxFaults,   \* bound: statements that raise without a reason of their own
    MayDelete    \* may the goal be deleted?

Talks == {"create", "message", "suggest", "review", "actions", "look"}
Plans == {"plan", "monthly", "weekly", "functional"}
Services == {"conversation", "planning"}
Service(c) == IF kind[c] \in Talks THEN "conversation" ELSE "planning"
Conversations == {c \in Calls : kind[c] = "create"}

\* What is assumed of the constants.
TalksAssumption ==
    /\ \A c \in Calls : kind[c] \in Talks \cup Plans /\ (kind[c] \in Talks => of[c] \in Conversations)
    /\ \A c \in Conversations : of[c] = c
    /\ {PoolSize, Limit} \subseteq Nat \ {0} /\ {Months, MaxFaults} \subseteq Nat /\ MayDelete \in BOOLEAN

VARIABLES
    free,        \* connections of each pool that nobody holds
    pos,         \* how many steps of its script each call has behind it
    held,        \* connections that it holds
    failed,      \* did it raise?
    read,        \* what it read of the row and has not used yet
    row,         \* each conversation: is it there, its messages, insights and action items
    goal,        \* is the goal there?
    milestones,  \* goal_milestones: who inserted it, for which month
    written,     \* history: the calls that have written into a list
    met,         \* history: those that another one overlapped, which had read and was to write
    newer,       \* history: how many messages were written after each one
    faults

vars == <<free, pos, held, failed, read, row, goal, milestones, written, met, newer, faults>>

Columns == {"messages", "insights", "items"}
NoRow == [there |-> FALSE, messages |-> <<>>, insights |-> {}, items |-> {}]

-----------------------------------------------------------------------------
\* The scripts.
_add_message == <<"take", "messages", "write_messages", "give">>
_add_insight_to_conversation == <<"take", "insights", "write_insights", "give">>

create_goal_conversation == <<"take", "goal", "insert">> \o _add_message \o <<"give">>
add_message_to_conversation == _add_message \o <<"take", "touch", "give">>
generate_planning_milestones == <<"take", "conversation">> \o _add_insight_to_conversation \o <<"give">>
\* its second query is given a parameter too many
conduct_progress_review == <<"take", "conversation", "refused">>
extract_action_items_from_conversation == <<"take", "conversation", "write_items", "give">>
get_conversation == <<"take", "conversation", "give">>
\* the insertion of the first milestone is given a string for a date
generate_goal_execution_plan == <<"take", "goal", "take", "refused">>
generate_monthly_milestones == <<"take", "goal">> \o [month \in 1..Months |-> "milestone"] \o <<"give">>
\* the templates of these come from methods that do not exist
generate_weekly_tasks_for_milestone == <<"take", "goal", "refused">>
generate_cross_functional_tasks == <<"take", "goal", "refused">>

Script(c) ==
    CASE kind[c] = "create" -> create_goal_conversation
      [] kind[c] = "message" -> add_message_to_conversation
      [] kind[c] = "suggest" -> generate_planning_milestones
      [] kind[c] = "review" -> conduct_progress_review
      [] kind[c] = "actions" -> extract_action_items_from_conversation
      [] kind[c] = "look" -> get_conversation
      [] kind[c] = "plan" -> generate_goal_execution_plan
      [] kind[c] = "monthly" -> generate_monthly_milestones
      [] kind[c] = "weekly" -> generate_weekly_tasks_for_milestone
      [] kind[c] = "functional" -> generate_cross_functional_tasks

Ended(c) == pos[c] = Len(Script(c))
Doing(c, step) == ~Ended(c) /\ Script(c)[pos[c] + 1] = step
Advance(c) == pos' = [pos EXCEPT ![c] = @ + 1]

Init ==
    /\ free = [s \in Services |-> PoolSize]
    /\ pos = [c \in Calls |-> 0] /\ held = pos /\ failed = [c \in Calls |-> FALSE]
    /\ read = [c \in Calls |-> NoRow] /\ row = [c \in Conversations |-> NoRow]
    /\ goal = TRUE /\ milestones = {} /\ written = {} /\ met = {} /\ newer = pos /\ faults = 0

poolVars == <<free, held>>
dataVars == <<row, goal, milestones, written, met, newer>>

-----------------------------------------------------------------------------
Take(c) ==
    /\ Doing(c, "take") /\ free[Service(c)] > 0 /\ Advance(c)
    /\ free' = [free EXCEPT ![Service(c)] = @ - 1] /\ held' = [held EXCEPT ![c] = @ + 1]
    /\ UNCHANGED <<failed, read, dataVars, faults>>

Give(c) ==
    /\ Doing(c, "give") /\ Advance(c)
    /\ free' = [free EXCEPT ![Service(c)] = @ + 1] /\ held' = [held EXCEPT ![c] = @ - 1]
    /\ UNCHANGED <<failed, read, dataVars, faults>>

\* The columns that the rest of a call goes by.
Needed(c) ==
    LET there == row[of[c]] IN
    CASE Doing(c, "messages") -> [NoRow EXCEPT !.messages = there.messages]
      [] Doing(c, "insights") -> [NoRow EXCEPT !.insights = there.insights]
      [] Doing(c, "conversation") /\ kind[c] = "actions" -> [NoRow EXCEPT !.messages = there.messages, !.items = there.items]
      [] OTHER -> NoRow

\* The goal, or the conversation, must be there; a list of a conversation that
\* is not there is read as an empty one.
Select(c) ==
    /\ \/ Doing(c, "goal") /\ goal /\ UNCHANGED read
       \/ /\ \/ Doing(c, "conversation") /\ row[of[c]].there
             \/ Doing(c, "messages") \/ Doing(c, "insights")
          /\ read' = [read EXCEPT ![c] = Needed(c)]
    /\ Advance(c) /\ UNCHANGED <<poolVars, failed, dataVars, faults>>

Insert(c) ==
    /\ Doing(c, "insert") /\ goal /\ Advance(c)
    /\ row' = [row EXCEPT ![c].there = TRUE]
    /\ UNCHANGED <<poolVars, failed, read, goal, milestones, written, met, newer, faults>>

\* The bug of keeping the oldest messages.
TrimmedTail(messages) == IF Len(messages) <= Limit THEN messages ELSE SubSeq(messages, 1, Limit)

\* The history of a conversation is limited to its newest messages.
Trimmed(messages) == IF Len(messages) <= Limit THEN messages ELSE SubSeq(messages, Len(messages) - Limit + 1, Len(messages))

InSeq(m, s) == \E i \in DOMAIN s : s[i] = m

\* Each message that asks for an action becomes an item (at most ten do, and
\* there are fewer here).
_identify_action_items_in_messages(c) == {<<c, m>> : m \in {n \in Actionable : InSeq(n, read[c].messages)}}

\* An update writes the list that was read with what comes to it; a
\* conversation that is not there is not updated, and nobody notices.
Update(c, step, written_back) ==
    LET to == of[c]
        others == {d \in Calls \ {c} : kind[d] \in Talks /\ of[d] = to /\ Doing(d, step)} IN
    /\ Doing(c, step) /\ Advance(c) /\ read' = [read EXCEPT ![c] = NoRow]
    /\ IF row[to].there
       THEN /\ row' = [row EXCEPT ![to] = written_back]
            /\ written' = written \cup {c} /\ met' = IF others = {} THEN met ELSE met \cup {c}
            /\ newer' = [d \in DOMAIN newer |-> IF step = "write_messages" /\ d \in written \ met /\ kind[d] \in {"create", "message"}
                                            /\ of[d] = to /\ newer[d] < Limit
                                         THEN newer[d] + 1 ELSE newer[d]]
       ELSE UNCHANGED <<row, written, met, newer>>
    /\ UNCHANGED <<poolVars, failed, goal, milestones, faults>>

Write(c) ==
    LET new == _identify_action_items_in_messages(c) IN
    \/ Update(c, "write_messages", [row[of[c]] EXCEPT !.messages = Trimmed(Append(read[c].messages, c))])
    \/ Update(c, "write_insights", [row[of[c]] EXCEPT !.insights = read[c].insights \cup {c}])
    \/ new # {} /\ Update(c, "write_items", [row[of[c]] EXCEPT !.items = read[c].items \cup new])

\* The time of the last activity, or no action items to write.
Touch(c) ==
    /\ \/ Doing(c, "touch")
       \/ Doing(c, "write_items") /\ _identify_action_items_in_messages(c) = {}
    /\ Advance(c) /\ UNCHANGED <<poolVars, failed, read, dataVars, faults>>

InsertMilestone(c) ==
    /\ Doing(c, "milestone") /\ goal /\ Advance(c)
    /\ milestones' = milestones \cup {<<c, pos[c] - 1>>}
    /\ UNCHANGED <<poolVars, failed, read, row, goal, written, met, newer, faults>>

\* A statement raises: the call leaves its blocks with every connection.
Raise(c) ==
    /\ ~Ended(c) /\ ~Doing(c, "take") /\ ~Doing(c, "give")
    /\ IF \/ Doing(c, "refused")
          \/ (Doing(c, "goal") \/ Doing(c, "insert") \/ Doing(c, "milestone")) /\ ~goal
          \/ Doing(c, "conversation") /\ ~row[of[c]].there
       THEN UNCHANGED faults ELSE faults < MaxFaults /\ faults' = faults + 1
    /\ pos' = [pos EXCEPT ![c] = Len(Script(c))] /\ failed' = [failed EXCEPT ![c] = TRUE]
    /\ free' = [free EXCEPT ![Service(c)] = @ + held[c]] /\ held' = [held EXCEPT ![c] = 0]
    /\ UNCHANGED <<read, dataVars>>

\* With the goal go its conversations and milestones.
GoalDeleted ==
    /\ MayDelete /\ goal /\ goal' = FALSE
    /\ row' = [c \in DOMAIN row |-> NoRow] /\ milestones' = {}
    /\ UNCHANGED <<poolVars, pos, failed, read, written, met, newer, faults>>

Work(c) ==
    \/ Take(c) \/ Give(c) \/ Select(c) \/ Insert(c) \/ Write(c) \/ Touch(c) \/ InsertMilestone(c) \/ Raise(c)

Next == (\E c \in Calls : Work(c)) \/ GoalDeleted

Spec == Init /\ [][Next]_vars

\* A call that has begun goes on.
Fairness == \A c \in Calls : WF_vars(pos[c] > 0 /\ Work(c))

FairSpec == Spec /\ Fairness

-----------------------------------------------------------------------------
\* Is what a call wrote in the row?
Holds(r, c) ==
    CASE kind[c] \in {"create", "message"} -> InSeq(c, r.messages)
      [] kind[c] = "suggest" -> c \in r.insights
      [] kind[c] = "actions" -> \E m \in Actionable : <<c, m>> \in r.items

\* What was written into a list of a conversation is still there, and once,
\* unless another call had read the list before and wrote it back after
\* (goal_conversation_service.py:682), or newer messages fill the history.
KeptUnlessOverlapped ==
    /\ \A c \in written \ met : Holds(row[of[c]], c) \/ ~row[of[c]].there \/ newer[c] = Limit
    /\ \A c \in Conversations : \A i, j \in DOMAIN row[c].messages : row[c].messages[i] = row[c].messages[j] => i = j

\* The calls of either service that have begun end, as long as those that come
\* together and take a second connection leave one of the pool free.
CallsEnd == <>[](\A c \in Calls : pos[c] = 0 \/ Ended(c))

\* Not met: a message that was answered is in its conversation.
AnsweredIsKept == \A c \in Calls : kind[c] = "message" /\ Ended(c) /\ ~failed[c] => InSeq(c, row[of[c]].messages)

\* Not met: a conversation begins with its starter.
StartsWithStarter ==
    \A c \in Conversations : row[c].there /\ row[c].messages # <<>> /\ Len(row[c].messages) < Limit => row[c].messages[1] = c

\* Not met: a message becomes an action once.
OneActionEach == \A c \in Conversations : \A x, y \in row[c].items : x[2] = y[2] => x = y

\* Not met: a generation that fails leaves no milestones, and a goal has one
\* set of them.
OneMilestoneEach ==
    /\ \A x, y \in milestones : x[2] = y[2] => x = y
    /\ \A x \in milestones : ~failed[x[1]]
=============================================================================
