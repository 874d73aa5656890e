----------------------------- MODULE TalkParts -----------------------------
(***************************************************************************)
(* The conversations about a goal, as the checked module and the theorems  *)
(* instantiate them.                                                       *)
(***************************************************************************)
EXTENDS Naturals

CONSTANTS
    TalkCalls, TalkKind, About, Actionable,  \* the calls, what each does, of which conversation; what asks for action
    PoolSize, Limit, Months,                 \* connections of a pool, messages of a history, months of the goal
    TalkFaults, MayDelete                    \* bounds: statements that raise; may the goal be deleted?

VARIABLES seats, place, taken, raised, copy, conversation, goal, milestones, written, met, newer, talkFaults

TheTalks == INSTANCE GoalConversations WITH
    Calls <- TalkCalls, kind <- TalkKind, of <- About, MaxFaults <- TalkFaults,
    free <- seats, pos <- place, held <- taken, failed <- raised, read <- copy, row <- conversation, faults <- talkFaults

talkVars == <<seats, place, taken, raised, copy, conversation, goal, milestones, written, met, newer, talkFaults>>

-----------------------------------------------------------------------------
\* What was written into a list of a conversation is still there, unless
\* another call overlapped it or newer messages fill the history.
KeptUnlessOverlapped == TheTalks!KeptUnlessOverlapped
=============================================================================
