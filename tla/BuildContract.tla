---------------------------- MODULE BuildContract ----------------------------
(***************************************************************************)
(* What a build session promises FuzeFront (docs/app-builds.md, "State     *)
(* machine and callbacks"): it walks its states one by one and never back, *)
(* announces every state it enters except its cancellation, and reports    *)
(* what it announced in order - possibly again, possibly with gaps, and    *)
(* for a while after it ended - but never anything it did not announce.    *)
(***************************************************************************)
EXTENDS Naturals, Sequences

CONSTANT Sessions

VARIABLES status,     \* the state of each session
          announced,  \* the states it entered and owes a report of
          reported    \* how far in announced the reports have come

contractVars == <<status, announced, reported>>

Walk == {<<"accepted", "building">>, <<"building", "deploying">>,
         <<"deploying", "deployed">>}
        \cup ({"accepted", "building", "deploying"} \X {"failed"})

Init ==
  /\ status = [b \in Sessions |-> "absent"]
  /\ announced = [b \in Sessions |-> << >>]
  /\ reported = [b \in Sessions |-> 0]

Open(b) ==
  /\ status[b] = "absent"
  /\ status' = [status EXCEPT ![b] = "accepted"]
  /\ UNCHANGED <<announced, reported>>

Move(b, s) ==
  /\ <<status[b], s>> \in Walk
  /\ status' = [status EXCEPT ![b] = s]
  /\ announced' = [announced EXCEPT ![b] = Append(@, s)]
  /\ UNCHANGED reported

Cancel(b) ==
  /\ status[b] \in {"accepted", "building", "deploying"}
  /\ status' = [status EXCEPT ![b] = "cancelled"]
  /\ UNCHANGED <<announced, reported>>

Report(b, i) ==
  /\ reported[b] <= i
  /\ reported' = [reported EXCEPT ![b] = i]
  /\ UNCHANGED <<status, announced>>

Next ==
  \E b \in Sessions :
    \/ Open(b)
    \/ \E s \in {"building", "deploying", "deployed", "failed"} : Move(b, s)
    \/ Cancel(b)
    \/ \E i \in DOMAIN announced[b] : Report(b, i)

Spec == Init /\ [][Next]_contractVars
=============================================================================
