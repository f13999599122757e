------------------------------ MODULE PlanCli -------------------------------
(***************************************************************************)
(* The command line of the plan phase (plan_fsm/cli.py) over the state     *)
(* file of a task: --init, which saves twice, and --step, which loads,     *)
(* lets process_step change the state, and saves.  Callers are processes;  *)
(* neither call takes a lock, and a save is written in place.              *)
(*                                                                         *)
(* process_step is that of PlanFSM.  Tasks with the same slug have the     *)
(* same file: an --init replaces whatever plan is there.                   *)
(***************************************************************************)
EXTENDS Naturals, FiniteSets

CONSTANTS
  MaxRevisionRounds, MaxQcRounds, MaxEnhanceRounds, MaxApprovalRounds, MaxBlocking,
  Callers,
  MaxInits,  \* bound of the model: --init calls
  Nil,       \* no file, no call
  Torn       \* a file cut off by a failed or killed save

VARIABLES
  planFile,    \* the state file: the plan, and which --init it is of
  command,     \* command[p]: the call p is in and the state it has loaded
  inits,       \* history: --init calls begun
  overlapped,  \* history: has a call begun during another?
  interrupted  \* history: has an --init failed or been killed, or a save been cut off?

cliVars == <<planFile, command, inits, overlapped, interrupted>>

FSM == INSTANCE PlanFSM WITH plan <- planFile.plan, evidence <- {}

\* A state file, and a call with the state it has loaded or made.
StateFiles == [plan : FSM!PlanState, of : 1..MaxInits]
Commands == [step : {"create", "classify", "step"}, state : StateFiles]

Init ==
  /\ planFile = Nil
  /\ command = [p \in Callers |-> Nil]
  /\ inits = 0
  /\ overlapped = FALSE
  /\ interrupted = FALSE

\* load_state: {} if the file is missing or no JSON, and then no command goes on.
Readable == planFile \notin {Nil, Torn}

\* What process_step makes of a state if the results are those it waits for.
Accepted(s) ==
  CASE s.state = "BRAINSTORM" -> {FSM!Goto(s, "ANALYZE")}
    [] s.state = "ANALYZE" -> {FSM!Goto(s, "DESIGN")}
    [] s.state \in {"DESIGN", "REVISION"} -> {FSM!Goto(s, "REVIEW")}
    [] s.state = "REVIEW" -> {FSM!HandleReview(s, n) : n \in 0..MaxBlocking}
    [] s.state = "SDD_APPROVAL" -> {FSM!HandleSddApproval(s, d) : d \in FSM!Decisions}
    [] s.state = "PLAN" -> {FSM!HandlePlan(s)}
    [] s.state = "GAP_SCAN" -> {FSM!Goto(s, "QC")}
    [] s.state = "QC" -> {FSM!HandleQc(s, ok) : ok \in BOOLEAN}
    [] s.state = "PLAN_ENHANCE" -> {FSM!HandlePlanEnhance(s, b) : b \in BOOLEAN}
    [] s.state = "PLAN_APPROVAL" ->
         {FSM!HandlePlanApproval(s, d, t) : d \in FSM!Decisions, t \in {"sdd", "plan"}}
    [] s.state = "WRITE_STATE" -> {FSM!Goto(s, "DONE")}
    [] OTHER -> {}

Call(p, step, state) ==
  /\ command[p] = Nil
  /\ command' = [command EXCEPT ![p] = [step |-> step, state |-> state]]
  /\ overlapped' = (overlapped \/ \E q \in Callers : command[q] # Nil)

CmdInit(p) ==
  /\ inits < MaxInits
  /\ inits' = inits + 1
  /\ Call(p, "create", [plan |-> FSM!InitialState, of |-> inits + 1])
  /\ UNCHANGED <<planFile, interrupted>>

In(p, step) == command[p] # Nil /\ command[p].step = step

SaveInitial(p) ==
  /\ In(p, "create")
  /\ planFile' = command[p].state
  /\ command' = [command EXCEPT ![p].step = "classify"]
  /\ UNCHANGED <<inits, overlapped, interrupted>>

\* Mutant of SaveClassified: the second save comes before next_action.
SaveClassifiedEarly(p) ==
  /\ In(p, "classify")
  /\ planFile' = command[p].state
  /\ command' = [command EXCEPT ![p] = Nil]
  /\ UNCHANGED <<inits, overlapped, interrupted>>

\* next_action, which classifies the task, and the second save.
SaveClassified(p) ==
  /\ In(p, "classify")
  /\ \E tier \in FSM!Tiers :
       planFile' = [command[p].state EXCEPT !.plan = FSM!HandleInit(@, tier)]
  /\ command' = [command EXCEPT ![p] = Nil]
  /\ UNCHANGED <<inits, overlapped, interrupted>>

CmdStep(p) ==
  /\ Readable
  /\ Call(p, "step", planFile)
  /\ UNCHANGED <<planFile, inits, interrupted>>

\* What process_step leaves in the state; an action that does not fit changes
\* nothing, and is saved all the same.
Processed(loaded) ==
  {[loaded EXCEPT !.plan = s] : s \in Accepted(loaded.plan) \union {loaded.plan}}

SaveStep(p) ==
  /\ In(p, "step")
  /\ planFile' \in Processed(command[p].state)
  /\ command' = [command EXCEPT ![p] = Nil]
  /\ UNCHANGED <<inits, overlapped, interrupted>>

\* The command ends before, during or instead of its next save: the results file
\* cannot be read, the save raises, or the process dies.
CommandFails(p) ==
  /\ command[p] # Nil
  /\ planFile' \in {planFile, Torn}
  /\ interrupted' = (interrupted \/ ~In(p, "step") \/ planFile' = Torn)
  /\ command' = [command EXCEPT ![p] = Nil]
  /\ UNCHANGED <<inits, overlapped>>

Next ==
  \E p \in Callers :
    \/ CmdInit(p) \/ SaveInitial(p) \/ SaveClassified(p)
    \/ CmdStep(p) \/ SaveStep(p) \/ CommandFails(p)

Spec == Init /\ [][Next]_cliVars

-----------------------------------------------------------------------------
(* Properties.                                                             *)

\* Type invariant.
TypeOK ==
  /\ planFile \in StateFiles \union {Nil, Torn}
  /\ command \in [Callers -> Commands \union {Nil}]
  /\ inits \in 0..MaxInits
  /\ {overlapped, interrupted} \subseteq BOOLEAN

\* Nobody is in a command: what is in the file is all there is of the plan.
Quiet == \A p \in Callers : command[p] = Nil

\* The plan in the file keeps to the limits of the plan phase whatever commands
\* overlap, fail or die.  While no two overlap it also only moves forward, in the
\* sense of PlanFSM, until an --init replaces it; and unless an --init was
\* interrupted, or the save of some command cut off, which leaves a file that only
\* another --init replaces, the file can be read and is never left where no command
\* but --init helps: the plan has ended or some result is accepted.
PlanOnlyForward ==
  [][/\ Readable' => FSM!RoundsBounded'
     /\ Readable /\ Readable' /\ ~overlapped' =>
          planFile' = planFile \/ planFile'.of # planFile.of \/ FSM!Forward
     /\ planFile' # Nil /\ Quiet' /\ ~overlapped' /\ ~interrupted' =>
          /\ Readable'
          /\ planFile'.plan.state \in FSM!Terminal \/ Accepted(planFile'.plan) # {}]_cliVars
=============================================================================
