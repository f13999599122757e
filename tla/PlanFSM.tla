------------------------------ MODULE PlanFSM ------------------------------
(***************************************************************************)
(* The plan phase of the harness: .devin/scripts/plan_fsm/state_machine.py *)
(* with the limits of constants.py and the initial record of storage.py.   *)
(*                                                                         *)
(* One plan is a record, as in the code, and each handler is a function    *)
(* from that record and the agent's result to the next record; an action   *)
(* of the specification is one accepted process_step call.  A call whose   *)
(* action does not fit the state returns an error and changes nothing, so  *)
(* it is a stuttering step here (PlanCli models that it still writes).     *)
(*                                                                         *)
(* The documents are not modelled, only which gates the current version of *)
(* each has passed: that is the history variable evidence.                 *)
(***************************************************************************)
EXTENDS Integers

CONSTANTS
  MaxRevisionRounds,  \* C.MAX_REVISION_ROUNDS, 7 in the code
  MaxQcRounds,        \* C.MAX_QC_ROUNDS, 7
  MaxEnhanceRounds,   \* C.MAX_ENHANCE_ROUNDS, 3
  MaxApprovalRounds,  \* C.MAX_APPROVAL_ROUNDS, 7
  MaxBlocking         \* bound of the model: most BLOCKING findings in one review

ASSUME LimitsAssumption ==
  /\ MaxRevisionRounds \in Nat \ {0}
  /\ MaxQcRounds \in Nat \ {0}
  /\ MaxEnhanceRounds \in Nat \ {0}
  /\ MaxApprovalRounds \in Nat \ {0}
  /\ MaxBlocking \in Nat \ {0}

VARIABLES
  plan,      \* the state dictionary the orchestrator loads and saves
  evidence   \* history: the gates the current documents have passed

vars == <<plan, evidence>>

Phases == {"INIT", "CLASSIFY", "BRAINSTORM", "ANALYZE", "DESIGN", "REVIEW",
           "REVISION", "SDD_APPROVAL", "PLAN", "GAP_SCAN", "QC",
           "PLAN_ENHANCE", "PLAN_APPROVAL", "WRITE_STATE",
           "DONE", "REJECTED", "ESCALATE"}

Terminal == {"DONE", "REJECTED", "ESCALATE"}

\* Tiers M, L and XL take the same path, so M stands for the three.
Tiers == {"S", "M"}

Reasons == {"none", "stall", "revision", "qc", "enhance", "approval"}

PlanState ==
  [state : Phases, tier : Tiers \union {"none"},
   revision_round : Nat, qc_round : Nat, enhance_round : Nat,
   approval_round : Nat, last_blocking_count : Nat,
   convergence_stall_count : Nat,
   sdd_approved : BOOLEAN, plan_approved : BOOLEAN,
   approval_status : {"none", "approved", "rejected", "changes_requested"},
   escalate_reason : Reasons]

\* storage.create_initial_state; the keys read with state.get(k, 0) start at 0.
InitialState ==
  [state |-> "INIT", tier |-> "none",
   revision_round |-> 0, qc_round |-> 0, enhance_round |-> 0,
   approval_round |-> 0, last_blocking_count |-> 0,
   convergence_stall_count |-> 0,
   sdd_approved |-> FALSE, plan_approved |-> FALSE,
   approval_status |-> "none", escalate_reason |-> "none"]

Goto(s, phase) == [s EXCEPT !.state = phase]

Escalate(s, why) == [s EXCEPT !.state = "ESCALATE", !.escalate_reason = why]

AtLeastOne(n) == IF n >= 1 THEN n ELSE 1

-----------------------------------------------------------------------------
(* The handlers.                                                           *)

\* next_action on INIT: CLASSIFY, then the tier decides whether to plan at all.
HandleInit(s, tier) ==
  [s EXCEPT !.tier = tier,
            !.state = IF tier = "S" THEN "DONE" ELSE "BRAINSTORM"]

\* Mutant of HandleReview: the round counter is not advanced with the revision.
HandleReviewNoCount(s, blocking) ==
  CASE blocking = 0 ->
         [s EXCEPT !.state = "SDD_APPROVAL", !.last_blocking_count = 0,
                   !.convergence_stall_count = 0]
    [] blocking > 0 /\ s.revision_round >= MaxRevisionRounds ->
         Escalate(s, "revision")
    [] blocking > 0 /\ s.revision_round < MaxRevisionRounds ->
         [s EXCEPT !.state = "REVISION", !.last_blocking_count = blocking]

\* One more revision round; stalls is the new convergence_stall_count.
StartRevision(s, blocking, stalls) ==
  [s EXCEPT !.last_blocking_count = blocking,
            !.convergence_stall_count = stalls,
            !.revision_round = @ + 1, !.state = "REVISION"]

HandleReview(s, blocking) ==
  LET mayRevise == blocking > 0 /\ s.revision_round < MaxRevisionRounds
      decreasing == blocking < s.last_blocking_count
  IN
  CASE mayRevise /\ decreasing ->
         StartRevision(s, blocking, s.convergence_stall_count)
    [] mayRevise /\ ~decreasing /\ s.convergence_stall_count >= 1 ->
         Escalate(s, "stall")
    [] mayRevise /\ ~decreasing /\ s.convergence_stall_count < 1 ->
         StartRevision(s, blocking, s.convergence_stall_count + 1)
    [] blocking > 0 /\ ~mayRevise -> Escalate(s, "revision")
    [] blocking = 0 ->
         [s EXCEPT !.state = "SDD_APPROVAL", !.last_blocking_count = 0,
                   !.convergence_stall_count = 0]

\* Mutant of RequestChanges: the name of the document to change is taken for
\* the phase to go back to.
RequestChangesByName(s, target) ==
  LET asked == [s EXCEPT !.approval_status = "changes_requested",
                         !.approval_round = @ + 1]
  IN IF asked.approval_round >= MaxApprovalRounds
     THEN Escalate(asked, "approval")
     ELSE Goto(asked, IF target = "DESIGN" THEN "sdd" ELSE "plan")

\* The branch both approvals share: one more round, or escalate at the limit.
RequestChanges(s, target) ==
  LET asked == [s EXCEPT !.approval_status = "changes_requested",
                         !.approval_round = @ + 1]
  IN IF asked.approval_round >= MaxApprovalRounds
     THEN Escalate(asked, "approval")
     ELSE Goto(asked, target)

Reject(s) == [s EXCEPT !.approval_status = "rejected", !.state = "REJECTED"]

HandleSddApproval(s, decision) ==
  CASE decision = "approved" -> [s EXCEPT !.sdd_approved = TRUE, !.state = "PLAN"]
    [] decision = "rejected" -> Reject(s)
    [] decision = "changes_requested" -> RequestChanges(s, "DESIGN")

HandlePlan(s) == [s EXCEPT !.qc_round = AtLeastOne(@), !.state = "GAP_SCAN"]

\* Mutant of HandleQc: the comparison with the limit is off by one.
HandleQcOneMore(s, allPass) ==
  CASE allPass -> [s EXCEPT !.enhance_round = AtLeastOne(@),
                            !.state = "PLAN_ENHANCE"]
    [] ~allPass /\ s.qc_round <= MaxQcRounds ->
         [s EXCEPT !.qc_round = @ + 1, !.state = "PLAN"]
    [] ~allPass /\ s.qc_round > MaxQcRounds -> Escalate(s, "qc")

HandleQc(s, allPass) ==
  CASE allPass -> [s EXCEPT !.enhance_round = AtLeastOne(@),
                            !.state = "PLAN_ENHANCE"]
    [] ~allPass /\ s.qc_round < MaxQcRounds ->
         [s EXCEPT !.qc_round = @ + 1, !.state = "PLAN"]
    [] ~allPass /\ s.qc_round >= MaxQcRounds -> Escalate(s, "qc")

\* Mutant of HandlePlanEnhance: at the limit it gives up looking, not the plan.
HandlePlanEnhanceLenient(s, isBlocked) ==
  IF isBlocked /\ s.enhance_round < MaxEnhanceRounds
  THEN [s EXCEPT !.enhance_round = @ + 1, !.state = "PLAN"]
  ELSE Goto(s, "PLAN_APPROVAL")

HandlePlanEnhance(s, isBlocked) ==
  CASE isBlocked /\ s.enhance_round < MaxEnhanceRounds ->
         [s EXCEPT !.enhance_round = @ + 1, !.state = "PLAN"]
    [] isBlocked /\ s.enhance_round >= MaxEnhanceRounds -> Escalate(s, "enhance")
    [] ~isBlocked -> Goto(s, "PLAN_APPROVAL")

HandlePlanApproval(s, decision, target) ==
  CASE decision = "approved" ->
         [s EXCEPT !.plan_approved = TRUE, !.approval_status = "approved",
                   !.state = "WRITE_STATE"]
    [] decision = "rejected" -> Reject(s)
    [] decision = "changes_requested" ->
         RequestChanges(s, IF target = "sdd" THEN "DESIGN" ELSE "PLAN")

-----------------------------------------------------------------------------
(* The specification: one action per handler process_step dispatches to.   *)

Gates == {"review", "sdd", "gap", "qc", "enhance", "plan"}

Init ==
  /\ plan = InitialState
  /\ evidence = {}

At(phase) == plan.state = phase

Classify ==
  /\ At("INIT")
  /\ \E tier \in Tiers : plan' = HandleInit(plan, tier)
  /\ UNCHANGED evidence

Brainstorm ==
  /\ At("BRAINSTORM")
  /\ plan' = Goto(plan, "ANALYZE")
  /\ UNCHANGED evidence

Analyze ==
  /\ At("ANALYZE")
  /\ plan' = Goto(plan, "DESIGN")
  /\ UNCHANGED evidence

\* The architect writes the SDD anew: nothing downstream holds of it yet.
Design ==
  /\ At("DESIGN")
  /\ plan' = Goto(plan, "REVIEW")
  /\ evidence' = {}

Review ==
  /\ At("REVIEW")
  /\ \E blocking \in 0..MaxBlocking :
       /\ plan' = HandleReview(plan, blocking)
       /\ evidence' = IF blocking = 0 THEN evidence \union {"review"} ELSE evidence

Revision ==
  /\ At("REVISION")
  /\ plan' = Goto(plan, "REVIEW")
  /\ evidence' = {}

Decisions == {"approved", "rejected", "changes_requested"}

SddApproval ==
  /\ At("SDD_APPROVAL")
  /\ \E decision \in Decisions :
       /\ plan' = HandleSddApproval(plan, decision)
       /\ evidence' = IF decision = "approved" THEN evidence \union {"sdd"} ELSE evidence

\* The plan document is written anew; only the SDD's gates still hold.
WritePlan ==
  /\ At("PLAN")
  /\ plan' = HandlePlan(plan)
  /\ evidence' = evidence \intersect {"review", "sdd"}

GapScan ==
  /\ At("GAP_SCAN")
  /\ plan' = Goto(plan, "QC")
  /\ evidence' = evidence \union {"gap"}

Qc ==
  /\ At("QC")
  /\ \E allPass \in BOOLEAN :
       /\ plan' = HandleQc(plan, allPass)
       /\ evidence' = IF allPass THEN evidence \union {"qc"} ELSE evidence

PlanEnhance ==
  /\ At("PLAN_ENHANCE")
  /\ \E isBlocked \in BOOLEAN :
       /\ plan' = HandlePlanEnhance(plan, isBlocked)
       /\ evidence' = IF isBlocked THEN evidence ELSE evidence \union {"enhance"}

PlanApproval ==
  /\ At("PLAN_APPROVAL")
  /\ \E decision \in Decisions, target \in {"sdd", "plan"} :
       /\ plan' = HandlePlanApproval(plan, decision, target)
       /\ evidence' = IF decision = "approved" THEN evidence \union {"plan"} ELSE evidence

WriteState ==
  /\ At("WRITE_STATE")
  /\ plan' = Goto(plan, "DONE")
  /\ UNCHANGED evidence

Next ==
  \/ Classify \/ Brainstorm \/ Analyze \/ Design \/ Review \/ Revision
  \/ SddApproval \/ WritePlan \/ GapScan \/ Qc \/ PlanEnhance
  \/ PlanApproval \/ WriteState

Spec == Init /\ [][Next]_vars

\* The loop driver answers every next_action the orchestrator returns.
FairSpec == Spec /\ WF_vars(Next)

-----------------------------------------------------------------------------
(* Properties.                                                             *)

\* Type invariant of the state dictionary and of the history variable.
TypeOK ==
  /\ plan \in PlanState
  /\ evidence \in SUBSET Gates

\* The gates whose verdict must be about the current documents in each phase.
Required(phase) ==
  CASE phase = "SDD_APPROVAL" -> {"review"}
    [] phase \in {"PLAN", "GAP_SCAN"} -> {"review", "sdd"}
    [] phase = "QC" -> {"review", "sdd", "gap"}
    [] phase = "PLAN_ENHANCE" -> {"review", "sdd", "gap", "qc"}
    [] phase = "PLAN_APPROVAL" -> {"review", "sdd", "gap", "qc", "enhance"}
    [] phase = "WRITE_STATE" -> Gates
    [] OTHER -> {}

\* No phase is entered on stale evidence: whatever loops back to DESIGN,
\* REVISION or PLAN happened before, the plan presented, approved and written
\* is one whose own SDD was reviewed clean and approved, and which itself
\* passed the gap scan, QC, the enhancement round and the second approval.
GatesPassed ==
  /\ Required(plan.state) \subseteq evidence
  /\ At("DONE") /\ plan.tier # "S" => Gates \subseteq evidence

\* Each loop of the graph is cut by its own counter, none of which is ever
\* reset, and no handler pushes a counter past the limit it checks.
RoundsBounded ==
  /\ plan.revision_round <= MaxRevisionRounds
  /\ plan.qc_round <= MaxQcRounds
  /\ plan.enhance_round <= MaxEnhanceRounds
  /\ plan.approval_round <= MaxApprovalRounds
  /\ plan.approval_round = MaxApprovalRounds => At("ESCALATE")

Rounds(s) == s.revision_round + s.qc_round + s.enhance_round + s.approval_round

\* REVISION comes before REVIEW: the way back to it is the one that counts.
Position ==
  [INIT |-> 0, CLASSIFY |-> 1, BRAINSTORM |-> 2, ANALYZE |-> 3, DESIGN |-> 4,
   REVISION |-> 5, REVIEW |-> 6, SDD_APPROVAL |-> 7, PLAN |-> 8,
   GAP_SCAN |-> 9, QC |-> 10, PLAN_ENHANCE |-> 11, PLAN_APPROVAL |-> 12,
   WRITE_STATE |-> 13, DONE |-> 14, REJECTED |-> 14, ESCALATE |-> 14]

\* Every accepted step moves the plan forward in the order (rounds used,
\* position in the graph): with RoundsBounded, no sequence of answers can keep
\* the plan phase from ending.
Forward ==
  \/ Rounds(plan') > Rounds(plan)
  \/ /\ Rounds(plan') = Rounds(plan)
     /\ Position[plan'.state] > Position[plan.state]

Progress == [][Forward]_plan

\* The plan phase ends, whatever the reviewers, the quality check and the user
\* answer, as long as the driver keeps answering.
Termination == <>(plan.state \in Terminal)
=============================================================================
