--------------------------- MODULE PlanFSMProofs ---------------------------
(***************************************************************************)
(* What PlanFSM promises for every value of the limits: types, fresh gate  *)
(* evidence, bounded counters, and the variant behind termination.         *)
(***************************************************************************)
EXTENDS PlanFSM, TLAPS

(***************************************************************************)
(* What the handlers return.  Each lemma keeps the record closed, so the   *)
(* proofs about steps need not open it again.                              *)
(***************************************************************************)

\* The names the handlers use are phases and reasons.
LEMMA NamesTyped ==
  /\ "BRAINSTORM" \in Phases /\ "DESIGN" \in Phases /\ "REVISION" \in Phases
  /\ "SDD_APPROVAL" \in Phases /\ "PLAN" \in Phases /\ "GAP_SCAN" \in Phases
  /\ "PLAN_ENHANCE" \in Phases /\ "PLAN_APPROVAL" \in Phases /\ "WRITE_STATE" \in Phases
  /\ "DONE" \in Phases /\ "REJECTED" \in Phases /\ "ESCALATE" \in Phases
  /\ "stall" \in Reasons /\ "revision" \in Reasons /\ "qc" \in Reasons
  /\ "enhance" \in Reasons /\ "approval" \in Reasons
  BY DEF Phases, Reasons

\* The two updates most handlers end with.
LEMMA UpdatesTyped ==
  ASSUME NEW s \in PlanState
  PROVE  /\ \A phase \in Phases : Goto(s, phase) \in PlanState
         /\ \A why \in Reasons : Escalate(s, why) \in PlanState
         /\ Reject(s) \in PlanState
<1>1. \A phase \in Phases : Goto(s, phase) \in PlanState
  BY DEF PlanState, Goto
<1>2. \A why \in Reasons : Escalate(s, why) \in PlanState
  BY NamesTyped DEF PlanState, Escalate
<1>3. Reject(s) \in PlanState
  BY NamesTyped DEF PlanState, Reject
<1> QED
  BY <1>1, <1>2, <1>3

\* The counters of a plan record can be counted up.
LEMMA CountersNat ==
  ASSUME NEW s \in PlanState
  PROVE  /\ s.revision_round \in Nat /\ s.revision_round + 1 \in Nat
         /\ s.qc_round \in Nat /\ s.qc_round + 1 \in Nat
         /\ s.enhance_round \in Nat /\ s.enhance_round + 1 \in Nat
         /\ s.approval_round \in Nat /\ s.approval_round + 1 \in Nat
         /\ s.last_blocking_count \in Nat
         /\ s.convergence_stall_count \in Nat
         /\ s.convergence_stall_count + 1 \in Nat
  BY DEF PlanState

\* The updates that count a round and move to a phase.
LEMMA RevisionTyped ==
  ASSUME NEW s \in PlanState, NEW blocking \in Nat, NEW stalls \in Nat
  PROVE  StartRevision(s, blocking, stalls) \in PlanState
<1> DEFINE n == s.revision_round + 1
<1>1. n \in Nat
  BY CountersNat
<1> HIDE DEF n
<1>2. [s EXCEPT !.last_blocking_count = blocking,
                !.convergence_stall_count = stalls,
                !.revision_round = n, !.state = "REVISION"] \in PlanState
  BY <1>1, NamesTyped DEF PlanState
<1> QED
  BY <1>2 DEF StartRevision, n

\* A failed quality check counts a round and returns to the plan.
LEMMA QcTyped ==
  ASSUME NEW s \in PlanState, NEW n \in Nat
  PROVE  [s EXCEPT !.qc_round = n, !.state = "PLAN"] \in PlanState
  BY NamesTyped DEF PlanState

\* An enhancement round counts and moves to a phase.
LEMMA EnhanceTyped ==
  ASSUME NEW s \in PlanState, NEW n \in Nat, NEW phase \in Phases
  PROVE  [s EXCEPT !.enhance_round = n, !.state = phase] \in PlanState
  BY DEF PlanState

\* A request for changes counts an approval round.
LEMMA AskedTyped ==
  ASSUME NEW s \in PlanState, NEW n \in Nat
  PROVE  [s EXCEPT !.approval_status = "changes_requested",
                   !.approval_round = n] \in PlanState
  BY DEF PlanState

\* _handle_review keeps the record well formed, whichever of its returns is taken.
LEMMA HandleReviewTyped ==
  ASSUME NEW s \in PlanState, NEW blocking \in Nat
  PROVE  HandleReview(s, blocking) \in PlanState
<1> DEFINE mayRevise == blocking > 0 /\ s.revision_round < MaxRevisionRounds
           decreasing == blocking < s.last_blocking_count
<1>1. /\ s.revision_round \in Nat
      /\ s.last_blocking_count \in Nat
      /\ s.convergence_stall_count \in Nat
  BY CountersNat
<1>2. CASE mayRevise /\ decreasing
  <2>1. HandleReview(s, blocking) =
          StartRevision(s, blocking, s.convergence_stall_count)
    BY <1>1, <1>2, LimitsAssumption DEF HandleReview
  <2> QED BY <2>1, RevisionTyped, CountersNat
<1>3. CASE mayRevise /\ ~decreasing /\ s.convergence_stall_count >= 1
  <2>1. HandleReview(s, blocking) = Escalate(s, "stall")
    BY <1>1, <1>3, LimitsAssumption DEF HandleReview
  <2> QED BY <2>1, NamesTyped, UpdatesTyped
<1>4. CASE mayRevise /\ ~decreasing /\ s.convergence_stall_count < 1
  <2>1. HandleReview(s, blocking) =
          StartRevision(s, blocking, s.convergence_stall_count + 1)
    BY <1>1, <1>4, LimitsAssumption DEF HandleReview
  <2> QED BY <2>1, RevisionTyped, CountersNat
<1>5. CASE blocking > 0 /\ ~mayRevise
  <2>1. HandleReview(s, blocking) = Escalate(s, "revision")
    BY <1>1, <1>5, LimitsAssumption DEF HandleReview
  <2> QED BY <2>1, NamesTyped, UpdatesTyped
<1>6. CASE blocking = 0
  <2>1. HandleReview(s, blocking) =
          [s EXCEPT !.state = "SDD_APPROVAL", !.last_blocking_count = 0,
                    !.convergence_stall_count = 0]
    BY <1>1, <1>6, LimitsAssumption DEF HandleReview
  <2>2. [s EXCEPT !.state = "SDD_APPROVAL", !.last_blocking_count = 0,
                  !.convergence_stall_count = 0] \in PlanState
    BY NamesTyped DEF PlanState
  <2> QED BY <2>1, <2>2
<1> QED
  BY <1>1, <1>2, <1>3, <1>4, <1>5, <1>6, LimitsAssumption

\* A request for changes to the SDD or the plan keeps the record well formed.
LEMMA RequestChangesTyped ==
  ASSUME NEW s \in PlanState, NEW target \in {"DESIGN", "PLAN"}
  PROVE  RequestChanges(s, target) \in PlanState
<1> DEFINE asked == [s EXCEPT !.approval_status = "changes_requested",
                              !.approval_round = s.approval_round + 1]
<1>1. asked \in PlanState
  BY AskedTyped, CountersNat, Zenon
<1>2. Escalate(asked, "approval") \in PlanState /\ Goto(asked, target) \in PlanState
  <2> HIDE DEF asked
  <2> QED BY <1>1, NamesTyped, UpdatesTyped
<1> QED
  BY <1>2 DEF RequestChanges

\* Every handler maps a plan record to a plan record.
LEMMA HandlersTyped ==
  ASSUME NEW s \in PlanState
  PROVE  /\ \A phase \in Phases : Goto(s, phase) \in PlanState
         /\ \A tier \in Tiers : HandleInit(s, tier) \in PlanState
         /\ \A blocking \in Nat : HandleReview(s, blocking) \in PlanState
         /\ \A decision \in Decisions : HandleSddApproval(s, decision) \in PlanState
         /\ HandlePlan(s) \in PlanState
         /\ \A allPass \in BOOLEAN : HandleQc(s, allPass) \in PlanState
         /\ \A isBlocked \in BOOLEAN : HandlePlanEnhance(s, isBlocked) \in PlanState
         /\ \A decision \in Decisions, target \in {"sdd", "plan"} :
              HandlePlanApproval(s, decision, target) \in PlanState
<1>1. ASSUME NEW tier \in Tiers PROVE HandleInit(s, tier) \in PlanState
  BY NamesTyped DEF HandleInit, PlanState
<1>2. ASSUME NEW decision \in Decisions PROVE HandleSddApproval(s, decision) \in PlanState
  <2>1. [s EXCEPT !.sdd_approved = TRUE, !.state = "PLAN"] \in PlanState
    BY NamesTyped DEF PlanState
  <2> QED
    BY <2>1, UpdatesTyped, RequestChangesTyped DEF HandleSddApproval, Decisions
<1>3. HandlePlan(s) \in PlanState
  BY NamesTyped DEF HandlePlan, AtLeastOne, PlanState
<1>4. ASSUME NEW allPass \in BOOLEAN PROVE HandleQc(s, allPass) \in PlanState
  <2>1. CASE allPass
    <3>1. HandleQc(s, allPass) =
            [s EXCEPT !.enhance_round = AtLeastOne(@), !.state = "PLAN_ENHANCE"]
      BY <2>1 DEF HandleQc
    <3>2. AtLeastOne(s.enhance_round) \in Nat
      BY CountersNat DEF AtLeastOne
    <3>3. [s EXCEPT !.enhance_round = AtLeastOne(s.enhance_round),
                    !.state = "PLAN_ENHANCE"] \in PlanState
      BY <3>2, NamesTyped, EnhanceTyped, Zenon
    <3> QED BY <3>1, <3>3
  <2>2. CASE ~allPass /\ s.qc_round < MaxQcRounds
    <3>1. HandleQc(s, allPass) =
            [s EXCEPT !.qc_round = s.qc_round + 1, !.state = "PLAN"]
      BY <2>2, CountersNat, LimitsAssumption DEF HandleQc
    <3>2. [s EXCEPT !.qc_round = s.qc_round + 1, !.state = "PLAN"] \in PlanState
      BY QcTyped, CountersNat, Zenon
    <3> QED BY <3>1, <3>2
  <2>3. CASE ~allPass /\ s.qc_round >= MaxQcRounds
    <3>1. HandleQc(s, allPass) = Escalate(s, "qc")
      BY <2>3, CountersNat, LimitsAssumption DEF HandleQc
    <3> QED BY <3>1, NamesTyped, UpdatesTyped
  <2> QED BY <2>1, <2>2, <2>3, CountersNat, LimitsAssumption
<1>5. ASSUME NEW isBlocked \in BOOLEAN PROVE HandlePlanEnhance(s, isBlocked) \in PlanState
  <2>1. CASE isBlocked /\ s.enhance_round < MaxEnhanceRounds
    <3>1. HandlePlanEnhance(s, isBlocked) =
            [s EXCEPT !.enhance_round = s.enhance_round + 1, !.state = "PLAN"]
      BY <2>1, CountersNat, LimitsAssumption DEF HandlePlanEnhance
    <3>2. [s EXCEPT !.enhance_round = s.enhance_round + 1, !.state = "PLAN"] \in PlanState
      BY NamesTyped, EnhanceTyped, CountersNat, Zenon
    <3> QED BY <3>1, <3>2
  <2>2. CASE isBlocked /\ s.enhance_round >= MaxEnhanceRounds
    <3>1. HandlePlanEnhance(s, isBlocked) = Escalate(s, "enhance")
      BY <2>2, CountersNat, LimitsAssumption DEF HandlePlanEnhance
    <3> QED BY <3>1, NamesTyped, UpdatesTyped
  <2>3. CASE ~isBlocked
    <3>1. HandlePlanEnhance(s, isBlocked) = Goto(s, "PLAN_APPROVAL")
      BY <2>3 DEF HandlePlanEnhance
    <3> QED BY <3>1, NamesTyped, UpdatesTyped
  <2> QED BY <2>1, <2>2, <2>3, CountersNat, LimitsAssumption
<1>6. ASSUME NEW decision \in Decisions, NEW target \in {"sdd", "plan"}
      PROVE  HandlePlanApproval(s, decision, target) \in PlanState
  <2>1. [s EXCEPT !.plan_approved = TRUE, !.approval_status = "approved",
                  !.state = "WRITE_STATE"] \in PlanState
    BY NamesTyped DEF PlanState
  <2> QED
    BY <2>1, UpdatesTyped, RequestChangesTyped DEF HandlePlanApproval, Decisions
<1> QED
  BY <1>1, <1>2, <1>3, <1>4, <1>5, <1>6, UpdatesTyped, HandleReviewTyped

\* The record create_initial_state builds is well formed.
LEMMA TypeInitially == Init => TypeOK
  BY DEF Init, TypeOK, InitialState, PlanState, Phases, Tiers, Reasons

\* Every process_step call keeps the record well formed.
LEMMA TypePreserved == TypeOK /\ [Next]_vars => TypeOK'
<1> SUFFICES ASSUME TypeOK, [Next]_vars PROVE TypeOK'
  OBVIOUS
<1> USE HandlersTyped DEF TypeOK, Gates
<1>1. CASE Classify BY <1>1 DEF Classify
<1>2. CASE Brainstorm BY <1>2 DEF Brainstorm, Phases
<1>3. CASE Analyze BY <1>3 DEF Analyze, Phases
<1>4. CASE Design BY <1>4 DEF Design, Phases
<1>5. CASE Review
  <2>1. PICK blocking \in 0..MaxBlocking :
          /\ plan' = HandleReview(plan, blocking)
          /\ evidence' = IF blocking = 0 THEN evidence \union {"review"} ELSE evidence
    BY <1>5 DEF Review
  <2>2. blocking \in Nat BY LimitsAssumption
  <2>3. plan' \in PlanState BY <2>1, <2>2
  <2> QED BY <1>5, <2>1, <2>3 DEF Review
<1>6. CASE Revision BY <1>6 DEF Revision, Phases
<1>7. CASE SddApproval BY <1>7 DEF SddApproval
<1>8. CASE WritePlan BY <1>8 DEF WritePlan
<1>9. CASE GapScan BY <1>9 DEF GapScan, Phases
<1>10. CASE Qc BY <1>10 DEF Qc
<1>11. CASE PlanEnhance BY <1>11 DEF PlanEnhance
<1>12. CASE PlanApproval BY <1>12 DEF PlanApproval
<1>13. CASE WriteState BY <1>13 DEF WriteState, Phases
<1>14. CASE UNCHANGED vars BY <1>14 DEF vars
<1> QED
  BY <1>1, <1>2, <1>3, <1>4, <1>5, <1>6, <1>7, <1>8, <1>9, <1>10, <1>11,
     <1>12, <1>13, <1>14 DEF Next

\* Type correctness of the plan phase for every value of the limits.
THEOREM TypeCorrect == Spec => []TypeOK
  BY TypeInitially, TypePreserved, PTL DEF Spec

-----------------------------------------------------------------------------
(***************************************************************************)
(* Where a step leads.  Each lemma states the phase and the counters after *)
(* a handler, which is all the safety proofs need to know of it.           *)
(***************************************************************************)

\* A review revises with one more round, escalates, or passes on to approval.
LEMMA ReviewLeads ==
  ASSUME NEW s \in PlanState, NEW blocking \in Nat
  PROVE  LET t == HandleReview(s, blocking)
         IN /\ t.qc_round = s.qc_round /\ t.enhance_round = s.enhance_round
            /\ t.approval_round = s.approval_round /\ t.tier = s.tier
            /\ \/ /\ t.state = "REVISION"
                  /\ s.revision_round < MaxRevisionRounds
                  /\ t.revision_round = s.revision_round + 1
               \/ /\ t.state = "ESCALATE" /\ t.revision_round = s.revision_round
               \/ /\ t.state = "SDD_APPROVAL" /\ blocking = 0
                  /\ t.revision_round = s.revision_round
  BY LimitsAssumption
     DEF HandleReview, StartRevision, Escalate, PlanState

\* A request for changes counts one approval round and escalates at the limit.
LEMMA ChangesLead ==
  ASSUME NEW s \in PlanState, NEW target \in {"DESIGN", "PLAN"}
  PROVE  LET t == RequestChanges(s, target)
         IN /\ t.qc_round = s.qc_round /\ t.enhance_round = s.enhance_round
            /\ t.revision_round = s.revision_round /\ t.tier = s.tier
            /\ t.approval_round = s.approval_round + 1
            /\ \/ t.state = "ESCALATE" /\ t.approval_round >= MaxApprovalRounds
               \/ t.state = target /\ t.approval_round < MaxApprovalRounds
  BY LimitsAssumption DEF RequestChanges, Goto, Escalate, PlanState

\* _handle_sdd_approval leads to the plan, back to the design, or to an end.
LEMMA SddApprovalLeads ==
  ASSUME NEW s \in PlanState, NEW decision \in Decisions
  PROVE  LET t == HandleSddApproval(s, decision)
         IN /\ t.qc_round = s.qc_round /\ t.enhance_round = s.enhance_round
            /\ t.revision_round = s.revision_round /\ t.tier = s.tier
            /\ \/ t.state = "PLAN" /\ decision = "approved" /\ t.approval_round = s.approval_round
               \/ t.state = "REJECTED" /\ t.approval_round = s.approval_round
               \/ /\ t.approval_round = s.approval_round + 1
                  /\ \/ t.state = "ESCALATE" /\ t.approval_round >= MaxApprovalRounds
                     \/ t.state = "DESIGN" /\ t.approval_round < MaxApprovalRounds
<1>1. CASE decision = "approved"
  BY <1>1 DEF HandleSddApproval, PlanState
<1>2. CASE decision = "rejected"
  BY <1>2 DEF HandleSddApproval, Reject, PlanState
<1>3. CASE decision = "changes_requested"
  <2>1. HandleSddApproval(s, decision) = RequestChanges(s, "DESIGN")
    BY <1>3 DEF HandleSddApproval
  <2> QED BY <2>1, ChangesLead
<1> QED
  BY <1>1, <1>2, <1>3 DEF Decisions

\* _handle_plan_approval leads to the write, back to the plan, or to an end.
LEMMA PlanApprovalLeads ==
  ASSUME NEW s \in PlanState, NEW decision \in Decisions, NEW target \in {"sdd", "plan"}
  PROVE  LET t == HandlePlanApproval(s, decision, target)
         IN /\ t.qc_round = s.qc_round /\ t.enhance_round = s.enhance_round
            /\ t.revision_round = s.revision_round /\ t.tier = s.tier
            /\ \/ t.state = "WRITE_STATE" /\ decision = "approved" /\ t.approval_round = s.approval_round
               \/ t.state = "REJECTED" /\ t.approval_round = s.approval_round
               \/ /\ t.approval_round = s.approval_round + 1
                  /\ \/ t.state = "ESCALATE" /\ t.approval_round >= MaxApprovalRounds
                     \/ t.state \in {"DESIGN", "PLAN"} /\ t.approval_round < MaxApprovalRounds
                        /\ decision # "approved"
<1>1. CASE decision = "approved"
  BY <1>1 DEF HandlePlanApproval, PlanState
<1>2. CASE decision = "rejected"
  BY <1>2 DEF HandlePlanApproval, Reject, PlanState
<1>3. CASE decision = "changes_requested"
  <2> DEFINE back == IF target = "sdd" THEN "DESIGN" ELSE "PLAN"
  <2>1. HandlePlanApproval(s, decision, target) = RequestChanges(s, back)
    BY <1>3 DEF HandlePlanApproval
  <2>2. back \in {"DESIGN", "PLAN"}
    OBVIOUS
  <2> HIDE DEF back
  <2> QED BY <1>3, <2>1, <2>2, ChangesLead
<1> QED
  BY <1>1, <1>2, <1>3 DEF Decisions

\* _handle_qc passes on to the enhancement, counts a round, or escalates.
LEMMA QcLeads ==
  ASSUME NEW s \in PlanState, NEW allPass \in BOOLEAN
  PROVE  LET t == HandleQc(s, allPass)
         IN /\ t.revision_round = s.revision_round /\ t.tier = s.tier
            /\ t.approval_round = s.approval_round
            /\ \/ /\ t.state = "PLAN_ENHANCE" /\ allPass /\ t.qc_round = s.qc_round
                  /\ t.enhance_round = AtLeastOne(s.enhance_round)
               \/ /\ t.state = "PLAN" /\ s.qc_round < MaxQcRounds
                  /\ t.qc_round = s.qc_round + 1 /\ t.enhance_round = s.enhance_round
               \/ /\ t.state = "ESCALATE" /\ t.qc_round = s.qc_round
                  /\ t.enhance_round = s.enhance_round
  BY LimitsAssumption DEF HandleQc, Escalate, PlanState

\* _handle_plan_enhance goes back to the plan with one more round, on to
\* approval, or escalates.
LEMMA EnhanceLeads ==
  ASSUME NEW s \in PlanState, NEW isBlocked \in BOOLEAN
  PROVE  LET t == HandlePlanEnhance(s, isBlocked)
         IN /\ t.revision_round = s.revision_round /\ t.tier = s.tier
            /\ t.approval_round = s.approval_round /\ t.qc_round = s.qc_round
            /\ \/ /\ t.state = "PLAN" /\ s.enhance_round < MaxEnhanceRounds
                  /\ t.enhance_round = s.enhance_round + 1
               \/ t.state = "ESCALATE" /\ t.enhance_round = s.enhance_round
               \/ t.state = "PLAN_APPROVAL" /\ ~isBlocked /\ t.enhance_round = s.enhance_round
  BY LimitsAssumption DEF HandlePlanEnhance, Escalate, Goto, PlanState

-----------------------------------------------------------------------------
(***************************************************************************)
(* Fresh evidence.  GatesPassed is inductive relative to the types: only   *)
(* Design, Revision and WritePlan take evidence away, and each of them     *)
(* leads to a phase that requires no more than what is left.               *)
(***************************************************************************)

\* A step behind a gate has just passed it, or finds it passed and the document
\* as it was.
LEMMA GatesPreserved == TypeOK /\ GatesPassed /\ [Next]_vars => GatesPassed'
<1> SUFFICES ASSUME TypeOK, GatesPassed, [Next]_vars PROVE GatesPassed'
  OBVIOUS
<1> USE DEF GatesPassed, Required, At, Gates
<1>1. plan \in PlanState /\ MaxBlocking \in Nat
  BY LimitsAssumption DEF TypeOK
<1>2. CASE Classify
  BY <1>1, <1>2 DEF Classify, HandleInit, Tiers, PlanState
<1>3. CASE Brainstorm BY <1>1, <1>3 DEF Brainstorm, Goto, PlanState
<1>4. CASE Analyze BY <1>1, <1>4 DEF Analyze, Goto, PlanState
<1>5. CASE Design BY <1>1, <1>5 DEF Design, Goto, PlanState
<1>6. CASE Review
  <2>1. PICK blocking \in 0..MaxBlocking :
          /\ plan' = HandleReview(plan, blocking)
          /\ evidence' = IF blocking = 0 THEN evidence \union {"review"} ELSE evidence
    BY <1>6 DEF Review
  <2>2. blocking \in Nat BY <1>1
  <2>3. \/ plan'.state \in {"REVISION", "ESCALATE"}
        \/ plan'.state = "SDD_APPROVAL" /\ blocking = 0
    BY <1>1, <2>1, <2>2, ReviewLeads
  <2> QED BY <2>1, <2>3
<1>7. CASE Revision BY <1>1, <1>7 DEF Revision, Goto, PlanState
<1>8. CASE SddApproval
  <2>1. PICK decision \in Decisions :
          /\ plan' = HandleSddApproval(plan, decision)
          /\ evidence' = IF decision = "approved" THEN evidence \union {"sdd"} ELSE evidence
    BY <1>8 DEF SddApproval
  <2>2. \/ plan'.state \in {"REJECTED", "ESCALATE", "DESIGN"}
        \/ plan'.state = "PLAN" /\ decision = "approved"
    BY <1>1, <2>1, SddApprovalLeads
  <2> QED BY <1>8, <2>1, <2>2 DEF SddApproval
<1>9. CASE WritePlan BY <1>1, <1>9 DEF WritePlan, HandlePlan, PlanState
<1>10. CASE GapScan BY <1>1, <1>10 DEF GapScan, Goto, PlanState
<1>11. CASE Qc
  <2>1. PICK allPass \in BOOLEAN :
          /\ plan' = HandleQc(plan, allPass)
          /\ evidence' = IF allPass THEN evidence \union {"qc"} ELSE evidence
    BY <1>11 DEF Qc
  <2>2. \/ plan'.state \in {"PLAN", "ESCALATE"}
        \/ plan'.state = "PLAN_ENHANCE" /\ allPass
    BY <1>1, <2>1, QcLeads
  <2> QED BY <1>11, <2>1, <2>2 DEF Qc
<1>12. CASE PlanEnhance
  <2>1. PICK isBlocked \in BOOLEAN :
          /\ plan' = HandlePlanEnhance(plan, isBlocked)
          /\ evidence' = IF isBlocked THEN evidence ELSE evidence \union {"enhance"}
    BY <1>12 DEF PlanEnhance
  <2>2. \/ plan'.state \in {"PLAN", "ESCALATE"}
        \/ plan'.state = "PLAN_APPROVAL" /\ ~isBlocked
    BY <1>1, <2>1, EnhanceLeads
  <2> QED BY <1>12, <2>1, <2>2 DEF PlanEnhance
<1>13. CASE PlanApproval
  <2>1. PICK decision \in Decisions, target \in {"sdd", "plan"} :
          /\ plan' = HandlePlanApproval(plan, decision, target)
          /\ evidence' = IF decision = "approved" THEN evidence \union {"plan"} ELSE evidence
    BY <1>13 DEF PlanApproval
  <2>2. \/ plan'.state \in {"REJECTED", "ESCALATE", "DESIGN", "PLAN"}
        \/ plan'.state = "WRITE_STATE" /\ decision = "approved"
    BY <1>1, <2>1, PlanApprovalLeads
  <2> QED BY <1>13, <2>1, <2>2 DEF PlanApproval
<1>14. CASE WriteState BY <1>1, <1>14 DEF WriteState, Goto, PlanState
<1>15. CASE UNCHANGED vars BY <1>15 DEF vars
<1> QED
  BY <1>2, <1>3, <1>4, <1>5, <1>6, <1>7, <1>8, <1>9, <1>10, <1>11, <1>12,
     <1>13, <1>14, <1>15 DEF Next

\* No phase is entered on stale evidence, whatever the limits.
THEOREM FreshEvidence == Spec => []GatesPassed
<1>1. Init => GatesPassed
  BY DEF Init, InitialState, GatesPassed, Required, At
<1> QED
  BY <1>1, GatesPreserved, TypeCorrect, PTL DEF Spec

-----------------------------------------------------------------------------
(***************************************************************************)
(* Bounded rounds, and the variant.                                        *)
(***************************************************************************)

\* A handler compares its counter with the limit before it counts.
LEMMA RoundsPreserved == TypeOK /\ RoundsBounded /\ [Next]_vars => RoundsBounded'
<1> SUFFICES ASSUME TypeOK, RoundsBounded, [Next]_vars PROVE RoundsBounded'
  OBVIOUS
<1> USE LimitsAssumption DEF RoundsBounded, At
<1>1. /\ plan \in PlanState
      /\ plan.revision_round \in Nat /\ plan.qc_round \in Nat
      /\ plan.enhance_round \in Nat /\ plan.approval_round \in Nat
  BY CountersNat DEF TypeOK
<1>2. CASE Classify
  BY <1>1, <1>2 DEF Classify, HandleInit, PlanState
<1>3. CASE Brainstorm BY <1>1, <1>3 DEF Brainstorm, Goto, PlanState
<1>4. CASE Analyze BY <1>1, <1>4 DEF Analyze, Goto, PlanState
<1>5. CASE Design BY <1>1, <1>5 DEF Design, Goto, PlanState
<1>6. CASE Review
  <2>1. PICK blocking \in 0..MaxBlocking : plan' = HandleReview(plan, blocking)
    BY <1>6 DEF Review
  <2>2. blocking \in Nat OBVIOUS
  <2>3. plan.approval_round < MaxApprovalRounds BY <1>1, <1>6 DEF Review
  <2> QED BY <1>1, <2>1, <2>2, <2>3, ReviewLeads
<1>7. CASE Revision BY <1>1, <1>7 DEF Revision, Goto, PlanState
<1>8. CASE SddApproval
  <2>1. PICK decision \in Decisions : plan' = HandleSddApproval(plan, decision)
    BY <1>8 DEF SddApproval
  <2>2. plan.approval_round < MaxApprovalRounds BY <1>1, <1>8 DEF SddApproval
  <2> QED BY <1>1, <2>1, <2>2, SddApprovalLeads
<1>9. CASE WritePlan
  BY <1>1, <1>9 DEF WritePlan, HandlePlan, AtLeastOne, PlanState
<1>10. CASE GapScan BY <1>1, <1>10 DEF GapScan, Goto, PlanState
<1>11. CASE Qc
  <2>1. PICK allPass \in BOOLEAN : plan' = HandleQc(plan, allPass)
    BY <1>11 DEF Qc
  <2>2. plan.approval_round < MaxApprovalRounds BY <1>1, <1>11 DEF Qc
  <2> QED BY <1>1, <2>1, <2>2, QcLeads DEF AtLeastOne
<1>12. CASE PlanEnhance
  <2>1. PICK isBlocked \in BOOLEAN : plan' = HandlePlanEnhance(plan, isBlocked)
    BY <1>12 DEF PlanEnhance
  <2>2. plan.approval_round < MaxApprovalRounds BY <1>1, <1>12 DEF PlanEnhance
  <2> QED BY <1>1, <2>1, <2>2, EnhanceLeads
<1>13. CASE PlanApproval
  <2>1. PICK decision \in Decisions, target \in {"sdd", "plan"} :
          plan' = HandlePlanApproval(plan, decision, target)
    BY <1>13 DEF PlanApproval
  <2>2. plan.approval_round < MaxApprovalRounds BY <1>1, <1>13 DEF PlanApproval
  <2> QED BY <1>1, <2>1, <2>2, PlanApprovalLeads
<1>14. CASE WriteState BY <1>1, <1>14 DEF WriteState, Goto, PlanState
<1>15. CASE UNCHANGED vars BY <1>15 DEF vars
<1> QED
  BY <1>2, <1>3, <1>4, <1>5, <1>6, <1>7, <1>8, <1>9, <1>10, <1>11, <1>12,
     <1>13, <1>14, <1>15 DEF Next

\* The four round counters never pass their limits, whatever the limits.
THEOREM BoundedRounds == Spec => []RoundsBounded
<1>1. Init => RoundsBounded
  BY LimitsAssumption DEF Init, InitialState, RoundsBounded, At
<1> QED
  BY <1>1, RoundsPreserved, TypeCorrect, PTL DEF Spec

\* Every step uses up a round or moves on in the graph.
LEMMA StepForward == TypeOK /\ Next => Forward
<1> SUFFICES ASSUME TypeOK, Next PROVE Forward
  OBVIOUS
<1> USE LimitsAssumption DEF Forward, Rounds, Position, At
<1>1. /\ plan \in PlanState
      /\ plan.revision_round \in Nat /\ plan.qc_round \in Nat
      /\ plan.enhance_round \in Nat /\ plan.approval_round \in Nat
  BY CountersNat DEF TypeOK
<1>2. CASE Classify
  BY <1>1, <1>2 DEF Classify, HandleInit, PlanState
<1>3. CASE Brainstorm BY <1>1, <1>3 DEF Brainstorm, Goto, PlanState
<1>4. CASE Analyze BY <1>1, <1>4 DEF Analyze, Goto, PlanState
<1>5. CASE Design BY <1>1, <1>5 DEF Design, Goto, PlanState
<1>6. CASE Review
  <2>1. PICK blocking \in 0..MaxBlocking : plan' = HandleReview(plan, blocking)
    BY <1>6 DEF Review
  <2>2. blocking \in Nat OBVIOUS
  <2> QED BY <1>1, <1>6, <2>1, <2>2, ReviewLeads DEF Review
<1>7. CASE Revision BY <1>1, <1>7 DEF Revision, Goto, PlanState
<1>8. CASE SddApproval
  <2>1. PICK decision \in Decisions : plan' = HandleSddApproval(plan, decision)
    BY <1>8 DEF SddApproval
  <2> QED BY <1>1, <1>8, <2>1, SddApprovalLeads DEF SddApproval
<1>9. CASE WritePlan
  BY <1>1, <1>9 DEF WritePlan, HandlePlan, AtLeastOne, PlanState
<1>10. CASE GapScan BY <1>1, <1>10 DEF GapScan, Goto, PlanState
<1>11. CASE Qc
  <2>1. PICK allPass \in BOOLEAN : plan' = HandleQc(plan, allPass)
    BY <1>11 DEF Qc
  <2> QED BY <1>1, <1>11, <2>1, QcLeads DEF Qc, AtLeastOne
<1>12. CASE PlanEnhance
  <2>1. PICK isBlocked \in BOOLEAN : plan' = HandlePlanEnhance(plan, isBlocked)
    BY <1>12 DEF PlanEnhance
  <2> QED BY <1>1, <1>12, <2>1, EnhanceLeads DEF PlanEnhance
<1>13. CASE PlanApproval
  <2>1. PICK decision \in Decisions, target \in {"sdd", "plan"} :
          plan' = HandlePlanApproval(plan, decision, target)
    BY <1>13 DEF PlanApproval
  <2> QED BY <1>1, <1>13, <2>1, PlanApprovalLeads DEF PlanApproval
<1>14. CASE WriteState BY <1>1, <1>14 DEF WriteState, Goto, PlanState
<1> QED
  BY <1>2, <1>3, <1>4, <1>5, <1>6, <1>7, <1>8, <1>9, <1>10, <1>11, <1>12,
     <1>13, <1>14 DEF Next

\* The variant behind termination: with BoundedRounds, the plan phase takes
\* only finitely many accepted steps, whatever the limits and the answers.
THEOREM AlwaysForward == Spec => Progress
<1>1. TypeOK /\ [Next]_vars => [Forward]_plan
  BY StepForward DEF vars
<1> QED
  BY <1>1, TypeCorrect, PTL DEF Spec, Progress
=============================================================================
