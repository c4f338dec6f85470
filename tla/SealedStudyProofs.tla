------------------------- MODULE SealedStudyProofs -------------------------
(***************************************************************************)
(* SealedStudy for any number of runs, attempts and pre-finals.  Two       *)
(* things carry the proof: the concurrency group lets one run work at a    *)
(* time, so that what ListComments read still holds when PostSeal writes;  *)
(* and a receipt always names attempt 1, so that no re-run can use it.     *)
(***************************************************************************)
EXTENDS SealedStudy, TLAPS

(* The concurrency group: who works, who waits.                            *)
Grouped ==
  /\ \A r, s \in active : r = s
  /\ \A r, s \in pending : r = s
  /\ active = {} => pending = {}
  /\ \A r \in Runs : r \in active <=> stage[r] \in Working
  /\ \A r \in Runs : r \in pending <=> stage[r] = "queued"

(* Everything between the attempt check and the upload is attempt 1.       *)
FirstAttempts ==
  \A r \in Runs :
    /\ stage[r] = "idle" <=> attempt[r] = 0
    /\ stage[r] \in {"list", "post", "authorize", "record", "upload"} => attempt[r] = 1

(* What a run has in hand at its steps, and what its receipt stands for.   *)
InHand ==
  \A r \in Runs :
    /\ stage[r] = "post" => ~ Sealed(PreFinal[r])
    /\ stage[r] = "authorize" => r \in seals
    /\ receipt[r] # 0 => receipt[r] = 1 /\ r \in seals
    /\ stage[r] = "evaluate" => receipt[r] = attempt[r]

(* Only sealers have evaluated, in attempt 1, and have left it behind.     *)
SealersEvaluated ==
  \A k \in DOMAIN evaluated :
    /\ evaluated[k][1] \in seals /\ attempt[evaluated[k][1]] # 0
    /\ attempt[evaluated[k][1]] = 1 => stage[evaluated[k][1]] \in {"verify"} \cup Ended

IInv == TypeOK /\ Grouped /\ FirstAttempts /\ InHand /\ SealersEvaluated /\ SealedOnce /\ EvaluatedOnce

-----------------------------------------------------------------------------
(* The invariant of a state in which one run has moved, in its three ways. *)

LEMMA FirstStageWorks ==
  ASSUME NEW jobs
  PROVE  FirstStage(jobs) \in {"require", "attempt check", "prepare"}
  BY DEF FirstStage

(* Goto moves one working run from step to step.                           *)
LEMMA GotoGrouped ==
  ASSUME TypeOK, Grouped, NEW r \in active, NEW step \in Working, Goto(r, step)
  PROVE  /\ Grouped'
         /\ stage' \in [Runs -> {"idle", "queued"} \cup Working \cup Ended]
         /\ stage'[r] = step
         /\ \A s \in Runs : s # r => stage'[s] = stage[s] /\ stage[s] \notin Working
  BY DEF TypeOK, Grouped, Goto, group, Working

(* Leave ends the working run and starts the waiting one.                  *)
LEMMA LeaveGrouped ==
  ASSUME TypeOK, Grouped, NEW r \in active, NEW outcome \in Ended, Leave(r, outcome)
  PROVE  /\ Grouped'
         /\ stage' \in [Runs -> {"idle", "queued"} \cup Working \cup Ended]
         /\ active' \in SUBSET Runs /\ pending' \in SUBSET Runs
         /\ stage'[r] = outcome
         /\ \A s \in Runs : s # r =>
              \/ stage'[s] = stage[s] /\ stage[s] \notin Working
              \/ stage[s] = "queued" /\ stage'[s] \in {"require", "attempt check", "prepare"}
<1> DEFINE early == {"require", "attempt check", "prepare"}
<1>1. /\ r \in Runs /\ active = {r} /\ active' = pending /\ pending' = {} /\ r \notin pending
      /\ pending \in SUBSET Runs
  BY DEF TypeOK, Grouped, Leave, Working
<1>2. \A s \in Runs : stage'[s] = IF s = r THEN outcome
                                  ELSE IF s \in pending THEN FirstStage(succeeded[s]) ELSE stage[s]
  BY DEF Leave
<1>3. early \subseteq Working /\ "queued" \notin Working \cup Ended /\ Ended \cap Working = {}
  BY DEF Working, Ended
<1>4. \A s \in Runs : stage[s] \in {"idle", "queued"} \cup Working \cup Ended
  BY DEF TypeOK
<1>5. \A s \in Runs : /\ s \in pending /\ s # r => stage'[s] \in early /\ stage[s] = "queued"
                      /\ s \notin pending /\ s # r => stage'[s] = stage[s]
                                                      /\ stage[s] \notin Working
  BY <1>1, <1>2, FirstStageWorks DEF Grouped
<1>6. stage'[r] = outcome
  BY <1>1, <1>2
<1>7. stage' \in [Runs -> {"idle", "queued"} \cup Working \cup Ended]
  <2>1. \A s \in Runs : stage'[s] \in {"idle", "queued"} \cup Working \cup Ended
    BY <1>3, <1>4, <1>5, <1>6
  <2> QED BY <2>1 DEF Leave
<1>8. Grouped'
  <2>1. \A s \in Runs : s \in active' <=> stage'[s] \in Working
    BY <1>1, <1>3, <1>5, <1>6
  <2>2. \A s \in Runs : s \in pending' <=> stage'[s] = "queued"
    <3>1. \A s \in Runs : s \notin pending => stage[s] # "queued"
      BY DEF Grouped
    <3>2. "queued" \notin Ended /\ "queued" \notin early
      BY <1>3
    <3> QED BY <1>1, <1>5, <1>6, <3>1, <3>2
  <2> QED BY <1>1, <2>1, <2>2 DEF Grouped
<1> QED BY <1>1, <1>5, <1>6, <1>7, <1>8

(* Enter starts a run, or makes it wait in the place of another.           *)
LEMMA EnterGrouped ==
  ASSUME TypeOK, Grouped, NEW r \in Runs, stage[r] \in {"idle"} \cup Ended, NEW jobs, Enter(r, jobs)
  PROVE  /\ Grouped'
         /\ stage' \in [Runs -> {"idle", "queued"} \cup Working \cup Ended]
         /\ active' \in SUBSET Runs /\ pending' \in SUBSET Runs
         /\ stage'[r] \in {"queued", "require", "attempt check", "prepare"}
         /\ \A s \in Runs : s # r =>
              \/ stage'[s] = stage[s]
              \/ stage[s] = "queued" /\ stage'[s] = "cancelled"
<1>1. /\ {"require", "attempt check", "prepare"} \subseteq Working
      /\ {"idle", "queued"} \cap (Working \cup Ended) = {} /\ Ended \cap Working = {}
      /\ "cancelled" \in Ended
  BY DEF Working, Ended
<1>2. r \notin active /\ r \notin pending
  BY <1>1 DEF Grouped
<1>3. CASE active = {}
  <2>1. /\ active' = {r} /\ pending' = pending /\ pending = {}
        /\ stage' = [stage EXCEPT ![r] = FirstStage(jobs)]
    BY <1>3 DEF Enter, Grouped
  <2>2. FirstStage(jobs) \in {"require", "attempt check", "prepare"}
    BY FirstStageWorks
  <2> QED BY <1>1, <1>2, <1>3, <2>1, <2>2 DEF TypeOK, Grouped
<1>4. CASE active # {}
  <2>1. /\ active' = active /\ pending' = {r}
        /\ stage' = [s \in Runs |-> IF s = r THEN "queued"
                                    ELSE IF s \in pending THEN "cancelled" ELSE stage[s]]
    BY <1>4 DEF Enter
  <2> QED BY <1>1, <1>2, <1>4, <2>1 DEF TypeOK, Grouped
<1> QED BY <1>3, <1>4

-----------------------------------------------------------------------------
(* What the three ways of moving keep, when the evidence does not change.  *)

LEMMA EvaluatedByRuns ==
  ASSUME TypeOK PROVE \A k \in DOMAIN evaluated : evaluated[k][1] \in Runs
  BY DEF TypeOK

LEMMA InitInv == Init => IInv
<1> SUFFICES ASSUME Init PROVE IInv
  OBVIOUS
<1> USE DEF Init
<1>1. TypeOK
  BY AttemptsAssumption DEF TypeOK
<1>2. Grouped
  BY DEF Grouped, Working
<1>3. FirstAttempts /\ InHand /\ SealersEvaluated
  BY DEF FirstAttempts, InHand, SealersEvaluated
<1>4. SealedOnce /\ EvaluatedOnce
  BY DEF SealedOnce, EvaluatedOnce
<1> QED BY <1>1, <1>2, <1>3, <1>4 DEF IInv

(* A working run goes on, having what its next step asks for.              *)
LEMMA GotoInv ==
  ASSUME IInv, NEW r \in active, stage[r] # "verify",
         NEW step \in {"attempt check", "list", "post", "upload", "require", "evaluate"},
         Goto(r, step), step \in {"list", "post", "upload"} => attempt[r] = 1,
         step = "post" => ~ Sealed(PreFinal[r]),
         step = "evaluate" => receipt[r] = attempt[r],
         succeeded' \in [Runs -> SUBSET {"prepare", "authorize", "finalize"}],
         UNCHANGED <<attempt, evidence>>
  PROVE  IInv'
<1> USE DEF IInv, evidence
<1>1. step \in Working /\ r \in Runs /\ stage[r] \in Working
  BY DEF Working, TypeOK, Grouped
<1>2. /\ Grouped'
      /\ stage' \in [Runs -> {"idle", "queued"} \cup Working \cup Ended]
      /\ stage'[r] = step
      /\ \A s \in Runs : s # r => stage'[s] = stage[s] /\ stage[s] \notin Working
  BY <1>1, GotoGrouped
<1>3. TypeOK'
  BY <1>2 DEF TypeOK, Goto, group
<1>4. FirstAttempts'
  BY <1>1, <1>2 DEF FirstAttempts, Working
<1>5. InHand'
  <2> SUFFICES ASSUME NEW s \in Runs
               PROVE  /\ stage'[s] = "post" => ~ Sealed(PreFinal[s])
                      /\ stage'[s] = "authorize" => s \in seals
                      /\ receipt[s] # 0 => receipt[s] = 1 /\ s \in seals
                      /\ stage'[s] = "evaluate" => receipt[s] = attempt[s]
    BY DEF InHand, Sealed
  <2> QED BY <1>2 DEF InHand
<1>6. SealersEvaluated'
  <2>1. \A k \in DOMAIN evaluated : evaluated[k][1] \in Runs
    BY EvaluatedByRuns
  <2>2. \A k \in DOMAIN evaluated : evaluated[k][1] = r => attempt[r] # 1
    BY <1>1 DEF SealersEvaluated, Working, Ended
  <2> QED BY <1>2, <2>1, <2>2 DEF SealersEvaluated
<1>7. SealedOnce' /\ EvaluatedOnce'
  BY DEF SealedOnce, EvaluatedOnce
<1> QED BY <1>2, <1>3, <1>4, <1>5, <1>6, <1>7

(* A working run ends, whatever it adds to the evidence without harm.      *)
LEMMA LeaveInv ==
  ASSUME IInv, NEW r \in active, NEW outcome \in Ended, Leave(r, outcome),
         succeeded' \in [Runs -> SUBSET {"prepare", "authorize", "finalize"}],
         inconclusive' \in SUBSET Runs, seals \subseteq seals', seals' \in SUBSET Runs, SealedOnce',
         UNCHANGED <<attempt, receipt, evaluated>>
  PROVE  IInv'
<1> USE DEF IInv
<1>1. r \in Runs /\ stage[r] \in Working
  BY DEF TypeOK, Grouped
<1>2. /\ Grouped'
      /\ stage' \in [Runs -> {"idle", "queued"} \cup Working \cup Ended]
      /\ active' \in SUBSET Runs /\ pending' \in SUBSET Runs
      /\ stage'[r] = outcome
      /\ \A s \in Runs : s # r =>
           \/ stage'[s] = stage[s] /\ stage[s] \notin Working
           \/ stage[s] = "queued" /\ stage'[s] \in {"require", "attempt check", "prepare"}
  BY LeaveGrouped
<1>3. TypeOK'
  BY <1>2 DEF TypeOK
<1>4. FirstAttempts'
  BY <1>1, <1>2 DEF FirstAttempts, Working, Ended
<1>5. InHand'
  BY <1>1, <1>2 DEF InHand, Working, Ended
<1>6. SealersEvaluated'
  <2>1. \A k \in DOMAIN evaluated : evaluated[k][1] \in Runs
    BY EvaluatedByRuns
  <2>2. \A k \in DOMAIN evaluated : attempt[evaluated[k][1]] = 1 => stage[evaluated[k][1]] # "queued"
    BY DEF SealersEvaluated, Ended
  <2> QED BY <1>2, <2>1, <2>2 DEF SealersEvaluated
<1>7. EvaluatedOnce'
  BY DEF EvaluatedOnce
<1> QED BY <1>2, <1>3, <1>4, <1>5, <1>6, <1>7

(* A run is dispatched or re-run.                                          *)
LEMMA EnterInv ==
  ASSUME IInv, NEW r \in Runs, stage[r] \in {"idle"} \cup Ended, NEW jobs, Enter(r, jobs),
         attempt' = [attempt EXCEPT ![r] = attempt[r] + 1], attempt[r] < MaxAttempts,
         succeeded' \in [Runs -> SUBSET {"prepare", "authorize", "finalize"}],
         UNCHANGED evidence
  PROVE  IInv'
<1> USE DEF IInv, evidence
<1>1. /\ Grouped'
      /\ stage' \in [Runs -> {"idle", "queued"} \cup Working \cup Ended]
      /\ active' \in SUBSET Runs /\ pending' \in SUBSET Runs
      /\ stage'[r] \in {"queued", "require", "attempt check", "prepare"}
      /\ \A s \in Runs : s # r =>
           \/ stage'[s] = stage[s]
           \/ stage[s] = "queued" /\ stage'[s] = "cancelled"
  BY EnterGrouped
<1>2. /\ attempt[r] + 1 \in 1 .. MaxAttempts /\ attempt'[r] = attempt[r] + 1
      /\ \A s \in Runs : s # r => attempt'[s] = attempt[s]
      /\ attempt' \in [Runs -> 0 .. MaxAttempts]
  BY AttemptsAssumption DEF TypeOK
<1>3. TypeOK'
  BY <1>1, <1>2 DEF TypeOK
<1>4. FirstAttempts'
  <2> SUFFICES ASSUME NEW s \in Runs
               PROVE  /\ stage'[s] = "idle" <=> attempt'[s] = 0
                      /\ stage'[s] \in {"list", "post", "authorize", "record", "upload"}
                           => attempt'[s] = 1
    BY DEF FirstAttempts
  <2>1. CASE s = r
    <3>1. attempt'[r] # 0
      BY <1>2, AttemptsAssumption
    <3> QED BY <1>1, <2>1, <3>1
  <2>2. CASE s # r
    <3>1. attempt'[s] = attempt[s]
      BY <1>2, <2>2
    <3>2. CASE stage'[s] = stage[s]
      BY <3>1, <3>2 DEF FirstAttempts
    <3>3. CASE stage[s] = "queued" /\ stage'[s] = "cancelled"
      BY <3>1, <3>3 DEF FirstAttempts
    <3> QED BY <1>1, <2>2, <3>2, <3>3
  <2> QED BY <2>1, <2>2
<1>5. InHand'
  BY <1>1, <1>2 DEF InHand, Sealed
<1>6. SealersEvaluated'
  <2>1. \A k \in DOMAIN evaluated : evaluated[k][1] \in Runs
    BY EvaluatedByRuns
  <2>2. \A k \in DOMAIN evaluated : evaluated[k][1] = r => attempt'[r] # 1
    BY <1>2 DEF SealersEvaluated, TypeOK
  <2>3. "cancelled" \in Ended
    BY DEF Ended
  <2> SUFFICES ASSUME NEW k \in DOMAIN evaluated
               PROVE  /\ evaluated[k][1] \in seals /\ attempt'[evaluated[k][1]] # 0
                      /\ attempt'[evaluated[k][1]] = 1
                           => stage'[evaluated[k][1]] \in {"verify"} \cup Ended
    BY DEF SealersEvaluated
  <2>4. CASE evaluated[k][1] = r
    BY <1>2, <2>2, <2>4, AttemptsAssumption DEF SealersEvaluated
  <2>5. CASE evaluated[k][1] # r
    BY <1>1, <1>2, <2>1, <2>3, <2>5 DEF SealersEvaluated
  <2> QED BY <2>4, <2>5
<1>7. SealedOnce' /\ EvaluatedOnce'
  BY DEF SealedOnce, EvaluatedOnce
<1> QED BY <1>1, <1>3, <1>4, <1>5, <1>6, <1>7

-----------------------------------------------------------------------------
(* The steps that change the evidence.                                     *)

(* The run that posts is the only one that works: nobody has sealed its    *)
(* pre-final since it read the comments.                                   *)
LEMMA PostInv ==
  ASSUME IInv, NEW r \in Runs, PostSeal(r)
  PROVE  IInv'
<1> USE DEF IInv
<1>1. /\ r \in active /\ stage[r] = "post" /\ seals' = seals \cup {r}
      /\ UNCHANGED <<attempt, succeeded, inconclusive, receipt, evaluated>>
  BY DEF PostSeal, At
<1>2. SealedOnce'
  BY <1>1 DEF SealedOnce, InHand, Sealed
<1>3. seals \subseteq seals' /\ seals' \in SUBSET Runs
  BY <1>1 DEF TypeOK
<1>4. CASE Leave(r, "failed")
  <2>1. "failed" \in Ended
    BY DEF Ended
  <2>2. /\ succeeded' \in [Runs -> SUBSET {"prepare", "authorize", "finalize"}]
        /\ inconclusive' \in SUBSET Runs
    BY <1>1 DEF TypeOK
  <2> QED BY <1>1, <1>2, <1>3, <1>4, <2>1, <2>2, LeaveInv
<1>5. CASE Goto(r, "authorize")
  <2>1. "authorize" \in Working /\ "post" \in Working
    BY DEF Working
  <2>2. /\ Grouped'
        /\ stage' \in [Runs -> {"idle", "queued"} \cup Working \cup Ended]
        /\ stage'[r] = "authorize"
        /\ \A s \in Runs : s # r => stage'[s] = stage[s] /\ stage[s] \notin Working
    BY <1>1, <1>5, <2>1, GotoGrouped
  <2>3. TypeOK'
    BY <1>1, <1>3, <1>5, <2>2 DEF TypeOK, Goto, group
  <2>4. FirstAttempts'
    BY <1>1, <2>2 DEF FirstAttempts
  <2>5. InHand'
    BY <1>1, <2>1, <2>2 DEF InHand
  <2>6. SealersEvaluated'
    <3>1. \A k \in DOMAIN evaluated : evaluated[k][1] \in Runs /\ evaluated[k][1] # r
      BY <1>1, EvaluatedByRuns DEF SealersEvaluated, FirstAttempts, Ended
    <3> QED BY <1>1, <2>2, <3>1 DEF SealersEvaluated
  <2>7. EvaluatedOnce'
    BY <1>1 DEF EvaluatedOnce
  <2> QED BY <1>2, <2>2, <2>3, <2>4, <2>5, <2>6, <2>7
<1> QED BY <1>4, <1>5 DEF PostSeal

(* The receipt is written in attempt 1, under the seal.                    *)
LEMMA AuthorizeInv ==
  ASSUME IInv, NEW r \in Runs, Authorize(r)
  PROVE  IInv'
<1> USE DEF IInv
<1>1. /\ r \in active /\ stage[r] = "authorize" /\ receipt' = [receipt EXCEPT ![r] = attempt[r]]
      /\ Goto(r, "record")
      /\ UNCHANGED <<attempt, succeeded, seals, inconclusive, evaluated>>
  BY DEF Authorize, At
<1>2. "record" \in Working
  BY DEF Working
<1>3. /\ Grouped'
      /\ stage' \in [Runs -> {"idle", "queued"} \cup Working \cup Ended]
      /\ stage'[r] = "record"
      /\ \A s \in Runs : s # r => stage'[s] = stage[s] /\ stage[s] \notin Working
  BY <1>1, <1>2, GotoGrouped
<1>4. attempt[r] = 1 /\ r \in seals
  BY <1>1 DEF FirstAttempts, InHand
<1>5. /\ receipt' \in [Runs -> 0 .. MaxAttempts] /\ receipt'[r] = 1
      /\ \A s \in Runs : s # r => receipt'[s] = receipt[s]
  BY <1>1, <1>4 DEF TypeOK
<1>6. TypeOK'
  BY <1>1, <1>3, <1>5 DEF TypeOK, Goto, group
<1>7. FirstAttempts'
  BY <1>1, <1>3, <1>4 DEF FirstAttempts
<1>8. InHand'
  <2> SUFFICES ASSUME NEW s \in Runs
               PROVE  /\ stage'[s] = "post" => ~ Sealed(PreFinal[s])
                      /\ stage'[s] = "authorize" => s \in seals
                      /\ receipt'[s] # 0 => receipt'[s] = 1 /\ s \in seals
                      /\ stage'[s] = "evaluate" => receipt'[s] = attempt[s]
    BY <1>1 DEF InHand, Sealed
  <2>1. CASE s = r
    BY <1>3, <1>4, <1>5, <2>1
  <2>2. CASE s # r
    BY <1>3, <1>5, <2>2 DEF InHand
  <2> QED BY <2>1, <2>2
<1>9. SealersEvaluated'
  <2>1. \A k \in DOMAIN evaluated : evaluated[k][1] \in Runs /\ evaluated[k][1] # r
    BY <1>1, <1>4, EvaluatedByRuns DEF SealersEvaluated, Ended
  <2> QED BY <1>1, <1>3, <2>1 DEF SealersEvaluated
<1>10. SealedOnce' /\ EvaluatedOnce'
  BY <1>1 DEF SealedOnce, EvaluatedOnce
<1> QED BY <1>3, <1>6, <1>7, <1>8, <1>9, <1>10

(* The run that evaluates is a sealer in attempt 1, and has not evaluated. *)
LEMMA EvaluateInv ==
  ASSUME IInv, NEW r \in Runs, Evaluate(r)
  PROVE  IInv' /\ r \in active \cap seals /\ evaluated' = Append(evaluated, <<r, 1>>)
<1> USE DEF IInv
<1>1. /\ r \in active /\ stage[r] = "evaluate" /\ Goto(r, "verify")
      /\ evaluated' = Append(evaluated, <<r, attempt[r]>>)
      /\ UNCHANGED <<attempt, succeeded, seals, inconclusive, receipt>>
  BY DEF Evaluate, At
<1>2. "verify" \in Working
  BY DEF Working
<1>3. /\ Grouped'
      /\ stage' \in [Runs -> {"idle", "queued"} \cup Working \cup Ended]
      /\ stage'[r] = "verify"
      /\ \A s \in Runs : s # r => stage'[s] = stage[s] /\ stage[s] \notin Working
  BY <1>1, <1>2, GotoGrouped
<1>4. attempt[r] = 1 /\ r \in seals
  BY <1>1 DEF FirstAttempts, InHand
<1>5. \A k \in DOMAIN evaluated : evaluated[k][1] \in seals /\ evaluated[k][1] # r
  BY <1>1, <1>4 DEF SealersEvaluated, Ended
<1>6. /\ evaluated \in Seq(Runs \X (1 .. MaxAttempts)) /\ <<r, 1>> \in Runs \X (1 .. MaxAttempts)
      /\ evaluated' = Append(evaluated, <<r, 1>>)
  BY <1>1, <1>4, AttemptsAssumption DEF TypeOK
<1>7. /\ evaluated' \in Seq(Runs \X (1 .. MaxAttempts))
      /\ DOMAIN evaluated = 1 .. Len(evaluated) /\ Len(evaluated) \in Nat
      /\ DOMAIN evaluated' = 1 .. Len(evaluated) + 1
      /\ evaluated'[Len(evaluated) + 1] = <<r, 1>>
      /\ \A k \in 1 .. Len(evaluated) : evaluated'[k] = evaluated[k]
  BY <1>6
<1>8. \A k \in DOMAIN evaluated' :
        \/ k = Len(evaluated) + 1 /\ evaluated'[k][1] = r
        \/ k \in DOMAIN evaluated /\ evaluated'[k] = evaluated[k]
  BY <1>7
<1>9. TypeOK'
  BY <1>1, <1>3, <1>7 DEF TypeOK, Goto, group
<1>10. FirstAttempts'
  BY <1>1, <1>3 DEF FirstAttempts
<1>11. InHand'
  <2> SUFFICES ASSUME NEW s \in Runs
               PROVE  /\ stage'[s] = "post" => ~ Sealed(PreFinal[s])
                      /\ stage'[s] = "authorize" => s \in seals
                      /\ receipt[s] # 0 => receipt[s] = 1 /\ s \in seals
                      /\ stage'[s] = "evaluate" => receipt[s] = attempt[s]
    BY <1>1 DEF InHand, Sealed
  <2> QED BY <1>3 DEF InHand
<1>12. SealersEvaluated'
  <2> SUFFICES ASSUME NEW k \in DOMAIN evaluated'
               PROVE  /\ evaluated'[k][1] \in seals /\ attempt[evaluated'[k][1]] # 0
                      /\ attempt[evaluated'[k][1]] = 1
                           => stage'[evaluated'[k][1]] \in {"verify"} \cup Ended
    BY <1>1 DEF SealersEvaluated
  <2>1. CASE evaluated'[k][1] = r
    BY <1>3, <1>4, <2>1
  <2>2. CASE k \in DOMAIN evaluated /\ evaluated'[k] = evaluated[k]
    BY <1>3, <1>5, <2>2, EvaluatedByRuns DEF SealersEvaluated
  <2> QED BY <1>8, <2>1, <2>2
<1>13. SealedOnce'
  BY <1>1 DEF SealedOnce
<1>14. EvaluatedOnce'
  <2> SUFFICES ASSUME NEW j \in DOMAIN evaluated', NEW k \in DOMAIN evaluated',
                      PreFinal[evaluated'[j][1]] = PreFinal[evaluated'[k][1]]
               PROVE  j = k
    BY DEF EvaluatedOnce
  <2>1. CASE j \in DOMAIN evaluated /\ k \in DOMAIN evaluated
    BY <1>7, <2>1 DEF EvaluatedOnce
  <2>2. evaluated'[j][1] = evaluated'[k][1] \/ (j \in DOMAIN evaluated /\ k \in DOMAIN evaluated)
    BY <1>4, <1>5, <1>8 DEF SealedOnce
  <2> QED BY <1>5, <1>8, <2>1, <2>2
<1> QED BY <1>1, <1>3, <1>4, <1>6, <1>9, <1>10, <1>11, <1>12, <1>13, <1>14 DEF TypeOK

-----------------------------------------------------------------------------
LEMMA StepInv ==
  ASSUME IInv, NEW r \in Runs, Step(r)
  PROVE  IInv'
<1> USE DEF IInv
<1> DEFINE jobs == {"prepare", "authorize", "finalize"}
<1>0. "failed" \in Ended /\ "succeeded" \in Ended /\ succeeded \in [Runs -> SUBSET jobs]
      /\ inconclusive \in SUBSET Runs /\ seals \in SUBSET Runs /\ attempt \in [Runs -> 0 .. MaxAttempts]
  BY DEF TypeOK, Ended
<1>1. CASE UNCHANGED <<attempt, succeeded, evidence>> /\ r \in active /\ Leave(r, "failed")
  BY <1>0, <1>1, LeaveInv DEF evidence, SealedOnce
<1>2. CASE Prepare(r)
  <2>1. succeeded' \in [Runs -> SUBSET jobs]
    BY <1>0, <1>2 DEF Prepare
  <2> QED BY <1>2, <2>1, GotoInv DEF Prepare, At
<1>3. CASE CheckAttempt(r)
  <2>1. CASE attempt[r] = 1
    BY <1>0, <1>3, <2>1, GotoInv DEF CheckAttempt, At
  <2>2. CASE attempt[r] # 1
    BY <1>1, <1>3, <2>2 DEF CheckAttempt, At
  <2> QED BY <2>1, <2>2
<1>4. CASE ListComments(r)
  <2>1. attempt[r] = 1 /\ stage[r] = "list" /\ r \in active
    BY <1>4 DEF ListComments, At, FirstAttempts
  <2>2. CASE Sealed(PreFinal[r])
    BY <1>1, <1>4, <2>2 DEF ListComments, At
  <2>3. CASE ~ Sealed(PreFinal[r])
    BY <1>0, <1>4, <2>1, <2>3, GotoInv DEF ListComments
  <2> QED BY <2>2, <2>3
<1>5. CASE RecordReceipt(r)
  <2>1. attempt[r] = 1 /\ stage[r] = "record" /\ r \in active
    BY <1>5 DEF RecordReceipt, At, FirstAttempts
  <2> QED BY <1>0, <1>5, <2>1, GotoInv DEF RecordReceipt
<1>6. CASE MarkInconclusive(r)
  <2>1. inconclusive' \in SUBSET Runs
    BY <1>0, <1>6 DEF MarkInconclusive
  <2>2. /\ r \in active /\ Leave(r, "failed")
        /\ UNCHANGED <<attempt, succeeded, seals, receipt, evaluated>>
    BY <1>6 DEF MarkInconclusive
  <2> QED BY <1>0, <2>1, <2>2, LeaveInv DEF SealedOnce
<1>7. CASE Upload(r)
  <2>1. succeeded' \in [Runs -> SUBSET jobs]
    BY <1>0, <1>7 DEF Upload
  <2> QED BY <1>7, <2>1, GotoInv DEF Upload, At
<1>8. CASE RequireReceipt(r)
  <2>1. CASE receipt[r] = attempt[r]
    BY <1>0, <1>8, <2>1, GotoInv DEF RequireReceipt, At
  <2>2. CASE receipt[r] # attempt[r]
    BY <1>1, <1>8, <2>2 DEF RequireReceipt, At
  <2> QED BY <2>1, <2>2
<1>9. CASE Verify(r)
  <2>1. succeeded' \in [Runs -> SUBSET jobs]
    BY <1>0, <1>9 DEF Verify
  <2>2. /\ r \in active /\ Leave(r, "succeeded") /\ UNCHANGED <<attempt, evidence>>
    BY <1>9 DEF Verify, At
  <2> QED BY <1>0, <2>1, <2>2, LeaveInv DEF evidence, SealedOnce
<1>10. CASE Fail(r)
  BY <1>1, <1>10 DEF Fail
<1> QED
  BY <1>2, <1>3, <1>4, <1>5, <1>6, <1>7, <1>8, <1>9, <1>10, PostInv, AuthorizeInv, EvaluateInv
     DEF Step

LEMMA NextInv ==
  ASSUME IInv, [Next]_vars PROVE IInv'
<1>1. CASE UNCHANGED vars
  BY <1>1 DEF vars, IInv, TypeOK, Grouped, FirstAttempts, InHand, Sealed, SealersEvaluated,
     SealedOnce, EvaluatedOnce
<1>2. ASSUME NEW r \in Runs, Dispatch(r) PROVE IInv'
  <2>1. attempt[r] = 0 /\ 0 + 1 = 1 /\ 0 < MaxAttempts
    BY <1>2, AttemptsAssumption DEF Dispatch, IInv, FirstAttempts
  <2>2. succeeded' \in [Runs -> SUBSET {"prepare", "authorize", "finalize"}]
    BY <1>2 DEF Dispatch, IInv, TypeOK
  <2> QED BY <1>2, <2>1, <2>2, EnterInv DEF Dispatch
<1>3. ASSUME NEW r \in Runs, Rerun(r) PROVE IInv'
  <2>1. PICK jobs \in {{}, succeeded[r]} :
          succeeded' = [succeeded EXCEPT ![r] = jobs] /\ Enter(r, jobs)
    BY <1>3 DEF Rerun
  <2>2. succeeded' \in [Runs -> SUBSET {"prepare", "authorize", "finalize"}]
    BY <2>1 DEF IInv, TypeOK
  <2>3. /\ stage[r] \in Ended /\ attempt[r] < MaxAttempts /\ UNCHANGED evidence
        /\ attempt' = [attempt EXCEPT ![r] = attempt[r] + 1]
    BY <1>3 DEF Rerun
  <2> QED BY <2>1, <2>2, <2>3, EnterInv
<1> QED BY <1>1, <1>2, <1>3, StepInv DEF Next

-----------------------------------------------------------------------------
(* Every state of the workflow is grouped, and every step a run is at has  *)
(* behind it what the jobs before it established.                          *)
THEOREM InvariantHolds == Spec => []IInv
<1>1. Init => IInv
  BY InitInv
<1>2. IInv /\ [Next]_vars => IInv'
  BY NextInv
<1> QED BY <1>1, <1>2, PTL DEF Spec

(* The variables keep their types.                                         *)
THEOREM TypeCorrect == Spec => []TypeOK
<1>1. IInv => TypeOK
  BY DEF IInv
<1> QED BY <1>1, InvariantHolds, PTL

(* "Acquire one-time Issue 22 repository seal": one run at most seals a    *)
(* pre-final, although the comments are read and posted in two requests.   *)
THEOREM OneSealPerPreFinal == Spec => []SealedOnce
<1>1. IInv => SealedOnce
  BY DEF IInv
<1> QED BY <1>1, InvariantHolds, PTL

(* The job finalize evaluates the final rows of a pre-final at most once,  *)
(* over all runs and all their attempts.                                   *)
THEOREM OneEvaluationPerPreFinal == Spec => []EvaluatedOnce
<1>1. IInv => EvaluatedOnce
  BY DEF IInv
<1> QED BY <1>1, InvariantHolds, PTL

(* Every evaluation is a step of a run that holds the seal and executes    *)
(* for the first time ("Require receipt run and attempt identity").        *)
THEOREM SealersAlone == Spec => OnlyTheSealerEvaluates
<1> DEFINE Sealer == evaluated' # evaluated =>
                       \E r \in active \cap seals : evaluated' = Append(evaluated, <<r, 1>>)
<1>1. IInv /\ [Next]_vars => [Sealer]_vars
  <2> SUFFICES ASSUME IInv, Next, evaluated' # evaluated
               PROVE  \E r \in active \cap seals : evaluated' = Append(evaluated, <<r, 1>>)
    BY DEF vars
  <2>1. PICK r \in Runs : Evaluate(r)
    BY DEF Next, Step, Dispatch, Rerun, Prepare, CheckAttempt, ListComments, PostSeal, Authorize,
       RecordReceipt, MarkInconclusive, Upload, RequireReceipt, Verify, Fail, evidence
  <2> QED BY <2>1, EvaluateInv
<1> QED BY <1>1, InvariantHolds, PTL DEF Spec, OnlyTheSealerEvaluates

-----------------------------------------------------------------------------
(* A run that was marked INCONCLUSIVE holds its seal, has ended its first  *)
(* attempt and has not evaluated.                                          *)
MarkedRuns ==
  /\ \A r \in Runs : stage[r] = "record" => r \in seals
  /\ \A r \in inconclusive :
       /\ r \in seals /\ attempt[r] # 0
       /\ attempt[r] = 1 => stage[r] \in Ended
       /\ \A k \in DOMAIN evaluated : evaluated[k][1] # r

(* A run that moves, and what becomes of the others.                       *)
LEMMA StepMoves ==
  ASSUME IInv, NEW r \in Runs, Step(r)
  PROVE  /\ r \in active /\ stage[r] \in Working
         /\ \A s \in Runs : s # r =>
              \/ stage'[s] = stage[s]
              \/ stage[s] = "queued" /\ stage'[s] \in {"require", "attempt check", "prepare"}
         /\ UNCHANGED attempt /\ seals \subseteq seals'
         /\ stage'[r] = "record" => r \in seals
<1> USE DEF IInv
<1>1. r \in active /\ UNCHANGED attempt /\ seals \subseteq seals'
  BY DEF Step, Prepare, CheckAttempt, ListComments, PostSeal, Authorize, RecordReceipt,
     MarkInconclusive, Upload, RequireReceipt, Evaluate, Verify, Fail, At, evidence
<1>2. \/ \E step \in Working \ {"record"} : Goto(r, step)
      \/ \E outcome \in Ended : Leave(r, outcome)
      \/ Authorize(r)
  BY DEF Step, Prepare, CheckAttempt, ListComments, PostSeal, RecordReceipt,
     MarkInconclusive, Upload, RequireReceipt, Evaluate, Verify, Fail, Working, Ended
<1>3. stage[r] \in Working
  BY <1>1 DEF Grouped
<1>4. CASE \E step \in Working \ {"record"} : Goto(r, step)
  BY <1>1, <1>3, <1>4, GotoGrouped
<1>5. CASE \E outcome \in Ended : Leave(r, outcome)
  <2>1. PICK outcome \in Ended : Leave(r, outcome)
    BY <1>5
  <2>2. stage'[r] = outcome /\ outcome # "record"
    BY <1>1, <2>1, LeaveGrouped DEF Ended
  <2> QED BY <1>1, <1>3, <2>1, <2>2, LeaveGrouped
<1>6. CASE Authorize(r)
  <2>1. Goto(r, "record") /\ r \in seals /\ "record" \in Working
    BY <1>6 DEF Authorize, At, InHand, Working
  <2> QED BY <1>1, <1>3, <2>1, GotoGrouped
<1> QED BY <1>2, <1>4, <1>5, <1>6

(* A step that marks and evaluates nothing.                                *)
LEMMA QuietStep ==
  ASSUME IInv, MarkedRuns, NEW r \in Runs,
         \A s \in Runs : s # r =>
           \/ stage'[s] = stage[s]
           \/ stage[s] = "queued"
              /\ stage'[s] \in {"require", "attempt check", "prepare", "cancelled"},
         \A s \in Runs : s # r => attempt'[s] = attempt[s],
         attempt'[r] # 0, attempt[r] = 1 /\ stage[r] \in Ended => attempt'[r] # 1,
         attempt[r] # 0 /\ attempt[r] # 1 => attempt'[r] # 1,
         stage'[r] = "record" => r \in seals, seals \subseteq seals',
         UNCHANGED <<inconclusive, evaluated>>
  PROVE  MarkedRuns'
<1>1. inconclusive \in SUBSET Runs
  BY DEF IInv, TypeOK
<1>2. \A s \in Runs : stage'[s] = "record" => s \in seals'
  BY DEF MarkedRuns
<1>3. ASSUME NEW s \in inconclusive
      PROVE  /\ s \in seals' /\ attempt'[s] # 0
             /\ attempt'[s] = 1 => stage'[s] \in Ended
             /\ \A k \in DOMAIN evaluated' : evaluated'[k][1] # s
  <2>1. "queued" \notin Ended
    BY DEF Ended
  <2>2. CASE s = r
    BY <2>2 DEF MarkedRuns
  <2>3. CASE s # r
    BY <1>1, <2>1, <2>3 DEF MarkedRuns
  <2> QED BY <2>2, <2>3
<1> QED BY <1>2, <1>3 DEF MarkedRuns

LEMMA MarkedNext ==
  ASSUME IInv, MarkedRuns, [Next]_vars
  PROVE  MarkedRuns'
<1> USE DEF IInv
<1>0. "idle" \notin Ended /\ Working \cap Ended = {}
  BY DEF Ended, Working
<1>1. CASE UNCHANGED vars
  BY <1>1 DEF vars, MarkedRuns
<1>2. ASSUME NEW r \in Runs, Dispatch(r) \/ Rerun(r) PROVE MarkedRuns'
  <2>1. /\ UNCHANGED evidence /\ stage[r] \in {"idle"} \cup Ended
        /\ \E jobs : Enter(r, jobs)
    BY <1>2 DEF Dispatch, Rerun
  <2>2. /\ attempt' \in [Runs -> Nat]
        /\ attempt'[r] = attempt[r] + 1
        /\ \A s \in Runs : s # r => attempt'[s] = attempt[s]
    <3>1. attempt \in [Runs -> Nat]
      BY AttemptsAssumption DEF TypeOK
    <3>2. CASE Dispatch(r)
      <4>1. attempt[r] = 0
        BY <3>2 DEF Dispatch, FirstAttempts
      <4> QED BY <3>1, <3>2, <4>1 DEF Dispatch
    <3>3. CASE Rerun(r)
      BY <3>1, <3>3 DEF Rerun
    <3> QED BY <1>2, <3>2, <3>3
  <2>3. attempt[r] \in Nat
    BY AttemptsAssumption DEF TypeOK
  <2>4. /\ stage'[r] \in {"queued", "require", "attempt check", "prepare"}
        /\ \A s \in Runs : s # r =>
             \/ stage'[s] = stage[s]
             \/ stage[s] = "queued" /\ stage'[s] = "cancelled"
    BY <2>1, EnterGrouped
  <2>5. /\ attempt'[r] # 0 /\ (attempt[r] # 0 => attempt'[r] # 1)
    BY <2>2, <2>3
  <2> QED BY <2>1, <2>2, <2>4, <2>5, QuietStep DEF evidence
<1>3. ASSUME NEW r \in Runs, Step(r) PROVE MarkedRuns'
  <2>1. /\ r \in active /\ stage[r] \in Working
        /\ \A s \in Runs : s # r =>
             \/ stage'[s] = stage[s]
             \/ stage[s] = "queued" /\ stage'[s] \in {"require", "attempt check", "prepare"}
        /\ UNCHANGED attempt /\ seals \subseteq seals'
        /\ stage'[r] = "record" => r \in seals
    BY <1>3, StepMoves
  <2>2. attempt[r] # 0
    BY <1>0, <2>1 DEF FirstAttempts, Working
  <2>3. CASE UNCHANGED <<inconclusive, evaluated>>
    BY <1>0, <2>1, <2>2, <2>3, QuietStep
  <2>4. CASE MarkInconclusive(r)
    <3>1. /\ stage[r] \in {"authorize", "record"} /\ inconclusive' = inconclusive \cup {r}
          /\ Leave(r, "failed") /\ "failed" \in Ended
          /\ UNCHANGED <<attempt, seals, evaluated>>
      BY <2>4 DEF MarkInconclusive, Ended
    <3>2. attempt[r] = 1 /\ r \in seals
      BY <3>1 DEF FirstAttempts, InHand, MarkedRuns
    <3>3. stage'[r] = "failed"
      BY <2>1, <3>1, LeaveGrouped
    <3>4. \A k \in DOMAIN evaluated : evaluated[k][1] # r
      BY <3>1, <3>2 DEF SealersEvaluated, Ended
    <3>5. \A s \in Runs : stage'[s] = "record" => s \in seals'
      BY <2>1, <3>1, <3>3 DEF MarkedRuns
    <3>6. inconclusive \in SUBSET Runs /\ "queued" \notin Ended
      BY DEF TypeOK, Ended
    <3>7. ASSUME NEW s \in inconclusive, s # r
          PROVE  /\ s \in seals' /\ attempt'[s] # 0
                 /\ attempt'[s] = 1 => stage'[s] \in Ended
                 /\ \A k \in DOMAIN evaluated' : evaluated'[k][1] # s
      BY <2>1, <3>1, <3>6, <3>7 DEF MarkedRuns
    <3> QED BY <3>1, <3>2, <3>3, <3>4, <3>5, <3>7 DEF MarkedRuns
  <2>5. CASE Evaluate(r)
    <3>1. /\ stage[r] = "evaluate" /\ evaluated' = Append(evaluated, <<r, 1>>)
          /\ UNCHANGED <<attempt, seals, inconclusive>>
      BY <2>5, EvaluateInv DEF Evaluate, At
    <3>2. attempt[r] = 1 /\ r \notin inconclusive
      <4>1. attempt[r] = 1
        BY <2>2, <3>1 DEF InHand
      <4>2. stage[r] \notin Ended
        BY <1>0, <2>1
      <4> QED BY <4>1, <4>2 DEF MarkedRuns
    <3>3. /\ evaluated \in Seq(Runs \X (1 .. MaxAttempts))
          /\ <<r, 1>> \in Runs \X (1 .. MaxAttempts)
      BY AttemptsAssumption DEF TypeOK
    <3>4. \A k \in DOMAIN evaluated' :
            evaluated'[k] = <<r, 1>> \/ (k \in DOMAIN evaluated /\ evaluated'[k] = evaluated[k])
      <4>1. /\ DOMAIN evaluated = 1 .. Len(evaluated) /\ Len(evaluated) \in Nat
            /\ DOMAIN evaluated' = 1 .. Len(evaluated) + 1
            /\ evaluated'[Len(evaluated) + 1] = <<r, 1>>
            /\ \A k \in 1 .. Len(evaluated) : evaluated'[k] = evaluated[k]
        BY <3>1, <3>3
      <4> QED BY <4>1
    <3>5. inconclusive \in SUBSET Runs /\ "queued" \notin Ended
      BY DEF TypeOK, Ended
    <3>6. ASSUME NEW s \in inconclusive
          PROVE  /\ s \in seals' /\ attempt'[s] # 0
                 /\ attempt'[s] = 1 => stage'[s] \in Ended
                 /\ \A k \in DOMAIN evaluated' : evaluated'[k][1] # s
      <4>1. s # r
        BY <3>2
      <4>2. \A k \in DOMAIN evaluated' : evaluated'[k][1] # s
        BY <3>4, <4>1 DEF MarkedRuns
      <4> QED BY <2>1, <3>1, <3>5, <4>1, <4>2 DEF MarkedRuns
    <3>7. \A s \in Runs : stage'[s] = "record" => s \in seals'
      BY <2>1, <3>1 DEF MarkedRuns
    <3> QED BY <3>1, <3>6, <3>7 DEF MarkedRuns
  <2> QED
    BY <1>3, <2>3, <2>4, <2>5 DEF Step, Prepare, CheckAttempt, ListComments, PostSeal, Authorize,
       RecordReceipt, Upload, RequireReceipt, Verify, Fail, evidence
<1> QED BY <1>1, <1>2, <1>3 DEF Next

(* A pre-final whose seal was marked INCONCLUSIVE is not evaluated, before *)
(* or after, by any run or attempt (sealed-btcusdt-study.yml:314).         *)
THEOREM InconclusiveIsFinal == Spec => []InconclusiveStaysSealed
<1>1. Init => MarkedRuns
  BY DEF Init, MarkedRuns
<1>2. IInv /\ MarkedRuns => InconclusiveStaysSealed
  BY DEF IInv, MarkedRuns, SealersEvaluated, SealedOnce, InconclusiveStaysSealed
<1>3. IInv /\ MarkedRuns /\ [Next]_vars => MarkedRuns'
  BY MarkedNext
<1> QED BY <1>1, <1>2, <1>3, InvariantHolds, PTL DEF Spec
=============================================================================
