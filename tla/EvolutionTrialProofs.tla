------------------------- MODULE EvolutionTrialProofs -------------------------
(***************************************************************************)
(* The safety of a governed trial, for any keys, patches, deployments and  *)
(* numbers of attempts and faults: the candidate follows its trials, a     *)
(* trial has one proof, and a pass leaves nothing behind.                  *)
(***************************************************************************)
EXTENDS EvolutionTrial, TLAPS

Delivered == {"deliver", "rejected", "approved_for_external_review", "failed", "timed_out"}

\* No evaluation ran before the patch was materialized.
InOrder(ran) == (\E c \in Evals : ran[c] # "none") => ran["materialize"] = "ok"

\* A workflow makes one proof, at the end of its attestation; until then its stamp
\* counts the attempts at it.
WorkflowSound(w) ==
  /\ w.phase = "report" => w.tries = 0
  /\ w.phase \in {"none", "evaluate", "report"} => w.stamp = 0
  /\ w.phase = "attest" => w.stamp = w.tries
  /\ w.phase = "deliver" => w.result # NoProof
  /\ w.result # NoProof => w.result.verdict # "none" /\ w.phase \in Delivered
  /\ InOrder(w.report.ran) /\ InOrder(w.result.report.ran)

\* What an attempt holds on its way to a pass is what it knows it made, and is
\* removed stage by stage.
CleanUp(a) ==
  /\ a.at \in {"idle", "job", "watch", "run"} => a.verdict = "none"
  /\ a.at = "idle" => a.made = {} /\ a.held = {}
  /\ a.at = "job" => a.made = {"configmap"} /\ a.held = {"configmap"}
  /\ a.at = "watch" => a.made = {"configmap", "job"} /\ a.held = {"configmap", "job"}
  /\ a.at = "run" => a.made = {"worktree"} /\ a.held = {"worktree", "directory"}
  /\ a.verdict = "passed" /\ a.clean =>
       /\ a.at = "dropjob" => a.made = {"configmap", "job"} /\ a.held \subseteq {"configmap", "job"}
       /\ a.at = "dropmap" => "configmap" \in a.made /\ a.held \subseteq {"configmap"}
       /\ a.at = "remove" => a.made = {"worktree"} /\ a.held \subseteq {"worktree", "directory"}
       /\ a.at = "end" => a.held = {}

\* An attempt materializes what policy permits, and only an enabled sandbox runs.
AttemptSound(k, a) ==
  /\ InOrder(a.ran) /\ CleanUp(a)
  /\ a.ran["materialize"] = "ok" => Permitted(PatchOf(k))
  /\ a.at # "idle" => env.mode # "off"

\* Calls, requests, workflows and deliveries are those of a trial that exists, and
\* a proof in its row is the workflow's.
TrialSound(k) ==
  /\ trial[k].verdict # "none" => trial[k].input # NoInput
  /\ call[k] # "idle" \/ starts[k] > 0 \/ wf[k].phase # "none" => trial[k].verdict # "none"
  /\ trial[k].proof # NoProof => trial[k].proof = wf[k].result
  /\ \A s \in Senders : post[k][s] # "idle" => wf[k].result # NoProof
  /\ wf[k].phase # "evaluate" => sb[k] = NoAttempt

KeyInv(k) == WorkflowSound(wf[k]) /\ AttemptSound(k, sb[k]) /\ TrialSound(k)

EvolutionInv ==
  /\ TypeOK /\ PendingIsEvaluating /\ DecidedByEvidence
  /\ \A k \in Keys : KeyInv(k)

-----------------------------------------------------------------------------
(* What a step must keep                                                    *)

\* A step that does not touch a key keeps what holds of it.
LEMMA KeyKept ==
  ASSUME NEW j, KeyInv(j),
         UNCHANGED <<env, trial[j], call[j], starts[j], wf[j], sb[j], post[j]>>
  PROVE  KeyInv(j)'
<1>1. WorkflowSound(wf[j])' BY DEF KeyInv, WorkflowSound
<1>2. AttemptSound(j, sb[j])' BY DEF KeyInv, AttemptSound, CleanUp, PatchOf
<1>3. TrialSound(j)' BY DEF KeyInv, TrialSound
<1> QED BY <1>1, <1>2, <1>3 DEF KeyInv

\* The first attempt of a trial has done nothing.
LEMMA NoAttemptSound ==
  ASSUME NEW k
  PROVE  NoAttempt \in AttemptType /\ AttemptSound(k, NoAttempt)
  BY DEF NoAttempt, AttemptType, AttemptSound, InOrder, CleanUp, Evals, Containers,
         Things, Codes, Verdicts

LEMMA NothingSound ==
  /\ NoReport \in ReportType /\ NoProof \in ProofType /\ InOrder(NoReport.ran)
  /\ NoTrial \in TrialType /\ NoTrial.proof = NoProof /\ NoTrial.verdict = "none"
  /\ NoWorkflow \in WorkflowType /\ WorkflowSound(NoWorkflow)
  /\ NoProof.verdict = "none" /\ NoProof.report = NoReport
<1>1. NoReport \in ReportType /\ InOrder(NoReport.ran)
  BY DEF NoReport, ReportType, InOrder, Containers, Evals, Codes, Verdicts
<1>2. /\ NoProof \in ProofType /\ NoProof.verdict = "none" /\ NoProof.report = NoReport
  BY <1>1, TrialAssumption DEF NoProof, ProofType
<1>3. /\ NoTrial \in TrialType /\ NoTrial.proof = NoProof /\ NoTrial.verdict = "none"
  BY <1>2 DEF NoTrial, TrialType
<1>4. NoWorkflow \in WorkflowType /\ WorkflowSound(NoWorkflow)
  BY <1>1, <1>2, TrialAssumption DEF NoWorkflow, WorkflowType, WorkflowSound, Phases
<1> QED BY <1>1, <1>2, <1>3, <1>4

\* A step inside the sandbox.
LEMMA SandboxFrame ==
  ASSUME EvolutionInv, NEW k \in Keys, NEW a \in AttemptType, AttemptSound(k, a),
         Evaluating(k), Becomes(k, a), faults' \in 0..MaxFaults
  PROVE  EvolutionInv'
<1>1. TypeOK' BY DEF EvolutionInv, TypeOK, Becomes
<1>2. PendingIsEvaluating' BY DEF EvolutionInv, PendingIsEvaluating, Pending, Becomes
<1>3. DecidedByEvidence' BY DEF EvolutionInv, DecidedByEvidence, Becomes
<1>4. \A j \in Keys \ {k} : KeyInv(j)'
  BY KeyKept DEF EvolutionInv, TypeOK, Becomes
<1>5. KeyInv(k)'
  <2>1. sb'[k] = a BY DEF EvolutionInv, TypeOK, Becomes
  <2>2. AttemptSound(k, sb[k])' BY <2>1 DEF AttemptSound, CleanUp, PatchOf, Becomes
  <2>3. WorkflowSound(wf[k])' BY DEF EvolutionInv, KeyInv, WorkflowSound, Becomes
  <2>4. TrialSound(k)' BY DEF EvolutionInv, KeyInv, TrialSound, Becomes, Evaluating
  <2> QED BY <2>2, <2>3, <2>4 DEF KeyInv
<1> QED BY <1>1, <1>2, <1>3, <1>4, <1>5 DEF EvolutionInv

\* A step of the workflow that leaves the rows alone.
LEMMA WorkflowFrame ==
  ASSUME EvolutionInv, NEW k \in Keys, NEW w \in WorkflowType, WorkflowSound(w),
         wf' = [wf EXCEPT ![k] = w], wf[k].phase # "none",
         wf[k].result # NoProof => w.result = wf[k].result,
         \/ UNCHANGED sb /\ wf[k].phase # "evaluate"
         \/ sb' = [sb EXCEPT ![k] = NoAttempt],
         post' \in [Keys -> [Senders -> {"idle", "sent", "read", "moved"}]],
         \A j \in Keys \ {k} : post'[j] = post[j],
         \A s \in Senders : post'[k][s] # "idle" => w.result # NoProof,
         left' \in [Keys -> SUBSET Things], faults' \in 0..MaxFaults,
         UNCHANGED <<env, cand, trial, call, starts>>
  PROVE  EvolutionInv'
<1>1. TypeOK' BY NoAttemptSound DEF EvolutionInv, TypeOK
<1>2. PendingIsEvaluating' BY DEF EvolutionInv, PendingIsEvaluating, Pending
<1>3. /\ wf'[k] = w /\ \A j \in Keys \ {k} : wf'[j] = wf[j] /\ sb'[j] = sb[j]
      /\ sb'[k] = NoAttempt
  BY DEF EvolutionInv, TypeOK, KeyInv, TrialSound
<1>4. DecidedByEvidence'
  <2> SUFFICES ASSUME cand \in Proven PROVE DecidedByEvidence'
    BY DEF DecidedByEvidence
  <2>1. PICK j \in Keys :
          /\ trial[j].verdict = "PASSED" /\ trial[j].proof = wf[j].result
          /\ \A c \in Containers : trial[j].proof.report.ran[c] = "ok"
          /\ trial[j].proof.report.mode = env.required /\ trial[j].proof.report.clean
    BY DEF EvolutionInv, DecidedByEvidence
  <2>2. wf[j].result # NoProof
    BY <2>1 DEF NoProof, NoReport, Containers
  <2>3. wf'[j].result = wf[j].result BY <1>3, <2>2
  <2> QED BY <2>1, <2>3 DEF DecidedByEvidence
<1>5. \A j \in Keys \ {k} : KeyInv(j)' BY <1>3, KeyKept DEF EvolutionInv
<1>6. KeyInv(k)'
  <2>1. WorkflowSound(wf[k])' BY <1>3 DEF WorkflowSound
  <2>2. AttemptSound(k, sb[k])' BY <1>3, NoAttemptSound DEF AttemptSound, CleanUp, PatchOf
  <2>3. TrialSound(k)' BY <1>3 DEF EvolutionInv, KeyInv, TrialSound
  <2> QED BY <2>1, <2>2, <2>3 DEF KeyInv
<1> QED BY <1>1, <1>2, <1>4, <1>5, <1>6 DEF EvolutionInv

-----------------------------------------------------------------------------
(* The sandbox                                                              *)

\* A container ends: it was its turn, and the materializer let it through.
LEMMA RanSound ==
  ASSUME EvolutionInv, NEW k \in Keys, NEW c \in Containers, NEW code \in Codes \ {"none"},
         sb[k].at \in {"watch", "run"}, ContainerDue(k, c),
         c = "materialize" /\ code = "ok" => Permitted(PatchOf(k))
  PROVE  Ran(k, c, code) \in AttemptType /\ AttemptSound(k, Ran(k, c, code))
<1> DEFINE a == sb[k]
           b == Ran(k, c, code)
<1>1. a \in AttemptType /\ AttemptSound(k, a) BY DEF EvolutionInv, TypeOK, KeyInv
<1>2. /\ b \in AttemptType /\ b.ran = [a.ran EXCEPT ![c] = code] /\ b.at = a.at
      /\ b.made = a.made /\ b.held = a.held /\ b.verdict = a.verdict /\ b.clean = a.clean
  BY <1>1 DEF Ran, AttemptType
<1>3. InOrder(b.ran)
  BY <1>1, <1>2 DEF InOrder, AttemptSound, AttemptType, ContainerDue, Containers, Evals
<1>4. b.ran["materialize"] = "ok" => Permitted(PatchOf(k))
  BY <1>1, <1>2 DEF AttemptSound, AttemptType, Containers
<1> QED BY <1>1, <1>2, <1>3, <1>4 DEF AttemptSound, CleanUp

\* Every step inside an attempt, failed calls included, keeps what it holds in
\* step with what it knows it made.
LEMMA SandboxKeeps ==
  ASSUME EvolutionInv, NEW k \in Keys, Evaluating(k),
         \/ CreateConfigMap(k) \/ CreateJob(k) \/ ReadJob(k)
         \/ \E c \in Containers : ContainerEnds(k, c) \/ LocalStep(k, c) \/ ContainerBreaks(k, c)
         \/ DeleteJob(k) \/ DeleteConfigMap(k) \/ DeleteFails(k)
         \/ AddWorktree(k) \/ LocalEnds(k) \/ RemoveWorktree(k) \/ RemoveFails(k)
         \/ \E e \in BOOLEAN : \/ \E t \in {"configmap", "job"} : CreateFails(k, t, e)
                               \/ AddWorktreeFails(k, e)
         \/ WatchFails(k) \/ JobCompletes(k) \/ JobBreaks(k) \/ JobDeadline(k) \/ PodIsGone(k)
  PROVE  EvolutionInv'
<1> DEFINE a == sb[k]
<1>1. /\ a \in AttemptType /\ AttemptSound(k, a)
      /\ (faults' = faults \/ Fault => faults' \in 0..MaxFaults)
  BY TrialAssumption DEF EvolutionInv, TypeOK, KeyInv, Fault
<1> DEFINE Good(b) == b \in AttemptType /\ AttemptSound(k, b)
           Move == \E b \in AttemptType : AttemptSound(k, b) /\ Becomes(k, b)
<1>3. faults' \in 0..MaxFaults
  BY <1>1 DEF CreateConfigMap, CreateJob, Creates, ReadJob, ContainerEnds, LocalStep,
     ContainerBreaks, DeleteJob, DeleteConfigMap, DeleteFails, AddWorktree, LocalEnds,
     RemoveWorktree, RemoveFails, CreateFails, AddWorktreeFails, WatchFails, JobCompletes,
     JobBreaks, JobDeadline, PodIsGone
<1>2. SUFFICES Move
  BY <1>2, <1>3, SandboxFrame
<1>4. ASSUME NEW t, NEW next, \/ t = "configmap" /\ next = "job" /\ a.at = "idle"
                              \/ t = "job" /\ next = "watch" /\ a.at = "job",
             Creates(k, t, next), env.mode = "kubernetes_job"
      PROVE  Move
  <2> DEFINE b == [a EXCEPT !.at = next, !.made = @ \cup {t}, !.held = @ \cup {t}]
  <2>1. Good(b) BY <1>1, <1>4 DEF AttemptType, AttemptSound, CleanUp, Things
  <2> QED BY <1>4, <2>1 DEF Creates
<1>5. ASSUME NEW t \in {"configmap", "job"}, NEW e \in BOOLEAN, CreateFails(k, t, e) PROVE Move
  <2> DEFINE b == [a EXCEPT !.at = "dropjob", !.held = IF e THEN @ \cup {t} ELSE @]
  <2>1. Good(b) BY <1>1, <1>5 DEF CreateFails, AttemptType, AttemptSound, CleanUp, Things
  <2> QED BY <1>5, <2>1 DEF CreateFails
<1>6. CASE WatchFails(k)
  <2>1. Good([a EXCEPT !.at = "dropjob"])
    BY <1>1, <1>6 DEF WatchFails, InSandbox, AttemptType, AttemptSound, CleanUp
  <2> QED BY <1>6, <2>1 DEF WatchFails
<1>7. ASSUME NEW cond \in {"active", "failed", "complete"},
             NEW seen \in {a.ran, NoAttempt.ran},
             Becomes(k, [a EXCEPT !.cond = cond, !.ran = seen])
      PROVE  Move
  <2>1. seen \in [Containers -> Codes] /\ InOrder(seen)
        /\ (seen["materialize"] = "ok" => Permitted(PatchOf(k)))
    BY <1>1 DEF AttemptType, AttemptSound, InOrder, NoAttempt, Codes, Containers, Evals
  <2> DEFINE b == [a EXCEPT !.cond = cond, !.ran = seen]
  <2>2. /\ b \in AttemptType /\ b.ran = seen /\ b.at = a.at /\ b.made = a.made
        /\ b.held = a.held /\ b.verdict = a.verdict /\ b.clean = a.clean
    BY <1>1, <2>1 DEF AttemptType
  <2>3. AttemptSound(k, b) BY <1>1, <2>1, <2>2 DEF AttemptSound, CleanUp
  <2> QED BY <1>7, <2>2, <2>3
<1>19. CASE JobDeadline(k)
  <2>1. PICK seen \in {a.ran, NoAttempt.ran} :
          Becomes(k, [a EXCEPT !.cond = "failed", !.ran = seen])
    BY <1>19 DEF JobDeadline
  <2> QED BY <1>7, <2>1
<1>20. CASE PodIsGone(k)
  <2>1. a.cond \in {"active", "failed", "complete"}
        /\ [a EXCEPT !.ran = NoAttempt.ran] = [a EXCEPT !.cond = a.cond, !.ran = NoAttempt.ran]
    BY <1>1 DEF AttemptType
  <2> QED BY <1>7, <1>20, <2>1 DEF PodIsGone
<1>21. CASE JobCompletes(k) \/ JobBreaks(k)
  <2>1. PICK cond \in {"complete", "failed"} : Becomes(k, [a EXCEPT !.cond = cond])
    BY <1>21 DEF JobCompletes, JobBreaks, JobEnds
  <2>2. [a EXCEPT !.cond = cond] = [a EXCEPT !.cond = cond, !.ran = a.ran]
    BY <1>1 DEF AttemptType
  <2> QED BY <1>7, <2>1, <2>2
<1>8. CASE ReadJob(k)
  <2> DEFINE v == JobVerdict(a.ran, a.cond)
  <2>1. v \in Verdicts BY DEF JobVerdict, Verdicts
  <2> HIDE DEF v
  <2>2. Good([a EXCEPT !.at = "dropjob", !.verdict = v])
    BY <1>1, <1>8, <2>1 DEF ReadJob, InSandbox, AttemptType, AttemptSound, CleanUp
  <2> QED BY <1>8, <2>2 DEF ReadJob, v
<1>9. CASE LocalEnds(k)
  <2> DEFINE v == LocalVerdict(a.ran)
  <2>1. v \in Verdicts BY DEF LocalVerdict, Verdicts
  <2> HIDE DEF v
  <2>2. Good([a EXCEPT !.at = "remove", !.verdict = v])
    BY <1>1, <1>9, <2>1 DEF LocalEnds, InSandbox, AttemptType, AttemptSound, CleanUp
  <2> QED BY <1>9, <2>2 DEF LocalEnds, v
<1>10. ASSUME NEW t, NEW next, NEW ok \in BOOLEAN, Deletes(k, t, next, ok),
              \/ t = "job" /\ next = "dropmap"
              \/ t = "configmap" /\ next = "end"
       PROVE  Move
  <2> DEFINE b == [a EXCEPT !.at = next, !.held = IF ok /\ t \in a.made THEN @ \ {t} ELSE @,
                            !.clean = @ /\ (ok \/ t \notin a.made)]
  <2>1. b \in AttemptType BY <1>1, <1>10 DEF AttemptType
  <2>2. AttemptSound(k, b)
    BY <1>1, <1>10 DEF Deletes, InSandbox, AttemptType, AttemptSound, CleanUp, Things
  <2> QED BY <1>10, <2>1, <2>2 DEF Deletes
<1>11. CASE AddWorktree(k)
  <2>1. Good([a EXCEPT !.at = "end", !.verdict = "policy_rejected"])
    BY <1>1, <1>11 DEF AddWorktree, InSandbox, AttemptType, AttemptSound, CleanUp, Verdicts
  <2>2. Good([a EXCEPT !.at = "run", !.made = {"worktree"}, !.held = {"worktree", "directory"}])
    BY <1>1, <1>11 DEF AddWorktree, InSandbox, AttemptType, AttemptSound, CleanUp, Things
  <2> QED BY <1>11, <2>1, <2>2 DEF AddWorktree
<1>12. ASSUME NEW e \in BOOLEAN, AddWorktreeFails(k, e) PROVE Move
  <2> DEFINE b == [a EXCEPT !.at = "remove", !.verdict = "error",
                            !.held = IF e THEN {"worktree", "directory"} ELSE {}]
  <2>1. Good(b)
    BY <1>1, <1>12 DEF AddWorktreeFails, InSandbox, AttemptType, AttemptSound, CleanUp,
       Verdicts, Things
  <2> QED BY <1>12, <2>1 DEF AddWorktreeFails
<1>13. CASE RemoveWorktree(k)
  <2> DEFINE b == [a EXCEPT !.at = "end", !.held = @ \ ({"directory"} \cup a.made)]
  <2>1. Good(b)
    BY <1>1, <1>13 DEF RemoveWorktree, InSandbox, AttemptType, AttemptSound, CleanUp, Things
  <2> QED BY <1>13, <2>1 DEF RemoveWorktree
<1>14. CASE RemoveFails(k)
  <2>1. PICK gone \in {{}, {"directory"}} :
          Becomes(k, [a EXCEPT !.at = "end", !.clean = FALSE, !.held = @ \ gone])
    BY <1>14 DEF RemoveFails
  <2>2. Good([a EXCEPT !.at = "end", !.clean = FALSE, !.held = @ \ gone])
    BY <1>1, <1>14 DEF RemoveFails, InSandbox, AttemptType, AttemptSound, CleanUp, Things
  <2> QED BY <2>1, <2>2
<1>15. ASSUME NEW c \in Containers, ContainerEnds(k, c) \/ LocalStep(k, c) PROVE Move
  <2>1. PICK code \in Outcomes(k, c) : Becomes(k, Ran(k, c, code))
    BY <1>15 DEF ContainerEnds, LocalStep
  <2>2. /\ code \in Codes \ {"none"} /\ ContainerDue(k, c) /\ a.at \in {"watch", "run"}
        /\ c = "materialize" /\ code = "ok" => Permitted(PatchOf(k))
    BY <1>15, <2>1 DEF ContainerEnds, LocalStep, InSandbox, Outcomes, Codes
  <2> QED BY <2>1, <2>2, RanSound
<1>16. ASSUME NEW c \in Containers, ContainerBreaks(k, c) PROVE Move
  <2>1. Becomes(k, Ran(k, c, "broken")) /\ ContainerDue(k, c) /\ a.at \in {"watch", "run"}
    BY <1>16 DEF ContainerBreaks
  <2> QED BY <2>1, RanSound DEF Codes
<1>17. CASE CreateConfigMap(k) \/ CreateJob(k)
  BY <1>4, <1>17 DEF CreateConfigMap, CreateJob, InSandbox
<1>18. CASE DeleteJob(k) \/ DeleteConfigMap(k) \/ DeleteFails(k)
  BY <1>10, <1>18 DEF DeleteJob, DeleteConfigMap, DeleteFails
<1> QED BY <1>5, <1>6, <1>8, <1>9, <1>11, <1>12, <1>13, <1>14, <1>15, <1>16,
           <1>17, <1>18, <1>19, <1>20, <1>21

-----------------------------------------------------------------------------
(* The workflow                                                             *)

\* An attempt that ends, with a report, an exception or the workflow's deadline,
\* leaves the workflow with a report or another attempt.
LEMMA AbandonsKeeps ==
  ASSUME EvolutionInv, NEW k \in Keys, NEW w \in WorkflowType, WorkflowSound(w),
         Abandons(k, w), wf[k].phase # "none", w.result = wf[k].result,
         faults' \in 0..MaxFaults
  PROVE  EvolutionInv'
<1>1. /\ left' \in [Keys -> SUBSET Things] /\ post' = post
      /\ wf' = [wf EXCEPT ![k] = w] /\ sb' = [sb EXCEPT ![k] = NoAttempt]
      /\ UNCHANGED <<env, cand, trial, call, starts>>
  BY DEF Abandons, EvolutionInv, TypeOK, AttemptType
<1>2. \A s \in Senders : post'[k][s] # "idle" => w.result # NoProof
  BY <1>1 DEF EvolutionInv, KeyInv, TrialSound
<1>3. post' \in [Keys -> [Senders -> {"idle", "sent", "read", "moved"}]]
  BY <1>1 DEF EvolutionInv, TypeOK
<1> QED BY <1>1, <1>2, <1>3, WorkflowFrame

LEMMA AttemptEnds ==
  ASSUME EvolutionInv, NEW k \in Keys,
         \/ RefuseSandbox(k) \/ SandboxDies(k) \/ EndAttempt(k) \/ EndFailedAttempt(k)
         \/ WorkflowTimesOut(k)
  PROVE  EvolutionInv'
<1> DEFINE v == wf[k]
<1>1. /\ v \in WorkflowType /\ WorkflowSound(v) /\ sb[k] \in AttemptType
      /\ AttemptSound(k, sb[k]) /\ env \in Envs /\ MaxAttempts \in Nat \ {0}
      /\ faults' \in 0..MaxFaults /\ 0 \in 0..(MaxAttempts - 1)
  BY TrialAssumption DEF EvolutionInv, TypeOK, KeyInv, Fault, RefuseSandbox, SandboxDies,
     EndAttempt, EndFailedAttempt, WorkflowTimesOut, AttemptFails
<1>2. ASSUME NEW retryable \in BOOLEAN, AttemptFails(k, retryable), v.phase = "evaluate"
      PROVE  EvolutionInv'
  <2>1. v.tries + 1 < MaxAttempts => Retried(v) \in WorkflowType /\ WorkflowSound(Retried(v))
    BY <1>1, <1>2 DEF Retried, WorkflowType, WorkflowSound
  <2>2. Retried(v).result = v.result
    BY <1>1 DEF Retried, WorkflowType
  <2> DEFINE w == [v EXCEPT !.phase = "report", !.tries = 0]
  <2>3. w \in WorkflowType /\ WorkflowSound(w) /\ w.result = v.result
    <3>1. w \in WorkflowType BY <1>1 DEF WorkflowType, Phases
    <3>2. WorkflowSound(w) BY <1>1, <1>2 DEF WorkflowType, WorkflowSound, Delivered
    <3> QED BY <1>1, <3>1, <3>2 DEF WorkflowType
  <2>4. PICK u \in {Retried(v), w} : Abandons(k, u) /\ u \in WorkflowType /\ WorkflowSound(u)
                                     /\ u.result = v.result
    <3>1. CASE retryable /\ v.tries + 1 < MaxAttempts
      BY <1>2, <2>1, <2>2, <3>1 DEF AttemptFails
    <3>2. CASE ~(retryable /\ v.tries + 1 < MaxAttempts)
      BY <1>2, <2>3, <3>2 DEF AttemptFails
    <3> QED BY <3>1, <3>2
  <2> QED BY <1>1, <1>2, <2>4, AbandonsKeeps
<1>3. CASE EndAttempt(k)
  <2> DEFINE r == SandboxReport(k)
             w == [v EXCEPT !.phase = "attest", !.tries = 0, !.report = r]
  <2>1. r \in ReportType /\ InOrder(r.ran)
    <3>1. env.mode \in {"kubernetes_job", "local_process"}
      BY <1>1, <1>3, TrialAssumption DEF EndAttempt, AttemptSound
    <3> QED BY <1>1, <3>1 DEF SandboxReport, ReportType, AttemptType, AttemptSound, Verdicts
  <2> HIDE DEF r
  <2>2. w \in WorkflowType /\ WorkflowSound(w) /\ w.result = v.result
    <3>1. w \in WorkflowType BY <1>1, <2>1 DEF WorkflowType, Phases
    <3>2. v.stamp = 0 /\ v.result = NoProof
      BY <1>1, <1>3 DEF EndAttempt, Evaluating, WorkflowSound, Delivered
    <3>3. WorkflowSound(w) BY <1>1, <2>1, <3>2 DEF WorkflowType, WorkflowSound
    <3> QED BY <1>1, <3>1, <3>3 DEF WorkflowType
  <2>3. Abandons(k, w) /\ v.phase = "evaluate" BY <1>3 DEF EndAttempt, Evaluating, r
  <2> QED BY <1>1, <2>2, <2>3, AbandonsKeeps
<1>4. CASE WorkflowTimesOut(k)
  <2> DEFINE w == [v EXCEPT !.phase = "timed_out"]
  <2>1. w \in WorkflowType /\ WorkflowSound(w) /\ w.result = v.result
    BY <1>1, <1>4 DEF WorkflowType, WorkflowSound, Phases, Delivered
  <2>2. Abandons(k, w) /\ v.phase # "none" BY <1>4 DEF WorkflowTimesOut
  <2> QED BY <1>1, <2>1, <2>2, AbandonsKeeps
<1>5. CASE RefuseSandbox(k) BY <1>2, <1>5 DEF RefuseSandbox, InSandbox, Evaluating
<1>6. CASE SandboxDies(k) BY <1>2, <1>6 DEF SandboxDies, Evaluating
<1>7. CASE EndFailedAttempt(k) BY <1>2, <1>7 DEF EndFailedAttempt, Evaluating
<1> QED BY <1>3, <1>4, <1>5, <1>6, <1>7

\* The report and the proof of it: only the step that makes the proof sets it.
LEMMA AttestKeeps ==
  ASSUME EvolutionInv, NEW k \in Keys,
         BuildFailureReport(k) \/ AttestResult(k) \/ AttestIsLost(k)
  PROVE  EvolutionInv'
<1> DEFINE v == wf[k]
<1>1. /\ v \in WorkflowType /\ WorkflowSound(v) /\ MaxAttempts \in Nat \ {0}
      /\ faults' \in 0..MaxFaults /\ left' \in [Keys -> SUBSET Things]
      /\ post \in [Keys -> [Senders -> {"idle", "sent", "read", "moved"}]]
      /\ \A s \in Senders : post[k][s] # "idle" => v.result # NoProof
      /\ v.phase \in {"report", "attest"} => v.result = NoProof
      /\ v.phase \in {"report", "attest"} /\ UNCHANGED <<post, env, cand, trial, call, starts, sb>>
      /\ 0 \in 0..(MaxAttempts - 1)
  BY TrialAssumption DEF EvolutionInv, TypeOK, KeyInv, TrialSound, Fault, BuildFailureReport,
     AttestResult, AttestIsLost, WorkflowOnly, WorkflowSound, Delivered
<1>2. SUFFICES \E w \in WorkflowType : WorkflowSound(w) /\ wf' = [wf EXCEPT ![k] = w]
  BY <1>1, <1>2, WorkflowFrame
<1>3. CASE BuildFailureReport(k)
  <2>1. FailureReport \in ReportType /\ InOrder(FailureReport.ran)
    BY NothingSound DEF FailureReport, ReportType, Verdicts, InOrder
  <2>2. [v EXCEPT !.phase = "attest", !.report = FailureReport] \in WorkflowType
    BY <1>1, <2>1 DEF WorkflowType, Phases
  <2>3. WorkflowSound([v EXCEPT !.phase = "attest", !.report = FailureReport])
    BY <1>1, <1>3, <2>1 DEF BuildFailureReport, WorkflowType, WorkflowSound
  <2> QED BY <1>3, <2>2, <2>3 DEF BuildFailureReport
<1>4. CASE AttestResult(k)
  <2> DEFINE q == Proof(v.report, v.stamp + 1)
             w == [v EXCEPT !.phase = "deliver", !.tries = 0, !.stamp = @ + 1, !.result = q]
  <2> DEFINE n == v.stamp + 1
  <2>1. n \in 0..MaxAttempts /\ v.report \in ReportType
    BY <1>1, <1>4 DEF AttestResult, WorkflowType, WorkflowSound
  <2>2. /\ q \in ProofType /\ q.verdict # "none" /\ q.report = v.report
    BY <2>1 DEF Proof, ProofType, Decisions
  <2>3. q # NoProof BY <2>2, NothingSound
  <2> HIDE DEF q
  <2>4. w \in WorkflowType
    <3>1. w = [v EXCEPT !.phase = "deliver", !.tries = 0, !.stamp = n, !.result = q]
      OBVIOUS
    <3> HIDE DEF n
    <3> QED BY <1>1, <2>1, <2>2, <3>1 DEF WorkflowType, Phases
  <2>5. WorkflowSound(w) BY <1>1, <2>2, <2>3 DEF WorkflowType, WorkflowSound, Delivered
  <2> QED BY <1>4, <2>4, <2>5 DEF AttestResult, q
<1>5. CASE AttestIsLost(k)
  <2>1. v.tries + 1 < MaxAttempts =>
          LET w == [v EXCEPT !.tries = @ + 1, !.stamp = @ + 1] IN
          w \in WorkflowType /\ WorkflowSound(w)
    <3> SUFFICES ASSUME v.tries + 1 < MaxAttempts
                 PROVE  LET w == [v EXCEPT !.tries = @ + 1, !.stamp = @ + 1] IN
                        w \in WorkflowType /\ WorkflowSound(w)
      OBVIOUS
    <3> DEFINE n == v.tries + 1
    <3>1. /\ v.phase = "attest" /\ v.stamp = v.tries /\ v.result = NoProof
          /\ n \in 0..(MaxAttempts - 1) /\ n \in 0..MaxAttempts
      BY <1>1, <1>5 DEF AttestIsLost, WorkflowType, WorkflowSound
    <3>2. [v EXCEPT !.tries = @ + 1, !.stamp = @ + 1] = [v EXCEPT !.tries = n, !.stamp = n]
      BY <3>1
    <3> HIDE DEF n
    <3>3. [v EXCEPT !.tries = n, !.stamp = n] \in WorkflowType BY <1>1, <3>1 DEF WorkflowType
    <3>4. WorkflowSound([v EXCEPT !.tries = n, !.stamp = n])
      BY <1>1, <3>1 DEF WorkflowType, WorkflowSound
    <3> QED BY <3>2, <3>3, <3>4
  <2>2. /\ [v EXCEPT !.phase = "failed"] \in WorkflowType
        /\ WorkflowSound([v EXCEPT !.phase = "failed"])
    BY <1>1, <1>5 DEF AttestIsLost, WorkflowType, WorkflowSound, Phases, Delivered
  <2>3. CASE v.tries + 1 < MaxAttempts BY <1>5, <2>1, <2>3 DEF AttestIsLost
  <2>4. CASE ~(v.tries + 1 < MaxAttempts) BY <1>5, <2>2, <2>4 DEF AttestIsLost
  <2> QED BY <2>3, <2>4
<1> QED BY <1>3, <1>4, <1>5

\* Whatever a sender is answered, the workflow's proof stays.
LEMMA AnswerSound ==
  ASSUME NEW v \in WorkflowType, WorkflowSound(v), v.phase = "deliver", NEW answer
  PROVE  LET w == AfterAnswer(v, answer) IN
         w \in WorkflowType /\ WorkflowSound(w) /\ w.result = v.result
<1>1. ASSUME NEW place \in Delivered
      PROVE  LET w == [v EXCEPT !.phase = place] IN
             w \in WorkflowType /\ WorkflowSound(w) /\ w.result = v.result
  BY <1>1 DEF WorkflowType, WorkflowSound, Phases, Delivered
<1>2. v.tries + 1 < MaxAttempts =>
        LET w == Retried(v) IN w \in WorkflowType /\ WorkflowSound(w) /\ w.result = v.result
  BY TrialAssumption DEF Retried, WorkflowType, WorkflowSound
<1>3. AfterDelivery(v) \in {[v EXCEPT !.phase = "rejected"],
                            [v EXCEPT !.phase = "approved_for_external_review"]}
  BY DEF AfterDelivery
<1>4. \/ AfterAnswer(v, answer) \in {[v EXCEPT !.phase = "rejected"],
                                     [v EXCEPT !.phase = "approved_for_external_review"],
                                     [v EXCEPT !.phase = "failed"]}
      \/ v.tries + 1 < MaxAttempts /\ AfterAnswer(v, answer) = Retried(v)
  BY <1>3 DEF AfterAnswer
<1> QED BY <1>1, <1>2, <1>4 DEF Delivered

\* A request that is sent, read, or answered without a change of the rows.
LEMMA PostKeeps ==
  ASSUME EvolutionInv, NEW k \in Keys,
         \/ SendResult(k) \/ \E s \in Senders : ResultIsRead(k, s) \/ ResultIsLost(k, s)
         \/ \E s \in Senders : /\ ~Pending(k) \/ post[k][s] = "moved"
                              /\ ResultIsWritten(k, s)
  PROVE  EvolutionInv'
<1> DEFINE v == wf[k]
<1>1. /\ v \in WorkflowType /\ WorkflowSound(v) /\ wf \in [Keys -> WorkflowType]
      /\ faults' \in 0..MaxFaults /\ left' \in [Keys -> SUBSET Things]
      /\ post \in [Keys -> [Senders -> {"idle", "sent", "read", "moved"}]]
      /\ \A s \in Senders : post[k][s] # "idle" => v.result # NoProof
      /\ UNCHANGED <<env, cand, trial, call, starts, sb>>
  BY TrialAssumption DEF EvolutionInv, TypeOK, KeyInv, TrialSound, Fault, SendResult,
     ResultIsRead, ResultIsLost, ResultIsWritten, WorkflowOnly
<1>2. v.result # NoProof
  BY <1>1 DEF SendResult, ResultIsRead, ResultIsLost, ResultIsWritten, WorkflowSound
<1>3. v.phase # "evaluate" /\ v.phase # "none" BY <1>1, <1>2 DEF WorkflowSound, Delivered
<1>4. PICK s \in Senders, at \in {"idle", "sent", "read", "moved"} : Posts(k, s, at)
  BY DEF SendResult, ResultIsRead, ResultIsLost, ResultIsWritten, Answered, Senders
<1>5. /\ post' \in [Keys -> [Senders -> {"idle", "sent", "read", "moved"}]]
      /\ \A j \in Keys \ {k} : post'[j] = post[j]
  BY <1>1, <1>4 DEF Posts
<1>6. \E w \in WorkflowType : WorkflowSound(w) /\ wf' = [wf EXCEPT ![k] = w]
                              /\ w.result = v.result
  <2>1. CASE UNCHANGED wf
    <3>1. wf' = [wf EXCEPT ![k] = v] BY <1>1, <2>1
    <3> QED BY <1>1, <3>1
  <2>2. CASE v.phase = "deliver" /\ \E answer : wf' = [wf EXCEPT ![k] = AfterAnswer(v, answer)]
    BY <1>1, <2>2, AnswerSound
  <2> QED BY <2>1, <2>2 DEF SendResult, ResultIsRead, ResultIsLost, ResultIsWritten, Answered
<1> QED BY <1>1, <1>2, <1>3, <1>5, <1>6, WorkflowFrame

-----------------------------------------------------------------------------
(* The rows of the control plane                                            *)

\* The one pending trial is decided by the workflow's proof.
LEMMA CompletesKeeps ==
  ASSUME EvolutionInv, NEW k \in Keys, NEW s \in Senders, NEW answer,
         post[k][s] = "read", Pending(k), Completes(k, s), Answered(k, s, answer),
         UNCHANGED <<env, call, starts, sb, left>>, faults' \in 0..MaxFaults
  PROVE  EvolutionInv'
<1> DEFINE v == wf[k]
           q == v.result
<1>1. /\ v \in WorkflowType /\ WorkflowSound(v) /\ q \in ProofType /\ q # NoProof
      /\ q.verdict \in Decisions /\ v.phase # "evaluate" /\ v.phase # "none"
  <2>1. v \in WorkflowType /\ WorkflowSound(v) /\ q # NoProof
    BY DEF EvolutionInv, TypeOK, KeyInv, TrialSound
  <2>2. q \in ProofType BY <2>1 DEF WorkflowType
  <2> QED BY <2>1, <2>2 DEF WorkflowSound, Delivered, ProofType
<1>2. PICK w \in WorkflowType : WorkflowSound(w) /\ w.result = q /\ wf' = [wf EXCEPT ![k] = w]
  <2>1. CASE wf' = wf
    <3>1. wf' = [wf EXCEPT ![k] = v] BY <2>1 DEF EvolutionInv, TypeOK
    <3> QED BY <1>1, <3>1
  <2>2. CASE v.phase = "deliver" /\ wf' = [wf EXCEPT ![k] = AfterAnswer(v, answer)]
    BY <1>1, <2>2, AnswerSound
  <2> QED BY <2>1, <2>2 DEF Answered
<1> DEFINE t == [trial[k] EXCEPT !.verdict = q.verdict, !.proof = q]
<1>3. trial' = [trial EXCEPT ![k] = t]
  BY DEF Completes, Decided, Carried
<1>4. t \in TrialType /\ t.verdict = q.verdict /\ t.proof = q /\ t.input = trial[k].input
  BY <1>1 DEF EvolutionInv, TypeOK, TrialType
<1> HIDE DEF t
<1>5. /\ trial'[k] = t /\ wf'[k] = w /\ sb'[k] = sb[k]
      /\ \A j \in Keys \ {k} : /\ trial'[j] = trial[j] /\ wf'[j] = wf[j]
                               /\ post'[j] = post[j]
      /\ post' \in [Keys -> [Senders -> {"idle", "sent", "read", "moved"}]]
  BY <1>2, <1>3 DEF EvolutionInv, TypeOK, Answered, Posts
<1>6. cand' = IF GatePassed(q) THEN "awaiting_approval" ELSE "rejected"
  BY DEF Completes, Carried
<1>7. TypeOK'
  BY <1>2, <1>3, <1>4, <1>5, <1>6 DEF EvolutionInv, TypeOK, Statuses
<1>8. PendingIsEvaluating'
  <2>1. \A j \in Keys \ {k} : ~Pending(j)
    BY DEF EvolutionInv, PendingIsEvaluating
  <2>2. \A j \in Keys : trial'[j].verdict # "PENDING"
    BY <1>1, <1>4, <1>5, <2>1 DEF Pending, Decisions
  <2> QED BY <1>6, <2>2 DEF PendingIsEvaluating, Pending
<1>9. DecidedByEvidence'
  <2>1. CASE GatePassed(q)
    <3>1. /\ trial'[k].verdict = "PASSED" /\ trial'[k].proof = wf'[k].result
          /\ trial'[k].proof = q
      BY <1>2, <1>4, <1>5, <2>1 DEF GatePassed
    <3>2. \A c \in Containers : q.report.ran[c] = "ok"
      BY <1>1, <2>1 DEF GatePassed, WorkflowSound, InOrder, Containers, Evals
    <3> QED BY <2>1, <3>1, <3>2 DEF GatePassed, DecidedByEvidence
  <2>2. CASE ~GatePassed(q)
    BY <1>6, <2>2 DEF DecidedByEvidence, Proven
  <2> QED BY <2>1, <2>2
<1>10. \A j \in Keys \ {k} : KeyInv(j)'
  BY <1>5, KeyKept DEF EvolutionInv
<1>11. KeyInv(k)'
  <2>1. WorkflowSound(wf[k])' BY <1>2, <1>5 DEF WorkflowSound
  <2>2. AttemptSound(k, sb[k])'
    BY <1>4, <1>5 DEF EvolutionInv, KeyInv, AttemptSound, CleanUp, PatchOf
  <2>3. trial[k].input # NoInput
    BY DEF EvolutionInv, KeyInv, TrialSound, Pending
  <2>4. TrialSound(k)'
    <3>1. w.phase # "evaluate" BY <1>1, <1>2 DEF WorkflowSound, Delivered
    <3>2. sb[k] = NoAttempt BY <1>1 DEF EvolutionInv, KeyInv, TrialSound
    <3>3. t.verdict # "none" BY <1>1, <1>4 DEF Decisions
    <3> QED BY <1>1, <1>2, <1>4, <1>5, <2>3, <3>1, <3>2, <3>3 DEF TrialSound
  <2> QED BY <2>1, <2>2, <2>4 DEF KeyInv
<1> QED BY <1>7, <1>8, <1>9, <1>10, <1>11 DEF EvolutionInv

\* A trial is prepared for an eligible candidate without a pending trial, or found
\* as it was prepared.
LEMMA EvaluateKeeps ==
  ASSUME EvolutionInv, NEW k \in Keys, NEW n \in DOMAIN Patches, Evaluate(k, n)
  PROVE  EvolutionInv'
<1> DEFINE i == TrialInput(n)
           t == Prepared(k, i)
<1>1. /\ trial' = [trial EXCEPT ![k] = t] /\ cand' = "evaluating"
      /\ call' = [call EXCEPT ![k] = "prepared"] /\ Prepares(k, i)
      /\ UNCHANGED <<env, starts, wf, sb, left, post, faults>>
  BY DEF Evaluate
<1>2. \/ trial[k].verdict # "none" /\ Pending(k) /\ t = trial[k]
      \/ /\ trial[k].verdict = "none" /\ cand = "eligible" /\ \A j \in Keys : ~Pending(j)
         /\ t = [NoTrial EXCEPT !.verdict = "PENDING", !.input = i]
         /\ i = [patch |-> n, status |-> "eligible"]
  BY <1>1 DEF Prepares, Prepared, TrialInput
<1>3. /\ t \in TrialType /\ t.verdict # "none" /\ t.input # NoInput /\ t.verdict = "PENDING"
  <2>1. CASE trial[k].verdict # "none" /\ Pending(k) /\ t = trial[k]
    BY <2>1 DEF EvolutionInv, TypeOK, KeyInv, TrialSound, Pending
  <2>2. CASE /\ t = [NoTrial EXCEPT !.verdict = "PENDING", !.input = i]
             /\ i = [patch |-> n, status |-> "eligible"]
    <3>1. i # NoInput /\ i \in [patch : DOMAIN Patches, status : {"eligible"}]
      BY <2>2 DEF NoInput
    <3> HIDE DEF i
    <3>2. /\ t = [NoTrial EXCEPT !.verdict = "PENDING", !.input = i]
          /\ NoTrial \in TrialType
      BY <2>2, NothingSound
    <3> HIDE DEF t
    <3> QED BY <3>1, <3>2 DEF TrialType
  <2> QED BY <1>2, <2>1, <2>2
<1>4. t.proof = trial[k].proof \/ t.proof = NoProof
  BY <1>2, NothingSound DEF TrialType
<1> HIDE DEF t
<1>5. trial'[k] = t /\ \A j \in Keys \ {k} : trial'[j] = trial[j] /\ call'[j] = call[j]
  BY <1>1 DEF EvolutionInv, TypeOK
<1>6. TypeOK' BY <1>1, <1>3 DEF EvolutionInv, TypeOK, Statuses
<1>7. PendingIsEvaluating'
  <2>1. \A j \in Keys \ {k} : ~Pending(j)
    BY <1>2 DEF EvolutionInv, PendingIsEvaluating
  <2> QED BY <1>1, <1>3, <1>5, <2>1 DEF PendingIsEvaluating, Pending
<1>8. DecidedByEvidence' BY <1>1 DEF DecidedByEvidence, Proven
<1>9. \A j \in Keys \ {k} : KeyInv(j)' BY <1>1, <1>5, KeyKept DEF EvolutionInv
<1>10. KeyInv(k)'
  <2>1. WorkflowSound(wf[k])' BY <1>1 DEF EvolutionInv, KeyInv, WorkflowSound
  <2>2. AttemptSound(k, sb[k])'
    <3>1. CASE t = trial[k]
      BY <1>1, <1>5, <3>1 DEF EvolutionInv, KeyInv, AttemptSound, CleanUp, PatchOf
    <3>2. CASE trial[k].verdict = "none"
      <4>1. sb[k] = NoAttempt /\ sb' = sb
        BY <1>1, <3>2 DEF EvolutionInv, KeyInv, TrialSound
      <4>2. /\ InOrder(NoAttempt.ran) /\ CleanUp(NoAttempt) /\ NoAttempt.at = "idle"
            /\ NoAttempt.ran["materialize"] = "none"
        BY NoAttemptSound DEF AttemptSound, NoAttempt, Containers
      <4>3. sb'[k] = NoAttempt BY <4>1
      <4> HIDE DEF NoAttempt
      <4> QED BY <4>2, <4>3 DEF AttemptSound, CleanUp
    <3> QED BY <1>2, <3>1, <3>2
  <2>3. TrialSound(k)'
    BY <1>1, <1>3, <1>4, <1>5 DEF EvolutionInv, KeyInv, TrialSound
  <2> QED BY <2>1, <2>2, <2>3 DEF KeyInv
<1> QED BY <1>6, <1>7, <1>8, <1>9, <1>10 DEF EvolutionInv

\* The launcher, the start requests and the administrators.
LEMMA ControlKeeps ==
  ASSUME EvolutionInv, NEW k \in Keys,
         \/ BindWorkflow(k) \/ Launch(k) \/ LauncherDies(k) \/ StartTrial(k)
         \/ StartIsLost(k) \/ StartIsRepeated(k) \/ Approve(k)
         \/ \E target \in Statuses : Transition(target)
  PROVE  EvolutionInv'
<1>1. /\ TypeOK /\ PendingIsEvaluating /\ DecidedByEvidence /\ \A j \in Keys : KeyInv(j)
      /\ (Fault => faults' \in 0..MaxFaults)
  BY TrialAssumption DEF EvolutionInv, TypeOK, Fault
<1>2. CASE BindWorkflow(k)
  <2> DEFINE t == [trial[k] EXCEPT !.bound = TRUE]
  <2>1. /\ t \in TrialType /\ t.verdict = trial[k].verdict /\ t.input = trial[k].input
        /\ t.proof = trial[k].proof
    BY <1>1 DEF TypeOK, TrialType
  <2>2. trial' = [trial EXCEPT ![k] = t] BY <1>2 DEF BindWorkflow
  <2> HIDE DEF t
  <2>3. /\ trial'[k] = t /\ call[k] # "idle" /\ call' = [call EXCEPT ![k] = "bound"]
        /\ \A j \in Keys \ {k} : trial'[j] = trial[j] /\ call'[j] = call[j]
        /\ UNCHANGED <<env, cand, starts, wf, sb, left, post, faults>>
    BY <1>1, <1>2, <2>2 DEF BindWorkflow, TypeOK
  <2>4. \A j \in Keys : trial'[j].verdict = trial[j].verdict /\ trial'[j].proof = trial[j].proof
    BY <2>1, <2>3
  <2>5. TypeOK' BY <1>1, <2>1, <2>2, <2>3 DEF TypeOK
  <2>6. PendingIsEvaluating' BY <1>1, <2>3, <2>4 DEF PendingIsEvaluating, Pending
  <2>7. DecidedByEvidence' BY <1>1, <2>3, <2>4 DEF DecidedByEvidence
  <2>8. \A j \in Keys \ {k} : KeyInv(j)' BY <1>1, <2>3, KeyKept
  <2>9. WorkflowSound(wf[k])' BY <1>1, <2>3 DEF KeyInv, WorkflowSound
  <2>10. AttemptSound(k, sb[k])' BY <1>1, <2>1, <2>3 DEF KeyInv, AttemptSound, CleanUp, PatchOf
  <2>11. TrialSound(k)' BY <1>1, <2>1, <2>3 DEF KeyInv, TrialSound
  <2> QED BY <2>5, <2>6, <2>7, <2>8, <2>9, <2>10, <2>11 DEF EvolutionInv, KeyInv
<1>3. ASSUME UNCHANGED <<env, cand, trial, wf, sb, left, post>>, faults' \in 0..MaxFaults,
             \/ Launch(k) \/ LauncherDies(k) \/ StartIsLost(k) \/ StartIsRepeated(k)
             \/ RequestArrives(k) /\ UNCHANGED call
      PROVE  EvolutionInv'
  <2>1. /\ call' \in [Keys -> {"idle", "prepared", "bound"}] /\ starts' \in [Keys -> Nat]
        /\ \A j \in Keys \ {k} : starts'[j] = starts[j] /\ call'[j] = call[j]
        /\ call'[k] # "idle" \/ starts'[k] > 0 => call[k] # "idle" \/ starts[k] > 0
    <3>1. /\ call \in [Keys -> {"idle", "prepared", "bound"}] /\ starts \in [Keys -> Nat]
      BY <1>1 DEF TypeOK
    <3>2. CASE Launch(k) BY <3>1, <3>2 DEF Launch
    <3>3. CASE LauncherDies(k) BY <3>1, <3>3 DEF LauncherDies
    <3>4. CASE \/ StartIsLost(k) \/ StartIsRepeated(k)
               \/ RequestArrives(k) /\ UNCHANGED call
      BY <3>1, <3>4 DEF StartIsLost, StartIsRepeated, RequestArrives
    <3> QED BY <1>3, <3>2, <3>3, <3>4
  <2>2. TypeOK'
    <3>1. /\ env \in Envs /\ cand \in Statuses /\ trial \in [Keys -> TrialType]
          /\ wf \in [Keys -> WorkflowType] /\ sb \in [Keys -> AttemptType]
          /\ left \in [Keys -> SUBSET Things]
          /\ post \in [Keys -> [Senders -> {"idle", "sent", "read", "moved"}]]
      BY <1>1 DEF TypeOK
    <3> QED BY <1>3, <2>1, <3>1 DEF TypeOK
  <2>3. PendingIsEvaluating' BY <1>1, <1>3 DEF PendingIsEvaluating, Pending
  <2>4. DecidedByEvidence' BY <1>1, <1>3 DEF DecidedByEvidence
  <2>5. \A j \in Keys \ {k} : KeyInv(j)' BY <1>1, <1>3, <2>1, KeyKept
  <2>6. WorkflowSound(wf[k])' BY <1>1, <1>3 DEF KeyInv, WorkflowSound
  <2>7. AttemptSound(k, sb[k])' BY <1>1, <1>3 DEF KeyInv, AttemptSound, CleanUp, PatchOf
  <2>8. TrialSound(k)' BY <1>1, <1>3, <2>1 DEF KeyInv, TrialSound
  <2> QED BY <2>2, <2>3, <2>4, <2>5, <2>6, <2>7, <2>8 DEF EvolutionInv, KeyInv
<1>4. CASE Launch(k) BY <1>1, <1>3, <1>4 DEF Launch, TypeOK
<1>5. CASE LauncherDies(k) BY <1>1, <1>3, <1>5 DEF LauncherDies
<1>6. CASE StartIsLost(k) BY <1>1, <1>3, <1>6 DEF StartIsLost
<1>7. CASE StartIsRepeated(k) BY <1>1, <1>3, <1>7 DEF StartIsRepeated
<1>8. CASE StartTrial(k)
  <2>1. /\ RequestArrives(k) /\ UNCHANGED <<env, cand, trial, call, sb, left, faults>>
        /\ starts[k] > 0 /\ starts' = [starts EXCEPT ![k] = @ - 1]
        /\ starts' \in [Keys -> Nat] /\ \A j \in Keys \ {k} : starts'[j] = starts[j]
    BY <1>1, <1>8 DEF StartTrial, RequestArrives, TypeOK
  <2>2. CASE UNCHANGED <<wf, post>>
    BY <1>1, <1>3, <2>1, <2>2 DEF TypeOK
  <2>3. CASE /\ wf[k].phase = "none" /\ UNCHANGED post
             /\ wf' = [wf EXCEPT ![k] = [NoWorkflow EXCEPT !.phase = "evaluate"]]
    <3> DEFINE w == [NoWorkflow EXCEPT !.phase = "evaluate"]
    <3>1. /\ w \in WorkflowType /\ WorkflowSound(w) /\ w.phase = "evaluate"
          /\ w.result = NoProof
      BY NothingSound DEF WorkflowType, WorkflowSound, Phases, NoWorkflow
    <3> HIDE DEF w
    <3>2. /\ wf' = [wf EXCEPT ![k] = w] /\ wf'[k] = w
          /\ \A j \in Keys \ {k} : wf'[j] = wf[j]
      BY <1>1, <2>3 DEF TypeOK, w
    <3>3. wf[k].result = NoProof /\ trial[k].proof = NoProof
      BY <1>1, <2>3 DEF KeyInv, WorkflowSound, TrialSound, Delivered
    <3>4. TypeOK' BY <1>1, <2>1, <2>3, <3>1, <3>2 DEF TypeOK
    <3>5. PendingIsEvaluating' BY <1>1, <2>1 DEF PendingIsEvaluating, Pending
    <3>6. \A j \in Keys : wf'[j].result = wf[j].result BY <3>1, <3>2, <3>3
    <3>7. DecidedByEvidence' BY <1>1, <2>1, <3>6 DEF DecidedByEvidence
    <3>8. \A j \in Keys \ {k} : KeyInv(j)' BY <1>1, <2>1, <2>3, <3>2, KeyKept
    <3>9. WorkflowSound(wf[k])' BY <3>1, <3>2 DEF WorkflowSound
    <3>10. AttemptSound(k, sb[k])' BY <1>1, <2>1 DEF KeyInv, AttemptSound, CleanUp, PatchOf
    <3>11. TrialSound(k)' BY <1>1, <2>1, <2>3, <3>1, <3>2, <3>3 DEF KeyInv, TrialSound
    <3> QED BY <3>4, <3>5, <3>7, <3>8, <3>9, <3>10, <3>11 DEF EvolutionInv, KeyInv
  <2>4. CASE wf[k].result # NoProof /\ Posts(k, "client", "sent") /\ UNCHANGED wf
    <3>1. /\ post' \in [Keys -> [Senders -> {"idle", "sent", "read", "moved"}]]
          /\ \A j \in Keys \ {k} : post'[j] = post[j]
      BY <1>1, <2>4 DEF Posts, TypeOK, Senders
    <3>2. TypeOK' BY <1>1, <2>1, <2>4, <3>1 DEF TypeOK
    <3>3. PendingIsEvaluating' BY <1>1, <2>1 DEF PendingIsEvaluating, Pending
    <3>4. DecidedByEvidence' BY <1>1, <2>1, <2>4 DEF DecidedByEvidence
    <3>5. \A j \in Keys \ {k} : KeyInv(j)' BY <1>1, <2>1, <2>4, <3>1, KeyKept
    <3>6. WorkflowSound(wf[k])' BY <1>1, <2>4 DEF KeyInv, WorkflowSound
    <3>7. AttemptSound(k, sb[k])' BY <1>1, <2>1 DEF KeyInv, AttemptSound, CleanUp, PatchOf
    <3>8. TrialSound(k)' BY <1>1, <2>1, <2>4 DEF KeyInv, TrialSound
    <3> QED BY <3>2, <3>3, <3>4, <3>5, <3>6, <3>7, <3>8 DEF EvolutionInv, KeyInv
  <2> QED BY <1>8, <2>2, <2>3, <2>4 DEF StartTrial
<1>9. CASE Approve(k) \/ \E target \in Statuses : Transition(target)
  <2>1. /\ UNCHANGED <<env, trial, call, starts, wf, sb, left, post, faults>>
        /\ cand # "evaluating" /\ cand' \in Statuses \ {"evaluating"}
        /\ cand' \in Proven => cand \in Proven
    BY <1>1, <1>9 DEF Approve, Transition, Moves, TypeOK, Statuses, Proven
  <2>2. TypeOK' BY <1>1, <2>1 DEF TypeOK
  <2>3. PendingIsEvaluating' BY <1>1, <2>1 DEF PendingIsEvaluating, Pending
  <2>4. DecidedByEvidence' BY <1>1, <2>1 DEF DecidedByEvidence
  <2>5. \A j \in Keys : KeyInv(j)' BY <1>1, <2>1, KeyKept
  <2> QED BY <2>2, <2>3, <2>4, <2>5 DEF EvolutionInv
<1> QED BY <1>2, <1>4, <1>5, <1>6, <1>7, <1>8, <1>9

\* The collector rewrites the candidate's row, and nothing a trial rests on.
LEMMA CollectKeeps ==
  ASSUME EvolutionInv, NEW target \in {"observed", "eligible", "stale"}, Collect(target)
  PROVE  EvolutionInv'
<1>1. /\ UNCHANGED <<env, trial, call, starts, wf, sb, left, faults>>
      /\ \/ cand' = cand
         \/ cand \in {"observed", "eligible"} /\ cand' = target
  BY DEF Collect
<1>2. /\ post' \in [Keys -> [Senders -> {"idle", "sent", "read", "moved"}]]
      /\ \A k \in Keys, s \in Senders : post'[k][s] # "idle" => post[k][s] # "idle"
  <2> DEFINE moved == [k \in Keys |-> [s \in Senders |->
                        IF post[k][s] = "read" THEN "moved" ELSE post[k][s]]]
  <2>1. post \in [Keys -> [Senders -> {"idle", "sent", "read", "moved"}]]
    BY DEF EvolutionInv, TypeOK
  <2>2. moved \in [Keys -> [Senders -> {"idle", "sent", "read", "moved"}]]
    <3>1. ASSUME NEW k \in Keys, NEW s \in Senders
          PROVE  (IF post[k][s] = "read" THEN "moved" ELSE post[k][s])
                   \in {"idle", "sent", "read", "moved"}
      BY <2>1
    <3> QED BY <3>1
  <2>3. \A k \in Keys, s \in Senders : moved[k][s] # "idle" => post[k][s] # "idle"
    OBVIOUS
  <2>4. post' = post \/ post' = moved
    BY DEF Collect
  <2> HIDE DEF moved
  <2> QED BY <2>1, <2>2, <2>3, <2>4
<1>3. TypeOK' BY <1>1, <1>2 DEF EvolutionInv, TypeOK, Statuses
<1>4. PendingIsEvaluating' BY <1>1 DEF EvolutionInv, PendingIsEvaluating, Pending
<1>5. DecidedByEvidence' BY <1>1 DEF EvolutionInv, DecidedByEvidence, Proven
<1>6. ASSUME NEW k \in Keys PROVE KeyInv(k)'
  <2>1. WorkflowSound(wf[k])' BY <1>1 DEF EvolutionInv, KeyInv, WorkflowSound
  <2>2. AttemptSound(k, sb[k])'
    BY <1>1 DEF EvolutionInv, KeyInv, AttemptSound, CleanUp, PatchOf
  <2>3. TrialSound(k)' BY <1>1, <1>2 DEF EvolutionInv, KeyInv, TrialSound
  <2> QED BY <2>1, <2>2, <2>3 DEF KeyInv
<1> QED BY <1>3, <1>4, <1>5, <1>6 DEF EvolutionInv

-----------------------------------------------------------------------------
(* The theorems                                                             *)

LEMMA EvolutionStep ==
  ASSUME EvolutionInv, [Next]_vars
  PROVE  EvolutionInv'
<1>1. CASE UNCHANGED vars
  <2>1. /\ UNCHANGED <<env, cand, trial, call, starts, wf, sb, left, post, faults>>
    BY <1>1 DEF vars
  <2>2. TypeOK' BY <2>1 DEF EvolutionInv, TypeOK
  <2>3. PendingIsEvaluating' BY <2>1 DEF EvolutionInv, PendingIsEvaluating, Pending
  <2>4. DecidedByEvidence' BY <2>1 DEF EvolutionInv, DecidedByEvidence
  <2>5. \A j \in Keys : KeyInv(j)' BY <2>1, KeyKept DEF EvolutionInv
  <2> QED BY <2>2, <2>3, <2>4, <2>5 DEF EvolutionInv
<1>2. CASE Next
  <2>1. PICK k \in Keys :
          \/ \E n \in DOMAIN Patches : Evaluate(k, n)
          \/ BindWorkflow(k) \/ Launch(k) \/ StartTrial(k)
          \/ WorkflowStep(k) \/ FaultStep(k)
          \/ Approve(k) \/ \E target \in Statuses : Transition(target)
          \/ \E target \in {"observed", "eligible", "stale"} : Collect(target)
    BY <1>2 DEF Next
  <2>2. CASE \E n \in DOMAIN Patches : Evaluate(k, n)
    BY <2>2, EvaluateKeeps
  <2>3. CASE \/ BindWorkflow(k) \/ Launch(k) \/ StartTrial(k)
             \/ Approve(k) \/ \E target \in Statuses : Transition(target)
    BY <2>3, ControlKeeps
  <2>4. CASE SandboxStep(k)
    <3>1. Evaluating(k)
      BY <2>4 DEF SandboxStep, RefuseSandbox, CreateConfigMap, CreateJob, ReadJob,
         ContainerEnds, LocalStep, JobCompletes, JobEnds, DeleteJob, DeleteConfigMap, Deletes, AddWorktree,
         LocalEnds, RemoveWorktree, EndAttempt, EndFailedAttempt, InSandbox
    <3> QED BY <2>4, <3>1, SandboxKeeps, AttemptEnds DEF SandboxStep
  <2>5. CASE BuildFailureReport(k) \/ AttestResult(k) \/ AttestIsLost(k)
    BY <2>5, AttestKeeps
  <2>6. CASE SendResult(k) \/ \E s \in Senders : ResultIsRead(k, s) \/ ResultIsLost(k, s)
    BY <2>6, PostKeeps
  <2>7. ASSUME NEW s \in Senders, ResultIsWritten(k, s) PROVE EvolutionInv'
    <3>1. faults' \in 0..MaxFaults BY <2>7 DEF ResultIsWritten, EvolutionInv, TypeOK
    <3>2. CASE Pending(k) /\ post[k][s] = "read"
      BY <2>7, <3>1, <3>2, CompletesKeeps DEF ResultIsWritten
    <3>3. CASE ~Pending(k) \/ post[k][s] = "moved"
      BY <2>7, <3>3, PostKeeps
    <3> QED BY <2>7, <3>2, <3>3 DEF ResultIsWritten
  <2>8. ASSUME NEW s \in Senders, AnswerIsLost(k, s) PROVE EvolutionInv'
    <3>1. faults' \in 0..MaxFaults
      BY <2>8, TrialAssumption DEF AnswerIsLost, Fault, EvolutionInv, TypeOK
    <3> QED BY <2>8, <3>1, CompletesKeeps DEF AnswerIsLost
  <2>9. CASE LauncherDies(k) \/ StartIsLost(k) \/ StartIsRepeated(k)
    BY <2>9, ControlKeeps
  <2>10. CASE SandboxDies(k) \/ WorkflowTimesOut(k)
    BY <2>10, AttemptEnds
  <2>11. CASE \/ \E e \in BOOLEAN : \/ \E t \in {"configmap", "job"} : CreateFails(k, t, e)
                                    \/ AddWorktreeFails(k, e)
              \/ WatchFails(k) \/ JobBreaks(k) \/ JobDeadline(k) \/ PodIsGone(k)
              \/ DeleteFails(k) \/ RemoveFails(k)
              \/ \E c \in Containers : ContainerBreaks(k, c)
    <3>1. Evaluating(k)
      BY <2>11 DEF CreateFails, AddWorktreeFails, WatchFails, JobBreaks, JobEnds,
         JobDeadline, PodIsGone, DeleteFails,
         Deletes, RemoveFails, ContainerBreaks, InSandbox
    <3> QED BY <2>11, <3>1, SandboxKeeps
  <2>12. CASE \E target \in {"observed", "eligible", "stale"} : Collect(target)
    BY <2>12, CollectKeeps
  <2> QED BY <2>1, <2>2, <2>3, <2>4, <2>5, <2>6, <2>7, <2>8, <2>9, <2>10, <2>11, <2>12
          DEF WorkflowStep, FaultStep
<1> QED BY <1>1, <1>2

LEMMA EvolutionStart == Init => EvolutionInv
<1> SUFFICES ASSUME Init PROVE EvolutionInv
  OBVIOUS
<1>1. \A k \in Keys : /\ trial[k] = NoTrial /\ call[k] = "idle" /\ starts[k] = 0
                      /\ wf[k] = NoWorkflow /\ sb[k] = NoAttempt
                      /\ \A s \in Senders : post[k][s] = "idle"
  BY DEF Init
<1>2. TypeOK BY NothingSound, NoAttemptSound, TrialAssumption DEF Init, TypeOK, Statuses
<1>3. PendingIsEvaluating BY <1>1, NothingSound DEF Init, PendingIsEvaluating, Pending
<1>4. DecidedByEvidence BY DEF Init, DecidedByEvidence, Proven
<1>5. \A k \in Keys : KeyInv(k)
  <2> SUFFICES ASSUME NEW k \in Keys PROVE KeyInv(k)
    OBVIOUS
  <2>1. NoWorkflow.phase = "none" BY DEF NoWorkflow
  <2>2. TrialSound(k) BY <1>1, <2>1, NothingSound DEF TrialSound
  <2> QED BY <1>1, <2>2, NothingSound, NoAttemptSound DEF KeyInv
<1> QED BY <1>2, <1>3, <1>4, <1>5 DEF EvolutionInv

\* The invariant gives what the runs check: what an evaluation ran on was permitted.
LEMMA InvFollows == EvolutionInv => CandidateFollowsTrial /\ OneProof
<1> SUFFICES ASSUME EvolutionInv PROVE OnlyPermittedRuns /\ OneProof
  BY DEF EvolutionInv, CandidateFollowsTrial
<1>1. OneProof BY DEF EvolutionInv, KeyInv, TrialSound, OneProof, Carried
<1>2. OnlyPermittedRuns
  <2> SUFFICES ASSUME NEW k \in Keys, \E c \in Evals : sb[k].ran[c] # "none"
               PROVE  LET p == PatchOf(k) IN
                      /\ \A f \in p.files : PathOf(f) \in Low \ (Sealed \cup Denied)
                      /\ Immutable \subseteq p.preserved
    BY DEF OnlyPermittedRuns
  <2>1. Permitted(PatchOf(k)) BY DEF EvolutionInv, KeyInv, AttemptSound, InOrder
  <2> QED BY <2>1 DEF Permitted, PlanAllowed, BundleAllowed, PathAllowed
<1> QED BY <1>1, <1>2

\* The candidate's row follows its trials whatever calls, answers and workers are
\* lost: it is evaluating exactly while one trial is pending, approval rests on
\* recorded evidence, and no evaluation runs on a patch the policy forbids.
THEOREM CandidateDecided == Spec => []CandidateFollowsTrial
<1>1. EvolutionInv /\ [Next]_vars => EvolutionInv' BY EvolutionStep
<1>2. EvolutionInv => CandidateFollowsTrial BY InvFollows
<1> QED BY EvolutionStart, <1>1, <1>2, PTL DEF Spec

\* A trial has one proof: whatever its workflow or a repeated start delivers is
\* what the control plane holds.
THEOREM ProofIsOne == Spec => []OneProof
<1>1. EvolutionInv /\ [Next]_vars => EvolutionInv' BY EvolutionStep
<1>2. EvolutionInv => OneProof BY InvFollows
<1> QED BY EvolutionStart, <1>1, <1>2, PTL DEF Spec

\* Only the end of an attempt brings a report that is passed.
LEMMA PassIsReported ==
  ASSUME EvolutionInv, [Next]_vars, NEW k \in Keys,
         wf[k].report = NoReport, wf'[k].report.verdict = "passed"
  PROVE  EndAttempt(k)
<1> DEFINE Same(j, w) == wf' = [wf EXCEPT ![j] = w] /\ w.report.verdict \in
                           {wf[j].report.verdict, "none", "error"}
<1>1. wf[k].report.verdict = "none" /\ wf \in [Keys -> WorkflowType]
  BY NothingSound DEF NoReport, EvolutionInv, TypeOK
<1>2. /\ wf' # wf
      /\ \A j \in Keys : \A w : ~Same(j, w)
  BY <1>1
<1>3. ASSUME NEW j \in Keys, NEW w, Abandons(j, w), w.report = wf[j].report PROVE FALSE
  BY <1>2, <1>3 DEF Abandons
<1>4. ASSUME NEW j \in Keys, NEW retryable \in BOOLEAN, AttemptFails(j, retryable) PROVE FALSE
  <2>1. Retried(wf[j]).report = wf[j].report
    BY <1>1 DEF Retried, WorkflowType
  <2>2. [wf[j] EXCEPT !.phase = "report", !.tries = 0].report = wf[j].report
    BY <1>1 DEF WorkflowType
  <2> QED BY <1>3, <1>4, <2>1, <2>2 DEF AttemptFails
<1>5. ASSUME NEW j \in Keys, NEW s, NEW answer, Answered(j, s, answer) PROVE FALSE
  <2>1. wf' = [wf EXCEPT ![j] = AfterAnswer(wf[j], answer)] BY <1>2, <1>5 DEF Answered
  <2>2. AfterAnswer(wf[j], answer).report = wf[j].report
    BY <1>1 DEF AfterAnswer, AfterDelivery, Retried, WorkflowType
  <2> QED BY <1>2, <2>1, <2>2
<1>6. ASSUME NEW j \in Keys, NEW a, Becomes(j, a) PROVE FALSE
  BY <1>2, <1>6 DEF Becomes
<1>7. PICK j \in Keys :
        \/ \E n \in DOMAIN Patches : Evaluate(j, n)
        \/ BindWorkflow(j) \/ Launch(j) \/ StartTrial(j)
        \/ WorkflowStep(j) \/ FaultStep(j)
        \/ Approve(j) \/ \E target \in Statuses : Transition(target)
        \/ \E target \in {"observed", "eligible", "stale"} : Collect(target)
  BY <1>2 DEF Next, vars
<1>8. ~ \/ \E n \in DOMAIN Patches : Evaluate(j, n)
        \/ BindWorkflow(j) \/ Launch(j) \/ LauncherDies(j) \/ StartIsLost(j)
        \/ StartIsRepeated(j) \/ Approve(j) \/ SendResult(j)
        \/ \E target \in Statuses : Transition(target)
        \/ \E target \in {"observed", "eligible", "stale"} : Collect(target)
  BY <1>2 DEF Evaluate, BindWorkflow, Launch, LauncherDies, StartIsLost, StartIsRepeated,
     Approve, SendResult, Transition, Collect
<1>9. ~StartTrial(j)
  <2>1. [NoWorkflow EXCEPT !.phase = "evaluate"].report.verdict = "none"
    BY DEF NoWorkflow, NoReport
  <2> QED BY <1>2, <2>1 DEF StartTrial
<1>10. ~BuildFailureReport(j)
  <2>1. [wf[j] EXCEPT !.phase = "attest", !.report = FailureReport].report.verdict = "error"
    BY <1>1 DEF FailureReport, NoReport, WorkflowType
  <2> QED BY <1>2, <2>1 DEF BuildFailureReport
<1>11. ~AttestResult(j)
  <2> DEFINE w == [wf[j] EXCEPT !.phase = "deliver", !.tries = 0, !.stamp = @ + 1,
                                !.result = Proof(wf[j].report, wf[j].stamp + 1)]
  <2>1. w.report = wf[j].report BY <1>1 DEF WorkflowType
  <2> QED BY <1>2, <2>1 DEF AttestResult
<1>12. ~AttestIsLost(j)
  <2>1. /\ [wf[j] EXCEPT !.tries = @ + 1, !.stamp = @ + 1].report = wf[j].report
        /\ [wf[j] EXCEPT !.phase = "failed"].report = wf[j].report
    BY <1>1 DEF WorkflowType
  <2> QED BY <1>2, <2>1 DEF AttestIsLost
<1>13. ~WorkflowTimesOut(j)
  <2>1. [wf[j] EXCEPT !.phase = "timed_out"].report = wf[j].report BY <1>1 DEF WorkflowType
  <2> QED BY <1>3, <2>1 DEF WorkflowTimesOut
<1>14. \A s \in Senders : ~(ResultIsRead(j, s) \/ ResultIsWritten(j, s) \/ ResultIsLost(j, s)
                             \/ AnswerIsLost(j, s))
  BY <1>2, <1>5 DEF ResultIsRead, ResultIsWritten, ResultIsLost, AnswerIsLost
<1>15. ~(RefuseSandbox(j) \/ SandboxDies(j) \/ EndFailedAttempt(j))
  BY <1>4 DEF RefuseSandbox, SandboxDies, EndFailedAttempt
<1>16. ~ \/ CreateConfigMap(j) \/ CreateJob(j) \/ ReadJob(j) \/ DeleteJob(j)
         \/ DeleteConfigMap(j) \/ DeleteFails(j) \/ AddWorktree(j) \/ LocalEnds(j)
         \/ RemoveWorktree(j) \/ RemoveFails(j) \/ WatchFails(j) \/ JobDeadline(j)
         \/ JobCompletes(j) \/ JobBreaks(j) \/ PodIsGone(j)
  BY <1>6 DEF CreateConfigMap, CreateJob, Creates, ReadJob, DeleteJob, DeleteConfigMap,
     DeleteFails, Deletes, AddWorktree, LocalEnds, RemoveWorktree, RemoveFails, WatchFails,
     JobDeadline, JobCompletes, JobBreaks, JobEnds, PodIsGone
<1>17. \A c \in Containers : ~(ContainerEnds(j, c) \/ LocalStep(j, c) \/ ContainerBreaks(j, c))
  BY <1>6 DEF ContainerEnds, LocalStep, ContainerBreaks
<1>18. \A e \in BOOLEAN : /\ \A t \in {"configmap", "job"} : ~CreateFails(j, t, e)
                           /\ ~AddWorktreeFails(j, e)
  BY <1>6 DEF CreateFails, AddWorktreeFails
<1>19. EndAttempt(j)
  <2>1. SandboxStep(j) => EndAttempt(j)
    BY <1>15, <1>16, <1>17 DEF SandboxStep
  <2>2. WorkflowStep(j) => EndAttempt(j)
    BY <2>1, <1>8, <1>10, <1>11, <1>14 DEF WorkflowStep
  <2>3. ~FaultStep(j)
    BY <1>8, <1>12, <1>13, <1>14, <1>15, <1>16, <1>17, <1>18 DEF FaultStep
  <2> QED BY <1>7, <1>8, <1>9, <2>2, <2>3
<1>20. j = k
  BY <1>1, <1>19 DEF EndAttempt, Abandons
<1> QED BY <1>19, <1>20

\* An attempt that reports a pass has removed everything it worked in, what it did
\* not know it had created included.
THEOREM PassLeavesNothing == Spec => PassedIsClean
<1>1. EvolutionInv /\ [Next]_vars => EvolutionInv' BY EvolutionStep
<1>2. ASSUME EvolutionInv, [Next]_vars
      PROVE  [\A k \in Keys : (wf[k].report = NoReport /\ wf'[k].report.verdict = "passed")
                               => sb[k].held = {}]_vars
  <2> SUFFICES ASSUME NEW k \in Keys, wf[k].report = NoReport,
                      wf'[k].report.verdict = "passed"
               PROVE  sb[k].held = {}
    OBVIOUS
  <2>1. EndAttempt(k) BY <1>2, PassIsReported
  <2>2. sb[k].at = "end" /\ SandboxReport(k).verdict = "passed"
    <3>1. wf' = [wf EXCEPT ![k] = [wf[k] EXCEPT !.phase = "attest", !.tries = 0,
                                                !.report = SandboxReport(k)]]
      BY <2>1 DEF EndAttempt, Abandons
    <3>2. wf'[k].report = SandboxReport(k)
      BY <1>2, <3>1 DEF EvolutionInv, TypeOK, WorkflowType
    <3> QED BY <2>1, <3>2 DEF EndAttempt
  <2>3. sb[k].verdict = "passed" /\ sb[k].clean
    BY <2>2 DEF SandboxReport
  <2> QED BY <1>2, <2>2, <2>3 DEF EvolutionInv, KeyInv, AttemptSound, CleanUp
<1> QED BY EvolutionStart, <1>1, <1>2, PTL DEF Spec, PassedIsClean

=============================================================================
