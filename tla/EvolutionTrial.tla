--------------------------- MODULE EvolutionTrial ---------------------------
(***************************************************************************)
(* The governed evaluation of one harness evolution candidate: the control *)
(* plane's candidate and trial rows (EvolutionTrialService,                *)
(* EvolutionCandidateService), the runtime's start endpoint                *)
(* (evolution/temporal/client.py), HarnessEvolutionWorkflow with its four  *)
(* activities, and the sandbox that materializes a patch and runs the two  *)
(* fixed evaluations, as a Kubernetes Job or in a local worktree.          *)
(*                                                                         *)
(* Temporal, the Kubernetes API, git and the network fail: a call may have *)
(* no effect, or an effect whose answer is lost; a worker dies with what   *)
(* it had created; a start request is lost or arrives twice.               *)
(***************************************************************************)
EXTENDS Integers, FiniteSets

CONSTANTS
  Keys,       \* idempotency keys, each the identity of one trial
  Patches,    \* patches an administrator may submit, by name, see PatchType
  Envs,       \* deployments: the sandbox mode and the required executor
  Base,       \* files of the pinned commit, with their digests
  Low, Denied, Sealed, Reserved,  \* classes of repository paths
  Immutable,  \* invariants no patch may drop
  MaxChangedFiles, MaxAddedLines, \* the governance policy's limits
  MaxAttempts,\* maximum_attempts of the retry policy, 2 in the code
  MaxFaults   \* bound: lost, duplicated or failed calls, and crashes

Paths == Low \cup Denied \cup Sealed \cup Reserved \cup DOMAIN Base
Ops == {"create", "replace"}

PatchType ==
  [plan : SUBSET (Paths \X Ops),               \* PatchPlan.changes
   estimate : Nat,                             \* their estimated added lines
   preserved : SUBSET Immutable,               \* preserved_invariants
   files : SUBSET (Paths \X Ops),              \* PatchBundle.files
   old : [Paths -> Nat],                       \* expectedOldSha256 of a replacement
   lines : Nat]                                \* lines the files really add

ASSUME TrialAssumption ==
  /\ Envs \subseteq [mode : {"kubernetes_job", "local_process", "off"},
                     required : {"kubernetes_job", "local_process"}]
  /\ MaxAttempts \in Nat \ {0} /\ MaxFaults \in Nat
  /\ \A n \in DOMAIN Patches :
       /\ Patches[n].plan \cup Patches[n].files \subseteq Paths \X Ops
       /\ Patches[n].preserved \subseteq Immutable

VARIABLES
  env,     \* the deployment
  cand,    \* status of the candidate's row
  trial,   \* the trials' rows
  call,    \* the launcher's call of a trial
  starts,  \* start requests on their way to the runtime
  wf,      \* the workflow of a trial
  sb,      \* the evaluation activity's attempt and what it has created
  left,    \* what dead or failed attempts left in the cluster or on disk
  post,    \* result deliveries to the control plane
  faults

vars == <<env, cand, trial, call, starts, wf, sb, left, post, faults>>

Evals == {"python-compile", "evolution-core"}
Containers == {"materialize"} \cup Evals
Senders == {"activity", "client"}

NoReport == [verdict |-> "none", mode |-> "none", clean |-> FALSE,
             ran |-> [c \in Containers |-> "none"]]
NoProof == [verdict |-> "none", guardrail |-> FALSE, report |-> NoReport, stamp |-> 0]
NoInput == [patch |-> "none", status |-> "none"]
NoTrial == [verdict |-> "none", input |-> NoInput, bound |-> FALSE, proof |-> NoProof]
NoAttempt == [at |-> "idle", made |-> {}, held |-> {}, cond |-> "active",
              ran |-> [c \in Containers |-> "none"], verdict |-> "none", clean |-> TRUE]
NoWorkflow == [phase |-> "none", tries |-> 0, report |-> NoReport,
               stamp |-> 0, result |-> NoProof]

Init ==
  /\ env \in Envs
  /\ cand \in {"observed", "eligible"}
  /\ trial = [k \in Keys |-> NoTrial]
  /\ call = [k \in Keys |-> "idle"]
  /\ starts = [k \in Keys |-> 0]
  /\ wf = [k \in Keys |-> NoWorkflow]
  /\ sb = [k \in Keys |-> NoAttempt]
  /\ left = [k \in Keys |-> {}]
  /\ post = [k \in Keys |-> [s \in Senders |-> "idle"]]
  /\ faults = 0

Statuses == {"observed", "eligible", "evaluating", "awaiting_approval", "approved",
             "canary", "promoted", "rejected", "rolled_back", "stale"}

Fault == faults < MaxFaults /\ faults' = faults + 1

(***************************************************************************)
(* What a patch must satisfy.                                              *)
(***************************************************************************)
PathOf(f) == f[1]
OpOf(f) == f[2]

\* One path against the policy: sealed, denied, or outside the allowlist.
PathAllowed(path) == path \notin Sealed /\ path \notin Denied /\ path \in Low

PlanAllowed(p) ==
  /\ Cardinality(p.plan) <= MaxChangedFiles
  /\ p.estimate <= MaxAddedLines
  /\ Immutable \subseteq p.preserved
  /\ \A f \in p.plan : PathAllowed(PathOf(f))

BundleAllowed(p) ==
  /\ p.plan = p.files
  /\ Cardinality(p.files) <= MaxChangedFiles
  /\ \A f \in p.files : PathAllowed(PathOf(f))

\* Whole files against the checkout: a new file must be absent, a replaced one
\* must still have the digest the patch was made from.
Materializable(p) ==
  /\ \A f \in p.files :
       IF OpOf(f) = "create" THEN PathOf(f) \notin DOMAIN Base
       ELSE PathOf(f) \in DOMAIN Base /\ Base[PathOf(f)] = p.old[PathOf(f)]
  /\ p.lines <= MaxAddedLines

Permitted(p) == PlanAllowed(p) /\ BundleAllowed(p) /\ Materializable(p)

\* What the control plane asks of a patch before it makes a trial.
Submittable(p) == p.plan # {} /\ p.files # {} /\ p.plan = p.files

\* What the runtime's request contract asks: reserved file names are refused.
WellFormed(p) == \A f \in p.files : PathOf(f) \notin Reserved

(***************************************************************************)
(* The control plane: EvolutionTrialLauncher, the trial and candidate      *)
(* services.  Each is one transaction on rows guarded by their version.    *)
(***************************************************************************)
\* The digested input holds the candidate as it stands, its status included.
TrialInput(n) == [patch |-> n, status |-> cand]

PatchOf(k) == Patches[trial[k].input.patch]

Pending(k) == trial[k].verdict = "PENDING"

\* prepareTrial either finds the trial of this key with this input, or makes it.
Prepares(k, input) ==
  IF trial[k].verdict # "none"
  THEN Pending(k) /\ trial[k].input = input
  ELSE cand = "eligible" /\ \A j \in Keys : ~Pending(j)

Prepared(k, input) ==
  IF trial[k].verdict # "none" THEN trial[k]
  ELSE [NoTrial EXCEPT !.verdict = "PENDING", !.input = input]

Evaluate(k, n) ==
  /\ call[k] = "idle" /\ Submittable(Patches[n]) /\ Prepares(k, TrialInput(n))
  /\ trial' = [trial EXCEPT ![k] = Prepared(k, TrialInput(n))]
  /\ cand' = "evaluating"
  /\ call' = [call EXCEPT ![k] = "prepared"]
  /\ UNCHANGED <<env, starts, wf, sb, left, post, faults>>

BindWorkflow(k) ==
  /\ call[k] = "prepared"
  /\ trial' = [trial EXCEPT ![k] = [trial[k] EXCEPT !.bound = TRUE]]
  /\ call' = [call EXCEPT ![k] = "bound"]
  /\ UNCHANGED <<env, cand, starts, wf, sb, left, post, faults>>

\* The second bindWorkflow, after the answer, finds the same identity.
Launch(k) ==
  /\ call[k] = "bound"
  /\ starts' = [starts EXCEPT ![k] = @ + 1]
  /\ call' = [call EXCEPT ![k] = "idle"]
  /\ UNCHANGED <<env, cand, trial, wf, sb, left, post, faults>>

LauncherDies(k) ==
  /\ Fault /\ call[k] # "idle"
  /\ call' = [call EXCEPT ![k] = "idle"]
  /\ UNCHANGED <<env, cand, trial, starts, wf, sb, left, post>>

\* Administrators move the candidate; the states a proof decides are not theirs.
Moves ==
  [observed |-> {"eligible", "rejected", "stale"}, eligible |-> {"rejected", "stale"},
   evaluating |-> {}, awaiting_approval |-> {"rejected", "stale"},
   approved |-> {"canary", "stale"}, canary |-> {"promoted", "rolled_back"},
   promoted |-> {"rolled_back"}, rejected |-> {}, rolled_back |-> {}, stale |-> {}]

Transition(target) ==
  /\ target \in Moves[cand]
  /\ cand' = target
  /\ UNCHANGED <<env, trial, call, starts, wf, sb, left, post, faults>>

\* The collector writes the candidate's row anew whenever its observations change,
\* and with it the row's version: a completion that has read the row conflicts.
\* Only a candidate nobody took up yet follows the observations with its status.
Collect(target) ==
  /\ cand' = IF cand \in {"observed", "eligible"} THEN target ELSE cand
  /\ post' = IF target = "stale" THEN post
             ELSE [k \in Keys |-> [s \in Senders |->
                    IF post[k][s] = "read" THEN "moved" ELSE post[k][s]]]
  /\ UNCHANGED <<env, trial, call, starts, wf, sb, left, faults>>

Approve(k) ==
  /\ cand = "awaiting_approval"
  /\ trial[k].verdict = "PASSED" /\ trial[k].proof.guardrail
  /\ cand' = "approved"
  /\ UNCHANGED <<env, trial, call, starts, wf, sb, left, post, faults>>

GatePassedByReport(proof) ==                               \* seeded fault
  proof.report.verdict = "passed" /\ proof.report.clean

GatePassed(proof) ==
  /\ proof.verdict = "PASSED" /\ proof.guardrail
  /\ proof.report.mode = env.required
  /\ proof.report.verdict = "passed" /\ proof.report.clean
  /\ \A c \in Evals : proof.report.ran[c] = "ok"

(***************************************************************************)
(* The runtime's start endpoint.                                           *)
(***************************************************************************)
RequestArrives(k) == starts[k] > 0 /\ starts' = [starts EXCEPT ![k] = @ - 1]

\* A sender's request is sent, its row read, or it is done.
Posts(k, s, at) == post' = [post EXCEPT ![k] = [post[k] EXCEPT ![s] = at]]

\* A workflow already there has this trial's immutable input: attach, and send
\* its proof again if it has one.
StartTrial(k) ==
  /\ RequestArrives(k)
  /\ IF ~WellFormed(PatchOf(k)) THEN UNCHANGED <<wf, post>>
     ELSE IF wf[k].phase = "none"
     THEN /\ wf' = [wf EXCEPT ![k] = [NoWorkflow EXCEPT !.phase = "evaluate"]]
          /\ UNCHANGED post
     ELSE /\ IF wf[k].result # NoProof /\ post[k]["client"] = "idle"
             THEN Posts(k, "client", "sent") ELSE UNCHANGED post
          /\ UNCHANGED wf
  /\ UNCHANGED <<env, cand, trial, call, sb, left, faults>>

StartIsLost(k) ==
  /\ Fault /\ RequestArrives(k)
  /\ UNCHANGED <<env, cand, trial, call, wf, sb, left, post>>

StartIsRepeated(k) ==
  /\ Fault /\ starts[k] > 0
  /\ starts' = [starts EXCEPT ![k] = @ + 1]
  /\ UNCHANGED <<env, cand, trial, call, wf, sb, left, post>>

(***************************************************************************)
(* The sandbox.  An attempt knows what it made; the cluster or the disk    *)
(* may hold more, when the answer to a creation was lost.                  *)
(***************************************************************************)
Evaluating(k) == wf[k].phase = "evaluate"
InSandbox(k, mode, at) == Evaluating(k) /\ env.mode = mode /\ sb[k].at = at
\* The attempt becomes a, and nothing outside the sandbox changes.
Becomes(k, a) ==
  /\ sb' = [sb EXCEPT ![k] = a]
  /\ UNCHANGED <<env, cand, trial, call, starts, wf, left, post>>

\* The workflow becomes w; what its attempt still holds is left behind.
Abandons(k, w) ==
  /\ wf' = [wf EXCEPT ![k] = w]
  /\ left' = [left EXCEPT ![k] = @ \cup sb[k].held]
  /\ sb' = [sb EXCEPT ![k] = NoAttempt]
  /\ UNCHANGED <<env, cand, trial, call, starts, post>>

Retried(w) == [w EXCEPT !.tries = @ + 1]

\* The activity's attempt ends with an exception: retried, or reported.
AttemptFails(k, retryable) ==
  Abandons(k, IF retryable /\ wf[k].tries + 1 < MaxAttempts THEN Retried(wf[k])
              ELSE [wf[k] EXCEPT !.phase = "report", !.tries = 0])

\* Neither mode is enabled: EvolutionPolicyError is not retried.
RefuseSandbox(k) ==
  /\ InSandbox(k, "off", "idle") /\ AttemptFails(k, FALSE) /\ UNCHANGED faults

SandboxDies(k) == Fault /\ Evaluating(k) /\ AttemptFails(k, TRUE)

Creates(k, thing, next) ==
  /\ Becomes(k, [sb[k] EXCEPT !.at = next, !.made = @ \cup {thing},
                              !.held = @ \cup {thing}])
  /\ UNCHANGED faults

CreateConfigMap(k) == InSandbox(k, "kubernetes_job", "idle") /\ Creates(k, "configmap", "job")
CreateJob(k) == InSandbox(k, "kubernetes_job", "job") /\ Creates(k, "job", "watch")

\* A call of the API server fails, before or after its effect; the finally
\* block deletes what the attempt knows it made.
CreateFails(k, thing, effect) ==
  /\ Fault /\ Evaluating(k) /\ env.mode = "kubernetes_job"
  /\ sb[k].at = (IF thing = "configmap" THEN "idle" ELSE "job")
  /\ Becomes(k, [sb[k] EXCEPT !.at = "dropjob",
                              !.held = IF effect THEN @ \cup {thing} ELSE @])

WatchFails(k) ==
  /\ Fault /\ InSandbox(k, "kubernetes_job", "watch")
  /\ Becomes(k, [sb[k] EXCEPT !.at = "dropjob"])

\* The init containers of the Job run in order; the first that fails ends it.
ContainerDue(k, c) ==
  /\ sb[k].ran[c] = "none" /\ sb[k].cond = "active"
  /\ CASE c = "materialize"    -> TRUE
       [] c = "python-compile" -> sb[k].ran["materialize"] = "ok"
       [] OTHER                -> sb[k].ran["python-compile"] = "ok"

\* What a container may end with: the materializer rejects what is not
\* permitted (10) or fails (20); an evaluation passes or not.
Outcomes(k, c) ==
  IF c # "materialize" THEN {"ok", "bad"}
  ELSE IF Permitted(PatchOf(k)) THEN {"ok"} ELSE {"reject"}

Ran(k, c, code) ==
  [sb[k] EXCEPT !.ran[c] = code,
                !.cond = IF code # "ok" THEN "failed"
                         ELSE IF c = "evolution-core" /\ env.mode = "local_process"
                              THEN "complete" ELSE @]

ContainerEnds(k, c) ==
  /\ InSandbox(k, "kubernetes_job", "watch") /\ ContainerDue(k, c)
  /\ \E code \in Outcomes(k, c) : Becomes(k, Ran(k, c, code))
  /\ UNCHANGED faults

ContainerBreaks(k, c) ==
  /\ Fault /\ Evaluating(k) /\ sb[k].at \in {"watch", "run"} /\ ContainerDue(k, c)
  /\ Becomes(k, Ran(k, c, "broken"))

\* After the evaluations the Pod has one more container, which only exits.
JobEnds(k, cond) ==
  /\ InSandbox(k, "kubernetes_job", "watch") /\ sb[k].cond = "active"
  /\ sb[k].ran["evolution-core"] = "ok"
  /\ Becomes(k, [sb[k] EXCEPT !.cond = cond])

JobCompletes(k) == JobEnds(k, "complete") /\ UNCHANGED faults
JobBreaks(k) == Fault /\ JobEnds(k, "failed")

\* activeDeadlineSeconds: the Job fails, and its Pod ends or is gone.
JobDeadline(k) ==
  /\ Fault /\ InSandbox(k, "kubernetes_job", "watch") /\ sb[k].cond = "active"
  /\ \E seen \in {sb[k].ran, NoAttempt.ran} :
       Becomes(k, [sb[k] EXCEPT !.cond = "failed", !.ran = seen])

\* The Pod is gone when it is listed, after the Job's condition was read.
PodIsGone(k) ==
  /\ Fault /\ InSandbox(k, "kubernetes_job", "watch") /\ sb[k].cond # "active"
  /\ Becomes(k, [sb[k] EXCEPT !.ran = NoAttempt.ran])

JobVerdict(ran, cond) ==
  CASE ran["materialize"] = "reject"                        -> "policy_rejected"
    [] ran["materialize"] # "ok"                            -> "error"
    [] \E c \in Evals : ran[c] = "none"                     -> "error"
    [] (\A c \in Evals : ran[c] = "ok") /\ cond # "failed"  -> "passed"
    [] OTHER                                                -> "failed"

ReadJob(k) ==
  /\ InSandbox(k, "kubernetes_job", "watch") /\ sb[k].cond # "active"
  /\ Becomes(k, [sb[k] EXCEPT !.at = "dropjob",
                              !.verdict = JobVerdict(sb[k].ran, sb[k].cond)])
  /\ UNCHANGED faults

\* Job, then ConfigMap: what was made is deleted, and a failed call is noted.
Deletes(k, thing, next, ok) ==
  /\ InSandbox(k, "kubernetes_job", IF thing = "job" THEN "dropjob" ELSE "dropmap")
  /\ Becomes(k, [sb[k] EXCEPT !.at = next,
       !.held = IF ok /\ thing \in sb[k].made THEN @ \ {thing} ELSE @,
       !.clean = @ /\ (ok \/ thing \notin sb[k].made)])

DeleteJob(k) == Deletes(k, "job", "dropmap", TRUE) /\ UNCHANGED faults
DeleteConfigMap(k) == Deletes(k, "configmap", "end", TRUE) /\ UNCHANGED faults
DeleteFails(k) ==
  Fault /\ (Deletes(k, "job", "dropmap", FALSE) \/ Deletes(k, "configmap", "end", FALSE))

\* The local executor: a detached worktree in a directory of its own.  A git
\* that is killed may have registered it without the attempt knowing.
AddWorktree(k) ==
  /\ InSandbox(k, "local_process", "idle")
  /\ Becomes(k, IF ~PlanAllowed(PatchOf(k)) \/ ~BundleAllowed(PatchOf(k))
                THEN [sb[k] EXCEPT !.at = "end", !.verdict = "policy_rejected"]
                ELSE [sb[k] EXCEPT !.at = "run", !.made = {"worktree"},
                                   !.held = {"worktree", "directory"}])
  /\ UNCHANGED faults

AddWorktreeFails(k, effect) ==
  /\ Fault /\ InSandbox(k, "local_process", "idle")
  /\ PlanAllowed(PatchOf(k)) /\ BundleAllowed(PatchOf(k))
  /\ Becomes(k, [sb[k] EXCEPT !.at = "remove", !.verdict = "error",
                              !.held = IF effect THEN {"worktree", "directory"} ELSE {}])

\* Materialization, then each command until one does not pass.
LocalStep(k, c) ==
  /\ InSandbox(k, "local_process", "run") /\ ContainerDue(k, c)
  /\ \E code \in Outcomes(k, c) : Becomes(k, Ran(k, c, code))
  /\ UNCHANGED faults

LocalVerdict(ran) ==
  CASE ran["materialize"] = "reject" -> "policy_rejected"
    [] \E c \in Containers : ran[c] = "broken" -> "error"
    [] \A c \in Evals : ran[c] = "ok" -> "passed"
    [] OTHER                         -> "failed"

LocalEnds(k) ==
  /\ InSandbox(k, "local_process", "run") /\ sb[k].cond # "active"
  /\ Becomes(k, [sb[k] EXCEPT !.at = "remove", !.verdict = LocalVerdict(sb[k].ran)])
  /\ UNCHANGED faults

\* git worktree remove, only of what was registered to the attempt's knowledge,
\* then the directory.
RemoveWorktree(k) ==
  /\ InSandbox(k, "local_process", "remove")
  /\ Becomes(k, [sb[k] EXCEPT !.at = "end", !.held = @ \ ({"directory"} \cup sb[k].made)])
  /\ UNCHANGED faults

RemoveFails(k) ==
  /\ Fault /\ InSandbox(k, "local_process", "remove")
  /\ \E gone \in {{}, {"directory"}} :
       Becomes(k, [sb[k] EXCEPT !.at = "end", !.clean = FALSE, !.held = @ \ gone])

SandboxReportUnclean(k) ==                                 \* seeded fault
  [verdict |-> sb[k].verdict, mode |-> env.mode, clean |-> TRUE, ran |-> sb[k].ran]

\* A report that is passed but not clean becomes an error.
SandboxReport(k) ==
  [verdict |-> IF sb[k].clean THEN sb[k].verdict
               ELSE IF env.mode = "local_process" /\ sb[k].verdict # "passed"
                    THEN sb[k].verdict ELSE "error",
   mode |-> env.mode, clean |-> sb[k].clean, ran |-> sb[k].ran]

EndAttempt(k) ==
  /\ Evaluating(k) /\ sb[k].at = "end" /\ sb[k].verdict # "none"
  /\ Abandons(k, [wf[k] EXCEPT !.phase = "attest", !.tries = 0,
                               !.report = SandboxReport(k)])
  /\ UNCHANGED faults

\* No report: the exception that led to the clean-up fails the attempt.
EndFailedAttempt(k) ==
  /\ Evaluating(k) /\ sb[k].at = "end" /\ sb[k].verdict = "none"
  /\ AttemptFails(k, TRUE) /\ UNCHANGED faults

(***************************************************************************)
(* The rest of HarnessEvolutionWorkflow.                                   *)
(***************************************************************************)
WorkflowOnly == UNCHANGED <<env, cand, trial, call, starts, sb, left>>

FailureReport ==
  [NoReport EXCEPT !.verdict = "error",
     !.mode = IF env.required = "kubernetes_job" THEN "kubernetes_job" ELSE "local_process"]

BuildFailureReport(k) ==
  /\ wf[k].phase = "report"
  /\ wf' = [wf EXCEPT ![k] = [wf[k] EXCEPT !.phase = "attest", !.report = FailureReport]]
  /\ WorkflowOnly /\ UNCHANGED <<post, faults>>

Proof(report, stamp) ==
  LET guardrail == /\ report.verdict = "passed" /\ report.mode = env.required
                   /\ report.clean /\ \A c \in Evals : report.ran[c] = "ok"
  IN [verdict |-> CASE report.verdict = "passed" ->
                         IF guardrail THEN "PASSED" ELSE "FAILED"
                    [] report.verdict = "failed" -> "FAILED"
                    [] report.verdict = "policy_rejected" -> "POLICY_REJECTED"
                    [] OTHER -> "ENVIRONMENT_ISSUE",
      guardrail |-> guardrail, report |-> report, stamp |-> stamp]

\* The proof carries the time it was made: making it again makes another.
AttestResult(k) ==
  /\ wf[k].phase = "attest"
  /\ wf' = [wf EXCEPT ![k] = [wf[k] EXCEPT !.phase = "deliver", !.tries = 0,
       !.stamp = @ + 1, !.result = Proof(wf[k].report, wf[k].stamp + 1)]]
  /\ WorkflowOnly /\ UNCHANGED <<post, faults>>

AttestIsLost(k) ==
  /\ Fault /\ wf[k].phase = "attest"
  /\ wf' = [wf EXCEPT ![k] = IF wf[k].tries + 1 < MaxAttempts
       THEN [wf[k] EXCEPT !.tries = @ + 1, !.stamp = @ + 1]
       ELSE [wf[k] EXCEPT !.phase = "failed"]]
  /\ WorkflowOnly /\ UNCHANGED post

SendResult(k) ==
  /\ wf[k].phase = "deliver" /\ post[k]["activity"] = "idle"
  /\ Posts(k, "activity", "sent")
  /\ WorkflowOnly /\ UNCHANGED <<wf, faults>>

\* The workflow after its delivery was accepted.  Its only starter asks for no
\* approval inside the workflow: the candidate's row has that state.
AfterDelivery(w) ==
  IF w.report.verdict # "passed" \/ ~w.report.clean
  THEN [w EXCEPT !.phase = "rejected"]
  ELSE [w EXCEPT !.phase = "approved_for_external_review"]

AfterAnswer(w, answer) ==
  CASE answer = "accepted" -> AfterDelivery(w)
    [] answer = "none" /\ w.tries + 1 < MaxAttempts -> Retried(w)
    [] OTHER -> [w EXCEPT !.phase = "failed"]

\* The sender has its answer: 2xx, 4xx (never retried), or none.
Answered(k, s, answer) ==
  /\ Posts(k, s, "idle")
  /\ wf' = IF s = "client" \/ wf[k].phase # "deliver" THEN wf
           ELSE [wf EXCEPT ![k] = AfterAnswer(wf[k], answer)]

CarriedAnew(k, s) ==                                       \* seeded fault
  IF s = "client" THEN [wf[k].result EXCEPT !.stamp = @ + 1] ELSE wf[k].result

\* The proof a delivery carries is the one the workflow recorded.
Carried(k, s) == wf[k].result

Matches(k, proof) == trial[k].bound

\* completeTrial reads the rows: an identical result is accepted again, another
\* one conflicts; a pending trial of an evaluating candidate is still to be written.
ResultIsRead(k, s) ==
  /\ post[k][s] = "sent"
  /\ IF ~Matches(k, Carried(k, s)) THEN Answered(k, s, "refused")
     ELSE IF Pending(k)
     THEN IF cand = "evaluating" THEN Posts(k, s, "read") /\ UNCHANGED wf
          ELSE Answered(k, s, "refused")
     ELSE Answered(k, s, IF trial[k].proof = Carried(k, s) THEN "accepted" ELSE "refused")
  /\ WorkflowOnly /\ UNCHANGED faults

Decided(k, proof) == [trial[k] EXCEPT !.verdict = proof.verdict, !.proof = proof]

Completes(k, s) ==
  /\ trial' = [trial EXCEPT ![k] = Decided(k, Carried(k, s))]
  /\ cand' = IF GatePassed(Carried(k, s)) THEN "awaiting_approval" ELSE "rejected"

\* The updates are guarded by the versions of both rows: of two deliveries one is
\* stale, and so is one whose candidate has moved; it is refused and not retried.
ResultIsWritten(k, s) ==
  /\ post[k][s] \in {"read", "moved"}
  /\ IF Pending(k) /\ post[k][s] = "read" THEN Completes(k, s) /\ Answered(k, s, "accepted")
     ELSE UNCHANGED <<trial, cand>> /\ Answered(k, s, "refused")
  /\ UNCHANGED <<env, call, starts, sb, left, faults>>

ResultIsLost(k, s) ==
  /\ Fault /\ post[k][s] = "sent" /\ Answered(k, s, "none") /\ WorkflowOnly

AnswerIsLost(k, s) ==
  /\ Fault /\ post[k][s] = "read" /\ Pending(k)
  /\ Completes(k, s) /\ Answered(k, s, "none")
  /\ UNCHANGED <<env, call, starts, sb, left>>

\* execution_timeout of the workflow: its activity is abandoned.
WorkflowTimesOut(k) ==
  /\ Fault /\ wf[k].phase \in {"evaluate", "report", "attest", "deliver"}
  /\ Abandons(k, [wf[k] EXCEPT !.phase = "timed_out"])

SandboxStep(k) ==
  \/ RefuseSandbox(k) \/ CreateConfigMap(k) \/ CreateJob(k) \/ ReadJob(k)
  \/ \E c \in Containers : ContainerEnds(k, c) \/ LocalStep(k, c)
  \/ JobCompletes(k)
  \/ DeleteJob(k) \/ DeleteConfigMap(k) \/ AddWorktree(k) \/ LocalEnds(k)
  \/ RemoveWorktree(k) \/ EndAttempt(k) \/ EndFailedAttempt(k)

WorkflowStep(k) ==
  \/ SandboxStep(k) \/ BuildFailureReport(k) \/ AttestResult(k) \/ SendResult(k)
  \/ \E s \in Senders : ResultIsRead(k, s) \/ ResultIsWritten(k, s)

FaultStep(k) ==
  \/ LauncherDies(k) \/ StartIsLost(k) \/ StartIsRepeated(k) \/ SandboxDies(k)
  \/ \E e \in BOOLEAN : \/ \E t \in {"configmap", "job"} : CreateFails(k, t, e)
                        \/ AddWorktreeFails(k, e)
  \/ WatchFails(k) \/ JobBreaks(k) \/ JobDeadline(k) \/ PodIsGone(k)
  \/ DeleteFails(k) \/ RemoveFails(k)
  \/ \E c \in Containers : ContainerBreaks(k, c)
  \/ AttestIsLost(k) \/ WorkflowTimesOut(k)
  \/ \E s \in Senders : ResultIsLost(k, s) \/ AnswerIsLost(k, s)

Next ==
  \E k \in Keys :
    \/ \E n \in DOMAIN Patches : Evaluate(k, n)
    \/ BindWorkflow(k) \/ Launch(k) \/ StartTrial(k)
    \/ WorkflowStep(k) \/ FaultStep(k)
    \/ Approve(k) \/ \E t \in Statuses : Transition(t)
    \/ \E t \in {"observed", "eligible", "stale"} : Collect(t)

Fairness ==
  \A k \in Keys :
    /\ WF_vars(BindWorkflow(k)) /\ WF_vars(Launch(k)) /\ WF_vars(StartTrial(k))
    /\ WF_vars(WorkflowStep(k))
    /\ \A n \in DOMAIN Patches : WF_vars(Pending(k) /\ Evaluate(k, n))

Spec == Init /\ [][Next]_vars /\ Fairness

(***************************************************************************)
(* Properties.                                                             *)
(***************************************************************************)
Codes == {"none", "ok", "bad", "reject", "broken"}
Verdicts == {"none", "passed", "failed", "policy_rejected", "error"}
Decisions == {"PASSED", "FAILED", "POLICY_REJECTED", "ENVIRONMENT_ISSUE"}
Phases == {"none", "evaluate", "report", "attest", "deliver", "rejected",
           "approved_for_external_review", "failed", "timed_out"}
Things == {"configmap", "job", "worktree", "directory"}
ReportType == [verdict : Verdicts, mode : {"none", "kubernetes_job", "local_process"},
               clean : BOOLEAN, ran : [Containers -> Codes]]
ProofType == [verdict : Decisions \cup {"none"}, guardrail : BOOLEAN,
              report : ReportType, stamp : 0..MaxAttempts]
TrialType == [verdict : Decisions \cup {"none", "PENDING"},
              input : [patch : DOMAIN Patches, status : {"eligible"}] \cup {NoInput},
              bound : BOOLEAN, proof : ProofType]
WorkflowType == [phase : Phases, tries : 0..(MaxAttempts - 1), report : ReportType,
                 stamp : 0..MaxAttempts, result : ProofType]
AttemptType ==
  [at : {"idle", "job", "watch", "dropjob", "dropmap", "run", "remove", "end"},
   made : SUBSET Things, held : SUBSET Things, cond : {"active", "failed", "complete"},
   ran : [Containers -> Codes], verdict : Verdicts, clean : BOOLEAN]

TypeOK ==
  /\ env \in Envs /\ faults \in 0..MaxFaults
  /\ cand \in Statuses
  /\ trial \in [Keys -> TrialType] /\ call \in [Keys -> {"idle", "prepared", "bound"}]
  /\ starts \in [Keys -> Nat] /\ wf \in [Keys -> WorkflowType]
  /\ sb \in [Keys -> AttemptType] /\ left \in [Keys -> SUBSET Things]
  /\ post \in [Keys -> [Senders -> {"idle", "sent", "read", "moved"}]]

\* A candidate is evaluating exactly while one of its trials is pending, whatever
\* calls of prepareTrial, completeTrial, the collector and the administrators meet.
PendingIsEvaluating ==
  IF cand = "evaluating" THEN \E k \in Keys : Pending(k) /\ \A j \in Keys \ {k} : ~Pending(j)
  ELSE \A k \in Keys : ~Pending(k)

Proven == {"awaiting_approval", "approved", "canary", "promoted", "rolled_back"}

\* A candidate that awaits approval, or is approved, tried or rolled back, has a
\* trial whose recorded proof shows the materializer and both fixed evaluations passed, on the executor
\* the deployment requires, and nothing was left behind by that attempt.
DecidedByEvidence ==
  cand \in Proven =>
    \E k \in Keys :
      /\ trial[k].verdict = "PASSED" /\ trial[k].proof = wf[k].result
      /\ \A c \in Containers : trial[k].proof.report.ran[c] = "ok"
      /\ trial[k].proof.report.mode = env.required /\ trial[k].proof.report.clean

\* No evaluation runs on files of a patch that changes a sealed or denied path, or
\* one outside the allowlist: the fixed tests are those of the pinned commit.
OnlyPermittedRuns ==
  \A k \in Keys : (\E c \in Evals : sb[k].ran[c] # "none") =>
    LET p == PatchOf(k) IN
      /\ \A f \in p.files : PathOf(f) \in Low \ (Sealed \cup Denied)
      /\ Immutable \subseteq p.preserved

\* The candidate's row follows its trials, and a trial follows what was run.
CandidateFollowsTrial ==
  TypeOK /\ PendingIsEvaluating /\ DecidedByEvidence /\ OnlyPermittedRuns

\* Whatever is delivered for a trial, by the activity's retries or by a repeated
\* start, is the one proof the control plane holds: a trial has no second verdict.
OneProof ==
  \A k \in Keys : trial[k].proof # NoProof =>
    \A s \in Senders : Carried(k, s) = trial[k].proof

\* An attempt that reports a pass has removed the Job and ConfigMap, or the
\* worktree, it worked in, those included it did not know it had created.
PassedIsClean ==
  [][\A k \in Keys :
       (wf[k].report = NoReport /\ wf'[k].report.verdict = "passed") => sb[k].held = {}]_vars

\* A trial's workflow ends, whichever attempt, answer or worker is lost.
TrialWorkflowEnds ==
  \A k \in Keys : wf[k].phase # "none" ~>
    wf[k].phase \in {"rejected", "approved_for_external_review", "failed", "timed_out"}

\* A pending trial is decided in the end, since a repeated start delivers the
\* proof again and an exhausted evaluation is reported.
TrialEnds == \A k \in Keys : Pending(k) ~> ~Pending(k)
=============================================================================
