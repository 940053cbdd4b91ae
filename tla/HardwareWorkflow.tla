-------------------------- MODULE HardwareWorkflow --------------------------
(***************************************************************************)
(* RatsNestHardwareWorkflow of agents/ratsnestpro/temporal/workflow.py,    *)
(* its activities, the child processes they start and the client that      *)
(* dispatches, awaits and signals it.  All workflows here share one run    *)
(* directory: they are a design's first run and its incremental resumes,   *)
(* each with the request id it was dispatched for.                         *)
(*                                                                         *)
(* The Temporal server is external: it delivers signals, retries           *)
(* activities, closes executions.  Workflow code is replayed               *)
(* deterministically, so a worker crash is visible only in the activity it *)
(* was running.  The checkpoint is dir: how many steps are committed, and  *)
(* the request whose resume token was applied last (PcbPipeline opens it). *)
(* A child holds the flock of the directory while it loads, works and      *)
(* reports, and not while its summary is on the way to the workflow.       *)
(***************************************************************************)
EXTENDS Integers, FiniteSets

CONSTANTS
  W,            \* requests, 1..k; a later one resumes what the ones before left
  N,            \* canonical steps, 17 in the code
  Attempts,     \* RATSNESTPRO_TEMPORAL_RETRY_ATTEMPTS
  MaxEvents     \* bound: pause and cancel signals (a resume follows a pause), deadlines
                \* that pass, lost workers and service processes, drifted checkpoints

Steps == 1..N
ASSUME WorkflowAssumption ==
  /\ N \in Nat \ {0} /\ Attempts \in Nat \ {0}
  /\ MaxEvents \in Nat
  /\ W \subseteq Nat \ {0} /\ IsFiniteSet(W)

VARIABLES
  task,     \* the graph's hardware node: none, dispatch, wait, done, refused, gone
  del,      \* DELETE /runs/{request_id}: no, signalled, acked
  wf,       \* the workflow executions
  kids,     \* the step_runner processes
  dir,      \* the checkpoint: results, the first blocked one, the token applied,
            \* and the step that pipeline_result.json asks for
  events

vars == <<task, del, wf, kids, dir, events>>

\* from: the step it resumes at, 0 when it resumes nothing.  early: cancelled
\* before its last summary.  late: the deadline has passed.  History: times counts
\* how often its resume was applied; alone, that since its dispatch no other
\* request's was, and no restore dropped steps.
Absent == [st |-> "absent", from |-> 0, step |-> 0, alone |-> FALSE, times |-> 0,
           paused |-> FALSE, cancel |-> FALSE, early |-> FALSE, late |-> FALSE, att |-> 0,
           why |-> "none", handled |-> FALSE, comp |-> 0, path |-> FALSE, end |-> "none"]

Init ==
  /\ task = [w \in W |-> "none"] /\ del = [w \in W |-> "no"]
  /\ wf = [w \in W |-> Absent] /\ kids = {}
  /\ dir = [len |-> 0, bad |-> 0, token |-> 0, ask |-> 0]
  /\ events = 0

Event == events < MaxEvents /\ events' = events + 1
Open(w) == wf[w].st \notin {"absent", "closed"}
Is(w, st) == wf[w].st = st

-----------------------------------------------------------------------------
(* The graph: hardware_dispatch_phase and hardware_wait_phase *)

\* One run of the thread at a time: the thread lock.
TaskStarts(w) ==
  /\ task[w] = "none" /\ del[w] = "no"
  /\ \A v \in W : v < w => task[v] \in {"done", "refused", "gone"}
  /\ task' = [task EXCEPT ![w] = "dispatch"]
  /\ UNCHANGED <<del, wf, kids, dir, events>>

\* checkpoint_resume_step: what the checkpoint says now; when it is whole, what the
\* final verification found.
Expected ==
  IF dir.bad # 0 THEN dir.bad ELSE IF dir.len < N THEN dir.len + 1 ELSE dir.ask

\* _release_repair_resume_step: only a later request resumes, and only what exists.
ResumeStep(w) ==
  IF (\A v \in W : v >= w) \/ (dir.len = 0 /\ dir.bad = 0 /\ dir.token = 0) THEN 0
  ELSE Expected

\* dispatch_hardware_workflow: the workflow is started, or, when the id is taken,
\* attached to if the identity digest, which holds resume_from_step, is the same.
Dispatch(w) ==
  /\ task[w] = "dispatch"
  /\ LET r == ResumeStep(w) IN
     \/ /\ Is(w, "absent")
        /\ wf' = [wf EXCEPT ![w] = [@ EXCEPT !.st = "top", !.from = r, !.alone = TRUE,
                                      !.step = IF r = 0 THEN 1 ELSE r]]
        /\ \/ task' = [task EXCEPT ![w] = "wait"] /\ UNCHANGED events
           \/ /\ Event    \* dies before its checkpoint
              /\ UNCHANGED task
     \/ /\ ~Is(w, "absent") /\ UNCHANGED <<wf, events>>
        /\ task' = [task EXCEPT ![w] = IF r = wf[w].from THEN "wait" ELSE "refused"]
  /\ UNCHANGED <<del, kids, dir>>

\* await_hardware_workflow returns, or the run ends with the workflow running.
TaskReturns(w) ==
  /\ task[w] = "wait" /\ Is(w, "closed")
  /\ task' = [task EXCEPT ![w] = "done"]
  /\ UNCHANGED <<del, wf, kids, dir, events>>
TaskTimesOut(w) ==
  /\ task[w] \in {"dispatch", "wait"} /\ Event
  /\ task' = [task EXCEPT ![w] = "gone"]
  /\ UNCHANGED <<del, wf, kids, dir>>

-----------------------------------------------------------------------------
(* Signals *)

RequestPause(w) ==
  /\ Open(w) /\ Event
  /\ wf' = [wf EXCEPT ![w].paused = TRUE]
  /\ UNCHANGED <<task, del, kids, dir>>

RequestResume(w) ==
  /\ Open(w) /\ wf[w].paused
  /\ wf' = [wf EXCEPT ![w].paused = FALSE]
  /\ UNCHANGED <<task, del, kids, dir, events>>

\* request_cancel: a running activity is asked to stop as well.
Cancelled(f) ==
  [f EXCEPT !.cancel = TRUE, !.paused = FALSE,
            !.early = @ \/ f.st \in {"top", "act"}]

\* cancel_run of the service: the signal, then the registry.
CancelSignal(w) ==
  /\ del[w] = "no" /\ task[w] \in {"none", "dispatch", "wait"} /\ Event
  /\ del' = [del EXCEPT ![w] = "signalled"]
  /\ wf' = IF Open(w) THEN [wf EXCEPT ![w] = Cancelled(@)] ELSE wf
  /\ UNCHANGED <<task, kids, dir>>

CancelAcknowledge(w) ==
  /\ del[w] = "signalled"
  /\ del' = [del EXCEPT ![w] = "acked"]
  /\ task' = [task EXCEPT ![w] = IF @ \in {"none", "dispatch", "wait"} THEN "gone" ELSE @]
  /\ UNCHANGED <<wf, kids, dir, events>>

-----------------------------------------------------------------------------
(* RatsNestHardwareWorkflow.run *)

\* A closed execution keeps what it came to.
Closed(f, end) ==
  [Absent EXCEPT !.st = "closed", !.from = f.from, !.alone = f.alone, !.times = f.times,
                 !.early = f.early, !.comp = f.comp, !.end = end]

Compensating(f, why) == [f EXCEPT !.st = "comp", !.why = why, !.att = 0, !.step = 0]

\* The child that an attempt starts, and the next attempt.
NewChild(w, s, att) == [w |-> w, s |-> s, att |-> att, ph |-> "wait", orphan |-> FALSE]
Again(f) == [f EXCEPT !.att = @ + 1]

\* The top of the loop.  A paused workflow waits, whatever its deadline.
LoopTop(w) ==
  /\ Is(w, "top") /\ (~wf[w].paused \/ wf[w].cancel)
  /\ wf' = [wf EXCEPT ![w] =
              IF @.cancel THEN Compensating(@, "cancelled")
              ELSE IF wf[w].late THEN Compensating(@, "timed_out")
              ELSE [@ EXCEPT !.st = "act", !.att = 1]]
  /\ kids' = IF wf'[w].st = "act"
               THEN kids \union {NewChild(w, wf[w].step, 1)} ELSE kids
  /\ UNCHANGED <<task, del, dir, events>>

AfterSummaryUnchecked(w, ok, full) ==                         \* seeded fault
  [wf[w] EXCEPT !.att = 0, !.path = full,
     !.step = @ + 1, !.st = IF wf[w].step = N THEN "read" ELSE "top",
     !.why = IF wf[w].step = N THEN "completed" ELSE @]

\* The activity returned a summary.  full: the child wrote pipeline_result.json.
AfterSummary(w, ok, full) ==
  LET f == [wf[w] EXCEPT !.att = 0, !.path = full] IN
  IF f.cancel THEN Compensating(f, "cancelled")
  ELSE IF ~ok THEN Compensating(f, "stopped")
  ELSE IF f.step = N THEN [f EXCEPT !.st = "read", !.why = "completed"]
  ELSE [f EXCEPT !.st = "top", !.step = @ + 1]

AfterActivityErrorReturns(f) == Closed(f, "failed")           \* seeded fault

\* except ActivityError.
AfterActivityError(f) ==
  Compensating([f EXCEPT !.handled = TRUE], IF f.cancel THEN "cancelled" ELSE "failed")

\* _compensate: one attempt, and its failure is swallowed.  A failed workflow
\* returns at once, the others read the result.
Unwound(f) ==
  LET g == [f EXCEPT !.comp = @ + 1] IN
  IF f.why = "failed" \/ ~f.path THEN Closed(g, f.why) ELSE [g EXCEPT !.st = "read"]

Compensate(w) ==
  /\ Is(w, "comp")
  /\ wf' = [wf EXCEPT ![w] = Unwound(@)]
  /\ UNCHANGED <<task, del, kids, dir, events>>

\* _final_result: a failed read is handled once; in a handler it escapes.
FinalResult(w) ==
  /\ Is(w, "read")
  /\ \/ wf' = [wf EXCEPT ![w] = Closed(@, wf[w].why)]
     \/ wf' = [wf EXCEPT ![w] =
                 IF @.handled THEN Closed(@, "raised")
                 ELSE AfterActivityError(@)]
  /\ UNCHANGED <<task, del, kids, dir, events>>

\* execution_timeout, workflow_timeout + 300 seconds.
ExecutionTimeout(w) ==
  /\ Open(w) /\ wf[w].late
  /\ wf' = [wf EXCEPT ![w] = Closed(@, "expired")]
  /\ kids' = {[k EXCEPT !.orphan = k.orphan \/ k.w = w] : k \in kids}
  /\ UNCHANGED <<task, del, dir, events>>

DeadlinePasses(w) ==
  /\ Open(w) /\ ~wf[w].late /\ wf' = [wf EXCEPT ![w].late = TRUE]
  /\ Event
  /\ UNCHANGED <<task, del, kids, dir>>

-----------------------------------------------------------------------------
(* execute_pipeline_step and the child process *)

Current(k) == ~k.orphan /\ Is(k.w, "act") /\ wf[k.w].att = k.att

AttemptFailsLeavingKid(k, retry) ==                           \* seeded fault
  /\ wf' = [wf EXCEPT ![k.w] = AfterActivityError(@)]
  /\ UNCHANGED kids

\* An attempt of the activity ended without a summary and without its child;
\* the server does not retry one that was asked to cancel.
AttemptFails(k, retry) ==
  LET f == wf[k.w]
      again == retry /\ f.att < Attempts /\ ~f.cancel IN
  /\ wf' = [wf EXCEPT ![k.w] = IF again THEN Again(@) ELSE AfterActivityError(@)]
  /\ kids' = (kids \ {k}) \union
       IF again THEN {NewChild(k.w, k.s, k.att + 1)} ELSE {}

\* The flock of the run directory.
Holds(k) == k.ph \in {"load", "work", "stop"}
LockFree == \A k \in kids : ~Holds(k)

\* _load_pipeline_state: the first step of a resume applies its token.  Is it the one
\* that the checkpoint records?  Was the checkpoint already cut for that step, for
\* another token?
Active(k) == wf[k.w].from # 0 /\ k.s = wf[k.w].from
ConsumedNever(w) == FALSE                                     \* seeded fault
Consumed(w) == dir.token = w
Truncated(w) ==
  /\ dir.token # 0 /\ wf[dir.token].from = wf[w].from
  /\ dir.len < wf[w].from /\ dir.bad # wf[w].from

\* Under the lock, a resume that no longer fits the checkpoint is refused, for good.
KidLocks(k) ==
  /\ k \in kids /\ k.ph = "wait" /\ LockFree
  /\ IF Active(k) /\ ~Consumed(k.w) /\ ~Truncated(k.w) /\ wf[k.w].from # Expected
       THEN IF Current(k) THEN AttemptFails(k, FALSE)
                          ELSE kids' = kids \ {k} /\ UNCHANGED wf
       ELSE kids' = (kids \ {k}) \union {[k EXCEPT !.ph = "load"]} /\ UNCHANGED wf
  /\ UNCHANGED <<task, del, dir, events>>

\* What a restored checkpoint does to the history of the executions.
Noted(k, applied, dropped) ==
  [v \in W |-> [wf[v] EXCEPT
     !.alone = @ /\ ~dropped /\ (applied => v = k.w),
     !.times = IF applied /\ v = k.w THEN @ + 1 ELSE @]]

\* The first save after the load: a resume has cut the checkpoint before its step,
\* once; otherwise the restore keeps the results, or a prefix when their inputs have
\* drifted, which a resume that cut before refuses below its own step.
KidRestores(k) ==
  LET applied == Active(k) /\ ~Consumed(k.w)
      cut == applied /\ ~Truncated(k.w)
      left == IF Active(k) /\ ~Truncated(k.w) THEN wf[k.w].from - 1 ELSE 0 IN
  /\ k \in kids /\ k.ph = "load"
  /\ \E n \in 0..dir.len :
       /\ IF cut THEN n = wf[k.w].from - 1
          ELSE n = dir.len \/ (n >= left /\ events < MaxEvents)
       /\ dir' = [dir EXCEPT !.len = n, !.bad = IF @ > n THEN 0 ELSE @,
                             !.token = IF applied THEN k.w ELSE @]
       /\ wf' = Noted(k, applied, ~cut /\ n < dir.len)
       /\ events' = IF ~cut /\ n < dir.len THEN events + 1 ELSE events
  /\ kids' = (kids \ {k}) \union {[k EXCEPT !.ph = "work"]}
  /\ UNCHANGED <<task, del>>

\* A step is committed; one with a release issue is committed too and ends this
\* process, one that blocks execution is saved and dropped by the next restore.
KidCommits(k) ==
  /\ k \in kids /\ k.ph = "work" /\ dir.len < k.s
  /\ \/ dir' = [dir EXCEPT !.len = @ + 1] /\ UNCHANGED kids
     \/ /\ dir' = [dir EXCEPT !.len = @ + 1, !.bad = IF @ = 0 THEN dir.len + 1 ELSE @]
        /\ kids' = (kids \ {k}) \union {[k EXCEPT !.ph = "stop"]}
     \/ /\ dir' = [dir EXCEPT !.bad = dir.len + 1]
        /\ kids' = (kids \ {k}) \union {[k EXCEPT !.ph = "stop"]}
  /\ UNCHANGED <<task, del, wf, events>>

\* Still under the lock, it reports: that it stopped, that its step is reached, or
\* the whole result, which names the step that a release still asks for.
KidFinishes(k) ==
  LET reached == dir.len >= k.s  exec == dir.bad = dir.len + 1
      report == IF ~reached \/ exec THEN "stopped"
                ELSE IF k.s = N \/ dir.bad # 0 THEN "reported" ELSE "checkpointed" IN
  /\ k \in kids /\ (k.ph = "stop" \/ (k.ph = "work" /\ reached))
  /\ kids' = (kids \ {k}) \union {[k EXCEPT !.ph = report]}
  /\ IF report = "checkpointed" THEN UNCHANGED dir
     ELSE \E a \in IF dir.len = N /\ dir.bad = 0 THEN 0..N ELSE {N} :
            dir' = [dir EXCEPT !.ask = a]
  /\ UNCHANGED <<task, del, wf, events>>

\* It exits, the lock is free again, and the activity that is waiting for it, if any,
\* returns the report to the workflow.
KidExits(k) ==
  /\ k \in kids /\ k.ph \in {"stopped", "reported", "checkpointed"}
  /\ kids' = kids \ {k}
  /\ wf' = IF ~Current(k) THEN wf
           ELSE [wf EXCEPT ![k.w] = AfterSummary(k.w, k.ph # "stopped",
                                                 k.ph # "checkpointed")]
  /\ UNCHANGED <<task, del, dir, events>>

\* It reports an error, is killed at the local timeout, or dies.
KidFails(k) ==
  /\ k \in kids /\ Current(k)
  /\ \E transient \in BOOLEAN : AttemptFails(k, transient)
  /\ UNCHANGED <<task, del, dir, events>>

\* WAIT_CANCELLATION_COMPLETED: the child's process group is killed first.
CancelReachesActivity(k) ==
  /\ k \in kids /\ Current(k) /\ wf[k.w].cancel
  /\ AttemptFails(k, FALSE)
  /\ UNCHANGED <<task, del, dir, events>>

\* The worker is lost and misses its heartbeats; start_new_session lets the
\* child live on.
HeartbeatTimeout(k) ==
  /\ k \in kids /\ Current(k) /\ Event
  /\ LET f == wf[k.w]
         again == f.att < Attempts /\ ~f.cancel IN
     /\ wf' = [wf EXCEPT ![k.w] = IF again THEN Again(@) ELSE AfterActivityError(@)]
     /\ kids' = (kids \ {k}) \union {[k EXCEPT !.orphan = TRUE]} \union
          IF again THEN {NewChild(k.w, k.s, k.att + 1)} ELSE {}
  /\ UNCHANGED <<task, del, dir>>

\* A partitioned worker comes to know, or the container of a dead one is removed.
OrphanKilled(k) ==
  /\ k \in kids /\ k.orphan
  /\ kids' = kids \ {k}
  /\ UNCHANGED <<task, del, wf, dir, events>>

-----------------------------------------------------------------------------
Kid == \E k \in kids : KidLocks(k) \/ KidRestores(k) \/ KidCommits(k)
                          \/ KidFinishes(k) \/ KidExits(k)

Next ==
  \/ \E w \in W :
       \/ TaskStarts(w) \/ Dispatch(w) \/ TaskReturns(w) \/ TaskTimesOut(w)
       \/ RequestPause(w) \/ RequestResume(w) \/ CancelSignal(w) \/ CancelAcknowledge(w)
       \/ LoopTop(w) \/ Compensate(w) \/ FinalResult(w)
       \/ ExecutionTimeout(w) \/ DeadlinePasses(w)
  \/ Kid
  \/ \E k \in kids : KidFails(k) \/ CancelReachesActivity(k)
                       \/ HeartbeatTimeout(k) \/ OrphanKilled(k)

Spec == Init /\ [][Next]_vars

-----------------------------------------------------------------------------
(* Properties *)

TypeOK ==
  /\ task \in [W -> {"none", "dispatch", "wait", "done", "refused", "gone"}]
  /\ del \in [W -> {"no", "signalled", "acked"}]
  /\ \A w \in W :
       /\ wf[w].st \in {"absent", "top", "act", "comp", "read", "closed"}
       /\ wf[w].step \in 0..N /\ wf[w].att \in 0..Attempts
       /\ wf[w].end \in {"none", "completed", "cancelled", "stopped", "timed_out",
                         "failed", "raised", "expired"}
  /\ kids \subseteq [w : W, s : Steps, att : 1..Attempts, orphan : BOOLEAN,
                     ph : {"wait", "load", "work", "stop", "stopped", "reported",
                           "checkpointed"}]
  /\ dir \in [len : 0..N, bad : 0..N, token : {0} \union W, ask : 0..N]

\* A cancel that arrives before the last summary decides: such a workflow never
\* ends as completed, whatever its activity, its retries and its reads came to.
CancelWins == \A w \in W : wf[w].early => wf[w].end # "completed"

\* A resume cuts the shared checkpoint once, however often its activity is retried
\* and whichever of its children, orphans included, gets the lock first; so what a
\* completed execution left stays whole.  Excused is an execution since whose dispatch
\* another request's resume was applied: only the last token is remembered, and a
\* late child of the first then cuts again.  So is one since which inputs drifted.
CompletedIsWhole ==
  \A w \in W : wf[w].alone =>
    wf[w].times <= 1 /\ (wf[w].end = "completed" => dir.len = N)

\* Every unhappy end that the workflow itself reports was compensated, and at
\* most twice.
Compensated ==
  \A w \in W :
    /\ wf[w].end \in {"cancelled", "stopped", "timed_out", "failed", "raised"} => wf[w].comp > 0
    /\ wf[w].comp <= 2

\* Only a child whose worker was lost, or whose execution was timed out by the
\* server, outlives the activity attempt that started it.
ChildrenAreAwaited ==
  \A k \in kids : k.orphan \/ (Is(k.w, "act") /\ wf[k.w].att = k.att)

\* The workflow accounts for its attempts, its children and its ends.
Accounted == TypeOK /\ Compensated /\ ChildrenAreAwaited

\* "Start once, or attach when a LangGraph checkpoint replays dispatch": no
\* replayed dispatch is refused.
ReplayedDispatchAttaches == \A w \in W : task[w] # "refused"

\* "cancellation is never falsely acknowledged": a run whose cancellation was
\* acknowledged has no workflow that nobody asked to stop.
AcknowledgedCancelStops ==
  \A w \in W : del[w] = "acked" /\ Open(w) => wf[w].cancel

=============================================================================
