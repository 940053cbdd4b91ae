-------------------------- MODULE RedisRunRegistry --------------------------
(***************************************************************************)
(* The distributed run registry of the agent runtime,                      *)
(* src/src/service/redis_run_registry.py: a hash per run, an event stream, *)
(* a dedupe hash, two lease indexes and status counters in Redis, changed  *)
(* only by Lua scripts, and one _execute task per claim of a run on some   *)
(* runtime instance.                                                       *)
(*                                                                         *)
(* A Lua script is one atomic step.  Every await between two scripts is an *)
(* interleaving point, so a task is a program counter over its scripts.    *)
(*                                                                         *)
(* A lease is live or expired.  The run hash and the two sorted sets carry *)
(* the same deadline, so one step LeaseExpires(r) makes all three pass it; *)
(* no clock is needed, and every order of expiry against the tasks' steps  *)
(* is covered.                                                             *)
(***************************************************************************)
EXTENDS Integers, Sequences, FiniteSets

CONSTANTS
  Requests,        \* request ids
  StreamRequests,  \* those of kind "stream"; the others are of kind "invoke"
  Instances,       \* runtime processes (a restarted process is a new instance)
  MaxConcurrent,   \* max_concurrent
  MaxQueued,       \* max_queued
  Interactions,    \* interaction (id, version) pairs a producer may ask about
  Responses,       \* response_request_ids
  AheRecords,      \* record ids of keyed AHE events
  MaxClaims,       \* bound: claims (creates, takeovers, resumes) of one run
  MaxEvents,       \* bound: events after which a producer only finishes
  Faults,          \* subset of AllFaults that may happen in this instance
  None             \* no owner, no interaction, no reference

AllFaults == {"crash", "shutdown", "redis", "expiry", "cancel", "timeout", "error"}

ASSUME ConstantsAssumption ==
  /\ StreamRequests \subseteq Requests
  /\ MaxConcurrent \in Nat \ {0}
  /\ MaxQueued \in Nat
  /\ MaxClaims \in Nat \ {0}
  /\ MaxEvents \in Nat
  /\ Faults \subseteq AllFaults

ASSUME FiniteAssumption == IsFiniteSet(Requests)
ASSUME NoneAssumption == None \notin Instances \union Interactions \union AheRecords

VARIABLES
  run,        \* run hash: status, owner, fence, lease, flags, interaction
  events,     \* every event ever added to the run's stream; ids are positions
  dedupe,     \* event keys recorded in the run's dedupe hash
  answers,    \* response ids recorded in the dedupe hash, with what they answer
  active,     \* the "active" sorted set: absent, live or expired per run
  running,    \* the "running" sorted set
  metrics,    \* the status counters
  task,       \* _execute task per claim <<request, number>>
  inst        \* process state of an instance: up, closing or down

store == <<run, events, dedupe, answers, active, running, metrics>>
vars  == <<run, events, dedupe, answers, active, running, metrics, task, inst>>

Pending  == {"queued", "running"}
Terminal == {"completed", "failed", "cancelled", "timed_out"}
Recorded == Pending \union Terminal \union {"waiting_for_input"}
Status   == Recorded \union {"absent"}
Score    == {"absent", "live", "expired"}
Claims   == Requests \X (1..MaxClaims)

-----------------------------------------------------------------------------
(* Shapes of the stored values                                             *)

RunType == [ status : Status, owner : Instances \union {None}, fence : Nat,
             lease : BOOLEAN, streamFailed : BOOLEAN, doneEmitted : BOOLEAN,
             interaction : Interactions \union {None} ]

\* fence 0 stands for an entry without a fencing_token field.
EventType ==
  [ type : {"data", "error", "done"}, fence : Nat, ref : {None} ]
  \union [ type : {"ahe"}, fence : Nat, ref : AheRecords ]
  \union [ type : {"large"}, fence : Nat, ref : AheRecords \union {None} ]
  \union [ type : {"input"}, fence : {0}, ref : Interactions ]

\* "large" is the error event written in place of one above max_event_bytes.
Event(type, fence, ref) == [type |-> type, fence |-> fence, ref |-> ref]
NoEvent == Event("data", 0, None)

\* Keys of the dedupe hash: terminal-done:<fence>, terminal-error:<code>,
\* ahe:<record id>, interaction:<id>:<version>.
DoneKey(fence)     == <<"terminal-done", fence>>
ErrorKey(target)   == <<"terminal-error", target>>
AheKey(record)     == <<"ahe", record>>
InteractionKey(v)  == <<"interaction", v>>
Keys == ({"terminal-done"} \X Nat) \union ({"terminal-error"} \X Terminal)
        \union ({"ahe"} \X AheRecords) \union ({"interaction"} \X Interactions)

TryPC     == {"slot", "lock", "produce", "mark", "append", "tail", "refresh",
              "finish", "commit"}
HandlerPC == {"handler", "h_error", "h_done", "h_commit"}
PC        == TryPC \union HandlerPC \union {"none", "load", "ended"}

\* A task: the claim it was started for, the fencing token of its RunHandle,
\* the handle's terminal_event_emitted, the event its producer yielded, the
\* status its handler (or its normal end) commits, and its lease loop.
TaskType == [ pc : PC, owner : Instances \union {None}, fence : Nat,
              done : BOOLEAN, event : EventType,
              target : Terminal \union {"none"}, beating : BOOLEAN ]

NoTask == [ pc |-> "none", owner |-> None, fence |-> 0, done |-> FALSE,
            event |-> NoEvent, target |-> "none", beating |-> FALSE ]
Ended  == [ NoTask EXCEPT !.pc = "ended" ]

Stream(r) == r \in StreamRequests

TypeOK ==
  /\ run \in [Requests -> RunType]
  /\ events \in [Requests -> Seq(EventType)]
  /\ dedupe \in [Requests -> SUBSET Keys]
  /\ answers \in [Requests -> SUBSET (Responses \X Interactions)]
  /\ active \in [Requests -> Score]
  /\ running \in [Requests -> Score]
  /\ metrics \in [Recorded -> Int]
  /\ task \in [Claims -> TaskType]
  /\ inst \in [Instances -> {"up", "closing", "down"}]

Init ==
  /\ run = [r \in Requests |->
              [ status |-> "absent", owner |-> None, fence |-> 0,
                lease |-> FALSE, streamFailed |-> FALSE, doneEmitted |-> FALSE,
                interaction |-> None ]]
  /\ events = [r \in Requests |-> <<>>]
  /\ dedupe = [r \in Requests |-> {}]
  /\ answers = [r \in Requests |-> {}]
  /\ active = [r \in Requests |-> "absent"]
  /\ running = [r \in Requests |-> "absent"]
  /\ metrics = [s \in Recorded |-> 0]
  /\ task = [c \in Claims |-> NoTask]
  /\ inst = [i \in Instances |-> "up"]

-----------------------------------------------------------------------------
(* Pieces shared by the scripts                                            *)

\* The run hash after a script's HSETs, and a task after a step of its own.
HSet(r, hash) == run' = [run EXCEPT ![r] = hash]
Becomes(c, t) == task' = [task EXCEPT ![c] = t]

MovedOnto(old, new) == [metrics EXCEPT ![new] = @ + 1]       \* seeded fault

\* HINCRBY metrics old -1, HINCRBY metrics new 1; the scripts skip it when the
\* status does not change.
Moved(old, new) ==
  [s \in Recorded |-> metrics[s] + (IF s = new THEN 1 ELSE 0)
                                 - (IF s = old THEN 1 ELSE 0)]

LiveCount(index) == Cardinality({r \in Requests : index[r] = "live"})

\* The owner and fencing-token check every task script begins with.
Owns(t, r) == run[r].owner = t.owner /\ run[r].fence = t.fence

\* A task of a process that is gone has ended (Crash).
At(c, pc) == task[c].pc = pc

\* The yielded event is a local of the producer: it is gone with the step
\* that consumes it.
Goto(c, pc) ==
  Becomes(c, [task[c] EXCEPT !.pc = pc,
                             !.event = IF pc = "append" THEN @ ELSE NoEvent])
Raise(c, target) ==
  Becomes(c, [task[c] EXCEPT !.pc = "handler", !.target = target, !.event = NoEvent])
End(c) == Becomes(c, Ended)

\* Whether the client sees the reply of a script that ran.
Replies == IF "redis" \in Faults THEN BOOLEAN ELSE {TRUE}

\* CancelledError delivered to a task.  In the agent's generator it first makes
\* the generator's finally clause yield DONE (event "done" with the target to
\* raise afterwards); elsewhere in the try body it enters the handler; in a
\* handler it ends the task.
Unwinding(c, target) ==
  IF task[c].pc = "produce" /\ Stream(c[1])
  THEN [task[c] EXCEPT !.pc = "append", !.target = target,
                       !.event = Event("done", task[c].fence, None)]
  ELSE [task[c] EXCEPT !.pc = "handler", !.target = target, !.event = NoEvent]

Interrupted(c) ==
  IF task[c].pc \in TryPC THEN Unwinding(c, "cancelled")
  ELSE IF task[c].pc \in HandlerPC THEN Ended ELSE task[c]

-----------------------------------------------------------------------------
(* start(): _CREATE_OR_GET_LUA, then _load_handle, then the _execute task.  *)
(* Attaching to a live, waiting or terminal run changes nothing.            *)

NewClaim(i, fence) == [NoTask EXCEPT !.pc = "load", !.owner = i, !.fence = fence]

Create(i, r) ==
  /\ inst[i] = "up"
  /\ run[r].status = "absent"
  /\ LiveCount(active) < MaxConcurrent + MaxQueued
  /\ HSet(r, [run[r] EXCEPT !.status = "queued", !.owner = i,
                             !.fence = 1, !.lease = TRUE])
  /\ active' = [active EXCEPT ![r] = "live"]
  /\ metrics' = Moved("absent", "queued")
  /\ Becomes(<<r, 1>>, NewClaim(i, 0))
  /\ UNCHANGED <<events, dedupe, answers, running, inst>>

\* Seeded faults: only queued runs are taken over; terminal_event_emitted stays
\* set; the fencing token does not advance.
OrphanedInQueue(r) == run[r].status = "queued" /\ ~run[r].lease
TakenOverKeepDone(hash, i) ==
  [hash EXCEPT !.status = "queued", !.owner = i, !.fence = @ + 1, !.lease = TRUE]
TakenOverSameFence(hash, i) ==
  [hash EXCEPT !.status = "queued", !.owner = i, !.lease = TRUE, !.doneEmitted = FALSE]

Orphaned(r) == run[r].status \in Pending /\ ~run[r].lease

TakenOver(hash, i) ==
  [hash EXCEPT !.status = "queued", !.owner = i, !.fence = @ + 1, !.lease = TRUE,
               !.doneEmitted = FALSE]

TakeOver(i, r) ==
  /\ inst[i] = "up"
  /\ Orphaned(r)
  /\ run[r].fence < MaxClaims
  /\ HSet(r, TakenOver(run[r], i))
  /\ active' = [active EXCEPT ![r] = "live"]
  /\ running' = [running EXCEPT ![r] = "absent"]
  /\ metrics' = Moved(run[r].status, "queued")
  /\ Becomes(<<r, run[r].fence + 1>>, NewClaim(i, 0))
  /\ UNCHANGED <<events, dedupe, answers, inst>>

\* The task of a start() takes the fencing token it reads now; the task of a
\* resume() was given the token of its own script.
LoadHandle(c) ==
  /\ At(c, "load")
  /\ Becomes(c, [task[c] EXCEPT !.pc = "slot", !.beating = TRUE,
                                !.fence = IF @ = 0 THEN run[c[1]].fence ELSE @,
                                !.done = run[c[1]].doneEmitted])
  /\ UNCHANGED <<store, inst>>

-----------------------------------------------------------------------------
(* _wait_for_running_slot                                                   *)

SlotFreeOneMore == LiveCount(running) <= MaxConcurrent       \* seeded fault

SlotFree == LiveCount(running) < MaxConcurrent
Ready(c) == Owns(task[c], c[1]) /\ run[c[1]].status = "queued"

AcquireRunning(c, reply) ==
  LET r == c[1] IN
  /\ At(c, "slot")
  /\ Ready(c) /\ SlotFree
  /\ HSet(r, [run[r] EXCEPT !.status = "running", !.lease = TRUE])
  /\ active' = [active EXCEPT ![r] = "live"]
  /\ running' = [running EXCEPT ![r] = "live"]
  /\ metrics' = Moved("queued", "running")
  /\ IF reply THEN Goto(c, "lock") ELSE Raise(c, "failed")
  /\ UNCHANGED <<events, dedupe, answers, inst>>

AcquireRefused(c) ==
  LET r == c[1] IN
  /\ At(c, "slot")
  /\ ~Ready(c)
  /\ Raise(c, IF run[r].status \in Terminal THEN "cancelled" ELSE "failed")
  /\ UNCHANGED <<store, inst>>

-----------------------------------------------------------------------------
(* The producer: serialize_thread_run, the agent's generator, and for each  *)
(* event it yields the scripts _produce_stream_events_impl calls.           *)

EnterProducer(c) ==
  /\ At(c, "lock")
  /\ Goto(c, "produce")
  /\ UNCHANGED <<store, inst>>

Yielded(c) ==
  LET f == task[c].fence IN
  {Event("done", f, None)}
    \union (IF "error" \in Faults THEN {Event("error", f, None)} ELSE {})
    \union (IF "error" \in Faults /\ Len(events[c[1]]) < MaxEvents
            THEN {Event("large", f, a) : a \in AheRecords \union {None}} ELSE {})
    \union (IF Len(events[c[1]]) < MaxEvents
            THEN {Event("data", f, None)}
                 \union {Event("ahe", f, a) : a \in AheRecords}
                 \union {Event("input", 0, v) : v \in Interactions}
            ELSE {})

ProducerYields(c) ==
  /\ At(c, "produce") /\ Stream(c[1])
  /\ \E e \in Yielded(c) :
       Becomes(c, [task[c] EXCEPT !.event = e,
                                  !.pc = IF e.type \in {"error", "large"} THEN "mark" ELSE "append"])
  /\ UNCHANGED <<store, inst>>

\* An invocation returns its result; a generator whose clarification request
\* is not well formed ends without DONE.
ProducerReturns(c) ==
  /\ At(c, "produce") \/ At(c, "tail")
  /\ Goto(c, "refresh")
  /\ UNCHANGED <<store, inst>>

\* The lock, the agent, or a pause whose event is above max_event_bytes.
ProducerRaises(c) ==
  /\ "error" \in Faults
  /\ \/ At(c, "lock") \/ (At(c, "produce") /\ ~Stream(c[1]))
     \/ At(c, "append") /\ task[c].event.type = "input"
  /\ Raise(c, "failed")
  /\ UNCHANGED <<store, inst>>

MarkStreamFailed(c, reply) ==
  LET r == c[1] IN
  /\ At(c, "mark")
  /\ IF Owns(task[c], r) /\ run[r].status \notin Terminal
     THEN /\ HSet(r, [run[r] EXCEPT !.streamFailed = TRUE])
          /\ IF reply THEN Goto(c, "append") ELSE Raise(c, "failed")
     ELSE /\ Raise(c, "failed")
          /\ UNCHANGED run
  /\ UNCHANGED <<events, dedupe, answers, active, running, metrics, inst>>

\* Seeded faults: an append that does not check the fencing token, and one that
\* records its keys but never looks them up.
AppendableUnfenced(c, e) ==
  /\ run[c[1]].status \notin Terminal
  /\ ~(run[c[1]].status = "waiting_for_input" /\ e.type = "done")
AppendNoDedupe(c, e, keys) ==
  /\ events' = [events EXCEPT ![c[1]] = Append(@, e)]
  /\ dedupe' = [dedupe EXCEPT ![c[1]] = @ \union keys]
  /\ HSet(c[1], [run[c[1]] EXCEPT !.doneEmitted = @ \/ e.type = "done"])

\* _APPEND_EVENT_LUA: refused, answered from the dedupe hash, or appended.
Appendable(c, e) ==
  /\ Owns(task[c], c[1])
  /\ run[c[1]].status \notin Terminal
  /\ ~(run[c[1]].status = "waiting_for_input" /\ e.type = "done")

AppendScript(c, e, keys) ==
  LET r == c[1] IN
  IF keys \intersect dedupe[r] # {}
  THEN UNCHANGED <<run, events, dedupe>>
  ELSE /\ events' = [events EXCEPT ![r] = Append(@, e)]
       /\ dedupe' = [dedupe EXCEPT ![r] = @ \union keys]
       /\ HSet(r, [run[r] EXCEPT !.doneEmitted = @ \/ e.type = "done"])

\* The key of the event as it was yielded, when it has one.
EventKeys(e) ==
  {AheKey(a) : a \in {b \in AheRecords : e.type \in {"ahe", "large"} /\ e.ref = b}}

\* After a "done" the generator is exhausted, or the exception that made it
\* unwind is raised; after an "error" its finally clause yields DONE.
AfterAppend(t) ==
  CASE t.event.type = "done" -> [t EXCEPT !.done = TRUE, !.event = NoEvent,
                                   !.pc = IF t.target = "none" THEN "tail" ELSE "handler"]
    [] t.event.type = "error" -> [t EXCEPT !.event = Event("done", t.fence, None)]
    [] OTHER -> [t EXCEPT !.pc = "produce", !.event = NoEvent]

AppendEvent(c, reply) ==
  LET e == task[c].event IN
  /\ At(c, "append") /\ e.type # "input"
  /\ IF Appendable(c, e)
     THEN /\ AppendScript(c, e, EventKeys(e))
          /\ IF reply THEN Becomes(c, AfterAppend(task[c]))
             ELSE Raise(c, "failed")
     ELSE /\ Raise(c, "failed")
          /\ UNCHANGED <<run, events, dedupe>>
  /\ UNCHANGED <<answers, active, running, metrics, inst>>

PauseForInput(c, reply) ==
  LET r == c[1]  v == task[c].event.ref IN
  /\ At(c, "append") /\ task[c].event.type = "input"
  /\ Owns(task[c], r) /\ run[r].status = "running"
  /\ HSet(r, [run[r] EXCEPT !.status = "waiting_for_input", !.lease = FALSE,
                             !.interaction = v])
  /\ events' = [events EXCEPT ![r] = Append(@, task[c].event)]
  /\ dedupe' = [dedupe EXCEPT ![r] = @ \union {InteractionKey(v)}]
  /\ active' = [active EXCEPT ![r] = "absent"]
  /\ running' = [running EXCEPT ![r] = "absent"]
  /\ metrics' = Moved("running", "waiting_for_input")
  /\ IF reply THEN Goto(c, "tail") ELSE Raise(c, "failed")
  /\ UNCHANGED <<answers, inst>>

PauseRefused(c) ==
  LET r == c[1] IN
  /\ At(c, "append") /\ task[c].event.type = "input"
  /\ ~(Owns(task[c], r) /\ run[r].status = "running")
  /\ IF Owns(task[c], r) /\ run[r].status = "waiting_for_input"
        /\ run[r].interaction = task[c].event.ref
     THEN Goto(c, "tail") ELSE Raise(c, "failed")
  /\ UNCHANGED <<store, inst>>

\* asyncio.timeout around the producer.
Timeout(c) ==
  /\ "timeout" \in Faults
  /\ \E pc \in {"lock", "produce", "mark", "append", "tail"} : At(c, pc)
  /\ task[c].target = "none"
  /\ Becomes(c, Unwinding(c, "timed_out"))
  /\ UNCHANGED <<store, inst>>

-----------------------------------------------------------------------------
(* The normal end of _execute: re-read the run, append DONE if the stream   *)
(* has none, commit the terminal status.                                    *)

OutcomeUnset(r) == "none"                                    \* seeded fault

Outcome(r) == IF run[r].streamFailed THEN "failed" ELSE "completed"

Refresh(c) ==
  LET r == c[1] IN
  /\ At(c, "refresh")
  /\ IF ~Owns(task[c], r) \/ run[r].status = "waiting_for_input"
     THEN End(c)
     ELSE Becomes(c, [task[c] EXCEPT
            !.pc = IF Stream(r) /\ ~run[r].doneEmitted THEN "finish" ELSE "commit",
            !.target = Outcome(r)])
  /\ UNCHANGED <<store, inst>>

\* The read after the append only fixes the target: stream_failed is written by
\* the owner alone, and the commit is fenced again.
FinishDone(c, reply) ==
  LET e == Event("done", task[c].fence, None) IN
  /\ At(c, "finish")
  /\ IF Appendable(c, e)
     THEN /\ AppendScript(c, e, {DoneKey(task[c].fence)})
          /\ IF reply
             THEN Becomes(c, [task[c] EXCEPT !.pc = "commit", !.done = TRUE,
                                             !.target = Outcome(c[1])])
             ELSE Raise(c, "failed")
     ELSE /\ Raise(c, "failed")
          /\ UNCHANGED <<run, events, dedupe>>
  /\ UNCHANGED <<answers, active, running, metrics, inst>>

TransitionLeaksSlot(r, target) ==                            \* seeded fault
  /\ HSet(r, [run[r] EXCEPT !.status = target, !.lease = FALSE])
  /\ active' = [active EXCEPT ![r] = "absent"]
  /\ metrics' = Moved(run[r].status, target)
  /\ UNCHANGED running

\* _TRANSITION_LUA.
Transition(r, target) ==
  /\ HSet(r, [run[r] EXCEPT !.status = target, !.lease = FALSE])
  /\ active' = [active EXCEPT ![r] = "absent"]
  /\ running' = [running EXCEPT ![r] = "absent"]
  /\ metrics' = Moved(run[r].status, target)

CommitsTwice(c)    == Owns(task[c], c[1])                    \* seeded fault
CommitsUnfenced(c) == run[c[1]].status \notin Terminal       \* seeded fault

Commits(c) == Owns(task[c], c[1]) /\ run[c[1]].status \notin Terminal

Commit(c, reply) ==
  /\ At(c, "commit")
  /\ IF Commits(c)
     THEN /\ Transition(c[1], task[c].target)
          /\ IF reply THEN End(c) ELSE Raise(c, "failed")
     ELSE /\ Raise(c, "failed")
          /\ UNCHANGED <<run, active, running, metrics>>
  /\ UNCHANGED <<events, dedupe, answers, inst>>

-----------------------------------------------------------------------------
(* The except clauses of _execute: re-read the run, then                    *)
(* _append_terminal_error and the commit; a process shutting down releases  *)
(* its lease instead of cancelling the run.                                 *)

ReleaseLease(c) ==
  LET r == c[1] IN
  /\ At(c, "handler") /\ task[c].target = "cancelled"
  /\ inst[task[c].owner] = "closing"
  /\ IF Owns(task[c], r) /\ run[r].status \in Pending
     THEN /\ HSet(r, [run[r] EXCEPT !.lease = FALSE])
          /\ active' = [active EXCEPT ![r] = "expired"]
          /\ running' = [running EXCEPT ![r] = "expired"]
     ELSE UNCHANGED <<run, active, running>>
  /\ End(c)
  /\ UNCHANGED <<events, dedupe, answers, metrics, inst>>

Handler(c) ==
  LET r == c[1] IN
  /\ At(c, "handler")
  /\ ~(task[c].target = "cancelled" /\ inst[task[c].owner] = "closing")
  /\ IF \/ ~Owns(task[c], r)
        \/ run[r].status = "waiting_for_input"
        \/ task[c].target = "cancelled" /\ run[r].status \in Terminal
     THEN End(c)
     ELSE Goto(c, IF Stream(r) THEN "h_error" ELSE "h_commit")
  /\ UNCHANGED <<store, inst>>

\* A lost reply or a failed call leaves the handler with an exception.
HandlerError(c, reply) ==
  LET e == Event("error", task[c].fence, None) IN
  /\ At(c, "h_error")
  /\ IF Appendable(c, e)
     THEN /\ AppendScript(c, e, {ErrorKey(task[c].target)})
          /\ IF reply THEN Goto(c, IF task[c].done THEN "h_commit" ELSE "h_done")
             ELSE End(c)
     ELSE /\ Goto(c, "h_commit")
          /\ UNCHANGED <<run, events, dedupe>>
  /\ UNCHANGED <<answers, active, running, metrics, inst>>

HandlerDone(c, reply) ==
  LET e == Event("done", task[c].fence, None)  r == c[1] IN
  /\ At(c, "h_done")
  /\ IF Appendable(c, e)
     THEN /\ AppendScript(c, e, {DoneKey(task[c].fence)})
          /\ IF reply THEN Goto(c, "h_commit") ELSE End(c)
     ELSE /\ IF Owns(task[c], r) /\ run[r].status = "waiting_for_input"
             THEN End(c)              \* InvalidRunTransitionError is not caught
             ELSE Goto(c, "h_commit")
          /\ UNCHANGED <<run, events, dedupe>>
  /\ UNCHANGED <<answers, active, running, metrics, inst>>

HandlerCommit(c) ==
  /\ At(c, "h_commit")
  /\ IF Commits(c) THEN Transition(c[1], task[c].target)
     ELSE UNCHANGED <<run, active, running, metrics>>
  /\ End(c)
  /\ UNCHANGED <<events, dedupe, answers, inst>>

\* A script or read of a task that fails without having run.
RedisFails(c) ==
  /\ "redis" \in Faults
  /\ \/ /\ task[c].pc \in {"slot", "mark", "append", "refresh", "finish", "commit"}
        /\ Raise(c, "failed")
     \/ /\ task[c].pc \in HandlerPC \union {"load"}
        /\ End(c)
  /\ UNCHANGED <<store, inst>>

-----------------------------------------------------------------------------
(* _lease_loop and _cancellation_watch, the helpers of a task               *)

Beats(c) ==
  /\ task[c].beating
  /\ task[c].pc \in TryPC \union HandlerPC

Renewable(c) == Owns(task[c], c[1]) /\ run[c[1]].status \in Pending

\* The script does not ask whether the lease it renews is still live.
Heartbeat(c) ==
  LET r == c[1] IN
  /\ Beats(c) /\ Renewable(c)
  /\ HSet(r, [run[r] EXCEPT !.lease = TRUE])
  /\ active' = [active EXCEPT ![r] = "live"]
  /\ running' = IF run[r].status = "running"
                THEN [running EXCEPT ![r] = "live"] ELSE running
  /\ UNCHANGED <<events, dedupe, answers, metrics, task, inst>>

LeaseLoopStops(c) ==
  /\ Beats(c) /\ run[c[1]].status = "waiting_for_input"
  /\ Becomes(c, [task[c] EXCEPT !.beating = FALSE])
  /\ UNCHANGED <<store, inst>>

\* A refused renewal, or one whose outcome is unknown, cancels the task.
HeartbeatLost(c) ==
  /\ Beats(c) /\ (~Renewable(c) \/ "redis" \in Faults)
  /\ Becomes(c, [Interrupted(c) EXCEPT !.beating = FALSE])
  /\ UNCHANGED <<store, inst>>

\* The read that precedes the renewal is outside its try block.
LeaseLoopDies(c) ==
  /\ "redis" \in Faults
  /\ Beats(c)
  /\ Becomes(c, [task[c] EXCEPT !.beating = FALSE])
  /\ UNCHANGED <<store, inst>>

CancellationWatch(c) ==
  /\ task[c].pc \in TryPC
  /\ run[c[1]].status \in Terminal
  /\ Becomes(c, Interrupted(c))
  /\ UNCHANGED <<store, inst>>

-----------------------------------------------------------------------------
(* cancel() and resume() from any instance                                  *)

\* _CANCEL_LUA.  The local task.cancel() that follows is CancellationWatch.
Cancel(r) ==
  LET f == run[r].fence + 1 IN
  /\ "cancel" \in Faults
  /\ run[r].status \in Pending \union {"waiting_for_input"}
  /\ HSet(r, [run[r] EXCEPT !.status = "cancelled", !.fence = f,
                             !.lease = FALSE,
                             !.doneEmitted = @ \/ Stream(r)])
  /\ events' = IF Stream(r)
               THEN [events EXCEPT ![r] = @ \o << Event("error", f, None),
                                                  Event("done", f, None) >>]
               ELSE events
  /\ active' = [active EXCEPT ![r] = "absent"]
  /\ running' = [running EXCEPT ![r] = "absent"]
  /\ metrics' = Moved(run[r].status, "cancelled")
  /\ UNCHANGED <<dedupe, answers, task, inst>>

Answered(r, q) == \E v \in Interactions : <<q, v>> \in answers[r]

ResumableAgain(r, q, v) ==                                   \* seeded fault
  run[r].status = "waiting_for_input" /\ run[r].interaction = v

\* A response id seen before changes nothing.
Resumable(r, q, v) ==
  /\ ~Answered(r, q)
  /\ run[r].status = "waiting_for_input" /\ run[r].interaction = v

\* _RESUME_LUA.
Resume(i, r, q, v) ==
  /\ inst[i] = "up"
  /\ Resumable(r, q, v)
  /\ run[r].fence < MaxClaims
  /\ HSet(r, [run[r] EXCEPT !.status = "queued", !.owner = i,
                             !.fence = @ + 1, !.lease = TRUE,
                             !.interaction = None, !.doneEmitted = FALSE])
  /\ answers' = [answers EXCEPT ![r] = @ \union {<<q, v>>}]
  /\ active' = [active EXCEPT ![r] = "live"]
  /\ running' = [running EXCEPT ![r] = "absent"]
  /\ metrics' = Moved("waiting_for_input", "queued")
  /\ Becomes(<<r, run[r].fence + 1>>, NewClaim(i, run[r].fence + 1))
  /\ UNCHANGED <<events, dedupe, inst>>

-----------------------------------------------------------------------------
(* The environment: time and processes                                      *)

\* Some live lease loop, or a start() about to create one, attends to the run.
Attended(r) ==
  \E c \in Claims : /\ c[1] = r
                    /\ task[c].pc = "load" \/ (task[c].beating /\ Owns(task[c], r))

\* Without the "expiry" fault, processes are timely: an attended lease is
\* renewed before its deadline.
LeaseExpires(r) ==
  /\ run[r].lease
  /\ "expiry" \in Faults \/ ~Attended(r)
  /\ HSet(r, [run[r] EXCEPT !.lease = FALSE])
  /\ active' = [active EXCEPT ![r] = "expired"]
  /\ running' = [running EXCEPT ![r] = IF @ = "live" THEN "expired" ELSE @]
  /\ UNCHANGED <<events, dedupe, answers, metrics, task, inst>>

\* shutdown(): the tasks in _tasks are cancelled while _closing is set.  _tasks
\* has one task per request: one that another claim of the run may have replaced
\* is cancelled or missed.
Replaceable(c) == \E d \in Claims : d # c /\ d[1] = c[1] /\ task[d].pc # "none"

Shutdown(i) ==
  /\ "shutdown" \in Faults
  /\ inst[i] = "up"
  /\ inst' = [inst EXCEPT ![i] = "closing"]
  /\ \E missed \in SUBSET {c \in Claims : Replaceable(c)} :
       task' = [c \in Claims |-> IF task[c].owner = i /\ c \notin missed
                                 THEN Interrupted(c) ELSE task[c]]
  /\ UNCHANGED store

\* The process ends, after shutdown() or by a crash.
Crash(i) ==
  /\ inst[i] = "closing" \/ (inst[i] = "up" /\ "crash" \in Faults)
  /\ inst' = [inst EXCEPT ![i] = "down"]
  /\ task' = [c \in Claims |-> IF task[c].owner = i THEN Ended ELSE task[c]]
  /\ UNCHANGED store

-----------------------------------------------------------------------------
Execute(c) ==
  \/ LoadHandle(c)
  \/ \E reply \in Replies : AcquireRunning(c, reply)
  \/ AcquireRefused(c)
  \/ EnterProducer(c)
  \/ ProducerYields(c)
  \/ ProducerReturns(c)
  \/ ProducerRaises(c)
  \/ \E reply \in Replies : MarkStreamFailed(c, reply)
  \/ \E reply \in Replies : AppendEvent(c, reply)
  \/ \E reply \in Replies : PauseForInput(c, reply)
  \/ PauseRefused(c)
  \/ Timeout(c)
  \/ Refresh(c)
  \/ \E reply \in Replies : FinishDone(c, reply)
  \/ \E reply \in Replies : Commit(c, reply)
  \/ ReleaseLease(c)
  \/ Handler(c)
  \/ \E reply \in Replies : HandlerError(c, reply)
  \/ \E reply \in Replies : HandlerDone(c, reply)
  \/ HandlerCommit(c)
  \/ RedisFails(c)

Helpers(c) ==
  \/ Heartbeat(c)
  \/ LeaseLoopStops(c)
  \/ HeartbeatLost(c)
  \/ LeaseLoopDies(c)
  \/ CancellationWatch(c)

Next ==
  \/ \E i \in Instances, r \in Requests : Create(i, r)
  \/ \E i \in Instances, r \in Requests : TakeOver(i, r)
  \/ \E c \in Claims : Execute(c)
  \/ \E c \in Claims : Helpers(c)
  \/ \E r \in Requests : Cancel(r)
  \/ \E i \in Instances, r \in Requests, q \in Responses, v \in Interactions :
       Resume(i, r, q, v)
  \/ \E r \in Requests : LeaseExpires(r)
  \/ \E i \in Instances : Shutdown(i)
  \/ \E i \in Instances : Crash(i)

Spec == Init /\ [][Next]_vars

\* What the event loop, the helpers' polling, the clock and a client that calls
\* start() again until the run settles make happen.  Faults are never forced,
\* and a producer may take any of its steps.
Progress(c) ==
  \/ LoadHandle(c) \/ AcquireRunning(c, TRUE) \/ AcquireRefused(c)
  \/ EnterProducer(c) \/ ProducerYields(c) \/ ProducerReturns(c)
  \/ MarkStreamFailed(c, TRUE) \/ AppendEvent(c, TRUE)
  \/ PauseForInput(c, TRUE) \/ PauseRefused(c)
  \/ Refresh(c) \/ FinishDone(c, TRUE) \/ Commit(c, TRUE)
  \/ ReleaseLease(c) \/ Handler(c) \/ HandlerError(c, TRUE)
  \/ HandlerDone(c, TRUE) \/ HandlerCommit(c)

Fairness ==
  /\ \A c \in Claims : WF_vars(Progress(c))
  /\ \A r \in Requests : /\ WF_vars(LeaseExpires(r))
                         /\ WF_vars(\E i \in Instances : TakeOver(i, r))

FairSpec == Spec /\ Fairness

-----------------------------------------------------------------------------
(* Safety                                                                   *)

\* The two sorted sets agree with the run hash: a waiting or terminal run is in
\* neither, a pending run is in "active", a running one in both, and an entry is
\* live exactly while the lease is.  Admission and slots are computed from the
\* sets, ownership from the hash; no script may let them drift apart.
Indexed(hash, inActive, inRunning) ==
  LET score == IF hash.lease THEN "live" ELSE "expired" IN
  /\ inActive = IF hash.status \in Pending THEN score ELSE "absent"
  /\ hash.status = "running" => inRunning = score
  /\ hash.status = "queued" => inRunning \in {"absent", "expired"}
  /\ hash.status \notin Pending => inRunning = "absent" /\ ~hash.lease

IndexAgreement == \A r \in Requests : Indexed(run[r], active[r], running[r])

\* Every status counter is the number of runs in that status, whatever mixture
\* of takeovers, pauses, cancellations and late commits led there.
CountersAgree ==
  \A s \in Recorded : metrics[s] = Cardinality({r \in Requests : run[r].status = s})

\* The fencing tokens along a run's stream never decrease and never exceed the
\* run's: once a newer owner has written, an older producer writes no more.
FencesOrdered ==
  \A r \in Requests :
    /\ \A k \in 1..Len(events[r]) : events[r][k].fence <= run[r].fence
    /\ \A j, k \in 1..Len(events[r]) :
         j < k /\ events[r][k].fence # 0 => events[r][j].fence <= events[r][k].fence

\* A stream that reached a terminal status has a DONE of its final fence, so a
\* subscriber that waits for the end of the current execution can find one.
HasDone(r, fence) ==
  \E k \in 1..Len(events[r]) : events[r][k].type = "done" /\ events[r][k].fence = fence

TerminalStreamHasDone ==
  \A r \in StreamRequests : run[r].status \in Terminal => HasDone(r, run[r].fence)

\* A keyed AHE event is in the stream once, although every takeover and resume
\* makes the producer emit it again.
AheEventOnce ==
  \A r \in Requests : \A j, k \in 1..Len(events[r]) :
    events[r][j].type = "ahe" /\ events[r][k].type = "ahe"
      /\ events[r][j].ref = events[r][k].ref => j = k

\* With timely processes no more than max_concurrent runs hold a running slot.
RunningWithinLimit == LiveCount(running) <= MaxConcurrent

\* A terminal run is final: neither its record nor its stream changes again.
TerminalIsFinal ==
  [][\A r \in Requests :
       run[r].status \in Terminal => run'[r] = run[r] /\ events'[r] = events[r]]_vars

\* A step of a task whose owner or fencing token is not the run's changes
\* nothing of the run in the store.
StaleTaskFenced ==
  [][\A c \in Claims :
       task'[c] # task[c] /\ task[c].pc # "none" /\ ~Owns(task[c], c[1])
         => /\ run'[c[1]] = run[c[1]] /\ events'[c[1]] = events[c[1]]
            /\ dedupe'[c[1]] = dedupe[c[1]]]_vars

\* A run waiting for input leaves that state only by a cancellation or by a new
\* response to the very interaction it waits for, under a new fencing token.
\* This needs timely processes: with "expiry" two starts may end up with one
\* owner and token (AtMostOneWriter), and the second task then decides the run
\* over the head of the first one's question.
WaitingIsHeld ==
  [][\A r \in Requests :
       run[r].status = "waiting_for_input" /\ run'[r].status # "waiting_for_input"
         => /\ run'[r].fence = run[r].fence + 1
            /\ \/ run'[r].status = "cancelled"
               \/ /\ run'[r].status = "queued"
                  /\ \E q \in Responses :
                       <<q, run[r].interaction>> \in answers'[r] \ answers[r]]_vars

-----------------------------------------------------------------------------
(* What a task knows of the run it executes: the strengthening that makes   *)
(* the invariants above inductive.                                          *)

\* Claims are numbered by the fencing tokens the registry hands out, no task
\* has a newer token than the run, and it writes only under its own.
Tokened(t, fence) ==
  /\ t.fence <= fence
  /\ t.event.fence \in {0, t.fence}
  /\ t.event.type = "done" => t.event.fence = t.fence
  /\ t.pc = "load" => t.event = NoEvent

TokensIssued ==
  /\ \A r \in Requests :
       run[r].status = "absent" => run[r].fence = 0 /\ ~run[r].doneEmitted
  /\ \A c \in Claims :
       /\ c[2] > run[c[1]].fence => task[c] = NoTask
       /\ Tokened(task[c], run[c[1]].fence)

\* Every note that DONE was written (the run's terminal_event_emitted, a dedupe
\* key, the handle of a task in charge, the point just before a stream's commit)
\* is backed by a DONE of the current fencing token in the stream.
DoneBacked ==
  /\ \A r \in Requests :
       /\ run[r].doneEmitted /\ Stream(r) => HasDone(r, run[r].fence)
       /\ \A key \in dedupe[r] : key[1] = "terminal-done" => HasDone(r, key[2])
  /\ \A c \in Claims :
       /\ Stream(c[1]) /\ Owns(task[c], c[1]) /\ run[c[1]].status \notin Terminal
       /\ task[c].done \/ task[c].pc \in {"commit", "h_commit"}
       => HasDone(c[1], run[c[1]].fence)

\* The status and the fencing token of the run hash behave as RunLifecycle
\* promises, whatever the indexes, the stream and the tasks do.
Lifecycle == INSTANCE RunLifecycle
  WITH status <- [r \in Requests |-> run[r].status],
       fence  <- [r \in Requests |-> run[r].fence]

LifecycleSpec == Lifecycle!Spec

\* An accepted run settles: as long as one process stays up to take it over, it
\* is decided or waits for a human, whichever process dies at whichever step.
Settles ==
  (\E i \in Instances : [](inst[i] = "up"))
    => \A r \in Requests :
         run[r].status \in Pending ~> run[r].status \in Terminal \union {"waiting_for_input"}

-----------------------------------------------------------------------------
(* What documents and comments of the repository say of the registry        *)

\* At most one effective writer per run.
AtMostOneWriter ==
  \A c, d \in Claims :
    /\ c[1] = d[1] /\ Owns(task[c], c[1]) /\ Owns(task[d], c[1])
    /\ task[c].pc \in TryPC \union HandlerPC
    /\ task[d].pc \in TryPC \union HandlerPC
    => c = d

\* Only a user's cancel() makes a run cancelled: the fence it leaves was granted
\* to no task.
OnlyUsersCancel ==
  \A c \in Claims :
    run[c[1]].status = "cancelled" /\ run[c[1]].fence = c[2] => task[c].pc = "none"

\* A failed stream shows an error of the execution that failed, not of one that
\* was fenced off before it.
FailureIsOfThisExecution ==
  \A r \in StreamRequests :
    run[r].status = "failed" =>
      \E k \in 1..Len(events[r]) :
        events[r][k].type \in {"error", "large"} /\ events[r][k].fence = run[r].fence

=============================================================================
