--------------------------- MODULE RegistryProofs ---------------------------
(***************************************************************************)
(* Theorems about RedisRunRegistry and RunSubscriber, in three parts.      *)
(*                                                                         *)
(* 1. Types, IndexAgreement, which is inductive with them, and             *)
(* TokensIssued, the strengthening for everything about fencing.  The      *)
(* typing of a commit needs one fact about tasks: a task in a handler, or  *)
(* about to commit, has a terminal status to commit.  The Scope lemmas say *)
(* what of a run each group of steps may touch; the later proofs rest on   *)
(* them.  On these, the event streams: the order of the fencing tokens,    *)
(* the DONE of a terminal run, finality, the fencing of stale tasks, and   *)
(* AHE events that are in a stream once.                                   *)
(*                                                                         *)
(* 2. The statuses.  Each step moves at most one run, along the edges that *)
(* RunLifecycle allows, and the counters follow it.  With timely           *)
(* processes, whose attended leases do not run out, one task at most is in *)
(* charge of a run: from that follow the limit on running slots, the hold  *)
(* on waiting runs and the refinement of RunLifecycle.                     *)
(*                                                                         *)
(* 3. What a subscriber is told, for every buffer size, any number of      *)
(* reconnects and every behaviour of the registry's tasks: a DONE only of  *)
(* a run that is over, and the stream in order with nothing passed over.   *)
(* The registry gives it three facts: streams only grow, a terminal run    *)
(* never changes again, and its token bounds those of its entries.         *)
(***************************************************************************)
EXTENDS RunSubscriber, FiniteSetTheorems, TLAPS

\* A handler, or a commit, has a terminal status to commit.
TargetSet(t) == t.pc \in HandlerPC \union {"commit"} => t.target \in Terminal

TasksOK == /\ task \in [Claims -> TaskType]
           /\ \A c \in Claims : TargetSet(task[c])

TypeInv == TypeOK /\ TasksOK

\* A claim belongs to a request.
LEMMA ClaimRequest == \A c \in Claims : c[1] \in Requests
  BY DEF Claims

\* The placeholder for no event is typed.
LEMMA NoEventType == NoEvent \in EventType
  BY DEF NoEvent, Event, EventType

\* Event(type, fence, ref) builds a stream entry of the type it names.
LEMMA EventIsTyped ==
  ASSUME NEW f \in Nat
  PROVE  /\ \A ty \in {"data", "error", "done"} : Event(ty, f, None) \in EventType
         /\ \A a \in AheRecords : Event("ahe", f, a) \in EventType
         /\ \A a \in AheRecords \union {None} : Event("large", f, a) \in EventType
         /\ \A v \in Interactions : Event("input", 0, v) \in EventType
  BY DEF Event, EventType

\* The parts of a stream entry that the scripts branch on.
LEMMA EventFields ==
  ASSUME NEW e \in EventType
  PROVE  /\ e.fence \in Nat
         /\ e.type = "ahe" => e.ref \in AheRecords
         /\ e.type = "input" => e.ref \in Interactions /\ e.fence = 0
  BY DEF EventType

\* The four kinds of key that the scripts write to the dedupe hash.
LEMMA KeyIsTyped ==
  /\ \A f \in Nat : DoneKey(f) \in Keys
  /\ \A t \in Terminal : ErrorKey(t) \in Keys
  /\ \A a \in AheRecords : AheKey(a) \in Keys
  /\ \A v \in Interactions : InteractionKey(v) \in Keys
  BY DEF DoneKey, ErrorKey, AheKey, InteractionKey, Keys

\* The key of an event is an "ahe" key, and an "ahe" event has one.
LEMMA EventKeysTyped ==
  ASSUME NEW e \in EventType
  PROVE  /\ EventKeys(e) \in SUBSET Keys
         /\ e.type = "ahe" => AheKey(e.ref) \in EventKeys(e)
         /\ e.type = "done" => EventKeys(e) = {}
         /\ \A key \in EventKeys(e) : key[1] # "terminal-done"
<1>1. \A a : AheKey(a)[1] # "terminal-done" BY DEF AheKey
<1>2. \A key \in EventKeys(e) : \E a \in AheRecords : key = AheKey(a) BY DEF EventKeys
<1>3. e.type = "ahe" => AheKey(e.ref) \in EventKeys(e) BY EventFields DEF EventKeys
<1>4. e.type = "done" => EventKeys(e) = {} BY DEF EventKeys
<1> QED BY <1>1, <1>2, <1>3, <1>4, KeyIsTyped

\* A step that replaces one task by a well-formed one keeps the tasks well formed.
LEMMA TaskUpdate ==
  ASSUME TasksOK, NEW c \in Claims, NEW t \in TaskType, TargetSet(t), Becomes(c, t)
  PROVE  TasksOK'
  BY DEF TasksOK, Becomes, TargetSet

\* Moving on inside the try body, or within a handler, keeps the tasks well formed;
\* a handler and the commit need a status to commit.
LEMMA GotoOK ==
  ASSUME TasksOK, NEW c \in Claims, NEW step \in PC,
         step \in HandlerPC \union {"commit"} => task[c].target \in Terminal, Goto(c, step)
  PROVE  TasksOK'
<1> DEFINE t == [task[c] EXCEPT !.pc = step,
                   !.event = IF step = "append" THEN task[c].event ELSE NoEvent]
<1>1. task[c] \in TaskType BY DEF TasksOK
<1>2. t \in TaskType BY <1>1, NoEventType DEF TaskType
<1>3. TargetSet(t) BY <1>1 DEF TargetSet, TaskType
<1>4. Becomes(c, t) BY <1>1 DEF Goto, Becomes, TaskType
<1> QED BY <1>2, <1>3, <1>4, TaskUpdate

\* Entering an except clause of _execute carries the status it will commit.
LEMMA RaiseOK ==
  ASSUME TasksOK, NEW c \in Claims, NEW target \in Terminal, Raise(c, target)
  PROVE  TasksOK'
<1> DEFINE t == [task[c] EXCEPT !.pc = "handler", !.target = target, !.event = NoEvent]
<1>1. task[c] \in TaskType BY DEF TasksOK
<1>2. t \in TaskType BY <1>1, NoEventType DEF TaskType, PC, HandlerPC
<1>3. TargetSet(t) BY <1>1 DEF TargetSet, TaskType
<1> QED BY <1>2, <1>3, TaskUpdate DEF Raise

\* A finished task is well formed.
LEMMA EndedType == Ended \in TaskType /\ TargetSet(Ended)
  BY NoEventType DEF Ended, NoTask, TaskType, PC, TargetSet, HandlerPC

\* Ending a task keeps the tasks well formed.
LEMMA EndOK == ASSUME TasksOK, NEW c \in Claims, End(c) PROVE TasksOK'
  BY EndedType, TaskUpdate DEF End

\* The task that start() or resume() creates is well formed.
LEMMA NewClaimType ==
  ASSUME NEW i \in Instances, NEW f \in Nat
  PROVE  NewClaim(i, f) \in TaskType /\ TargetSet(NewClaim(i, f))
  BY NoEventType DEF NewClaim, NoTask, TaskType, PC, TargetSet, HandlerPC

\* A CancelledError or a timeout in the try body leaves a well-formed task: the
\* generator's DONE to append, or the handler.
LEMMA UnwindingType ==
  ASSUME TasksOK, NEW c \in Claims, NEW target \in Terminal
  PROVE  Unwinding(c, target) \in TaskType /\ TargetSet(Unwinding(c, target))
<1>1. task[c] \in TaskType BY DEF TasksOK
<1>2. task[c].fence \in Nat BY <1>1 DEF TaskType
<1>3. Event("done", task[c].fence, None) \in EventType BY <1>2, EventIsTyped
<1>4. [task[c] EXCEPT !.pc = "append", !.target = target,
                      !.event = Event("done", task[c].fence, None)] \in TaskType
  BY <1>1, <1>3 DEF TaskType, PC, TryPC
<1>5. [task[c] EXCEPT !.pc = "handler", !.target = target, !.event = NoEvent] \in TaskType
  BY <1>1, NoEventType DEF TaskType, PC, HandlerPC
<1> QED BY <1>1, <1>4, <1>5 DEF Unwinding, TargetSet, HandlerPC, TaskType

\* The same for a cancellation that arrives anywhere, a handler included.
LEMMA InterruptedType ==
  ASSUME TasksOK, NEW c \in Claims
  PROVE  Interrupted(c) \in TaskType /\ TargetSet(Interrupted(c))
  BY UnwindingType, EndedType DEF Interrupted, TasksOK, Terminal

\* What follows an append: the generator goes on, unwinds or is exhausted.
LEMMA AfterAppendType ==
  ASSUME TasksOK, NEW c \in Claims
  PROVE  AfterAppend(task[c]) \in TaskType /\ TargetSet(AfterAppend(task[c]))
<1> DEFINE t == task[c]
<1>1. t \in TaskType /\ t.fence \in Nat BY DEF TasksOK, TaskType
<1>3. Event("done", t.fence, None) \in EventType BY <1>1, EventIsTyped
<1>4. [t EXCEPT !.done = TRUE, !.event = NoEvent,
         !.pc = IF t.target = "none" THEN "tail" ELSE "handler"] \in TaskType
  BY <1>1, NoEventType DEF TaskType, PC, HandlerPC, TryPC
<1>5. [t EXCEPT !.event = Event("done", t.fence, None)] \in TaskType
  BY <1>1, <1>3 DEF TaskType
<1>6. [t EXCEPT !.pc = "produce", !.event = NoEvent] \in TaskType
  BY <1>1, NoEventType DEF TaskType, PC, TryPC
<1>7. TargetSet(AfterAppend(t))
  BY <1>1 DEF TasksOK, AfterAppend, TargetSet, HandlerPC, TaskType
<1> QED BY <1>4, <1>5, <1>6, <1>7 DEF AfterAppend

-----------------------------------------------------------------------------
\* A script that writes a typed hash keeps the run hashes typed.
LEMMA HSetType ==
  ASSUME run \in [Requests -> RunType], NEW r \in Requests, NEW hash \in RunType,
         HSet(r, hash)
  PROVE  run' \in [Requests -> RunType]
  BY DEF HSet

\* HINCRBY on two counters keeps them integers.
LEMMA MovedType ==
  ASSUME metrics \in [Recorded -> Int], NEW old, NEW new
  PROVE  Moved(old, new) \in [Recorded -> Int]
  BY DEF Moved

\* _TRANSITION_LUA keeps the run, the indexes and the counters typed.
LEMMA TransitionType ==
  ASSUME TypeInv, NEW r \in Requests, NEW target \in Terminal, Transition(r, target)
  PROVE  /\ run' \in [Requests -> RunType]
         /\ active' \in [Requests -> Score]
         /\ running' \in [Requests -> Score]
         /\ metrics' \in [Recorded -> Int]
<1>1. run[r] \in RunType BY DEF TypeInv, TypeOK
<1>2. [run[r] EXCEPT !.status = target, !.lease = FALSE] \in RunType
  BY <1>1 DEF RunType, Status, Recorded
<1> QED BY <1>2, HSetType, MovedType DEF Transition, TypeInv, TypeOK, Score

\* _APPEND_EVENT_LUA keeps the run, the stream and the dedupe hash typed.
LEMMA AppendScriptType ==
  ASSUME TypeInv, NEW c \in Claims, NEW e \in EventType, NEW keys \in SUBSET Keys,
         AppendScript(c, e, keys)
  PROVE  /\ run' \in [Requests -> RunType]
         /\ events' \in [Requests -> Seq(EventType)]
         /\ dedupe' \in [Requests -> SUBSET Keys]
<1> DEFINE r == c[1]
<1>1. r \in Requests BY ClaimRequest
<1>2. run[r] \in RunType BY <1>1 DEF TypeInv, TypeOK
<1>3. [run[r] EXCEPT !.doneEmitted = run[r].doneEmitted \/ e.type = "done"] \in RunType
  BY <1>2 DEF RunType
<1>4. CASE keys \intersect dedupe[r] # {}
  BY <1>4 DEF AppendScript, TypeInv, TypeOK
<1>5. CASE keys \intersect dedupe[r] = {}
  <2>1. HSet(r, [run[r] EXCEPT !.doneEmitted = run[r].doneEmitted \/ e.type = "done"])
    BY <1>2, <1>5 DEF AppendScript, HSet, RunType
  <2>2. Append(events[r], e) \in Seq(EventType)
    BY <1>1 DEF TypeInv, TypeOK
  <2>3. run' \in [Requests -> RunType] BY <1>1, <1>3, <2>1, HSetType DEF TypeInv, TypeOK
  <2>4. events' \in [Requests -> Seq(EventType)]
    BY <1>1, <1>5, <2>2 DEF AppendScript, TypeInv, TypeOK
  <2>5. dedupe[r] \union keys \in SUBSET Keys BY <1>1 DEF TypeInv, TypeOK
  <2>6. dedupe' \in [Requests -> SUBSET Keys]
    BY <1>1, <1>5, <2>5 DEF AppendScript, TypeInv, TypeOK
  <2> QED BY <2>3, <2>4, <2>6
<1> QED BY <1>4, <1>5

\* The create branch of _CREATE_OR_GET_LUA keeps the types.
LEMMA CreateType ==
  ASSUME TypeInv, NEW i \in Instances, NEW r \in Requests, Create(i, r)
  PROVE  TypeInv'
<1>1. <<r, 1>> \in Claims BY ConstantsAssumption DEF Claims
<1>2. TasksOK' BY <1>1, NewClaimType, TaskUpdate DEF Create, TypeInv
<1>3. run[r] \in RunType BY DEF TypeInv, TypeOK
<1>4. [run[r] EXCEPT !.status = "queued", !.owner = i, !.fence = 1, !.lease = TRUE] \in RunType
  BY <1>3 DEF RunType, Status, Recorded, Pending
<1>5. run' \in [Requests -> RunType] BY <1>4, HSetType DEF Create, TypeInv, TypeOK
<1>6. metrics' \in [Recorded -> Int] BY MovedType DEF Create, TypeInv, TypeOK
<1> QED BY <1>2, <1>5, <1>6 DEF Create, TypeInv, TypeOK, TasksOK, Score

\* The takeover branch of _CREATE_OR_GET_LUA keeps the types.
LEMMA TakeOverType ==
  ASSUME TypeInv, NEW i \in Instances, NEW r \in Requests, TakeOver(i, r)
  PROVE  TypeInv'
<1>3. run[r] \in RunType /\ run[r].fence \in Nat BY DEF TypeInv, TypeOK, RunType
<1>1. <<r, run[r].fence + 1>> \in Claims
  BY <1>3, ConstantsAssumption DEF Claims, TakeOver
<1>2. TasksOK' BY <1>1, NewClaimType, TaskUpdate DEF TakeOver, TypeInv
<1>4. \A f \in Nat :
        [run[r] EXCEPT !.status = "queued", !.owner = i, !.fence = f,
                       !.lease = TRUE, !.doneEmitted = FALSE] \in RunType
  BY <1>3 DEF RunType, Status, Recorded, Pending
<1>7. HSet(r, [run[r] EXCEPT !.status = "queued", !.owner = i, !.fence = run[r].fence + 1,
                     !.lease = TRUE, !.doneEmitted = FALSE])
  BY <1>3 DEF TakeOver, TakenOver, HSet, RunType
<1>8. run[r].fence + 1 \in Nat BY <1>3
<1>9. [run[r] EXCEPT !.status = "queued", !.owner = i, !.fence = run[r].fence + 1,
                     !.lease = TRUE, !.doneEmitted = FALSE] \in RunType
  BY <1>4, <1>8, Zenon
<1>5. run' \in [Requests -> RunType] BY <1>7, <1>9, HSetType DEF TypeInv, TypeOK
<1>6. metrics' \in [Recorded -> Int] BY MovedType DEF TakeOver, TypeInv, TypeOK
<1> QED BY <1>2, <1>5, <1>6 DEF TakeOver, TypeInv, TypeOK, TasksOK, Score

\* _RESUME_LUA keeps the types, its record of the answer included.
LEMMA ResumeType ==
  ASSUME TypeInv, NEW i \in Instances, NEW r \in Requests, NEW q \in Responses,
         NEW v \in Interactions, Resume(i, r, q, v)
  PROVE  TypeInv'
<1>3. run[r] \in RunType /\ run[r].fence \in Nat BY DEF TypeInv, TypeOK, RunType
<1>1. <<r, run[r].fence + 1>> \in Claims
  BY <1>3, ConstantsAssumption DEF Claims, Resume
<1>2. TasksOK' BY <1>1, <1>3, NewClaimType, TaskUpdate DEF Resume, TypeInv
<1>4. \A f \in Nat :
        [run[r] EXCEPT !.status = "queued", !.owner = i, !.fence = f,
           !.lease = TRUE, !.interaction = None, !.doneEmitted = FALSE] \in RunType
  BY <1>3 DEF RunType, Status, Recorded, Pending
<1>8. run[r].fence + 1 \in Nat BY <1>3
<1>9. [run[r] EXCEPT !.status = "queued", !.owner = i, !.fence = run[r].fence + 1,
           !.lease = TRUE, !.interaction = None, !.doneEmitted = FALSE] \in RunType
  BY <1>4, <1>8, Zenon
<1>5. run' \in [Requests -> RunType] BY <1>3, <1>9, HSetType DEF Resume, TypeInv, TypeOK
<1>6. metrics' \in [Recorded -> Int] BY MovedType DEF Resume, TypeInv, TypeOK
<1>7. answers' \in [Requests -> SUBSET (Responses \X Interactions)]
  BY DEF Resume, TypeInv, TypeOK
<1> QED BY <1>2, <1>5, <1>6, <1>7 DEF Resume, TypeInv, TypeOK, TasksOK, Score

\* _CANCEL_LUA keeps the types, with the two entries it appends to a stream.
LEMMA CancelType ==
  ASSUME TypeInv, NEW r \in Requests, Cancel(r)
  PROVE  TypeInv'
<1> DEFINE f == run[r].fence + 1
<1>3. run[r] \in RunType /\ run[r].fence \in Nat BY DEF TypeInv, TypeOK, RunType
<1>4. \A n \in Nat, b \in BOOLEAN :
        [run[r] EXCEPT !.status = "cancelled", !.fence = n, !.lease = FALSE,
                       !.doneEmitted = b] \in RunType
  BY <1>3 DEF RunType, Status, Recorded, Terminal
<1>7. HSet(r, [run[r] EXCEPT !.status = "cancelled", !.fence = f, !.lease = FALSE,
           !.doneEmitted = run[r].doneEmitted \/ Stream(r)])
  BY <1>3 DEF Cancel, HSet, RunType
<1>11. f \in Nat /\ (run[r].doneEmitted \/ Stream(r)) \in BOOLEAN BY <1>3
<1>12. [run[r] EXCEPT !.status = "cancelled", !.fence = f, !.lease = FALSE,
           !.doneEmitted = run[r].doneEmitted \/ Stream(r)] \in RunType
  BY <1>4, <1>11, Zenon
<1>5. run' \in [Requests -> RunType] BY <1>7, <1>12, HSetType DEF TypeInv, TypeOK
<1>6. metrics' \in [Recorded -> Int] BY MovedType DEF Cancel, TypeInv, TypeOK
<1>8. Event("error", f, None) \in EventType /\ Event("done", f, None) \in EventType
  BY <1>3, EventIsTyped
<1>9. events[r] \o <<Event("error", f, None), Event("done", f, None)>> \in Seq(EventType)
  BY <1>8 DEF TypeInv, TypeOK
<1>10. events' \in [Requests -> Seq(EventType)] BY <1>9 DEF Cancel, TypeInv, TypeOK
<1> QED BY <1>5, <1>6, <1>10 DEF Cancel, TypeInv, TypeOK, TasksOK, Score

-----------------------------------------------------------------------------
\* A step that touches only a task keeps the types.
LEMMA StoreUnchanged == ASSUME TypeInv, TasksOK', UNCHANGED <<store, inst>> PROVE TypeInv'
  BY DEF TypeInv, TypeOK, TasksOK, store

\* _load_handle in start() gives the task a token and the DONE flag of the run.
LEMMA LoadHandleType == ASSUME TypeInv, NEW c \in Claims, LoadHandle(c) PROVE TypeInv'
<1> DEFINE r == c[1]
           f == IF task[c].fence = 0 THEN run[r].fence ELSE task[c].fence
<1>1. task[c] \in TaskType /\ run[r] \in RunType
  BY ClaimRequest DEF TypeInv, TypeOK
<1>2. f \in Nat /\ run[r].doneEmitted \in BOOLEAN BY <1>1 DEF TaskType, RunType
<1>3. \A n \in Nat, b \in BOOLEAN :
        [task[c] EXCEPT !.pc = "slot", !.beating = TRUE, !.fence = n, !.done = b] \in TaskType
  BY <1>1 DEF TaskType, PC, TryPC
<1> DEFINE t == [task[c] EXCEPT !.pc = "slot", !.beating = TRUE, !.fence = f,
                                !.done = run[r].doneEmitted]
<1>4. t \in TaskType BY <1>2, <1>3, Zenon
<1>5. TargetSet(t) BY <1>1 DEF TargetSet, TaskType, HandlerPC
<1>6. Becomes(c, t) BY <1>1 DEF LoadHandle, Becomes, TaskType
<1> QED BY <1>4, <1>5, <1>6, TaskUpdate, StoreUnchanged DEF LoadHandle, TypeInv

\* _ACQUIRE_RUNNING_LUA keeps the types.
LEMMA AcquireRunningType ==
  ASSUME TypeInv, NEW c \in Claims, NEW reply, AcquireRunning(c, reply)
  PROVE  TypeInv'
<1> DEFINE r == c[1]
<1>1. r \in Requests /\ run[r] \in RunType BY ClaimRequest DEF TypeInv, TypeOK
<1>2. [run[r] EXCEPT !.status = "running", !.lease = TRUE] \in RunType
  BY <1>1 DEF RunType, Status, Recorded, Pending
<1>3. run' \in [Requests -> RunType] BY <1>1, <1>2, HSetType DEF AcquireRunning, TypeInv, TypeOK
<1>4. TasksOK'
  BY GotoOK, RaiseOK DEF AcquireRunning, TypeInv, PC, TryPC, HandlerPC, Terminal
<1>5. metrics' \in [Recorded -> Int] BY MovedType DEF AcquireRunning, TypeInv, TypeOK
<1> QED BY <1>3, <1>4, <1>5 DEF AcquireRunning, TypeInv, TypeOK, TasksOK, Score

\* What the agent's generator may yield is a stream entry.
LEMMA YieldedType ==
  ASSUME TypeInv, NEW c \in Claims, NEW e \in Yielded(c)
  PROVE  e \in EventType
<1>1. task[c].fence \in Nat BY DEF TypeInv, TypeOK, TaskType
<1> QED BY <1>1, EventIsTyped DEF Yielded

\* The steps of a producer that reach no script keep the types.
LEMMA ProducerType ==
  ASSUME TypeInv, NEW c \in Claims,
         \/ AcquireRefused(c) \/ EnterProducer(c) \/ ProducerYields(c)
         \/ ProducerReturns(c) \/ ProducerRaises(c) \/ PauseRefused(c) \/ Timeout(c)
  PROVE  TypeInv'
<1>1. task[c] \in TaskType BY DEF TypeInv, TypeOK
<1>2. TasksOK BY DEF TypeInv
<1>3. CASE AcquireRefused(c)
  BY <1>2, <1>3, RaiseOK, StoreUnchanged DEF AcquireRefused, Terminal
<1>4. CASE EnterProducer(c)
  BY <1>2, <1>4, GotoOK, StoreUnchanged DEF EnterProducer, PC, TryPC, HandlerPC
<1>5. CASE ProducerYields(c)
  <2>1. PICK e \in Yielded(c) :
          Becomes(c, [task[c] EXCEPT !.event = e,
                        !.pc = IF e.type \in {"error", "large"} THEN "mark" ELSE "append"])
    BY <1>5 DEF ProducerYields
  <2>2. e \in EventType BY YieldedType
  <2>3. [task[c] EXCEPT !.event = e, !.pc = IF e.type \in {"error", "large"} THEN "mark" ELSE "append"]
          \in TaskType
    BY <1>1, <2>2 DEF TaskType, PC, TryPC
  <2>4. TargetSet([task[c] EXCEPT !.event = e,
                     !.pc = IF e.type \in {"error", "large"} THEN "mark" ELSE "append"])
    BY <1>1 DEF TargetSet, TaskType, HandlerPC
  <2> QED BY <1>2, <1>5, <2>1, <2>3, <2>4, TaskUpdate, StoreUnchanged DEF ProducerYields
<1>6. CASE ProducerReturns(c)
  BY <1>2, <1>6, GotoOK, StoreUnchanged DEF ProducerReturns, PC, TryPC, HandlerPC
<1>7. CASE ProducerRaises(c)
  BY <1>2, <1>7, RaiseOK, StoreUnchanged DEF ProducerRaises, Terminal
<1>8. CASE PauseRefused(c)
  BY <1>2, <1>8, GotoOK, RaiseOK, StoreUnchanged DEF PauseRefused, PC, TryPC, HandlerPC, Terminal
<1>9. CASE Timeout(c)
  BY <1>2, <1>9, UnwindingType, TaskUpdate, StoreUnchanged DEF Timeout, Terminal
<1> QED BY <1>3, <1>4, <1>5, <1>6, <1>7, <1>8, <1>9

\* _MARK_STREAM_FAILED_LUA keeps the types.
LEMMA MarkStreamFailedType ==
  ASSUME TypeInv, NEW c \in Claims, NEW reply, MarkStreamFailed(c, reply)
  PROVE  TypeInv'
<1> DEFINE r == c[1]
<1>1. r \in Requests /\ run[r] \in RunType BY ClaimRequest DEF TypeInv, TypeOK
<1>2. [run[r] EXCEPT !.streamFailed = TRUE] \in RunType BY <1>1 DEF RunType
<1>3. run' \in [Requests -> RunType]
  BY <1>1, <1>2, HSetType DEF MarkStreamFailed, TypeInv, TypeOK
<1>4. TasksOK'
  BY GotoOK, RaiseOK DEF MarkStreamFailed, TypeInv, PC, TryPC, HandlerPC, Terminal
<1> QED BY <1>3, <1>4 DEF MarkStreamFailed, TypeInv, TypeOK, TasksOK

\* append_event of the producer keeps the types.
LEMMA AppendEventType ==
  ASSUME TypeInv, NEW c \in Claims, NEW reply, AppendEvent(c, reply)
  PROVE  TypeInv'
<1> DEFINE e == task[c].event
           keys == EventKeys(e)
<1>1. e \in EventType BY DEF TypeInv, TypeOK, TaskType
<1>2. TasksOK BY DEF TypeInv
<1>3. TasksOK'
  BY <1>2, AfterAppendType, TaskUpdate, RaiseOK DEF AppendEvent, Terminal
<1>4. CASE Appendable(c, e) /\ keys \in SUBSET Keys
  <2>1. AppendScript(c, e, keys) BY <1>4 DEF AppendEvent
  <2>2. run' \in [Requests -> RunType] /\ events' \in [Requests -> Seq(EventType)]
           /\ dedupe' \in [Requests -> SUBSET Keys]
    BY <1>1, <1>4, <2>1, AppendScriptType
  <2> QED BY <1>3, <2>2 DEF AppendEvent, TypeInv, TypeOK, TasksOK
<1>5. CASE ~Appendable(c, e)
  BY <1>3, <1>5 DEF AppendEvent, TypeInv, TypeOK, TasksOK
<1>6. keys \in SUBSET Keys BY <1>1, EventKeysTyped
<1> QED BY <1>4, <1>5, <1>6

\* _PAUSE_FOR_INPUT_LUA keeps the types.
LEMMA PauseForInputType ==
  ASSUME TypeInv, NEW c \in Claims, NEW reply, PauseForInput(c, reply)
  PROVE  TypeInv'
<1> DEFINE r == c[1]
           v == task[c].event.ref
<1>1. r \in Requests /\ run[r] \in RunType /\ task[c].event \in EventType
  BY ClaimRequest DEF TypeInv, TypeOK, TaskType
<1>2. v \in Interactions BY <1>1, EventFields DEF PauseForInput
<1>3. [run[r] EXCEPT !.status = "waiting_for_input", !.lease = FALSE, !.interaction = v]
        \in RunType
  BY <1>1, <1>2 DEF RunType, Status, Recorded
<1>4. run' \in [Requests -> RunType] BY <1>1, <1>3, HSetType DEF PauseForInput, TypeInv, TypeOK
<1>5. TasksOK'
  BY GotoOK, RaiseOK DEF PauseForInput, TypeInv, PC, TryPC, HandlerPC, Terminal
<1>6. Append(events[r], task[c].event) \in Seq(EventType) BY <1>1 DEF TypeInv, TypeOK
<1>7. events' \in [Requests -> Seq(EventType)] BY <1>1, <1>6 DEF PauseForInput, TypeInv, TypeOK
<1>8. dedupe[r] \union {InteractionKey(v)} \in SUBSET Keys
  BY <1>1, <1>2, KeyIsTyped DEF TypeInv, TypeOK
<1>9. dedupe' \in [Requests -> SUBSET Keys] BY <1>1, <1>8 DEF PauseForInput, TypeInv, TypeOK
<1>10. metrics' \in [Recorded -> Int] BY MovedType DEF PauseForInput, TypeInv, TypeOK
<1> QED BY <1>4, <1>5, <1>7, <1>9, <1>10 DEF PauseForInput, TypeInv, TypeOK, TasksOK, Score

\* The re-read at the end of _execute sets the status to commit.
LEMMA RefreshType == ASSUME TypeInv, NEW c \in Claims, Refresh(c) PROVE TypeInv'
<1> DEFINE r == c[1]
           t == [task[c] EXCEPT
                   !.pc = IF Stream(r) /\ ~run[r].doneEmitted THEN "finish" ELSE "commit",
                   !.target = Outcome(r)]
<1>1. task[c] \in TaskType BY DEF TypeInv, TypeOK
<1>2. Outcome(r) \in Terminal BY DEF Outcome, Terminal
<1>3. t \in TaskType BY <1>1, <1>2 DEF TaskType, PC, TryPC
<1>4. TargetSet(t) BY <1>1, <1>2 DEF TargetSet, TaskType
<1> QED BY <1>3, <1>4, TaskUpdate, EndOK, StoreUnchanged DEF Refresh, TypeInv

\* The DONE that _execute appends itself keeps the types.
LEMMA FinishDoneType ==
  ASSUME TypeInv, NEW c \in Claims, NEW reply, FinishDone(c, reply)
  PROVE  TypeInv'
<1> DEFINE e == Event("done", task[c].fence, None)
           t == [task[c] EXCEPT !.pc = "commit", !.done = TRUE, !.target = Outcome(c[1])]
<1>1. task[c] \in TaskType /\ task[c].fence \in Nat BY DEF TypeInv, TypeOK, TaskType
<1>2. e \in EventType /\ {DoneKey(task[c].fence)} \in SUBSET Keys
  BY <1>1, EventIsTyped, KeyIsTyped
<1>3. Outcome(c[1]) \in Terminal BY DEF Outcome, Terminal
<1>4. t \in TaskType /\ TargetSet(t) BY <1>1, <1>3 DEF TaskType, PC, TryPC, TargetSet
<1>5. TasksOK' BY <1>4, TaskUpdate, RaiseOK DEF FinishDone, TypeInv, Terminal
<1>6. CASE Appendable(c, e)
  <2>1. AppendScript(c, e, {DoneKey(task[c].fence)}) BY <1>6 DEF FinishDone
  <2>2. run' \in [Requests -> RunType] /\ events' \in [Requests -> Seq(EventType)]
           /\ dedupe' \in [Requests -> SUBSET Keys]
    BY <1>2, <2>1, AppendScriptType
  <2> QED BY <1>5, <2>2 DEF FinishDone, TypeInv, TypeOK, TasksOK
<1>7. CASE ~Appendable(c, e)
  BY <1>5, <1>7 DEF FinishDone, TypeInv, TypeOK, TasksOK
<1> QED BY <1>6, <1>7

\* The commits, normal and of a handler, keep the types: their target is terminal.
LEMMA CommitType ==
  ASSUME TypeInv, NEW c \in Claims, NEW reply, Commit(c, reply) \/ HandlerCommit(c)
  PROVE  TypeInv'
<1>1. c[1] \in Requests BY ClaimRequest
<1>2. task[c].target \in Terminal
  BY DEF Commit, HandlerCommit, At, TypeInv, TasksOK, TargetSet, HandlerPC
<1>3. TasksOK' BY EndOK, RaiseOK DEF Commit, HandlerCommit, TypeInv, Terminal
<1>4. CASE Commits(c)
  <2>1. Transition(c[1], task[c].target) BY <1>4 DEF Commit, HandlerCommit
  <2> QED BY <1>1, <1>2, <1>3, <2>1, TransitionType
          DEF Commit, HandlerCommit, TypeInv, TypeOK, TasksOK
<1>5. CASE ~Commits(c)
  BY <1>3, <1>5 DEF Commit, HandlerCommit, TypeInv, TypeOK, TasksOK
<1> QED BY <1>4, <1>5

\* Scripts that write only the lease of a run keep the run hashes typed.
LEMMA LeaseType ==
  ASSUME TypeInv, NEW r \in Requests, NEW b \in BOOLEAN,
         HSet(r, [run[r] EXCEPT !.lease = b])
  PROVE  run' \in [Requests -> RunType]
<1>1. run[r] \in RunType BY DEF TypeInv, TypeOK
<1>2. [run[r] EXCEPT !.lease = b] \in RunType BY <1>1 DEF RunType
<1> QED BY <1>2, HSetType DEF TypeInv, TypeOK

\* _RELEASE_LEASE_LUA keeps the types.
LEMMA ReleaseLeaseType == ASSUME TypeInv, NEW c \in Claims, ReleaseLease(c) PROVE TypeInv'
<1>1. c[1] \in Requests BY ClaimRequest
<1>2. TasksOK' BY EndOK DEF ReleaseLease, TypeInv
<1>3. run' \in [Requests -> RunType] BY <1>1, LeaseType DEF ReleaseLease, TypeInv, TypeOK
<1> QED BY <1>1, <1>2, <1>3 DEF ReleaseLease, TypeInv, TypeOK, TasksOK, Score

\* The re-read of the except clauses keeps the types.
LEMMA HandlerType ==
  ASSUME TypeInv, NEW c \in Claims, Handler(c) \/ RedisFails(c)
  PROVE  TypeInv'
<1>1. At(c, "handler") => task[c].target \in Terminal
  BY DEF At, TypeInv, TasksOK, TargetSet, HandlerPC
<1>2. CASE Handler(c)
  BY <1>1, <1>2, EndOK, GotoOK, StoreUnchanged DEF Handler, TypeInv, PC, HandlerPC
<1>3. CASE RedisFails(c)
  BY <1>3, EndOK, RaiseOK, StoreUnchanged DEF RedisFails, TypeInv, Terminal
<1> QED BY <1>2, <1>3

\* _append_terminal_error keeps the types, in both of its appends.
LEMMA HandlerAppendType ==
  ASSUME TypeInv, NEW c \in Claims, NEW reply, HandlerError(c, reply) \/ HandlerDone(c, reply)
  PROVE  TypeInv'
<1> DEFINE error == Event("error", task[c].fence, None)
           done  == Event("done", task[c].fence, None)
<1>1. task[c].fence \in Nat /\ task[c].target \in Terminal
  BY DEF HandlerError, HandlerDone, At, TypeInv, TypeOK, TaskType, TasksOK, TargetSet, HandlerPC
<1>2. error \in EventType /\ done \in EventType BY <1>1, EventIsTyped
<1>3. {DoneKey(task[c].fence)} \in SUBSET Keys /\ {ErrorKey(task[c].target)} \in SUBSET Keys
  BY <1>1, KeyIsTyped
<1>4. TasksOK'
  BY <1>1, GotoOK, EndOK DEF HandlerError, HandlerDone, TypeInv, PC, HandlerPC
<1>5. /\ run' \in [Requests -> RunType]
      /\ events' \in [Requests -> Seq(EventType)]
      /\ dedupe' \in [Requests -> SUBSET Keys]
  <2>1. CASE HandlerError(c, reply)
    BY <1>2, <1>3, <2>1, AppendScriptType DEF HandlerError, TypeInv, TypeOK
  <2>2. CASE HandlerDone(c, reply)
    BY <1>2, <1>3, <2>2, AppendScriptType DEF HandlerDone, TypeInv, TypeOK
  <2> QED BY <2>1, <2>2
<1> QED BY <1>4, <1>5 DEF HandlerError, HandlerDone, TypeInv, TypeOK, TasksOK

\* _lease_loop and _cancellation_watch keep the types.
LEMMA HelpersType == ASSUME TypeInv, NEW c \in Claims, Helpers(c) PROVE TypeInv'
<1> DEFINE r == c[1]
<1>1. r \in Requests BY ClaimRequest
<1>2. TasksOK /\ task[c] \in TaskType BY DEF TypeInv, TypeOK
<1>3. \A t \in TaskType : TargetSet(t) =>
         /\ [t EXCEPT !.beating = FALSE] \in TaskType
         /\ TargetSet([t EXCEPT !.beating = FALSE])
  BY DEF TaskType, TargetSet
<1>4. CASE Heartbeat(c)
  <2>1. run' \in [Requests -> RunType] BY <1>1, <1>4, LeaseType DEF Heartbeat
  <2> QED BY <1>1, <1>2, <1>4, <2>1 DEF Heartbeat, TypeInv, TypeOK, TasksOK, Score
<1>5. CASE LeaseLoopStops(c) \/ LeaseLoopDies(c)
  BY <1>2, <1>3, <1>5, TaskUpdate, StoreUnchanged DEF LeaseLoopStops, LeaseLoopDies, TasksOK
<1>6. CASE HeartbeatLost(c)
  BY <1>2, <1>3, <1>6, InterruptedType, TaskUpdate, StoreUnchanged DEF HeartbeatLost
<1>7. CASE CancellationWatch(c)
  BY <1>2, <1>7, InterruptedType, TaskUpdate, StoreUnchanged DEF CancellationWatch
<1> QED BY <1>4, <1>5, <1>6, <1>7 DEF Helpers

\* A lease that runs out keeps the types.
LEMMA LeaseExpiresType == ASSUME TypeInv, NEW r \in Requests, LeaseExpires(r) PROVE TypeInv'
<1>1. run' \in [Requests -> RunType] BY LeaseType DEF LeaseExpires
<1> QED BY <1>1 DEF LeaseExpires, TypeInv, TypeOK, TasksOK, Score

\* shutdown() and the end of a process keep the types.
LEMMA ProcessType ==
  ASSUME TypeInv, NEW i \in Instances, Shutdown(i) \/ Crash(i)
  PROVE  TypeInv'
<1>1. TasksOK'
  BY InterruptedType, EndedType DEF Shutdown, Crash, TypeInv, TasksOK
<1>2. inst' \in [Instances -> {"up", "closing", "down"}]
  BY DEF Shutdown, Crash, TypeInv, TypeOK
<1> QED BY <1>1, <1>2 DEF Shutdown, Crash, TypeInv, TypeOK, TasksOK, store

\* Every step keeps the types.
LEMMA TypeStep == TypeInv /\ [Next]_vars => TypeInv'
<1> SUFFICES ASSUME TypeInv, [Next]_vars PROVE TypeInv'
  OBVIOUS
<1>1. ASSUME NEW c \in Claims, Execute(c) PROVE TypeInv'
  BY <1>1, LoadHandleType, AcquireRunningType, ProducerType, MarkStreamFailedType,
     AppendEventType, PauseForInputType, RefreshType, FinishDoneType, CommitType,
     ReleaseLeaseType, HandlerType, HandlerAppendType DEF Execute
<1>2. CASE UNCHANGED vars
  BY <1>2 DEF vars, TypeInv, TypeOK, TasksOK
<1> QED BY <1>1, <1>2, CreateType, TakeOverType, ResumeType, CancelType, HelpersType,
           LeaseExpiresType, ProcessType DEF Next

\* The empty registry is typed.
LEMMA TypeInitial == Init => TypeInv
  BY ConstantsAssumption
  DEF Init, TypeInv, TypeOK, TasksOK, TargetSet, RunType, Status, Recorded, Pending, Terminal,
      Score, TaskType, NoTask, PC, TryPC, HandlerPC, EventType, NoEvent, Event

\* Type correctness of the registry's store, tasks and processes, for every set of
\* requests, instances, interactions and faults: in particular no script ever
\* commits a status that is not terminal, and no dedupe key is malformed.
THEOREM TypeCorrect == Spec => []TypeOK
<1>1. TypeInv => TypeOK BY DEF TypeInv
<1> QED BY <1>1, TypeInitial, TypeStep, PTL DEF Spec

-----------------------------------------------------------------------------
(* IndexAgreement                                                           *)

\* A step that changes neither status, nor lease, nor indexes keeps the agreement.
LEMMA IndexKept ==
  ASSUME TypeInv, IndexAgreement, UNCHANGED <<active, running>>,
         \A r \in Requests : /\ run'[r].status = run[r].status
                             /\ run'[r].lease = run[r].lease
  PROVE  IndexAgreement'
  BY DEF IndexAgreement, Indexed

\* A step that changes one run need only make that run's entries agree.
LEMMA IndexSet ==
  ASSUME TypeInv, IndexAgreement, NEW r \in Requests, NEW hash, NEW a, NEW b,
         HSet(r, hash), Indexed(hash, a, b),
         active' = [active EXCEPT ![r] = a], running' = [running EXCEPT ![r] = b]
  PROVE  IndexAgreement'
  BY DEF IndexAgreement, HSet, TypeInv, TypeOK

\* What the owner of a run may change of its hash while appending to its stream.
SameExceptDone(h, g) ==
  /\ h.status = g.status /\ h.owner = g.owner /\ h.fence = g.fence
  /\ h.lease = g.lease /\ h.streamFailed = g.streamFailed
  /\ h.interaction = g.interaction

\* _APPEND_EVENT_LUA changes of the run hash only terminal_event_emitted.
LEMMA AppendScriptKeeps ==
  ASSUME TypeInv, NEW c \in Claims, NEW e, NEW keys,
         AppendScript(c, e, keys)
  PROVE  /\ \A r \in Requests \ {c[1]} : /\ run'[r] = run[r] 
                                          /\ events'[r] = events[r] 
                                          /\ dedupe'[r] = dedupe[r]
         /\ SameExceptDone(run'[c[1]], run[c[1]])
<1> DEFINE r == c[1]
<1>1. r \in Requests BY ClaimRequest
<1>2. run[r] \in RunType BY <1>1 DEF TypeInv, TypeOK
<1>3. CASE keys \intersect dedupe[r] # {}
  BY <1>3 DEF AppendScript, SameExceptDone
<1>4. CASE keys \intersect dedupe[r] = {}
  <2>1. HSet(r, [run[r] EXCEPT !.doneEmitted = run[r].doneEmitted \/ e.type = "done"])
    BY <1>2, <1>4 DEF AppendScript, HSet, RunType
  <2>2. run'[r] = [run[r] EXCEPT !.doneEmitted = run[r].doneEmitted \/ e.type = "done"]
    BY <1>1, <2>1 DEF HSet, TypeInv, TypeOK
  <2>3. SameExceptDone(run'[r], run[r]) BY <1>2, <2>2 DEF SameExceptDone, RunType
  <2>4. \A q \in Requests \ {r} : /\ run'[q] = run[q] 
                                  /\ events'[q] = events[q] 
                                  /\ dedupe'[q] = dedupe[q]
    BY <1>1, <1>4, <2>1 DEF AppendScript, HSet, TypeInv, TypeOK
  <2> QED BY <2>3, <2>4
<1> QED BY <1>3, <1>4

\* Create, takeover and resume enter the run in "active" and clear "running".
LEMMA StartIndex ==
  ASSUME TypeInv, IndexAgreement, NEW i \in Instances, NEW r \in Requests,
         \/ Create(i, r) \/ TakeOver(i, r)
         \/ \E q \in Responses, v \in Interactions : Resume(i, r, q, v)
  PROVE  IndexAgreement'
<1>1. PICK hash : /\ HSet(r, hash) /\ hash.status = "queued" /\ hash.lease = TRUE
  <2>1. run[r] \in RunType BY DEF TypeInv, TypeOK
  <2>2. CASE Create(i, r)
    <3> DEFINE h == [run[r] EXCEPT !.status = "queued", !.owner = i, !.fence = 1, !.lease = TRUE]
    <3>1. h.status = "queued" /\ h.lease = TRUE BY <2>1 DEF RunType
    <3>2. HSet(r, h) BY <2>2 DEF Create
    <3> QED BY <3>1, <3>2
  <2>3. CASE TakeOver(i, r)
    <3> DEFINE h == [run[r] EXCEPT !.status = "queued", !.owner = i, !.fence = run[r].fence + 1,
                                   !.lease = TRUE, !.doneEmitted = FALSE]
    <3>1. h.status = "queued" /\ h.lease = TRUE BY <2>1 DEF RunType
    <3>2. HSet(r, h) BY <2>1, <2>3 DEF TakeOver, TakenOver, HSet, RunType
    <3> QED BY <3>1, <3>2
  <2>4. ASSUME NEW q \in Responses, NEW v \in Interactions, Resume(i, r, q, v)
        PROVE  \E h : HSet(r, h) /\ h.status = "queued" /\ h.lease = TRUE
    <3> DEFINE h == [run[r] EXCEPT !.status = "queued", !.owner = i, !.fence = run[r].fence + 1,
                        !.lease = TRUE, !.interaction = None, !.doneEmitted = FALSE]
    <3>1. h.status = "queued" /\ h.lease = TRUE BY <2>1 DEF RunType
    <3>2. HSet(r, h) BY <2>1, <2>4 DEF Resume, HSet, RunType
    <3> QED BY <3>1, <3>2
  <2> QED BY <2>2, <2>3, <2>4
<1>2. active' = [active EXCEPT ![r] = "live"] BY DEF Create, TakeOver, Resume
<1>3. running' = [running EXCEPT ![r] = "absent"]
  BY DEF Create, TakeOver, Orphaned, Resume, Resumable, IndexAgreement, Indexed, Pending, TypeInv, TypeOK
<1>4. Indexed(hash, "live", "absent") BY <1>1 DEF Indexed, Pending
<1> QED BY <1>1, <1>2, <1>3, <1>4, IndexSet

\* A run that is not pending agrees with absence from both indexes.
LEMMA ClosedIndex ==
  ASSUME NEW hash, hash.status \notin Pending, hash.lease = FALSE
  PROVE  Indexed(hash, "absent", "absent")
  BY DEF Indexed, Pending

\* _TRANSITION_LUA removes the run from both indexes.
LEMMA TransitionIndex ==
  ASSUME TypeInv, IndexAgreement, NEW r \in Requests, NEW target \in Terminal,
         Transition(r, target)
  PROVE  IndexAgreement'
<1> DEFINE h == [run[r] EXCEPT !.status = target, !.lease = FALSE]
<1>1. run[r] \in RunType BY DEF TypeInv, TypeOK
<1>2. h.status \notin Pending /\ h.lease = FALSE BY <1>1 DEF RunType, Pending, Terminal
<1>3. Indexed(h, "absent", "absent") BY <1>2, ClosedIndex
<1> QED BY <1>3, IndexSet DEF Transition

\* _CANCEL_LUA removes the run from both indexes.
LEMMA CancelIndex ==
  ASSUME TypeInv, IndexAgreement, NEW r \in Requests, Cancel(r)
  PROVE  IndexAgreement'
<1> DEFINE h == [run[r] EXCEPT !.status = "cancelled", !.fence = run[r].fence + 1, !.lease = FALSE,
                               !.doneEmitted = run[r].doneEmitted \/ Stream(r)]
<1>1. run[r] \in RunType BY DEF TypeInv, TypeOK
<1>2. h.status \notin Pending /\ h.lease = FALSE BY <1>1 DEF RunType, Pending
<1>3. Indexed(h, "absent", "absent") BY <1>2, ClosedIndex
<1>4. HSet(r, h) BY <1>1 DEF Cancel, HSet, RunType
<1> QED BY <1>3, <1>4, IndexSet DEF Cancel

\* _PAUSE_FOR_INPUT_LUA removes the run from both indexes.
LEMMA PauseIndex ==
  ASSUME TypeInv, IndexAgreement, NEW c \in Claims, NEW reply, PauseForInput(c, reply)
  PROVE  IndexAgreement'
<1> DEFINE r == c[1]
           h == [run[r] EXCEPT !.status = "waiting_for_input", !.lease = FALSE,
                               !.interaction = task[c].event.ref]
<1>1. r \in Requests /\ run[r] \in RunType BY ClaimRequest DEF TypeInv, TypeOK
<1>2. h.status \notin Pending /\ h.lease = FALSE BY <1>1 DEF RunType, Pending
<1>3. Indexed(h, "absent", "absent") BY <1>2, ClosedIndex
<1> QED BY <1>1, <1>3, IndexSet DEF PauseForInput

\* _ACQUIRE_RUNNING_LUA enters the run in both indexes with a fresh lease.
LEMMA AcquireIndex ==
  ASSUME TypeInv, IndexAgreement, NEW c \in Claims, NEW reply, AcquireRunning(c, reply)
  PROVE  IndexAgreement'
<1> DEFINE r == c[1]
           h == [run[r] EXCEPT !.status = "running", !.lease = TRUE]
<1>1. r \in Requests /\ run[r] \in RunType BY ClaimRequest DEF TypeInv, TypeOK
<1>2. h.status = "running" /\ h.lease = TRUE BY <1>1 DEF RunType
<1>3. Indexed(h, "live", "live") BY <1>2 DEF Indexed, Pending
<1> QED BY <1>1, <1>3, IndexSet DEF AcquireRunning, Ready

\* A lease renewed, released or run out.
LEMMA LeaseIndex ==
  ASSUME TypeInv, IndexAgreement, NEW r \in Requests, run[r].status \in Pending,
         NEW b \in BOOLEAN, NEW inRunning,
         HSet(r, [run[r] EXCEPT !.lease = b]),
         active' = [active EXCEPT ![r] = IF b THEN "live" ELSE "expired"],
         running' = [running EXCEPT ![r] = inRunning],
         run[r].status = "running" => inRunning = IF b THEN "live" ELSE "expired",
         run[r].status = "queued" => inRunning \in {"absent", "expired"}
  PROVE  IndexAgreement'
<1> DEFINE h == [run[r] EXCEPT !.lease = b]
<1>1. run[r] \in RunType BY DEF TypeInv, TypeOK
<1>2. h.status = run[r].status /\ h.lease = b BY <1>1 DEF RunType
<1>3. Indexed(h, IF b THEN "live" ELSE "expired", inRunning)
  BY <1>1, <1>2 DEF Indexed, Pending
<1> QED BY <1>3, IndexSet

\* Heartbeat, release and expiry change the lease and both scores alike.
LEMMA LeaseStepIndex ==
  ASSUME TypeInv, IndexAgreement,
         \/ \E c \in Claims : Heartbeat(c) \/ ReleaseLease(c)
         \/ \E r \in Requests : LeaseExpires(r)
  PROVE  IndexAgreement'
<1>1. ASSUME NEW c \in Claims, Heartbeat(c) PROVE IndexAgreement'
  <2> DEFINE r == c[1]
             b == IF run[r].status = "running" THEN "live" ELSE running[r]
  <2>1. r \in Requests /\ run[r] \in RunType BY ClaimRequest DEF TypeInv, TypeOK
  <2>2. running' = [running EXCEPT ![r] = b] BY <1>1, <2>1 DEF Heartbeat, TypeInv, TypeOK
  <2>3. run[r].status = "queued" => b \in {"absent", "expired"}
    BY <2>1 DEF IndexAgreement, Indexed
  <2> QED BY <1>1, <2>1, <2>2, <2>3, LeaseIndex DEF Heartbeat, Renewable
<1>2. ASSUME NEW c \in Claims, ReleaseLease(c) PROVE IndexAgreement'
  <2>1. c[1] \in Requests BY ClaimRequest
  <2>2. CASE Owns(task[c], c[1]) /\ run[c[1]].status \in Pending
    BY <1>2, <2>1, <2>2, LeaseIndex DEF ReleaseLease
  <2>3. CASE ~(Owns(task[c], c[1]) /\ run[c[1]].status \in Pending)
    BY <1>2, <2>3, IndexKept DEF ReleaseLease
  <2> QED BY <2>2, <2>3
<1>3. ASSUME NEW r \in Requests, LeaseExpires(r) PROVE IndexAgreement'
  <2> DEFINE b == IF running[r] = "live" THEN "expired" ELSE running[r]
  <2>1. run[r].status \in Pending BY <1>3 DEF LeaseExpires, IndexAgreement, Indexed
  <2>2. running' = [running EXCEPT ![r] = b] BY <1>3 DEF LeaseExpires, TypeInv, TypeOK
  <2>3. /\ run[r].status = "running" => b = "expired"
        /\ run[r].status = "queued" => b \in {"absent", "expired"}
    BY <1>3 DEF LeaseExpires, IndexAgreement, Indexed
  <2> QED BY <1>3, <2>1, <2>2, <2>3, LeaseIndex DEF LeaseExpires
<1> QED BY <1>1, <1>2, <1>3

\* Steps of a task that leave the status and the lease of every run alone.
LEMMA QuietSteps ==
  ASSUME TypeInv, NEW c \in Claims, NEW reply,
         \/ MarkStreamFailed(c, reply) \/ AppendEvent(c, reply) \/ FinishDone(c, reply)
         \/ HandlerError(c, reply) \/ HandlerDone(c, reply)
  PROVE  /\ UNCHANGED <<active, running>>
         /\ \A r \in Requests : run'[r].status = run[r].status /\ run'[r].lease = run[r].lease
<1>1. UNCHANGED <<active, running>>
  BY DEF MarkStreamFailed, AppendEvent, FinishDone, HandlerError, HandlerDone
<1>2. CASE MarkStreamFailed(c, reply)
  <2> DEFINE h == [run[c[1]] EXCEPT !.streamFailed = TRUE]
  <2>1. c[1] \in Requests /\ run[c[1]] \in RunType BY ClaimRequest DEF TypeInv, TypeOK
  <2>2. h.status = run[c[1]].status /\ h.lease = run[c[1]].lease BY <2>1 DEF RunType
  <2>3. CASE HSet(c[1], h) BY <1>1, <2>1, <2>2, <2>3 DEF HSet, TypeInv, TypeOK
  <2>4. CASE UNCHANGED run BY <1>1, <2>4
  <2> QED BY <1>2, <2>3, <2>4 DEF MarkStreamFailed
<1>3. ASSUME NEW e, NEW keys, AppendScript(c, e, keys)
      PROVE  \A r \in Requests : run'[r].status = run[r].status /\ run'[r].lease = run[r].lease
  BY <1>3, AppendScriptKeeps DEF SameExceptDone
<1> QED BY <1>1, <1>2, <1>3 DEF AppendEvent, FinishDone, HandlerError, HandlerDone

\* Every step keeps hash and indexes in agreement.
LEMMA IndexStep == TypeInv /\ IndexAgreement /\ [Next]_vars => IndexAgreement'
<1> SUFFICES ASSUME TypeInv, IndexAgreement, [Next]_vars PROVE IndexAgreement'
  OBVIOUS
<1>1. UNCHANGED <<run, active, running>> => IndexAgreement' BY IndexKept
<1>2. ASSUME NEW c \in Claims, Execute(c) PROVE IndexAgreement'
  <2>1. CASE \E reply \in Replies : AcquireRunning(c, reply) BY <2>1, AcquireIndex
  <2>2. CASE \E reply \in Replies : PauseForInput(c, reply) BY <2>2, PauseIndex
  <2>3. CASE \E reply \in Replies :
               \/ MarkStreamFailed(c, reply) \/ AppendEvent(c, reply) \/ FinishDone(c, reply)
               \/ HandlerError(c, reply) \/ HandlerDone(c, reply)
    BY <2>3, QuietSteps, IndexKept
  <2>4. CASE (\E reply \in Replies : Commit(c, reply)) \/ HandlerCommit(c)
    <3>1. c[1] \in Requests BY ClaimRequest
    <3>2. task[c].target \in Terminal
      BY <2>4 DEF Commit, HandlerCommit, At, TypeInv, TasksOK, TargetSet, HandlerPC
    <3>3. Transition(c[1], task[c].target) \/ UNCHANGED <<run, active, running>>
      BY <2>4 DEF Commit, HandlerCommit
    <3> QED BY <1>1, <3>1, <3>2, <3>3, TransitionIndex
  <2>5. CASE ReleaseLease(c) BY <2>5, LeaseStepIndex
  <2>6. CASE \/ LoadHandle(c) \/ AcquireRefused(c) \/ EnterProducer(c) \/ ProducerYields(c)
             \/ ProducerReturns(c) \/ ProducerRaises(c) \/ PauseRefused(c) \/ Timeout(c)
             \/ Refresh(c) \/ Handler(c) \/ RedisFails(c)
    BY <1>1, <2>6 DEF LoadHandle, AcquireRefused, EnterProducer, ProducerYields,
       ProducerReturns, ProducerRaises, PauseRefused, Timeout, Refresh, Handler, RedisFails, store
  <2> QED BY <1>2, <2>1, <2>2, <2>3, <2>4, <2>5, <2>6 DEF Execute
<1>3. ASSUME NEW c \in Claims, Helpers(c) PROVE IndexAgreement'
  <2>1. CASE Heartbeat(c) BY <2>1, LeaseStepIndex
  <2>2. CASE ~Heartbeat(c)
    BY <1>1, <1>3, <2>2
    DEF Helpers, LeaseLoopStops, HeartbeatLost, LeaseLoopDies, CancellationWatch, store
  <2> QED BY <2>1, <2>2
<1>4. ASSUME NEW i \in Instances, Shutdown(i) \/ Crash(i) PROVE IndexAgreement'
  BY <1>1, <1>4 DEF Shutdown, Crash, store
<1>5. CASE UNCHANGED vars BY <1>1, <1>5 DEF vars
<1> QED BY <1>2, <1>3, <1>4, <1>5, StartIndex, CancelIndex, LeaseStepIndex DEF Next

\* The "active" and "running" sorted sets never drift from the run hashes, whatever
\* the order of takeovers, heartbeats, pauses, cancellations and late commits:
\* admission and ownership are decided on the same facts.
THEOREM IndexCorrect == Spec => []IndexAgreement
<1>1. Init => TypeInv BY TypeInitial
<1>2. Init => IndexAgreement BY DEF Init, IndexAgreement, Indexed, Pending
<1> QED BY <1>1, <1>2, TypeStep, IndexStep, PTL DEF Spec

-----------------------------------------------------------------------------
(* The scope of a step                                                      *)

Untouched(r) ==
  /\ run'[r] = run[r] /\ events'[r] = events[r] /\ dedupe'[r] = dedupe[r]

\* A step of a task or of its helpers touches its own run only, neither while
\* the run is terminal nor under a token that is not the run's, and never the
\* owner or the token.
LEMMA TaskScope ==
  ASSUME TypeInv, NEW c \in Claims, Execute(c) \/ Helpers(c)
  PROVE  /\ \A d \in Claims \ {c} : task'[d] = task[d]
         /\ \A r \in Requests \ {c[1]} : Untouched(r)
         /\ ~Owns(task[c], c[1]) \/ run[c[1]].status \in Terminal => Untouched(c[1])
         /\ run'[c[1]].owner = run[c[1]].owner /\ run'[c[1]].fence = run[c[1]].fence
         /\ \/ run'[c[1]].status = run[c[1]].status
            \/ run'[c[1]].status \in Recorded \ Terminal
            \/ run'[c[1]].status \in Terminal /\ task[c].pc \in {"commit", "h_commit"}
<1> DEFINE r == c[1]
           MayBecome(s) == \/ s = run[r].status
                           \/ s \in Recorded \ Terminal
                           \/ s \in Terminal /\ task[c].pc \in {"commit", "h_commit"}
           Within == /\ \A q \in Requests \ {r} : Untouched(q)
                     /\ ~Owns(task[c], r) \/ run[r].status \in Terminal => Untouched(r)
                     /\ run'[r].owner = run[r].owner /\ run'[r].fence = run[r].fence
                     /\ MayBecome(run'[r].status)
<1>0. r \in Requests /\ run[r] \in RunType BY ClaimRequest DEF TypeInv, TypeOK
<1>1. \A d \in Claims \ {c} : task'[d] = task[d]
  <2>1. (\E t : Becomes(c, t)) \/ task' = task
    BY DEF Execute, Helpers, LoadHandle, AcquireRunning, AcquireRefused, EnterProducer,
       ProducerYields, ProducerReturns, ProducerRaises, MarkStreamFailed, AppendEvent,
       PauseForInput, PauseRefused, Timeout, Refresh, FinishDone, Commit, ReleaseLease, Handler,
       HandlerError, HandlerDone, HandlerCommit, RedisFails, Heartbeat, LeaseLoopStops,
       HeartbeatLost, LeaseLoopDies, CancellationWatch, Goto, Raise, End
  <2> QED BY <2>1 DEF Becomes, TypeInv, TypeOK
<1>2. UNCHANGED store => Within BY DEF store, Untouched
<1>3. ASSUME NEW hash, HSet(r, hash), UNCHANGED <<events, dedupe>>, Owns(task[c], r),
             run[r].status \notin Terminal, hash.owner = run[r].owner, hash.fence = run[r].fence,
             MayBecome(hash.status)
      PROVE  Within
  BY <1>0, <1>3 DEF HSet, Untouched, TypeInv, TypeOK
<1>4. ASSUME NEW e, NEW keys, Appendable(c, e), AppendScript(c, e, keys) PROVE Within
  BY <1>0, <1>4, AppendScriptKeeps DEF Untouched, SameExceptDone, Appendable
<1>5. CASE \E reply \in Replies : AcquireRunning(c, reply)
  <2> DEFINE h == [run[r] EXCEPT !.status = "running", !.lease = TRUE]
  <2>1. /\ h.owner = run[r].owner /\ h.fence = run[r].fence
        /\ MayBecome(h.status)
    BY <1>0 DEF RunType, Recorded, Pending, Terminal
  <2> QED BY <1>1, <1>3, <1>5, <2>1 DEF AcquireRunning, Ready, Terminal
<1>6. CASE \E reply \in Replies : MarkStreamFailed(c, reply)
  <2> DEFINE h == [run[r] EXCEPT !.streamFailed = TRUE]
  <2>1. /\ h.owner = run[r].owner /\ h.fence = run[r].fence
        /\ MayBecome(h.status)
    BY <1>0 DEF RunType, Recorded, Pending, Terminal
  <2> QED BY <1>1, <1>2, <1>3, <1>6, <2>1 DEF MarkStreamFailed, store
<1>7. CASE \E reply \in Replies : PauseForInput(c, reply)
  <2> DEFINE h == [run[r] EXCEPT !.status = "waiting_for_input", !.lease = FALSE,
                                 !.interaction = task[c].event.ref]
  <2>1. /\ h.owner = run[r].owner /\ h.fence = run[r].fence
        /\ MayBecome(h.status)
    BY <1>0 DEF RunType, Recorded, Pending, Terminal
  <2>2. run'[r] = h /\ \A q \in Requests \ {r} : Untouched(q)
    BY <1>0, <1>7 DEF PauseForInput, HSet, Untouched, TypeInv, TypeOK
  <2> QED BY <1>1, <1>7, <2>1, <2>2 DEF PauseForInput, Terminal
<1>8. CASE \E reply \in Replies : \/ AppendEvent(c, reply) \/ FinishDone(c, reply)
                                  \/ HandlerError(c, reply) \/ HandlerDone(c, reply)
  <2>1. (\E e, keys : Appendable(c, e) /\ AppendScript(c, e, keys))
          \/ UNCHANGED <<run, events, dedupe>>
    BY <1>8 DEF AppendEvent, FinishDone, HandlerError, HandlerDone
  <2> QED BY <1>1, <1>4, <2>1 DEF Untouched
<1>9. CASE (\E reply \in Replies : Commit(c, reply)) \/ HandlerCommit(c)
  <2> DEFINE h == [run[r] EXCEPT !.status = task[c].target, !.lease = FALSE]
  <2>4. task[c].target \in Terminal
    BY <1>9 DEF Commit, HandlerCommit, At, TypeInv, TasksOK, TargetSet, HandlerPC
  <2>1. /\ h.owner = run[r].owner /\ h.fence = run[r].fence
        /\ MayBecome(h.status)
    BY <1>0, <1>9, <2>4 DEF RunType, Commit, HandlerCommit, At
  <2>2. (Commits(c) /\ HSet(r, h)) \/ UNCHANGED run
    BY <1>9 DEF Commit, HandlerCommit, Transition
  <2>3. UNCHANGED <<events, dedupe>> BY <1>9 DEF Commit, HandlerCommit
  <2> QED BY <1>1, <1>3, <2>1, <2>2, <2>3 DEF Commits, Untouched
<1>10. CASE ReleaseLease(c) \/ Heartbeat(c)
  <2>1. \A b \in BOOLEAN : LET h == [run[r] EXCEPT !.lease = b]
                          IN /\ h.owner = run[r].owner /\ h.fence = run[r].fence
                             /\ h.status = run[r].status
    BY <1>0 DEF RunType
  <2>2. \/ /\ Owns(task[c], r) /\ run[r].status \in Pending
           /\ \E b \in BOOLEAN : HSet(r, [run[r] EXCEPT !.lease = b])
        \/ UNCHANGED run
    BY <1>10 DEF ReleaseLease, Heartbeat, Renewable
  <2>3. UNCHANGED <<events, dedupe>> BY <1>10 DEF ReleaseLease, Heartbeat
  <2> QED BY <1>1, <1>3, <2>1, <2>2, <2>3 DEF Untouched, Pending, Terminal
<1>11. CASE \/ LoadHandle(c) \/ AcquireRefused(c) \/ EnterProducer(c) \/ ProducerYields(c)
            \/ ProducerReturns(c) \/ ProducerRaises(c) \/ PauseRefused(c) \/ Timeout(c)
            \/ Refresh(c) \/ Handler(c) \/ RedisFails(c)
            \/ LeaseLoopStops(c) \/ HeartbeatLost(c) \/ LeaseLoopDies(c) \/ CancellationWatch(c)
  BY <1>1, <1>2, <1>11 DEF LoadHandle, AcquireRefused, EnterProducer, ProducerYields,
     ProducerReturns, ProducerRaises, PauseRefused, Timeout, Refresh, Handler, RedisFails,
     LeaseLoopStops, HeartbeatLost, LeaseLoopDies, CancellationWatch
<1> QED BY <1>5, <1>6, <1>7, <1>8, <1>9, <1>10, <1>11 DEF Execute, Helpers

\* The claim a start() or resume() fills was never used.
LEMMA IdleClaim ==
  ASSUME NEW c \in Claims, task[c].pc = "none" PROVE ~Execute(c) /\ ~Helpers(c)
  BY DEF Execute, Helpers, LoadHandle, AcquireRunning, AcquireRefused, EnterProducer,
     ProducerYields, ProducerReturns, ProducerRaises, MarkStreamFailed, AppendEvent,
     PauseForInput, PauseRefused, Timeout, Refresh, FinishDone, Commit, ReleaseLease, Handler,
     HandlerError, HandlerDone, HandlerCommit, RedisFails, Heartbeat, LeaseLoopStops,
     HeartbeatLost, LeaseLoopDies, CancellationWatch, At, Beats, TryPC, HandlerPC

\* A start() or resume() that claims a run hands out the next token, to a claim
\* no task has used, and writes nothing to the stream.
Claimed(i, r) ==
  LET n == run[r].fence + 1 IN
  /\ run[r].status \notin Terminal
  /\ <<r, n>> \in Claims
  /\ task[<<r, n>>] = NoTask
  /\ task'[<<r, n>>] \in {NewClaim(i, 0), NewClaim(i, n)}
  /\ \A d \in Claims \ {<<r, n>>} : task'[d] = task[d]
  /\ \A q \in Requests \ {r} : run'[q] = run[q]
  /\ run'[r].fence = n /\ run'[r].status = "queued" /\ run'[r].doneEmitted = FALSE
  /\ UNCHANGED <<events, dedupe>>

\* What create, takeover and resume change: one run, to a new token, and a task
\* that does not have an event yet.
LEMMA StartScope ==
  ASSUME TypeInv, TokensIssued, NEW i \in Instances, NEW r \in Requests,
         \/ Create(i, r) \/ TakeOver(i, r)
         \/ \E q \in Responses, v \in Interactions : Resume(i, r, q, v)
  PROVE  Claimed(i, r)
<1> DEFINE n == run[r].fence + 1
<1>1. run[r] \in RunType /\ run[r].fence \in Nat BY DEF TypeInv, TypeOK, RunType
<1>2. run[r].status \notin Terminal BY DEF Create, TakeOver, Orphaned, Resume, Resumable, Terminal, Pending
<1>3. Create(i, r) => n = 1 /\ run[r].doneEmitted = FALSE
  BY <1>1 DEF Create, TokensIssued, RunType
<1>4. <<r, n>> \in Claims
  BY <1>1, <1>3, ConstantsAssumption DEF Create, TakeOver, Resume, Claims
<1>5. task[<<r, n>>] = NoTask
  <2>1. <<r, n>>[1] = r /\ <<r, n>>[2] = n OBVIOUS
  <2>2. n > run[r].fence BY <1>1
  <2> QED BY <1>4, <2>1, <2>2 DEF TokensIssued
<1>6. PICK t \in {NewClaim(i, 0), NewClaim(i, n)} : Becomes(<<r, n>>, t)
  BY <1>3 DEF Create, TakeOver, Resume
<1>7. /\ task'[<<r, n>>] \in {NewClaim(i, 0), NewClaim(i, n)}
      /\ \A d \in Claims \ {<<r, n>>} : task'[d] = task[d]
  BY <1>4, <1>6 DEF Becomes, TypeInv, TypeOK
<1>8. \E h : /\ HSet(r, h)
             /\ h.fence = n /\ h.status = "queued" /\ h.doneEmitted = FALSE
  <2>1. CASE Create(i, r)
    <3> DEFINE h == [run[r] EXCEPT !.status = "queued", !.owner = i, !.fence = 1, !.lease = TRUE]
    <3>1. h.fence = n /\ h.status = "queued" /\ h.doneEmitted = FALSE
      BY <1>1, <1>3, <2>1 DEF RunType
    <3> QED BY <2>1, <3>1 DEF Create
  <2>2. CASE TakeOver(i, r)
    <3> DEFINE h == [run[r] EXCEPT !.status = "queued", !.owner = i, !.fence = n,
                                   !.lease = TRUE, !.doneEmitted = FALSE]
    <3>1. h.fence = n /\ h.status = "queued" /\ h.doneEmitted = FALSE
      BY <1>1 DEF RunType
    <3>2. HSet(r, h) BY <1>1, <2>2 DEF TakeOver, TakenOver, HSet, RunType
    <3> QED BY <3>1, <3>2
  <2>3. ASSUME NEW q \in Responses, NEW v \in Interactions, Resume(i, r, q, v)
        PROVE  \E h : /\ HSet(r, h)
                      /\ h.fence = n /\ h.status = "queued" /\ h.doneEmitted = FALSE
    <3> DEFINE h == [run[r] EXCEPT !.status = "queued", !.owner = i, !.fence = n,
                        !.lease = TRUE, !.interaction = None, !.doneEmitted = FALSE]
    <3>1. h.fence = n /\ h.status = "queued" /\ h.doneEmitted = FALSE
      BY <1>1 DEF RunType
    <3>2. HSet(r, h) BY <1>1, <2>3 DEF Resume, HSet, RunType
    <3> QED BY <3>1, <3>2
  <2> QED BY <2>1, <2>2, <2>3
<1>9. /\ \A q \in Requests \ {r} : run'[q] = run[q]
      /\ run'[r].fence = n /\ run'[r].status = "queued" /\ run'[r].doneEmitted = FALSE
  BY <1>8 DEF HSet, TypeInv, TypeOK
<1>10. UNCHANGED <<events, dedupe>> BY DEF Create, TakeOver, Resume
<1> QED BY <1>2, <1>4, <1>5, <1>7, <1>9, <1>10 DEF Claimed

\* A user's cancellation leaves the run under a token no task has.
LEMMA CancelScope ==
  ASSUME TypeInv, NEW r \in Requests, Cancel(r)
  PROVE  /\ run[r].status \notin Terminal \union {"absent"}
         /\ run'[r].fence = run[r].fence + 1 /\ run'[r].status = "cancelled"
         /\ \A q \in Requests \ {r} : Untouched(q)
         /\ UNCHANGED <<task, dedupe>>
<1> DEFINE h == [run[r] EXCEPT !.status = "cancelled", !.fence = run[r].fence + 1, !.lease = FALSE,
                               !.doneEmitted = run[r].doneEmitted \/ Stream(r)]
<1>1. run[r] \in RunType BY DEF TypeInv, TypeOK
<1>2. h.fence = run[r].fence + 1 /\ h.status = "cancelled" BY <1>1 DEF RunType
<1>3. HSet(r, h) BY <1>1 DEF Cancel, HSet, RunType
<1>4. \A q \in Requests \ {r} : events'[q] = events[q] BY DEF Cancel, TypeInv, TypeOK
<1> QED BY <1>2, <1>3, <1>4 DEF Cancel, HSet, Untouched, TypeInv, TypeOK, Terminal, Pending

\* A lease that runs out changes nothing but the lease of an open run.
LEMMA ExpiryScope ==
  ASSUME TypeInv, IndexAgreement, NEW r \in Requests, LeaseExpires(r)
  PROVE  /\ run[r].status \in Pending
         /\ run'[r].fence = run[r].fence /\ run'[r].owner = run[r].owner
         /\ run'[r].status = run[r].status /\ run'[r].doneEmitted = run[r].doneEmitted
         /\ \A q \in Requests \ {r} : run'[q] = run[q]
         /\ UNCHANGED <<task, events, dedupe>>
<1> DEFINE h == [run[r] EXCEPT !.lease = FALSE]
<1>1. run[r] \in RunType BY DEF TypeInv, TypeOK
<1>2. /\ h.fence = run[r].fence /\ h.owner = run[r].owner
      /\ h.status = run[r].status /\ h.doneEmitted = run[r].doneEmitted
  BY <1>1 DEF RunType
<1>3. run' = [run EXCEPT ![r] = h] BY DEF LeaseExpires, HSet
<1>4. run[r].status \in Pending BY DEF LeaseExpires, IndexAgreement, Indexed
<1> QED BY <1>2, <1>3, <1>4 DEF LeaseExpires, TypeInv, TypeOK

-----------------------------------------------------------------------------
(* TokensIssued                                                             *)

\* An interrupted task has the token it had.
LEMMA InterruptedTokens ==
  ASSUME TypeInv, NEW c \in Claims, NEW f \in Nat, Tokened(task[c], f)
  PROVE  /\ \A target \in Terminal : Tokened(Unwinding(c, target), f)
         /\ Tokened(Interrupted(c), f)
         /\ Tokened(Ended, f)
<1> DEFINE t == task[c]
           done == Event("done", t.fence, None)
<1>1. t \in TaskType /\ t.fence \in Nat BY DEF TypeInv, TypeOK, TaskType
<1>2. done.fence = t.fence /\ NoEvent.fence = 0 /\ NoEvent.type = "data" BY DEF Event, NoEvent
<1>3. ASSUME NEW target \in Terminal PROVE Tokened(Unwinding(c, target), f)
  <2>1. Tokened([t EXCEPT !.pc = "append", !.target = target, !.event = done], f)
    BY <1>1, <1>2 DEF Tokened, TaskType
  <2>2. Tokened([t EXCEPT !.pc = "handler", !.target = target, !.event = NoEvent], f)
    BY <1>1, <1>2 DEF Tokened, TaskType
  <2> QED BY <2>1, <2>2 DEF Unwinding
<1>4. Tokened(Ended, f) BY <1>2 DEF Tokened, Ended, NoTask
<1> QED BY <1>3, <1>4 DEF Interrupted, Terminal

\* A step of a task leaves it with a token the registry has issued.
LEMMA TaskTokens ==
  ASSUME TypeInv, NEW c \in Claims, Execute(c) \/ Helpers(c),
         Tokened(task[c], run[c[1]].fence)
  PROVE  Tokened(task'[c], run[c[1]].fence)
<1> DEFINE t == task[c]
           f == run[c[1]].fence
<1>1. t \in TaskType /\ t.fence \in Nat /\ f \in Nat
  BY ClaimRequest DEF TypeInv, TypeOK, TaskType, RunType
<1>2. NoEvent.fence = 0 /\ NoEvent.type = "data" BY DEF NoEvent, Event
<1>3. ASSUME NEW u, Becomes(c, u), Tokened(u, f) PROVE Tokened(task'[c], f)
  BY <1>3 DEF Becomes, TypeInv, TypeOK
<1>4. ASSUME NEW step, Goto(c, step) PROVE Tokened(task'[c], f)
  <2> DEFINE u == [t EXCEPT !.pc = step, !.event = IF step = "append" THEN t.event ELSE NoEvent]
  <2>1. Becomes(c, u) BY <1>1, <1>4 DEF Goto, Becomes, TaskType
  <2>2. Tokened(u, f) BY <1>1, <1>2 DEF Tokened, TaskType
  <2> QED BY <1>3, <2>1, <2>2
<1>5. ASSUME NEW target, Raise(c, target) PROVE Tokened(task'[c], f)
  <2> DEFINE u == [t EXCEPT !.pc = "handler", !.target = target, !.event = NoEvent]
  <2>1. Tokened(u, f) BY <1>1, <1>2 DEF Tokened, TaskType
  <2> QED BY <1>3, <1>5, <2>1 DEF Raise
<1>6. ASSUME End(c) PROVE Tokened(task'[c], f)
  BY <1>1, <1>3, <1>6, InterruptedTokens DEF End
<1>7. CASE LoadHandle(c)
  <2> DEFINE u == [t EXCEPT !.pc = "slot", !.beating = TRUE,
                            !.fence = IF t.fence = 0 THEN f ELSE t.fence,
                            !.done = run[c[1]].doneEmitted]
  <2>1. Becomes(c, u) BY <1>1, <1>7 DEF LoadHandle, Becomes, TaskType
  <2>2. Tokened(u, f) BY <1>1, <1>2, <1>7 DEF LoadHandle, At, Tokened, TaskType
  <2> QED BY <1>3, <2>1, <2>2
<1>8. CASE ProducerYields(c)
  <2>1. PICK e \in Yielded(c) :
          Becomes(c, [t EXCEPT !.event = e, !.pc = IF e.type \in {"error", "large"} THEN "mark" ELSE "append"])
    BY <1>8 DEF ProducerYields
  <2>2. e.fence \in {0, t.fence} /\ (e.type = "done" => e.fence = t.fence)
    BY DEF Yielded, Event
  <2>3. Tokened([t EXCEPT !.event = e, !.pc = IF e.type \in {"error", "large"} THEN "mark" ELSE "append"], f)
    BY <1>1, <2>2 DEF Tokened, TaskType
  <2> QED BY <1>3, <2>1, <2>3
<1>9. CASE \E reply \in Replies : AppendEvent(c, reply)
  <2> DEFINE done == Event("done", t.fence, None)
  <2>1. done.fence = t.fence BY DEF Event
  <2>2. Tokened([t EXCEPT !.done = TRUE, !.event = NoEvent,
                   !.pc = IF t.target = "none" THEN "tail" ELSE "handler"], f)
    BY <1>1, <1>2 DEF Tokened, TaskType
  <2>3. Tokened([t EXCEPT !.event = done], f)
    BY <1>1, <1>9, <2>1 DEF AppendEvent, At, Tokened, TaskType
  <2>4. Tokened([t EXCEPT !.pc = "produce", !.event = NoEvent], f)
    BY <1>1, <1>2 DEF Tokened, TaskType
  <2>5. Tokened(AfterAppend(t), f) BY <2>2, <2>3, <2>4 DEF AfterAppend
  <2> QED BY <1>3, <1>5, <1>9, <2>5 DEF AppendEvent
<1>10. CASE Timeout(c)
  BY <1>1, <1>3, <1>10, InterruptedTokens DEF Timeout, Terminal
<1>11. CASE Refresh(c)
  <2>1. ASSUME NEW step \in {"finish", "commit"}, NEW target
        PROVE  Tokened([t EXCEPT !.pc = step, !.target = target], f)
    BY <1>1 DEF Tokened, TaskType
  <2> QED BY <1>3, <1>6, <1>11, <2>1 DEF Refresh
<1>12. CASE \E reply \in Replies : FinishDone(c, reply)
  <2>1. ASSUME NEW target
        PROVE  Tokened([t EXCEPT !.pc = "commit", !.done = TRUE, !.target = target], f)
    BY <1>1 DEF Tokened, TaskType
  <2> QED BY <1>3, <1>5, <1>12, <2>1 DEF FinishDone
<1>13. CASE HeartbeatLost(c) \/ LeaseLoopStops(c) \/ LeaseLoopDies(c) \/ CancellationWatch(c)
  <2>1. \A u \in TaskType : Tokened(u, f) => Tokened([u EXCEPT !.beating = FALSE], f)
    BY DEF Tokened, TaskType
  <2>2. Interrupted(c) \in TaskType BY InterruptedType DEF TypeInv
  <2>3. Tokened(Interrupted(c), f) BY <1>1, InterruptedTokens
  <2> QED BY <1>1, <1>3, <1>13, <2>1, <2>2, <2>3
          DEF HeartbeatLost, LeaseLoopStops, LeaseLoopDies, CancellationWatch
<1>14. CASE Heartbeat(c) BY <1>14 DEF Heartbeat
<1>15. CASE \/ \E reply \in Replies :
                 \/ AcquireRunning(c, reply) \/ MarkStreamFailed(c, reply)
                 \/ PauseForInput(c, reply) \/ Commit(c, reply)
                 \/ HandlerError(c, reply) \/ HandlerDone(c, reply)
            \/ AcquireRefused(c) \/ EnterProducer(c) \/ ProducerReturns(c) \/ ProducerRaises(c)
            \/ PauseRefused(c) \/ ReleaseLease(c) \/ Handler(c) \/ HandlerCommit(c)
            \/ RedisFails(c)
  BY <1>4, <1>5, <1>6, <1>15
  DEF AcquireRunning, MarkStreamFailed, PauseForInput, Commit, HandlerError, HandlerDone,
      AcquireRefused, EnterProducer, ProducerReturns, ProducerRaises, PauseRefused,
      ReleaseLease, Handler, HandlerCommit, RedisFails
<1> QED BY <1>7, <1>8, <1>9, <1>10, <1>11, <1>12, <1>13, <1>14, <1>15 DEF Execute, Helpers

\* The end of a process interrupts tasks and leaves unused claims and the store alone.
LEMMA ProcessScope ==
  ASSUME TypeInv, NEW i \in Instances, Shutdown(i) \/ Crash(i)
  PROVE  /\ UNCHANGED store
         /\ \A c \in Claims : /\ task'[c] \in {task[c], Interrupted(c), Ended}
                              /\ task[c] = NoTask => task'[c] = NoTask
<1>1. NoTask.owner # i BY NoneAssumption DEF NoTask
<1> QED BY <1>1 DEF Shutdown, Crash

\* Every step keeps the tokens of tasks within those the registry has issued.
LEMMA TokensStep ==
  TypeInv /\ IndexAgreement /\ TokensIssued /\ [Next]_vars => TokensIssued'
<1> SUFFICES ASSUME TypeInv, IndexAgreement, TokensIssued, [Next]_vars PROVE TokensIssued'
  OBVIOUS
<1> DEFINE Fresh(r) == run[r].status = "absent" => run[r].fence = 0 /\ ~run[r].doneEmitted
           Used(c) == /\ c[2] > run[c[1]].fence => task[c] = NoTask
                      /\ Tokened(task[c], run[c[1]].fence)
<1>0. \A r \in Requests : run[r].fence \in Nat BY DEF TypeInv, TypeOK, RunType
<1>1. ASSUME NEW c \in Claims, Execute(c) \/ Helpers(c) PROVE TokensIssued'
  <2>0. c[1] \in Requests BY ClaimRequest
  <2>1. task[c] # NoTask BY <1>1, IdleClaim DEF NoTask
  <2>2. c[2] <= run[c[1]].fence BY <1>0, <2>0, <2>1 DEF TokensIssued, Claims
  <2>3. run[c[1]].status # "absent" BY <2>0, <2>2 DEF TokensIssued, Claims
  <2>4. run'[c[1]].status # "absent"
    BY <1>1, <2>3, TaskScope DEF Recorded, Pending, Terminal
  <2>5. \A r \in Requests : Fresh(r)' BY <1>1, <2>4, TaskScope DEF TokensIssued, Untouched
  <2>6. \A r \in Requests : run'[r].fence = run[r].fence BY <1>1, TaskScope DEF Untouched
  <2>7. Tokened(task'[c], run[c[1]].fence) BY <1>1, TaskTokens DEF TokensIssued
  <2>8. \A d \in Claims : Used(d)'
    BY <1>1, <2>2, <2>6, <2>7, <1>0, <2>0, TaskScope, ClaimRequest DEF TokensIssued, Claims
  <2> QED BY <2>5, <2>8 DEF TokensIssued
<1>2. ASSUME NEW i \in Instances, NEW r \in Requests, Claimed(i, r) PROVE TokensIssued'
  <2>0. PICK n \in Nat : n = run[r].fence + 1 BY <1>0
  <2> DEFINE new == <<r, n>>
  <2>1. \A q \in Requests : Fresh(q)' BY <1>2 DEF Claimed, TokensIssued
  <2>2. new \in Claims /\ new[1] = r /\ new[2] = n BY <1>2, <2>0 DEF Claimed
  <2>3. NewClaim(i, 0).fence = 0 /\ NewClaim(i, n).fence = n
          /\ NewClaim(i, 0).event = NoEvent /\ NewClaim(i, n).event = NoEvent
          /\ NoEvent.fence = 0 /\ NoEvent.type = "data"
    BY DEF NewClaim, NoTask, NoEvent, Event
  <2>4. Used(new)' BY <1>0, <1>2, <2>0, <2>2, <2>3 DEF Claimed, Tokened
  <2>5. ASSUME NEW d \in Claims, d # new PROVE Used(d)'
    <3>1. d[1] \in Requests /\ d[2] \in Nat BY DEF Claims
    <3>2. task'[d] = task[d] BY <1>2, <2>0, <2>5 DEF Claimed
    <3>3. run'[d[1]].fence >= run[d[1]].fence BY <1>0, <1>2, <3>1 DEF Claimed
    <3>4. task[d].fence \in Nat BY DEF TypeInv, TypeOK, TaskType
    <3>5. run'[d[1]].fence \in Nat BY <1>0, <1>2, <3>1 DEF Claimed
    <3> QED BY <1>0, <3>1, <3>2, <3>3, <3>4, <3>5 DEF TokensIssued, Tokened
  <2> QED BY <2>1, <2>4, <2>5 DEF TokensIssued
<1>3. ASSUME NEW r \in Requests, Cancel(r) PROVE TokensIssued'
  <2>1. \A q \in Requests : Fresh(q)' BY <1>3, CancelScope DEF TokensIssued, Untouched
  <2>2. ASSUME NEW d \in Claims PROVE Used(d)'
    <3>1. d[1] \in Requests /\ d[2] \in Nat BY DEF Claims
    <3>2. task'[d] = task[d] BY <1>3, CancelScope
    <3>3. run'[d[1]].fence >= run[d[1]].fence /\ run'[d[1]].fence \in Nat
      BY <1>0, <1>3, <3>1, CancelScope DEF Untouched
    <3>4. task[d].fence \in Nat BY DEF TypeInv, TypeOK, TaskType
    <3> QED BY <1>0, <3>1, <3>2, <3>3, <3>4 DEF TokensIssued, Tokened
  <2> QED BY <2>1, <2>2 DEF TokensIssued
<1>4. ASSUME NEW r \in Requests, LeaseExpires(r) PROVE TokensIssued'
  <2>1. \A q \in Requests : /\ run'[q].status = run[q].status /\ run'[q].fence = run[q].fence
                            /\ run'[q].doneEmitted = run[q].doneEmitted
    BY <1>4, ExpiryScope
  <2>2. task' = task BY <1>4, ExpiryScope
  <2> QED BY <2>1, <2>2, ClaimRequest DEF TokensIssued
<1>5. ASSUME NEW i \in Instances, Shutdown(i) \/ Crash(i) PROVE TokensIssued'
  <2>1. run' = run BY <1>5, ProcessScope DEF store
  <2>2. ASSUME NEW c \in Claims PROVE Tokened(task'[c], run[c[1]].fence)
    <3>1. Tokened(task[c], run[c[1]].fence) /\ run[c[1]].fence \in Nat
      BY <1>0, ClaimRequest DEF TokensIssued
    <3> QED BY <1>5, <3>1, ProcessScope, InterruptedTokens
  <2>3. \A c \in Claims : task[c] = NoTask => task'[c] = NoTask BY <1>5, ProcessScope
  <2> QED BY <2>1, <2>2, <2>3 DEF TokensIssued
<1>6. CASE UNCHANGED vars BY <1>6 DEF vars, TokensIssued
<1> QED BY <1>1, <1>2, <1>3, <1>4, <1>5, <1>6, StartScope DEF Next

-----------------------------------------------------------------------------
(* The event streams                                                         *)

\* How one step may change the stream and the token of a run.
Logged(r) ==
  \/ events'[r] = events[r] /\ run'[r].fence >= run[r].fence
  \/ /\ run'[r].fence = run[r].fence
     /\ \E e \in EventType : /\ e.fence \in {0, run[r].fence}
                             /\ events'[r] = Append(events[r], e)
  \/ LET f == run[r].fence + 1 IN
     /\ run'[r].fence = f
     /\ events'[r] = events[r] \o << Event("error", f, None), Event("done", f, None) >>

\* _APPEND_EVENT_LUA logs at most one entry, under the token of the run.
LEMMA AppendLogged ==
  ASSUME TypeInv, TokensIssued, NEW c \in Claims, NEW e \in EventType, NEW keys,
         e.fence \in {0, task[c].fence}, Appendable(c, e), AppendScript(c, e, keys)
  PROVE  Logged(c[1])
<1> DEFINE r == c[1]
<1>1. r \in Requests /\ run[r].fence \in Nat BY ClaimRequest DEF TypeInv, TypeOK, RunType
<1>2. run'[r].fence = run[r].fence BY AppendScriptKeeps DEF SameExceptDone
<1>3. task[c].fence = run[r].fence BY DEF Appendable, Owns
<1>4. events'[r] = events[r] \/ events'[r] = Append(events[r], e)
  BY <1>1 DEF AppendScript, TypeInv, TypeOK
<1> QED BY <1>1, <1>2, <1>3, <1>4 DEF Logged

\* Whatever a task does, the stream grows by at most one entry of the run's token
\* or by an input request.
LEMMA TaskLogged ==
  ASSUME TypeInv, TokensIssued, NEW c \in Claims, Execute(c) \/ Helpers(c)
  PROVE  \A r \in Requests : Logged(r)
<1>1. \A r \in Requests : run[r].fence \in Nat BY DEF TypeInv, TypeOK, RunType
<1>2. \A r \in Requests \ {c[1]} : Logged(r) BY <1>1, TaskScope DEF Untouched, Logged
<1> DEFINE r == c[1]
           e == task[c].event
<1>3. r \in Requests /\ e \in EventType /\ task[c].fence \in Nat
  BY ClaimRequest DEF TypeInv, TypeOK, TaskType
<1>4. run'[r].fence = run[r].fence BY TaskScope
<1>5. events'[r] = events[r] => Logged(r) BY <1>1, <1>3, <1>4 DEF Logged
<1>6. e.fence \in {0, task[c].fence} BY DEF TokensIssued, Tokened
<1>7. \A ty \in {"error", "done"} : /\ Event(ty, task[c].fence, None) \in EventType
                                    /\ Event(ty, task[c].fence, None).fence = task[c].fence
  BY <1>3, EventIsTyped DEF Event
<1>8. CASE \E reply \in Replies : AppendEvent(c, reply)
  BY <1>2, <1>3, <1>5, <1>6, <1>8, AppendLogged DEF AppendEvent
<1>9. CASE \E reply \in Replies : FinishDone(c, reply) \/ HandlerDone(c, reply)
  BY <1>2, <1>3, <1>5, <1>7, <1>9, AppendLogged DEF FinishDone, HandlerDone
<1>10. CASE \E reply \in Replies : HandlerError(c, reply)
  BY <1>2, <1>3, <1>5, <1>7, <1>10, AppendLogged DEF HandlerError
<1>11. CASE \E reply \in Replies : PauseForInput(c, reply)
  <2>1. events'[r] = Append(events[r], e)
    BY <1>3, <1>11 DEF PauseForInput, TypeInv, TypeOK
  <2>2. e.fence = 0 BY <1>3, <1>11, EventFields DEF PauseForInput
  <2> QED BY <1>2, <1>3, <1>4, <2>1, <2>2 DEF Logged
<1>12. CASE UNCHANGED events BY <1>2, <1>5, <1>12
<1> QED BY <1>8, <1>9, <1>10, <1>11, <1>12
  DEF Execute, Helpers, LoadHandle, AcquireRunning, AcquireRefused, EnterProducer,
      ProducerYields, ProducerReturns, ProducerRaises, MarkStreamFailed, PauseRefused,
      Timeout, Refresh, Commit, ReleaseLease, Handler, HandlerCommit, RedisFails,
      Heartbeat, LeaseLoopStops, HeartbeatLost, LeaseLoopDies, CancellationWatch, store

\* Every step changes a stream in one of the ways of Logged.
LEMMA NextLogged ==
  ASSUME TypeInv, IndexAgreement, TokensIssued, [Next]_vars
  PROVE  \A r \in Requests : Logged(r)
<1>1. \A r \in Requests : run[r].fence \in Nat BY DEF TypeInv, TypeOK, RunType
<1>2. ASSUME NEW i \in Instances, NEW r \in Requests, Claimed(i, r)
      PROVE  \A q \in Requests : Logged(q)
  BY <1>1, <1>2 DEF Claimed, Logged
<1>3. ASSUME NEW r \in Requests, Cancel(r) PROVE \A q \in Requests : Logged(q)
  <2>1. \A q \in Requests \ {r} : Logged(q) BY <1>1, <1>3, CancelScope DEF Untouched, Logged
  <2>2. run'[r].fence = run[r].fence + 1 BY <1>3, CancelScope
  <2>3. CASE Stream(r)
    <3>1. events'[r] = events[r] \o << Event("error", run[r].fence + 1, None),
                                      Event("done", run[r].fence + 1, None) >>
      BY <1>3, <2>3 DEF Cancel, TypeInv, TypeOK
    <3> QED BY <2>1, <2>2, <3>1 DEF Logged
  <2>4. CASE ~Stream(r)
    <3>1. events'[r] = events[r] BY <1>3, <2>4 DEF Cancel
    <3> QED BY <1>1, <2>1, <2>2, <3>1 DEF Logged
  <2> QED BY <2>3, <2>4
<1>4. ASSUME NEW r \in Requests, LeaseExpires(r) PROVE \A q \in Requests : Logged(q)
  BY <1>1, <1>4, ExpiryScope DEF Logged
<1>5. ASSUME UNCHANGED <<run, events>> PROVE \A q \in Requests : Logged(q)
  BY <1>1, <1>5 DEF Logged
<1> QED BY <1>2, <1>3, <1>4, <1>5, StartScope, TaskLogged, ProcessScope DEF Next, vars, store

\* Every step keeps the tokens along a stream in order.
LEMMA FencesStep ==
  TypeInv /\ IndexAgreement /\ TokensIssued /\ FencesOrdered /\ [Next]_vars => FencesOrdered'
<1> SUFFICES ASSUME TypeInv, IndexAgreement, TokensIssued, FencesOrdered, [Next]_vars,
                    NEW r \in Requests
             PROVE  (/\ \A k \in 1..Len(events[r]) : events[r][k].fence <= run[r].fence
                     /\ \A j, k \in 1..Len(events[r]) :
                          j < k /\ events[r][k].fence # 0
                            => events[r][j].fence <= events[r][k].fence)'
  BY DEF FencesOrdered
<1> DEFINE s == events[r]
           f == run[r].fence
<1>1. /\ s \in Seq(EventType) /\ f \in Nat
      /\ \A k \in 1..Len(s) : s[k] \in EventType /\ s[k].fence \in Nat /\ s[k].fence <= f
  BY EventFields DEF TypeInv, TypeOK, RunType, FencesOrdered
<1>2. \A j, k \in 1..Len(s) : j < k /\ s[k].fence # 0 => s[j].fence <= s[k].fence
  BY DEF FencesOrdered
<1>3. CASE events'[r] = s /\ run'[r].fence >= f
  <2>1. run'[r].fence \in Nat BY TypeStep DEF TypeInv, TypeOK, RunType
  <2> QED BY <1>1, <1>2, <1>3, <2>1
<1>4. ASSUME NEW e \in EventType, e.fence \in {0, f}, events'[r] = Append(s, e),
             run'[r].fence = f
      PROVE  (/\ \A k \in 1..Len(events[r]) : events[r][k].fence <= run[r].fence
              /\ \A j, k \in 1..Len(events[r]) :
                   j < k /\ events[r][k].fence # 0
                     => events[r][j].fence <= events[r][k].fence)'
  <2>1. Len(events'[r]) = Len(s) + 1 /\ events'[r][Len(s) + 1] = e
          /\ \A k \in 1..Len(s) : events'[r][k] = s[k]
    BY <1>1, <1>4
  <2>2. Len(s) \in Nat BY <1>1
  <2> QED BY <1>1, <1>2, <1>4, <2>1, <2>2
<1>5. ASSUME run'[r].fence = f + 1,
             events'[r] = s \o << Event("error", f + 1, None), Event("done", f + 1, None) >>
      PROVE  (/\ \A k \in 1..Len(events[r]) : events[r][k].fence <= run[r].fence
              /\ \A j, k \in 1..Len(events[r]) :
                   j < k /\ events[r][k].fence # 0
                     => events[r][j].fence <= events[r][k].fence)'
  <2> DEFINE a == Event("error", f + 1, None)
             b == Event("done", f + 1, None)
  <2>1. Len(s) \in Nat BY <1>1
  <2>2. a \in EventType /\ b \in EventType BY <1>1, EventIsTyped
  <2>3. a.fence = f + 1 /\ b.fence = f + 1 BY DEF Event
  <2> HIDE DEF a, b
  <2>4. Len(events'[r]) = Len(s) + 2 /\ events'[r][Len(s) + 1] = a
          /\ events'[r][Len(s) + 2] = b /\ \A k \in 1..Len(s) : events'[r][k] = s[k]
    BY <1>1, <1>5, <2>1, <2>2 DEF a, b
  <2>5. \A k \in 1..Len(events'[r]) : k \in 1..Len(s) \/ events'[r][k].fence = f + 1
    BY <2>1, <2>3, <2>4
  <2>6. ASSUME NEW k \in 1..Len(events'[r])
        PROVE  /\ events'[r][k].fence <= f + 1 /\ events'[r][k].fence \in Nat
               /\ k \notin 1..Len(s) => k > Len(s) /\ events'[r][k].fence = f + 1
    <3>1. CASE k \in 1..Len(s)
      <4>1. events'[r][k] = s[k] BY <2>4, <3>1
      <4>2. s[k].fence \in Nat /\ s[k].fence <= f BY <1>1, <3>1
      <4> QED BY <1>1, <3>1, <4>1, <4>2
    <3>2. CASE k \notin 1..Len(s)
      <4>1. events'[r][k].fence = f + 1 BY <2>5, <3>2
      <4>2. k > Len(s) BY <2>1, <3>2
      <4> QED BY <1>1, <4>1, <4>2
    <3> QED BY <3>1, <3>2
  <2>7. ASSUME NEW j \in 1..Len(events'[r]), NEW k \in 1..Len(events'[r]), j < k,
               events'[r][k].fence # 0
        PROVE  events'[r][j].fence <= events'[r][k].fence
    <3>1. CASE k \in 1..Len(s)
      <4>1. j \in 1..Len(s) BY <2>1, <2>7, <3>1
      <4> QED BY <1>2, <2>4, <2>7, <3>1, <4>1
    <3>2. CASE k \notin 1..Len(s) BY <2>6, <3>2
    <3> QED BY <3>1, <3>2
  <2> QED BY <1>5, <2>6, <2>7
<1> QED BY <1>3, <1>4, <1>5, NextLogged DEF Logged

-----------------------------------------------------------------------------
(* DoneBacked                                                               *)

\* A DONE stays in the stream, which only grows.
LEMMA HasDoneKept ==
  ASSUME TypeInv, NEW r \in Requests, Logged(r), NEW f, HasDone(r, f)
  PROVE  HasDone(r, f)'
<1> DEFINE s == events[r]
<1>1. s \in Seq(EventType) /\ Len(s) \in Nat BY DEF TypeInv, TypeOK
<1>2. PICK k \in 1..Len(s) : s[k].type = "done" /\ s[k].fence = f BY DEF HasDone
<1>3. k \in 1..Len(events'[r]) /\ events'[r][k] = s[k]
  <2>1. CASE events'[r] = s BY <2>1
  <2>2. ASSUME NEW e \in EventType, events'[r] = Append(s, e)
        PROVE  k \in 1..Len(events'[r]) /\ events'[r][k] = s[k]
    BY <1>1, <2>2
  <2>3. ASSUME NEW a \in EventType, NEW b \in EventType, events'[r] = s \o <<a, b>>
        PROVE  k \in 1..Len(events'[r]) /\ events'[r][k] = s[k]
    BY <1>1, <2>3
  <2>4. run[r].fence + 1 \in Nat BY DEF TypeInv, TypeOK, RunType
  <2> QED BY <2>1, <2>2, <2>3, <2>4, EventIsTyped DEF Logged
<1> QED BY <1>2, <1>3 DEF HasDone

\* What the append script leaves behind.
LEMMA AppendEffect ==
  ASSUME TypeInv, NEW c \in Claims, NEW e \in EventType, NEW keys,
         AppendScript(c, e, keys)
  PROVE  /\ keys \intersect dedupe[c[1]] = {} /\ e.type = "done" => HasDone(c[1], e.fence)'
         /\ dedupe'[c[1]] \subseteq dedupe[c[1]] \union keys
         /\ run'[c[1]].doneEmitted =>
              run[c[1]].doneEmitted \/ (keys \intersect dedupe[c[1]] = {} /\ e.type = "done")
<1> DEFINE r == c[1]
           s == events[r]
<1>1. r \in Requests /\ run[r] \in RunType /\ s \in Seq(EventType) /\ Len(s) \in Nat
  BY ClaimRequest DEF TypeInv, TypeOK
<1>2. CASE keys \intersect dedupe[r] # {} BY <1>2 DEF AppendScript
<1>3. CASE keys \intersect dedupe[r] = {}
  <2>1. events'[r] = Append(s, e) /\ dedupe'[r] = dedupe[r] \union keys
    BY <1>1, <1>3 DEF AppendScript, TypeInv, TypeOK
  <2>2. Len(events'[r]) = Len(s) + 1 /\ events'[r][Len(s) + 1] = e BY <1>1, <2>1
  <2>3. Len(s) + 1 \in 1..Len(events'[r]) BY <1>1, <2>2
  <2>4. e.type = "done" => HasDone(r, e.fence)' BY <2>2, <2>3 DEF HasDone
  <2>5. HSet(r, [run[r] EXCEPT !.doneEmitted = run[r].doneEmitted \/ e.type = "done"])
    BY <1>1, <1>3 DEF AppendScript, HSet, RunType
  <2>6. run'[r] = [run[r] EXCEPT !.doneEmitted = run[r].doneEmitted \/ e.type = "done"]
    BY <1>1, <2>5 DEF HSet, TypeInv, TypeOK
  <2>7. run'[r].doneEmitted => run[r].doneEmitted \/ e.type = "done"
    BY <1>1, <2>6 DEF RunType
  <2> QED BY <1>3, <2>1, <2>4, <2>7
<1> QED BY <1>2, <1>3

\* A DONE written under the token of a task in charge.
LEMMA DoneWritten ==
  ASSUME TypeInv, DoneBacked, NEW c \in Claims, NEW e \in EventType, NEW keys,
         e.type = "done", e.fence = task[c].fence, keys \in {{}, {DoneKey(task[c].fence)}},
         Logged(c[1]), Appendable(c, e), AppendScript(c, e, keys)
  PROVE  HasDone(c[1], run[c[1]].fence)'
<1> DEFINE r == c[1]
<1>0. PICK f : f = task[c].fence OBVIOUS
<1>1. r \in Requests BY ClaimRequest
<1>2. run[r].fence = f /\ run'[r].fence = f
  BY <1>0, AppendScriptKeeps DEF Appendable, Owns, SameExceptDone
<1>3. HasDone(r, f)'
  <2>1. CASE keys \intersect dedupe[r] = {} BY <1>0, <2>1, AppendEffect
  <2>2. CASE keys \intersect dedupe[r] # {}
    <3>1. DoneKey(f) \in dedupe[r] BY <1>0, <2>2
    <3>2. DoneKey(f)[1] = "terminal-done" /\ DoneKey(f)[2] = f BY DEF DoneKey
    <3>3. HasDone(r, f) BY <1>1, <3>1, <3>2 DEF DoneBacked
    <3> QED BY <1>1, <3>3, HasDoneKept
  <2> QED BY <2>1, <2>2
<1> QED BY <1>2, <1>3

\* The notes of the store after a step of a task.
LEMMA StoreNotes ==
  ASSUME TypeInv, TokensIssued, DoneBacked, NEW c \in Claims, Execute(c) \/ Helpers(c),
         Logged(c[1])
  PROVE  /\ run'[c[1]].doneEmitted => run[c[1]].doneEmitted \/ HasDone(c[1], run[c[1]].fence)'
         /\ \A key \in dedupe'[c[1]] :
              key[1] = "terminal-done" => key \in dedupe[c[1]] \/ HasDone(c[1], key[2])'
<1> DEFINE r == c[1]
           t == task[c]
           Noted == /\ run'[r].doneEmitted => run[r].doneEmitted \/ HasDone(r, run[r].fence)'
                    /\ \A key \in dedupe'[r] :
                         key[1] = "terminal-done" => key \in dedupe[r] \/ HasDone(r, key[2])'
<1>1. /\ r \in Requests /\ run[r] \in RunType /\ t.event \in EventType /\ t.fence \in Nat
      /\ t.event.type = "done" => t.event.fence = t.fence
  BY ClaimRequest DEF TypeInv, TypeOK, TaskType, TokensIssued, Tokened
<1>2. ASSUME NEW e \in EventType, NEW keys, Appendable(c, e), AppendScript(c, e, keys),
             e.type = "done" => e.fence = t.fence,
             \A key \in keys : key[1] = "terminal-done" => key[2] = t.fence /\ e.type = "done",
             e.type = "done" => keys \in {{}, {DoneKey(t.fence)}}
      PROVE  Noted
  <2>1. e.type = "done" => HasDone(r, run[r].fence)' BY <1>2, DoneWritten
  <2>2. run[r].fence = t.fence /\ run'[r].fence = run[r].fence
    BY <1>2, AppendScriptKeeps DEF Appendable, Owns, SameExceptDone
  <2>3. ASSUME NEW key \in dedupe'[r], key[1] = "terminal-done", key \notin dedupe[r]
        PROVE  HasDone(r, key[2])'
    <3>1. key \in keys BY <1>2, <2>3, AppendEffect
    <3>2. key[2] = run'[r].fence /\ e.type = "done" BY <1>2, <2>2, <2>3, <3>1
    <3> QED BY <2>1, <3>2
  <2>4. run'[r].doneEmitted => run[r].doneEmitted \/ e.type = "done" BY <1>2, AppendEffect
  <2> QED BY <2>1, <2>3, <2>4
<1>3. UNCHANGED <<run, dedupe>> => Noted OBVIOUS
<1>4. \A ty \in {"error", "done"} :
        /\ Event(ty, t.fence, None) \in EventType
        /\ Event(ty, t.fence, None).fence = t.fence /\ Event(ty, t.fence, None).type = ty
  BY <1>1, EventIsTyped DEF Event
<1>5. /\ DoneKey(t.fence)[2] = t.fence
      /\ ErrorKey(t.target)[1] # "terminal-done"
      /\ \A x : AheKey(x)[1] # "terminal-done" /\ InteractionKey(x)[1] # "terminal-done"
  BY DEF DoneKey, ErrorKey, AheKey, InteractionKey
<1>6. CASE \E reply \in Replies : AppendEvent(c, reply)
  BY <1>1, <1>2, <1>3, <1>6, EventKeysTyped DEF AppendEvent
<1>7. CASE \E reply \in Replies : FinishDone(c, reply)
  BY <1>2, <1>3, <1>4, <1>5, <1>7 DEF FinishDone
<1>8. CASE \E reply \in Replies : HandlerDone(c, reply)
  BY <1>2, <1>3, <1>4, <1>5, <1>8 DEF HandlerDone
<1>9. CASE \E reply \in Replies : HandlerError(c, reply)
  BY <1>2, <1>3, <1>4, <1>5, <1>9 DEF HandlerError
<1>10. ASSUME NEW hash, HSet(r, hash), hash.doneEmitted = run[r].doneEmitted,
              \A key \in dedupe'[r] : key[1] = "terminal-done" => key \in dedupe[r]
       PROVE  Noted
  BY <1>1, <1>10 DEF HSet, TypeInv, TypeOK
<1>11. CASE \E reply \in Replies : PauseForInput(c, reply)
  <2> DEFINE h == [run[r] EXCEPT !.status = "waiting_for_input", !.lease = FALSE,
                                 !.interaction = t.event.ref]
  <2>1. h.doneEmitted = run[r].doneEmitted BY <1>1 DEF RunType
  <2>2. dedupe'[r] = dedupe[r] \union {InteractionKey(t.event.ref)}
    BY <1>1, <1>11 DEF PauseForInput, TypeInv, TypeOK
  <2>3. HSet(r, h) BY <1>11 DEF PauseForInput
  <2>4. \A key \in dedupe'[r] : key[1] = "terminal-done" => key \in dedupe[r] BY <1>5, <2>2
  <2> QED BY <1>10, <2>1, <2>3, <2>4
<1>12. CASE \E reply \in Replies : AcquireRunning(c, reply)
  <2> DEFINE h == [run[r] EXCEPT !.status = "running", !.lease = TRUE]
  <2>1. h.doneEmitted = run[r].doneEmitted BY <1>1 DEF RunType
  <2> QED BY <1>10, <1>12, <2>1 DEF AcquireRunning, Ready
<1>13. CASE \E reply \in Replies : MarkStreamFailed(c, reply)
  <2> DEFINE h == [run[r] EXCEPT !.streamFailed = TRUE]
  <2>1. h.doneEmitted = run[r].doneEmitted BY <1>1 DEF RunType
  <2> QED BY <1>3, <1>10, <1>13, <2>1 DEF MarkStreamFailed
<1>14. CASE (\E reply \in Replies : Commit(c, reply)) \/ HandlerCommit(c)
  <2> DEFINE h == [run[r] EXCEPT !.status = t.target, !.lease = FALSE]
  <2>1. h.doneEmitted = run[r].doneEmitted BY <1>1 DEF RunType
  <2> QED BY <1>3, <1>10, <1>14, <2>1 DEF Commit, HandlerCommit, Transition
<1>15. CASE ReleaseLease(c) \/ Heartbeat(c)
  <2>1. \A b \in BOOLEAN : [run[r] EXCEPT !.lease = b].doneEmitted = run[r].doneEmitted
    BY <1>1 DEF RunType
  <2> QED BY <1>3, <1>10, <1>15, <2>1 DEF ReleaseLease, Heartbeat
<1>16. CASE UNCHANGED store BY <1>3, <1>16 DEF store
<1> QED BY <1>6, <1>7, <1>8, <1>9, <1>11, <1>12, <1>13, <1>14, <1>15, <1>16
  DEF Execute, Helpers, LoadHandle, AcquireRefused, EnterProducer, ProducerYields,
      ProducerReturns, ProducerRaises, PauseRefused, Timeout, Refresh, Handler, RedisFails,
      LeaseLoopStops, HeartbeatLost, LeaseLoopDies, CancellationWatch

\* What makes a task's own note of DONE binding.
Relies(c) ==
  /\ Stream(c[1]) /\ Owns(task[c], c[1]) /\ run[c[1]].status \notin Terminal
  /\ task[c].done \/ task[c].pc \in {"commit", "h_commit"}

\* The notes of the tasks after a step of one of them: a task that reaches its
\* commit under the run's token has written, or knows of, a DONE.
LEMMA TaskNotes ==
  ASSUME TypeInv, TokensIssued, DoneBacked, NEW c \in Claims, Execute(c) \/ Helpers(c),
         Logged(c[1]), Relies(c)'
  PROVE  HasDone(c[1], run[c[1]].fence)'
<1> DEFINE r == c[1]
           t == task[c]
           Backed == HasDone(r, run[r].fence)'
<1>1. /\ r \in Requests /\ run[r] \in RunType /\ t \in TaskType
      /\ t.event \in EventType /\ t.fence \in Nat
      /\ t.event.type = "done" => t.event.fence = t.fence
  BY ClaimRequest DEF TypeInv, TypeOK, TaskType, TokensIssued, Tokened
<1>2. /\ run'[r].owner = run[r].owner /\ run'[r].fence = run[r].fence
      /\ run[r].status \notin Terminal
      /\ Stream(r) /\ run'[r].owner = task'[c].owner /\ run'[r].fence = task'[c].fence
  BY <1>1, TaskScope DEF Relies, Owns, Untouched
<1>3. HasDone(r, run[r].fence) => Backed
  <2>1. PICK f : f = run[r].fence OBVIOUS
  <2> QED BY <1>1, <1>2, <2>1, HasDoneKept
<1>4. ASSUME NEW u, Becomes(c, u), u.owner = t.owner, u.fence = t.fence, u.done = t.done,
             u.pc \in {"commit", "h_commit"} => u.pc = t.pc
      PROVE  Backed
  <2>1. task'[c] = u BY <1>4 DEF Becomes, TypeInv, TypeOK
  <2>2. Relies(c) BY <1>2, <1>4, <2>1 DEF Relies, Owns
  <2>3. HasDone(r, run[r].fence) BY <2>2 DEF Relies, DoneBacked
  <2> QED BY <1>3, <2>3
<1>5. ASSUME NEW step, Goto(c, step), step \notin {"commit", "h_commit"} PROVE Backed
  <2> DEFINE u == [t EXCEPT !.pc = step, !.event = IF step = "append" THEN t.event ELSE NoEvent]
  <2>1. Becomes(c, u) BY <1>1, <1>5 DEF Goto, Becomes, TaskType
  <2>2. u.owner = t.owner /\ u.fence = t.fence /\ u.done = t.done /\ u.pc = step
    BY <1>1 DEF TaskType
  <2> QED BY <1>4, <1>5, <2>1, <2>2
<1>6. ASSUME NEW target, Raise(c, target) PROVE Backed
  <2> DEFINE u == [t EXCEPT !.pc = "handler", !.target = target, !.event = NoEvent]
  <2>1. u.owner = t.owner /\ u.fence = t.fence /\ u.done = t.done /\ u.pc = "handler"
    BY <1>1 DEF TaskType
  <2> QED BY <1>4, <1>6, <2>1 DEF Raise
<1>7. ~End(c)
  <2>1. Ended.done = FALSE /\ Ended.pc = "ended" BY DEF Ended, NoTask
  <2>2. End(c) => task'[c] = Ended BY DEF End, Becomes, TypeInv, TypeOK
  <2> QED BY <2>1, <2>2 DEF Relies
<1>8. \A target \in Terminal :
        LET u == Unwinding(c, target)
        IN  u.owner = t.owner /\ u.fence = t.fence /\ u.done = t.done
            /\ u.pc \in {"append", "handler"}
  BY <1>1 DEF Unwinding, TaskType
<1>9. ASSUME NEW e \in EventType, NEW keys, Appendable(c, e), AppendScript(c, e, keys),
             e.type = "done", e.fence = t.fence, keys \in {{}, {DoneKey(t.fence)}}
      PROVE  Backed
  BY <1>9, DoneWritten
<1>10. /\ Event("done", t.fence, None) \in EventType
       /\ Event("done", t.fence, None).fence = t.fence
       /\ Event("done", t.fence, None).type = "done"
  BY <1>1, EventIsTyped DEF Event
<1>11. CASE LoadHandle(c)
  <2> DEFINE u == [t EXCEPT !.pc = "slot", !.beating = TRUE,
                            !.fence = IF t.fence = 0 THEN run[r].fence ELSE t.fence,
                            !.done = run[r].doneEmitted]
  <2>1. Becomes(c, u) BY <1>1, <1>11 DEF LoadHandle, Becomes, TaskType
  <2>2. u.done = run[r].doneEmitted /\ u.pc = "slot" BY <1>1 DEF TaskType
  <2>3. task'[c] = u BY <2>1 DEF Becomes, TypeInv, TypeOK
  <2>4. run[r].doneEmitted BY <2>2, <2>3 DEF Relies
  <2> QED BY <1>1, <1>2, <1>3, <2>4 DEF DoneBacked
<1>12. CASE ProducerYields(c)
  <2>1. PICK e : Becomes(c, [t EXCEPT !.event = e,
                               !.pc = IF e.type \in {"error", "large"} THEN "mark" ELSE "append"])
    BY <1>12 DEF ProducerYields
  <2> DEFINE u == [t EXCEPT !.event = e, !.pc = IF e.type \in {"error", "large"} THEN "mark" ELSE "append"]
  <2>2. u.owner = t.owner /\ u.fence = t.fence /\ u.done = t.done /\ u.pc \in {"mark", "append"}
    BY <1>1 DEF TaskType
  <2> QED BY <1>4, <2>1, <2>2
<1>13. CASE \E reply \in Replies : AppendEvent(c, reply)
  <2>1. CASE t.event.type = "done" /\ Appendable(c, t.event)
    <3>1. AppendScript(c, t.event, {}) BY <1>1, <1>13, <2>1, EventKeysTyped DEF AppendEvent, TaskType
    <3> QED BY <1>1, <1>9, <2>1, <3>1
  <2>2. CASE t.event.type # "done" /\ Appendable(c, t.event)
    <3>1. Becomes(c, AfterAppend(t)) \/ Raise(c, "failed") BY <1>13, <2>2 DEF AppendEvent
    <3> DEFINE u == [t EXCEPT !.event = Event("done", t.fence, None)]
               w == [t EXCEPT !.pc = "produce", !.event = NoEvent]
    <3>2. /\ u.owner = t.owner /\ u.fence = t.fence /\ u.done = t.done /\ u.pc = t.pc
          /\ w.owner = t.owner /\ w.fence = t.fence /\ w.done = t.done /\ w.pc = "produce"
      BY <1>1 DEF TaskType
    <3>3. AfterAppend(t) \in {u, w} BY <2>2 DEF AfterAppend
    <3> QED BY <1>4, <1>6, <3>1, <3>2, <3>3
  <2>3. CASE ~Appendable(c, t.event) BY <1>6, <1>13, <2>3 DEF AppendEvent
  <2> QED BY <2>1, <2>2, <2>3
<1>14. CASE Timeout(c) BY <1>4, <1>8, <1>14 DEF Timeout, Terminal
<1>15. CASE Refresh(c)
  <2> DEFINE u == [t EXCEPT !.pc = IF Stream(r) /\ ~run[r].doneEmitted THEN "finish" ELSE "commit",
                            !.target = Outcome(r)]
  <2>1. Becomes(c, u) BY <1>7, <1>15 DEF Refresh
  <2>2. CASE run[r].doneEmitted BY <1>1, <1>2, <1>3, <2>2 DEF DoneBacked
  <2>3. CASE ~run[r].doneEmitted
    <3>1. u.owner = t.owner /\ u.fence = t.fence /\ u.done = t.done /\ u.pc = "finish"
      BY <1>1, <1>2, <2>3 DEF TaskType
    <3> QED BY <1>4, <2>1, <3>1
  <2> QED BY <2>2, <2>3
<1>16. CASE \E reply \in Replies : FinishDone(c, reply)
  <2>1. CASE Appendable(c, Event("done", t.fence, None))
    <3>1. AppendScript(c, Event("done", t.fence, None), {DoneKey(t.fence)})
      BY <1>16, <2>1 DEF FinishDone
    <3> QED BY <1>9, <1>10, <2>1, <3>1
  <2>2. CASE ~Appendable(c, Event("done", t.fence, None))
    BY <1>6, <1>16, <2>2 DEF FinishDone
  <2> QED BY <2>1, <2>2
<1>17. CASE \E reply \in Replies : HandlerDone(c, reply)
  <2>1. CASE Appendable(c, Event("done", t.fence, None))
    <3>1. AppendScript(c, Event("done", t.fence, None), {DoneKey(t.fence)})
      BY <1>17, <2>1 DEF HandlerDone
    <3> QED BY <1>9, <1>10, <2>1, <3>1
  <2>2. CASE ~Appendable(c, Event("done", t.fence, None))
    <3>1. Goto(c, "h_commit") /\ ~(Owns(t, r) /\ run[r].status = "waiting_for_input")
      BY <1>7, <1>17, <2>2 DEF HandlerDone
    <3>2. ~Owns(t, r) BY <1>2, <2>2, <3>1 DEF Appendable
    <3>3. task'[c].owner = t.owner /\ task'[c].fence = t.fence
      BY <1>1, <3>1 DEF Goto, Becomes, TypeInv, TypeOK, TaskType
    <3> QED BY <1>2, <3>2, <3>3 DEF Owns
  <2> QED BY <2>1, <2>2
<1>18. CASE \E reply \in Replies : HandlerError(c, reply)
  <2>1. Event("error", t.fence, None).type # "done" BY DEF Event
  <2>2. CASE Goto(c, "h_done") BY <1>5, <2>2
  <2>3. CASE Goto(c, "h_commit")
    <3>1. /\ task'[c].owner = t.owner /\ task'[c].fence = t.fence /\ task'[c].done = t.done
          /\ t.done \in BOOLEAN
      BY <1>1, <2>3 DEF Goto, Becomes, TypeInv, TypeOK, TaskType
    <3>2. Owns(t, r) BY <1>2, <3>1 DEF Owns
    <3>3. Appendable(c, Event("error", t.fence, None)) BY <1>2, <2>1, <3>2 DEF Appendable
    <3>4. t.done \/ Goto(c, "h_done") BY <1>7, <1>18, <3>3 DEF HandlerError
    <3>5. CASE t.done
      <4>1. HasDone(r, run[r].fence) BY <1>2, <3>2, <3>5 DEF DoneBacked
      <4> QED BY <1>3, <4>1
    <3> QED BY <2>2, <3>4, <3>5
  <2> QED BY <1>7, <1>18, <2>2, <2>3 DEF HandlerError
<1>19. CASE Handler(c) BY <1>2, <1>5, <1>7, <1>19 DEF Handler
<1>20. CASE HeartbeatLost(c) \/ LeaseLoopStops(c) \/ LeaseLoopDies(c) \/ CancellationWatch(c)
  <2>1. \A u \in TaskType : LET w == [u EXCEPT !.beating = FALSE] IN
          w.owner = u.owner /\ w.fence = u.fence /\ w.done = u.done /\ w.pc = u.pc
    BY DEF TaskType
  <2> DEFINE u == Interrupted(c)
  <2>2. u \in TaskType BY InterruptedType DEF TypeInv
  <2>3. CASE t.pc \in HandlerPC
    <3>1. u = Ended BY <2>3 DEF Interrupted, HandlerPC, TryPC
    <3>2. u.done = FALSE /\ u.pc = "ended" BY <3>1 DEF Ended, NoTask
    <3>3. ~CancellationWatch(c) BY <2>3 DEF CancellationWatch, HandlerPC, TryPC
    <3>4. CASE HeartbeatLost(c)
      <4>1. task'[c] = [u EXCEPT !.beating = FALSE]
        BY <3>4 DEF HeartbeatLost, Becomes, TypeInv, TypeOK
      <4>2. ~task'[c].done /\ task'[c].pc = "ended" BY <2>1, <2>2, <3>2, <4>1
      <4> QED BY <4>2 DEF Relies
    <3> QED BY <1>1, <1>4, <1>20, <2>1, <3>3, <3>4 DEF LeaseLoopStops, LeaseLoopDies
  <2>4. CASE t.pc \notin HandlerPC
    <3>1. /\ u.owner = t.owner /\ u.fence = t.fence /\ u.done = t.done
          /\ u.pc \in {"append", "handler", t.pc}
      BY <1>8, <2>4 DEF Interrupted, Terminal
    <3> QED BY <1>1, <1>4, <1>20, <2>1, <2>2, <3>1
            DEF HeartbeatLost, LeaseLoopStops, LeaseLoopDies, CancellationWatch
  <2> QED BY <2>3, <2>4
<1>21. CASE Heartbeat(c)
  <2>1. Becomes(c, t) BY <1>21 DEF Heartbeat, Becomes, TypeInv, TypeOK
  <2> QED BY <1>4, <2>1
<1>22. CASE \/ \E reply \in Replies : \/ AcquireRunning(c, reply) \/ MarkStreamFailed(c, reply)
                                      \/ PauseForInput(c, reply) \/ Commit(c, reply)
            \/ AcquireRefused(c) \/ EnterProducer(c) \/ ProducerReturns(c) \/ ProducerRaises(c)
            \/ PauseRefused(c) \/ ReleaseLease(c) \/ HandlerCommit(c) \/ RedisFails(c)
  BY <1>5, <1>6, <1>7, <1>22
  DEF AcquireRunning, MarkStreamFailed, PauseForInput, Commit, AcquireRefused, EnterProducer,
      ProducerReturns, ProducerRaises, PauseRefused, ReleaseLease, HandlerCommit, RedisFails
<1> QED BY <1>11, <1>12, <1>13, <1>14, <1>15, <1>16, <1>17, <1>18, <1>19, <1>20, <1>21, <1>22
        DEF Execute, Helpers

\* _CANCEL_LUA leaves a DONE of the token it moves the run to.
LEMMA CancelWritesDone ==
  ASSUME TypeInv, NEW r \in Requests, Cancel(r), Stream(r)
  PROVE  HasDone(r, run[r].fence)'
<1> DEFINE s == events[r]
<1>0. PICK f \in Nat : f = run[r].fence + 1 BY DEF TypeInv, TypeOK, RunType
<1>1. s \in Seq(EventType) /\ Len(s) \in Nat BY DEF TypeInv, TypeOK
<1>2. run'[r].fence = f BY <1>0, CancelScope
<1>3. PICK a \in EventType, b \in EventType : a = Event("error", f, None) /\ b = Event("done", f, None)
  BY EventIsTyped
<1>4. events'[r] = s \o <<a, b>> BY <1>0, <1>3 DEF Cancel, TypeInv, TypeOK
<1>5. Len(events'[r]) = Len(s) + 2 /\ events'[r][Len(s) + 2] = b BY <1>1, <1>4
<1>6. Len(s) + 2 \in 1..Len(events'[r]) BY <1>1, <1>5
<1>7. b.type = "done" /\ b.fence = f BY <1>3 DEF Event
<1>8. HasDone(r, f)' BY <1>5, <1>6, <1>7 DEF HasDone
<1> QED BY <1>2, <1>8

\* Every step keeps every note of a DONE backed by one in the stream.
LEMMA DoneStep ==
  TypeInv /\ IndexAgreement /\ TokensIssued /\ DoneBacked /\ [Next]_vars => DoneBacked'
<1> SUFFICES ASSUME TypeInv, IndexAgreement, TokensIssued, DoneBacked, [Next]_vars
             PROVE  DoneBacked'
  OBVIOUS
<1> DEFINE RunNote(r) == run[r].doneEmitted /\ Stream(r) => HasDone(r, run[r].fence)
           KeyNote(r) == \A key \in dedupe[r] : key[1] = "terminal-done" => HasDone(r, key[2])
           TaskNote(c) == Relies(c) => HasDone(c[1], run[c[1]].fence)
<1>1. \A r \in Requests : Logged(r) BY NextLogged
<1>2. /\ \A r \in Requests : RunNote(r) /\ KeyNote(r)
      /\ \A c \in Claims : TaskNote(c)
  BY DEF DoneBacked, Relies
<1>3. SUFFICES /\ \A r \in Requests : RunNote(r)' /\ KeyNote(r)'
               /\ \A c \in Claims : TaskNote(c)'
  BY DEF DoneBacked, Relies
<1>4. ASSUME NEW r \in Requests, NEW f, HasDone(r, f) PROVE HasDone(r, f)'
  BY <1>1, <1>4, HasDoneKept
<1>5. ASSUME NEW r \in Requests, run'[r].fence = run[r].fence,
             run'[r].doneEmitted = run[r].doneEmitted
      PROVE  RunNote(r)'
  BY <1>2, <1>4, <1>5
<1>6. ASSUME NEW r \in Requests, dedupe'[r] = dedupe[r] PROVE KeyNote(r)'
  BY <1>2, <1>4, <1>6
<1>7. ASSUME NEW d \in Claims, task'[d] = task[d], run'[d[1]].owner = run[d[1]].owner,
             run'[d[1]].fence = run[d[1]].fence,
             run[d[1]].status \in Terminal => run'[d[1]].status \in Terminal
      PROVE  TaskNote(d)'
  <2>1. d[1] \in Requests BY ClaimRequest
  <2>2. Relies(d)' => Relies(d) BY <1>7 DEF Relies, Owns
  <2> QED BY <1>2, <1>4, <1>7, <2>1, <2>2
<1>8. CASE UNCHANGED <<run, events, dedupe, task>>
  BY <1>5, <1>6, <1>7, <1>8
<1>9. ASSUME NEW c \in Claims, Execute(c) \/ Helpers(c)
      PROVE  /\ \A r \in Requests : RunNote(r)' /\ KeyNote(r)'
             /\ \A d \in Claims : TaskNote(d)'
  <2>1. c[1] \in Requests BY ClaimRequest
  <2>2. \A r \in Requests \ {c[1]} : RunNote(r)' /\ KeyNote(r)'
    BY <1>5, <1>6, <1>9, TaskScope DEF Untouched
  <2>3. run'[c[1]].fence = run[c[1]].fence /\ run'[c[1]].owner = run[c[1]].owner
    BY <1>9, TaskScope
  <2>4. RunNote(c[1])' BY <1>1, <1>2, <1>4, <1>9, <2>1, <2>3, StoreNotes
  <2>5. KeyNote(c[1])' BY <1>1, <1>2, <1>4, <1>9, <2>1, StoreNotes
  <2>6. TaskNote(c)' BY <1>1, <1>9, <2>1, TaskNotes
  <2>7. ASSUME NEW d \in Claims, d # c PROVE TaskNote(d)'
    <3>1. task'[d] = task[d] /\ d[1] \in Requests BY <1>9, <2>7, TaskScope, ClaimRequest
    <3>2. /\ run'[d[1]].fence = run[d[1]].fence /\ run'[d[1]].owner = run[d[1]].owner
          /\ run[d[1]].status \in Terminal => run'[d[1]].status \in Terminal
      BY <1>9, <2>3, <3>1, TaskScope DEF Untouched
    <3> QED BY <1>7, <3>1, <3>2
  <2> QED BY <2>2, <2>4, <2>5, <2>6, <2>7
\* A task that was there before the token was handed out does not have it.
<1>10. ASSUME NEW r \in Requests, run'[r].fence = run[r].fence + 1,
              NEW d \in Claims, d[1] = r, task'[d] = task[d]
       PROVE  ~Relies(d)'
  <2>1. task[d].fence <= run[r].fence BY <1>10 DEF TokensIssued, Tokened
  <2>2. task[d].fence \in Nat /\ run[r].fence \in Nat
    BY DEF TypeInv, TypeOK, TaskType, RunType
  <2>3. run'[r].fence # task'[d].fence BY <1>10, <2>1, <2>2
  <2> QED BY <1>10, <2>3 DEF Relies, Owns
<1>11. ASSUME NEW i \in Instances, NEW r \in Requests, Claimed(i, r)
       PROVE  /\ \A q \in Requests : RunNote(q)' /\ KeyNote(q)'
              /\ \A d \in Claims : TaskNote(d)'
  <2>1. \A q \in Requests : KeyNote(q)' BY <1>6, <1>11 DEF Claimed
  <2>2. \A q \in Requests : RunNote(q)' BY <1>5, <1>11 DEF Claimed
  <2>3. PICK n : n = run[r].fence + 1 OBVIOUS
  <2>4. ~Relies(<<r, n>>)'
    <3>1. task'[<<r, n>>] \in {NewClaim(i, 0), NewClaim(i, n)} BY <1>11, <2>3 DEF Claimed
    <3>2. \A f : NewClaim(i, f).done = FALSE /\ NewClaim(i, f).pc = "load"
      BY DEF NewClaim, NoTask
    <3> QED BY <3>1, <3>2 DEF Relies
  <2>5. ASSUME NEW d \in Claims, d # <<r, n>> PROVE TaskNote(d)'
    <3>1. task'[d] = task[d] /\ d[1] \in Requests
      BY <1>11, <2>3, <2>5, ClaimRequest DEF Claimed
    <3>2. CASE d[1] = r BY <1>10, <1>11, <3>1, <3>2 DEF Claimed
    <3>3. CASE d[1] # r BY <1>7, <1>11, <3>1, <3>3 DEF Claimed
    <3> QED BY <3>2, <3>3
  <2> QED BY <2>1, <2>2, <2>4, <2>5
<1>12. ASSUME NEW r \in Requests, Cancel(r)
       PROVE  /\ \A q \in Requests : RunNote(q)' /\ KeyNote(q)'
              /\ \A d \in Claims : TaskNote(d)'
  <2>1. \A q \in Requests : KeyNote(q)' BY <1>6, <1>12, CancelScope
  <2>2. \A q \in Requests \ {r} : RunNote(q)' BY <1>5, <1>12, CancelScope DEF Untouched
  <2>3. RunNote(r)' BY <1>12, CancelWritesDone
  <2>4. ASSUME NEW d \in Claims PROVE TaskNote(d)'
    <3>1. task'[d] = task[d] /\ d[1] \in Requests BY <1>12, CancelScope, ClaimRequest
    <3>2. CASE d[1] = r BY <1>10, <1>12, <3>1, <3>2, CancelScope
    <3>3. CASE d[1] # r BY <1>7, <1>12, <3>1, <3>3, CancelScope DEF Untouched
    <3> QED BY <3>2, <3>3
  <2> QED BY <2>1, <2>2, <2>3, <2>4
<1>13. ASSUME NEW r \in Requests, LeaseExpires(r)
       PROVE  /\ \A q \in Requests : RunNote(q)' /\ KeyNote(q)'
              /\ \A d \in Claims : TaskNote(d)'
  <2>1. \A q \in Requests : /\ run'[q].fence = run[q].fence /\ run'[q].owner = run[q].owner
                            /\ run'[q].status = run[q].status
                            /\ run'[q].doneEmitted = run[q].doneEmitted
    BY <1>13, ExpiryScope
  <2>2. UNCHANGED <<task, dedupe>> BY <1>13, ExpiryScope
  <2> QED BY <1>5, <1>6, <1>7, <2>1, <2>2, ClaimRequest
<1>14. ASSUME NEW i \in Instances, Shutdown(i) \/ Crash(i)
       PROVE  /\ \A q \in Requests : RunNote(q)' /\ KeyNote(q)'
              /\ \A d \in Claims : TaskNote(d)'
  <2>1. UNCHANGED <<run, dedupe, events>> BY <1>14, ProcessScope DEF store
  <2>2. ASSUME NEW d \in Claims, Relies(d)' PROVE Relies(d)
    <3>1. task'[d] \in {task[d], Interrupted(d), Ended} BY <1>14, ProcessScope
    <3>2. task[d] \in TaskType BY DEF TypeInv, TypeOK
    <3>3. \/ Interrupted(d) = Ended
          \/ /\ Interrupted(d).owner = task[d].owner /\ Interrupted(d).fence = task[d].fence
             /\ Interrupted(d).done = task[d].done
             /\ Interrupted(d).pc \in {"append", "handler", task[d].pc}
      BY <3>2 DEF Interrupted, Unwinding, TaskType
    <3>4. Ended.done = FALSE /\ Ended.pc = "ended" BY DEF Ended, NoTask
    <3> QED BY <2>1, <2>2, <3>1, <3>3, <3>4 DEF Relies, Owns
  <2>3. \A d \in Claims : TaskNote(d)' BY <1>2, <1>4, <2>1, <2>2, ClaimRequest
  <2> QED BY <1>5, <1>6, <2>1, <2>3
<1> QED BY <1>8, <1>9, <1>11, <1>12, <1>13, <1>14, StartScope DEF Next, vars

-----------------------------------------------------------------------------
(* The theorems                                                             *)

RegistryInv == TypeInv /\ IndexAgreement /\ TokensIssued

\* The invariant holds along every behaviour of the registry.
LEMMA RegistryInvariant == Spec => []RegistryInv
<1>1. Init => RegistryInv
  <2>1. Init => TypeInv /\ IndexAgreement
    BY TypeInitial DEF Init, IndexAgreement, Indexed, Pending
  <2>2. Init => TokensIssued
    <3> SUFFICES ASSUME Init PROVE TokensIssued OBVIOUS
    <3>1. \A c \in Claims : task[c] = NoTask BY DEF Init
    <3>2. \A r \in Requests : run[r].fence = 0 /\ run[r].doneEmitted = FALSE BY DEF Init
    <3>3. Tokened(NoTask, 0) BY DEF Tokened, NoTask, NoEvent, Event
    <3> QED BY <3>1, <3>2, <3>3, ClaimRequest DEF TokensIssued
  <2> QED BY <2>1, <2>2 DEF RegistryInv
<1>2. RegistryInv /\ [Next]_vars => RegistryInv'
  BY TypeStep, IndexStep, TokensStep DEF RegistryInv
<1> QED BY <1>1, <1>2, PTL DEF Spec

\* Along every stream the fencing tokens never decrease: once a takeover, a resume
\* or a cancellation has written, _APPEND_EVENT_LUA refuses every older producer.
THEOREM FencesCorrect == Spec => []FencesOrdered
<1>1. Init => FencesOrdered BY DEF Init, FencesOrdered
<1>2. RegistryInv /\ FencesOrdered /\ [Next]_vars => FencesOrdered'
  BY FencesStep DEF RegistryInv
<1> QED BY <1>1, <1>2, RegistryInvariant, PTL DEF Spec

\* A stream whose run is terminal holds a DONE of the final token, on every path
\* to a terminal status (commit, the four handlers, user cancellation).
THEOREM TerminalDone == Spec => []TerminalStreamHasDone
<1>1. Init => DoneBacked /\ TerminalStreamHasDone
  BY ConstantsAssumption, ClaimRequest
  DEF Init, DoneBacked, TerminalStreamHasDone, NoTask, Terminal
<1>2. RegistryInv /\ DoneBacked /\ [Next]_vars => DoneBacked' BY DoneStep DEF RegistryInv
<1>3. RegistryInv /\ DoneBacked /\ TerminalStreamHasDone /\ [Next]_vars => TerminalStreamHasDone'
  <2> SUFFICES ASSUME RegistryInv, DoneBacked, TerminalStreamHasDone, [Next]_vars,
                      NEW r \in StreamRequests, run'[r].status \in Terminal
               PROVE  HasDone(r, run[r].fence)'
    BY DEF TerminalStreamHasDone
  <2>0. TypeInv /\ IndexAgreement /\ TokensIssued BY DEF RegistryInv
  <2>1. r \in Requests /\ Stream(r) BY ConstantsAssumption DEF Stream
  <2>2. ASSUME HasDone(r, run[r].fence), run'[r].fence = run[r].fence
        PROVE  HasDone(r, run[r].fence)'
    <3>1. PICK f : f = run[r].fence OBVIOUS
    <3> QED BY <2>0, <2>1, <2>2, <3>1, HasDoneKept, NextLogged
  <2>3. ASSUME run'[r].status = run[r].status, run'[r].fence = run[r].fence
        PROVE  HasDone(r, run[r].fence)'
    BY <2>2, <2>3 DEF TerminalStreamHasDone
  <2>4. ASSUME NEW c \in Claims, Execute(c) \/ Helpers(c) PROVE HasDone(r, run[r].fence)'
    <3>1. CASE c[1] # r BY <2>0, <2>1, <2>3, <2>4, <3>1, TaskScope DEF Untouched
    <3>2. CASE c[1] = r /\ run[r].status \in Terminal
      BY <2>0, <2>1, <2>3, <2>4, <3>2, TaskScope DEF Untouched
    <3>3. CASE c[1] = r /\ run[r].status \notin Terminal
      <4>1. /\ run'[r].fence = run[r].fence
            /\ task[c].pc \in {"commit", "h_commit"} /\ Owns(task[c], r)
        BY <2>0, <2>1, <2>4, <3>3, TaskScope DEF Untouched
      <4>2. HasDone(r, run[r].fence) BY <2>1, <3>3, <4>1 DEF DoneBacked
      <4> QED BY <2>2, <4>1, <4>2
    <3> QED BY <3>1, <3>2, <3>3
  <2>5. ASSUME NEW i \in Instances, NEW q \in Requests, Claimed(i, q)
        PROVE  HasDone(r, run[r].fence)'
    BY <2>1, <2>3, <2>5 DEF Claimed, Terminal
  <2>6. ASSUME NEW q \in Requests, Cancel(q) PROVE HasDone(r, run[r].fence)'
    <3>1. CASE q = r BY <2>0, <2>1, <2>6, <3>1, CancelWritesDone
    <3>2. CASE q # r BY <2>0, <2>1, <2>3, <2>6, <3>2, CancelScope DEF Untouched
    <3> QED BY <3>1, <3>2
  <2>7. ASSUME NEW q \in Requests, LeaseExpires(q) PROVE HasDone(r, run[r].fence)'
    BY <2>0, <2>1, <2>3, <2>7, ExpiryScope
  <2>8. ASSUME UNCHANGED run PROVE HasDone(r, run[r].fence)' BY <2>3, <2>8
  <2> QED BY <2>0, <2>4, <2>5, <2>6, <2>7, <2>8, StartScope, ProcessScope DEF Next, vars, store
<1> QED BY <1>1, <1>2, <1>3, RegistryInvariant, PTL DEF Spec

\* No step changes the hash or the stream of a terminal run.
LEMMA TerminalKept ==
  ASSUME RegistryInv, [Next]_vars, NEW r \in Requests, run[r].status \in Terminal
  PROVE  run'[r] = run[r] /\ events'[r] = events[r]
<1>0. TypeInv /\ IndexAgreement /\ TokensIssued BY DEF RegistryInv
<1>1. ASSUME NEW c \in Claims, Execute(c) \/ Helpers(c)
      PROVE  run'[r] = run[r] /\ events'[r] = events[r]
  BY <1>0, <1>1, TaskScope DEF Untouched
<1>2. ASSUME NEW i \in Instances, NEW q \in Requests, Claimed(i, q)
      PROVE  run'[r] = run[r] /\ events'[r] = events[r]
  BY <1>2 DEF Claimed
<1>3. ASSUME NEW q \in Requests, Cancel(q) PROVE run'[r] = run[r] /\ events'[r] = events[r]
  BY <1>0, <1>3, CancelScope DEF Untouched
<1>4. ASSUME NEW q \in Requests, LeaseExpires(q)
      PROVE  run'[r] = run[r] /\ events'[r] = events[r]
  BY <1>0, <1>4, ExpiryScope DEF Pending, Terminal
<1>5. CASE UNCHANGED vars BY <1>5 DEF vars
<1> QED BY <1>0, <1>1, <1>2, <1>3, <1>4, <1>5, StartScope, ProcessScope DEF Next, store

\* Once terminal, a run's hash and stream never change: every script that writes
\* them checks the status, a heartbeat and an expiry find no lease.
THEOREM TerminalFinal == Spec => TerminalIsFinal
<1>1. RegistryInv /\ [Next]_vars =>
        [\A r \in Requests :
           run[r].status \in Terminal => run'[r] = run[r] /\ events'[r] = events[r]]_vars
  BY TerminalKept
<1> QED BY <1>1, RegistryInvariant, PTL DEF Spec, TerminalIsFinal

\* A task that was fenced off changes nothing of its run any more: hash, stream
\* and dedupe hash stay as they are in each of its steps.
THEOREM StaleFenced == Spec => StaleTaskFenced
<1>1. RegistryInv /\ [Next]_vars =>
        [\A c \in Claims :
           task'[c] # task[c] /\ task[c].pc # "none" /\ ~Owns(task[c], c[1])
             => /\ run'[c[1]] = run[c[1]] /\ events'[c[1]] = events[c[1]]
                /\ dedupe'[c[1]] = dedupe[c[1]]]_vars
  <2> SUFFICES ASSUME RegistryInv, Next, NEW c \in Claims, task'[c] # task[c],
                      task[c].pc # "none", ~Owns(task[c], c[1])
               PROVE  Untouched(c[1])
    BY DEF Untouched
  <2>0. TypeInv /\ IndexAgreement /\ TokensIssued BY DEF RegistryInv
  <2>1. ASSUME NEW d \in Claims, Execute(d) \/ Helpers(d) PROVE Untouched(c[1])
    BY <2>0, <2>1, TaskScope
  <2>2. ASSUME NEW i \in Instances, NEW q \in Requests, Claimed(i, q) PROVE FALSE
    BY <2>2 DEF Claimed, NoTask
  <2>3. ASSUME NEW q \in Requests, Cancel(q) \/ LeaseExpires(q) PROVE FALSE
    BY <2>3 DEF Cancel, LeaseExpires
  <2> QED BY <2>0, <2>1, <2>2, <2>3, StartScope, ProcessScope DEF Next, store, Untouched
<1> QED BY <1>1, RegistryInvariant, PTL DEF Spec, StaleTaskFenced

-----------------------------------------------------------------------------
(* The keyed events                                                         *)

\* Every AHE event in a stream has its key in the dedupe hash.
Keyed(r) == \A k \in 1..Len(events[r]) :
              events[r][k].type = "ahe" => AheKey(events[r][k].ref) \in dedupe[r]

Once(r) == \A j, k \in 1..Len(events[r]) :
             events[r][j].type = "ahe" /\ events[r][k].type = "ahe"
               /\ events[r][j].ref = events[r][k].ref => j = k

\* How a step may change a stream and its keys: nothing is forgotten, and an AHE
\* event comes with its key, which was not there before.
KeyedGrowth(r) ==
  /\ dedupe[r] \subseteq dedupe'[r]
  /\ \/ events'[r] = events[r]
     \/ \E e \in EventType :
          /\ events'[r] = Append(events[r], e)
          /\ e.type = "ahe" => AheKey(e.ref) \in dedupe'[r] \ dedupe[r]
     \/ \E a, b \in EventType :
          /\ events'[r] = events[r] \o <<a, b>>
          /\ a.type # "ahe" /\ b.type # "ahe"

\* _APPEND_EVENT_LUA looks the key up and records it in one script.
LEMMA ScriptKeyed ==
  ASSUME TypeInv, NEW c \in Claims, NEW e \in EventType, NEW keys, AppendScript(c, e, keys),
         e.type = "ahe" => AheKey(e.ref) \in keys
  PROVE  KeyedGrowth(c[1])
<1> DEFINE r == c[1]
<1>1. /\ r \in Requests /\ dedupe \in [Requests -> SUBSET Keys]
      /\ events \in [Requests -> Seq(EventType)]
  BY ClaimRequest DEF TypeInv, TypeOK
<1>2. CASE UNCHANGED <<run, events, dedupe>> BY <1>2 DEF KeyedGrowth
<1>3. CASE /\ keys \intersect dedupe[r] = {}
           /\ events' = [events EXCEPT ![r] = Append(events[r], e)]
           /\ dedupe' = [dedupe EXCEPT ![r] = dedupe[r] \union keys]
  <2>1. events'[r] = Append(events[r], e) /\ dedupe'[r] = dedupe[r] \union keys
    BY <1>1, <1>3
  <2>2. e.type = "ahe" => AheKey(e.ref) \in dedupe'[r] \ dedupe[r] BY <1>3, <2>1
  <2> QED BY <2>1, <2>2 DEF KeyedGrowth
<1> QED BY <1>2, <1>3 DEF AppendScript

\* So does every script of a task that writes to the stream.
LEMMA TaskKeyed ==
  ASSUME TypeInv, NEW c \in Claims, Execute(c) \/ Helpers(c)
  PROVE  \A r \in Requests : KeyedGrowth(r)
<1> DEFINE r == c[1]
           t == task[c]
<1>0. r \in Requests /\ t \in TaskType /\ t.event \in EventType /\ t.fence \in Nat
  BY ClaimRequest DEF TypeInv, TypeOK, TaskType
<1>1. \A q \in Requests \ {r} : KeyedGrowth(q) BY TaskScope DEF Untouched, KeyedGrowth
<1> SUFFICES KeyedGrowth(r) BY <1>1
<1>2. UNCHANGED <<events, dedupe>> => KeyedGrowth(r) BY DEF KeyedGrowth
<1>3. CASE \E reply \in Replies : AppendEvent(c, reply)
  <2> DEFINE e == t.event
             keys == EventKeys(e)
  <2>1. AppendScript(c, e, keys) \/ UNCHANGED <<events, dedupe>> BY <1>3 DEF AppendEvent
  <2>2. e.type = "ahe" => AheKey(e.ref) \in keys BY <1>0, EventKeysTyped
  <2> HIDE DEF keys
  <2> QED BY <1>0, <1>2, <2>1, <2>2, ScriptKeyed
<1>4. CASE \E reply \in Replies : FinishDone(c, reply) \/ HandlerError(c, reply)
                                  \/ HandlerDone(c, reply)
  <2>1. \A ty \in {"error", "done"} :
          Event(ty, t.fence, None) \in EventType /\ Event(ty, t.fence, None).type = ty
    BY <1>0, EventIsTyped DEF Event
  <2>2. \/ UNCHANGED <<events, dedupe>>
        \/ \E ty \in {"error", "done"} : \E keys : AppendScript(c, Event(ty, t.fence, None), keys)
    BY <1>4 DEF FinishDone, HandlerError, HandlerDone
  <2> QED BY <1>2, <2>1, <2>2, ScriptKeyed
<1>5. CASE \E reply \in Replies : PauseForInput(c, reply)
  <2>1. /\ t.event.type = "input"
        /\ events' = [events EXCEPT ![r] = Append(@, t.event)]
        /\ \E key : dedupe' = [dedupe EXCEPT ![r] = @ \union {key}]
    BY <1>5 DEF PauseForInput
  <2> QED BY <1>0, <2>1 DEF KeyedGrowth, TypeInv, TypeOK
<1> QED
  BY <1>2, <1>3, <1>4, <1>5
  DEF Execute, Helpers, LoadHandle, AcquireRunning, AcquireRefused, EnterProducer,
      ProducerYields, ProducerReturns, ProducerRaises, MarkStreamFailed, PauseRefused, Timeout,
      Refresh, Commit, ReleaseLease, Handler, HandlerCommit, RedisFails, Heartbeat,
      LeaseLoopStops, HeartbeatLost, LeaseLoopDies, CancellationWatch, store

\* And every other step.
LEMMA NextKeyed ==
  ASSUME TypeInv, IndexAgreement, TokensIssued, [Next]_vars
  PROVE  \A r \in Requests : KeyedGrowth(r)
<1>1. UNCHANGED <<events, dedupe>> => \A r \in Requests : KeyedGrowth(r) BY DEF KeyedGrowth
<1>2. ASSUME NEW q \in Requests, Cancel(q) PROVE \A r \in Requests : KeyedGrowth(r)
  <2> DEFINE f == run[q].fence + 1
             a == Event("error", f, None)
             b == Event("done", f, None)
  <2>1. f \in Nat BY DEF TypeInv, TypeOK, RunType
  <2>2. /\ a \in EventType /\ b \in EventType /\ a.type # "ahe" /\ b.type # "ahe"
    BY <2>1, EventIsTyped DEF Event
  <2>3. /\ dedupe' = dedupe
        /\ events' = events \/ events' = [events EXCEPT ![q] = events[q] \o <<a, b>>]
    BY <1>2 DEF Cancel
  <2>4. \A r \in Requests \ {q} : events'[r] = events[r] BY <2>3 DEF TypeInv, TypeOK
  <2>5. events'[q] = events[q] \/ events'[q] = events[q] \o <<a, b>>
    BY <2>3 DEF TypeInv, TypeOK
  <2> HIDE DEF a, b
  <2> QED BY <2>2, <2>3, <2>4, <2>5 DEF KeyedGrowth
<1>3. ASSUME NEW i \in Instances, NEW q \in Requests, Claimed(i, q)
      PROVE  UNCHANGED <<events, dedupe>>
  BY <1>3 DEF Claimed
<1>4. ASSUME NEW q \in Requests, LeaseExpires(q) PROVE UNCHANGED <<events, dedupe>>
  BY <1>4 DEF LeaseExpires
<1> QED BY <1>1, <1>2, <1>3, <1>4, StartScope, TaskKeyed, ProcessScope DEF Next, vars, store

\* A stream that grows this way keeps each AHE event single.
LEMMA AheStep ==
  ASSUME TypeInv, NEW r \in Requests, Keyed(r), Once(r), KeyedGrowth(r)
  PROVE  Keyed(r)' /\ Once(r)'
<1> DEFINE s == events[r]
<1>1. s \in Seq(EventType) /\ Len(s) \in Nat BY DEF TypeInv, TypeOK
<1>2. CASE events'[r] = s BY <1>2 DEF KeyedGrowth, Keyed, Once
<1>3. ASSUME NEW e \in EventType, events'[r] = Append(s, e),
             e.type = "ahe" => AheKey(e.ref) \in dedupe'[r] \ dedupe[r]
      PROVE  Keyed(r)' /\ Once(r)'
  <2>1. /\ Len(events'[r]) = Len(s) + 1 /\ events'[r][Len(s) + 1] = e
        /\ \A k \in 1..Len(s) : events'[r][k] = s[k]
    BY <1>1, <1>3
  <2>2. \A k \in 1..Len(events'[r]) : k = Len(s) + 1 \/ k \in 1..Len(s) BY <1>1, <2>1
  <2>3. Keyed(r)' BY <1>3, <2>1, <2>2 DEF KeyedGrowth, Keyed
  <2>4. ASSUME NEW k \in 1..Len(s), s[k].type = "ahe", e.type = "ahe" PROVE s[k].ref # e.ref
    BY <1>3, <2>4 DEF Keyed
  <2>5. Once(r)' BY <2>1, <2>2, <2>4 DEF Once
  <2> QED BY <2>3, <2>5
<1>4. ASSUME NEW a \in EventType, NEW b \in EventType, events'[r] = s \o <<a, b>>,
             a.type # "ahe", b.type # "ahe"
      PROVE  Keyed(r)' /\ Once(r)'
  <2>1. /\ Len(events'[r]) = Len(s) + 2
        /\ events'[r][Len(s) + 1] = a /\ events'[r][Len(s) + 2] = b
        /\ \A k \in 1..Len(s) : events'[r][k] = s[k]
    BY <1>1, <1>4
  <2>2. \A k \in 1..Len(events'[r]) : k \in {Len(s) + 1, Len(s) + 2} \/ k \in 1..Len(s)
    BY <1>1, <2>1
  <2>3. Keyed(r)' BY <1>4, <2>1, <2>2 DEF KeyedGrowth, Keyed
  <2>4. Once(r)' BY <1>4, <2>1, <2>2 DEF Once
  <2> QED BY <2>3, <2>4
<1> QED BY <1>2, <1>3, <1>4 DEF KeyedGrowth

\* A keyed AHE event is in a stream once, however many executions of the run
\* emit it again.
THEOREM AheOnce == Spec => []AheEventOnce
<1> DEFINE Inv == \A r \in Requests : Keyed(r) /\ Once(r)
<1>1. Init => Inv BY DEF Init, Keyed, Once
<1>2. RegistryInv /\ Inv /\ [Next]_vars => Inv' BY NextKeyed, AheStep DEF RegistryInv
<1>3. Inv => AheEventOnce BY DEF AheEventOnce, Once
<1> QED BY <1>1, <1>2, <1>3, RegistryInvariant, PTL DEF Spec

-----------------------------------------------------------------------------
(* The statuses of the runs                                                 *)


\* No run changes its status or its token.
NoneMoves ==
  /\ \A q \in Requests : run'[q].status = run[q].status /\ run'[q].fence = run[q].fence
  /\ UNCHANGED metrics

\* How a run may change its status.
Moves(r) ==
  LET old == run[r].status  new == run'[r].status
      kept == run'[r].fence = run[r].fence
      fenced == run'[r].fence = run[r].fence + 1 IN
  \/ old = "absent" /\ new = "queued" /\ fenced
  \/ old = "queued" /\ new = "running" /\ kept
  \/ old \in Pending \union {"waiting_for_input"} /\ new = "queued" /\ fenced
  \/ old = "running" /\ new = "waiting_for_input" /\ kept
  \/ /\ kept
     /\ \E c \in Claims : /\ c[1] = r /\ Commits(c) /\ task[c].pc \in {"commit", "h_commit"}
                          /\ new = task[c].target /\ new \in Terminal
  \/ old \in Pending \union {"waiting_for_input"} /\ new = "cancelled" /\ fenced

OneMoves(r) ==
  /\ \A q \in Requests \ {r} : run'[q].status = run[q].status /\ run'[q].fence = run[q].fence
  /\ metrics' = Moved(run[r].status, run'[r].status)
  /\ Moves(r)

\* Of a task's scripts only the acquisition of a slot, the pause and the commits
\* touch the status of its run.
LEMMA TaskStatus ==
  ASSUME TypeInv, NEW c \in Claims, Execute(c) \/ Helpers(c)
  PROVE  LET old == run[c[1]].status  new == run'[c[1]].status IN
         \/ old = new /\ UNCHANGED metrics
         \/ /\ \E reply \in Replies : AcquireRunning(c, reply)
            /\ old = "queued" /\ new = "running" /\ metrics' = Moved(old, new)
         \/ /\ \E reply \in Replies : PauseForInput(c, reply)
            /\ old = "running" /\ new = "waiting_for_input" /\ metrics' = Moved(old, new)
         \/ /\ Commits(c) /\ task[c].pc \in {"commit", "h_commit"}
            /\ new = task[c].target /\ new \in Terminal /\ metrics' = Moved(old, new)
<1> DEFINE r == c[1]
<1>0. r \in Requests /\ run[r] \in RunType BY ClaimRequest DEF TypeInv, TypeOK
<1>3. ASSUME NEW hash, HSet(r, hash) PROVE run'[r] = hash
  BY <1>0, <1>3 DEF HSet, TypeInv, TypeOK
<1>4. CASE \E reply \in Replies : AcquireRunning(c, reply)
  <2> DEFINE h == [run[r] EXCEPT !.status = "running", !.lease = TRUE]
  <2>1. HSet(r, h) /\ metrics' = Moved("queued", "running") /\ run[r].status = "queued"
    BY <1>4 DEF AcquireRunning, Ready
  <2>2. run'[r].status = "running" BY <1>0, <1>3, <2>1 DEF RunType
  <2> QED BY <1>4, <2>1, <2>2
<1>5. CASE \E reply \in Replies : PauseForInput(c, reply)
  <2> DEFINE h == [run[r] EXCEPT !.status = "waiting_for_input", !.lease = FALSE,
                                 !.interaction = task[c].event.ref]
  <2>1. /\ HSet(r, h) /\ metrics' = Moved("running", "waiting_for_input")
        /\ run[r].status = "running"
    BY <1>5 DEF PauseForInput
  <2>2. run'[r].status = "waiting_for_input" BY <1>0, <1>3, <2>1 DEF RunType
  <2> QED BY <1>5, <2>1, <2>2
<1>6. CASE (\E reply \in Replies : Commit(c, reply)) \/ HandlerCommit(c)
  <2> DEFINE h == [run[r] EXCEPT !.status = task[c].target, !.lease = FALSE]
  <2>1. /\ task[c].pc \in {"commit", "h_commit"}
        /\ \/ Commits(c) /\ HSet(r, h) /\ metrics' = Moved(run[r].status, task[c].target)
           \/ UNCHANGED <<run, metrics>>
    BY <1>6 DEF Commit, HandlerCommit, At, Transition
  <2>2. task[c].target \in Terminal
    BY <2>1 DEF TypeInv, TasksOK, TargetSet, HandlerPC
  <2>3. HSet(r, h) => run'[r].status = task[c].target BY <1>0, <1>3 DEF RunType
  <2>4. CASE Commits(c) /\ HSet(r, h) /\ metrics' = Moved(run[r].status, task[c].target)
    BY <2>1, <2>2, <2>3, <2>4
  <2> QED BY <2>1, <2>4
<1>7. CASE \E reply \in Replies :
             \/ MarkStreamFailed(c, reply) \/ AppendEvent(c, reply) \/ FinishDone(c, reply)
             \/ HandlerError(c, reply) \/ HandlerDone(c, reply)
  <2>1. UNCHANGED metrics
    BY <1>7 DEF MarkStreamFailed, AppendEvent, FinishDone, HandlerError, HandlerDone
  <2>2. run'[r].status = run[r].status BY <1>0, <1>7, QuietSteps
  <2> QED BY <2>1, <2>2
<1>8. CASE ReleaseLease(c) \/ Heartbeat(c)
  <2>1. \A b \in BOOLEAN : [run[r] EXCEPT !.lease = b].status = run[r].status
    BY <1>0 DEF RunType
  <2>2. UNCHANGED metrics
        /\ (UNCHANGED run \/ \E b \in BOOLEAN : HSet(r, [run[r] EXCEPT !.lease = b]))
    BY <1>8 DEF ReleaseLease, Heartbeat
  <2>3. run'[r].status = run[r].status BY <1>3, <2>1, <2>2
  <2> QED BY <2>2, <2>3
<1>9. CASE UNCHANGED store BY <1>9 DEF store
<1> QED BY <1>4, <1>5, <1>6, <1>7, <1>8, <1>9
  DEF Execute, Helpers, LoadHandle, AcquireRefused, EnterProducer, ProducerYields,
      ProducerReturns, ProducerRaises, PauseRefused, Timeout, Refresh, Handler, RedisFails,
      LeaseLoopStops, HeartbeatLost, LeaseLoopDies, CancellationWatch

\* A task's script moves its own run or none.
LEMMA TaskMoves ==
  ASSUME TypeInv, TokensIssued, NEW c \in Claims, Execute(c) \/ Helpers(c)
  PROVE  NoneMoves \/ OneMoves(c[1])
<1>1. /\ \A q \in Requests \ {c[1]} :
           run'[q].status = run[q].status /\ run'[q].fence = run[q].fence
      /\ run'[c[1]].fence = run[c[1]].fence
  BY TaskScope DEF Untouched
<1>2. c[1] \in Requests BY ClaimRequest
<1> QED BY <1>1, <1>2, TaskStatus DEF NoneMoves, OneMoves, Moves

\* Every step moves at most one run.
LEMMA StatusStep ==
  ASSUME TypeInv, IndexAgreement, TokensIssued, [Next]_vars
  PROVE  NoneMoves \/ \E r \in Requests : OneMoves(r)
<1>1. ASSUME NEW i \in Instances, NEW r \in Requests,
             \/ Create(i, r) \/ TakeOver(i, r)
             \/ \E q \in Responses, v \in Interactions : Resume(i, r, q, v)
      PROVE  OneMoves(r)
  <2>1. Claimed(i, r) BY <1>1, StartScope
  <2>2. /\ run'[r].fence = run[r].fence + 1 /\ run'[r].status = "queued"
        /\ \A q \in Requests \ {r} : run'[q] = run[q]
    BY <2>1 DEF Claimed
  <2>3. /\ metrics' = Moved(run[r].status, "queued")
        /\ run[r].status \in {"absent", "waiting_for_input"} \union Pending
    BY <1>1 DEF Create, TakeOver, Orphaned, Resume, Resumable
  <2> QED BY <2>2, <2>3 DEF OneMoves, Moves
<1>2. ASSUME NEW r \in Requests, Cancel(r) PROVE OneMoves(r)
  <2>1. /\ run'[r].fence = run[r].fence + 1 /\ run'[r].status = "cancelled"
        /\ \A q \in Requests \ {r} : run'[q] = run[q]
    BY <1>2, CancelScope DEF Untouched
  <2>2. /\ metrics' = Moved(run[r].status, "cancelled")
        /\ run[r].status \in Pending \union {"waiting_for_input"}
    BY <1>2 DEF Cancel
  <2> QED BY <2>1, <2>2 DEF OneMoves, Moves
<1>3. ASSUME NEW r \in Requests, LeaseExpires(r) PROVE NoneMoves
  <2>1. UNCHANGED metrics BY <1>3 DEF LeaseExpires
  <2> QED BY <1>3, <2>1, ExpiryScope DEF NoneMoves
<1>4. CASE UNCHANGED store BY <1>4 DEF NoneMoves, store
<1> QED BY <1>1, <1>2, <1>3, <1>4, TaskMoves, ClaimRequest, ProcessScope DEF Next, vars, store

-----------------------------------------------------------------------------
(* The counters *)

\* The runs in a status, before and after one run moves.
InStatus(s) == {r \in Requests : run[r].status = s}

LEMMA CountersStep ==
  TypeInv /\ IndexAgreement /\ TokensIssued /\ CountersAgree /\ [Next]_vars => CountersAgree'
<1> SUFFICES ASSUME TypeInv, IndexAgreement, TokensIssued, CountersAgree, [Next]_vars
             PROVE  CountersAgree'
  OBVIOUS
<1>0. \A s : IsFiniteSet(InStatus(s)) /\ Cardinality(InStatus(s)) \in Nat
  BY FiniteAssumption, FS_Subset, FS_CardinalityType DEF InStatus
<1>1. \A s \in Recorded : metrics[s] = Cardinality(InStatus(s))
  BY DEF CountersAgree, InStatus
<1>2. CASE NoneMoves
  <2>1. \A s : InStatus(s)' = InStatus(s) BY <1>2 DEF NoneMoves, InStatus
  <2>2. UNCHANGED metrics BY <1>2 DEF NoneMoves
  <2> QED BY <1>1, <2>1, <2>2 DEF CountersAgree, InStatus
<1>3. ASSUME NEW r \in Requests, OneMoves(r) PROVE CountersAgree'
  <2> DEFINE old == run[r].status
             new == run'[r].status
  <2>1. \A q \in Requests \ {r} : run'[q].status = run[q].status BY <1>3 DEF OneMoves
  <2>2. SUFFICES ASSUME NEW s \in Recorded PROVE metrics'[s] = Cardinality(InStatus(s)')
    BY DEF CountersAgree, InStatus
  <2>3. metrics'[s] = metrics[s] + (IF s = new THEN 1 ELSE 0) - (IF s = old THEN 1 ELSE 0)
    BY <1>3 DEF OneMoves, Moved
  <2>4. metrics[s] = Cardinality(InStatus(s)) /\ Cardinality(InStatus(s)) \in Nat
    BY <1>0, <1>1
  <2>5. CASE s = new /\ s # old
    <3>1. InStatus(s)' = InStatus(s) \union {r} /\ r \notin InStatus(s)
      BY <2>1, <2>5 DEF InStatus
    <3>2. Cardinality(InStatus(s)') = Cardinality(InStatus(s)) + 1
      BY <1>0, <3>1, FS_AddElement
    <3> QED BY <2>3, <2>4, <2>5, <3>2
  <2>6. CASE s = old /\ s # new
    <3>1. InStatus(s)' = InStatus(s) \ {r} /\ r \in InStatus(s)
      BY <2>1, <2>6 DEF InStatus
    <3>2. Cardinality(InStatus(s)') = Cardinality(InStatus(s)) - 1
      BY <1>0, <3>1, FS_RemoveElement
    <3> QED BY <2>3, <2>4, <2>6, <3>2
  <2>7. CASE (s = old) <=> (s = new)
    <3>1. InStatus(s)' = InStatus(s) BY <2>1, <2>7 DEF InStatus
    <3> QED BY <2>3, <2>4, <2>7, <3>1
  <2> QED BY <2>5, <2>6, <2>7
<1> QED BY <1>2, <1>3, StatusStep

\* Each status counter is the number of runs in that status, through takeovers,
\* pauses, cancellations and late commits, with or without timely processes.
THEOREM CountersCorrect == Spec => []CountersAgree
<1>1. Init => CountersAgree
  <2> SUFFICES ASSUME Init, NEW s \in Recorded
               PROVE  metrics[s] = Cardinality({r \in Requests : run[r].status = s})
    BY DEF CountersAgree
  <2>1. {r \in Requests : run[r].status = s} = {} BY DEF Init, Recorded, Pending, Terminal
  <2> QED BY <2>1, FS_EmptySet DEF Init
<1>2. RegistryInv /\ CountersAgree /\ [Next]_vars => CountersAgree'
  BY CountersStep DEF RegistryInv
<1> QED BY <1>1, <1>2, RegistryInvariant, PTL DEF Spec

-----------------------------------------------------------------------------
(* Who is in charge of a run, when processes are timely                     *)

Executing == TryPC \union HandlerPC

\* The only places where the task in charge can be while its run waits for a
\* human, and while it has no slot yet; only an execution that ran completes or
\* times out.
Held  == {"tail", "refresh", "handler"}
Early == {"slot"} \union HandlerPC
Late  == {"completed", "timed_out"}

\* A task that will read, or holds, the owner and token of its run.
InCharge(c) == task[c].pc = "load" \/ (Owns(task[c], c[1]) /\ task[c].pc \in Executing)

OneInCharge == \A c, d \in Claims : c[1] = d[1] /\ InCharge(c) /\ InCharge(d) => c = d

AttendedHeld == \A r \in Requests : run[r].status \in Pending /\ Attended(r) => run[r].lease

Stage(c) ==
  /\ task[c].beating => task[c].pc \in Executing
  /\ task[c].pc = "load" => task[c].target = "none"
  /\ run[c[1]].status = "waiting_for_input" =>
       /\ task[c].pc # "load"
       /\ Owns(task[c], c[1]) /\ task[c].pc \in Executing => task[c].pc \in Held
  /\ run[c[1]].status = "queued" /\ Owns(task[c], c[1]) /\ task[c].pc \in Executing =>
       task[c].pc \in Early /\ task[c].target \notin Late

TaskStages == \A c \in Claims : Stage(c)

TimelyInv == OneInCharge /\ AttendedHeld /\ TaskStages

\* How one step may change a task that exists.
Path(c) ==
  LET t == task[c]  u == task'[c]  r == c[1] IN
  \/ u = t
  \/ u = Ended
  \/ t.pc = "load" /\ u.pc = "slot" /\ u.owner = t.owner /\ u.target = t.target
  \/ /\ t.pc \in Executing /\ u.pc \in Executing
     /\ u.owner = t.owner /\ u.fence = t.fence /\ (u.beating => t.beating)
     /\ run[r].status = "waiting_for_input" /\ t.pc \in Held => u.pc \in Held
     /\ /\ run'[r].status = "queued" /\ Owns(t, r)
        /\ t.pc \in Early /\ t.target \notin Late
        => u.pc \in Early /\ u.target \notin Late

\* A CancelledError or a timeout in the try body, and the end of a process.
LEMMA UnwindingPath ==
  ASSUME TypeInv, NEW c \in Claims, NEW target \in {"cancelled", "timed_out"},
         task[c].pc \in TryPC, task'[c] = Unwinding(c, target),
         target = "timed_out" => task[c].pc # "slot"
  PROVE  Path(c)
<1> DEFINE t == task[c]
           done == Event("done", t.fence, None)
           a == [t EXCEPT !.pc = "append", !.target = target, !.event = done]
           h == [t EXCEPT !.pc = "handler", !.target = target, !.event = NoEvent]
<1>1. t \in TaskType BY DEF TypeInv, TypeOK
<1> HIDE DEF done
<1>2. /\ a.pc = "append" /\ a.owner = t.owner /\ a.fence = t.fence /\ a.beating = t.beating
      /\ h.pc = "handler" /\ h.owner = t.owner /\ h.fence = t.fence /\ h.beating = t.beating
      /\ h.target = target
  BY <1>1 DEF TaskType
<1>3. (task'[c] = a /\ t.pc = "produce") \/ task'[c] = h BY DEF Unwinding, done
<1> HIDE DEF a, h
<1> QED BY <1>2, <1>3 DEF Path, Executing, TryPC, HandlerPC, Held, Early, Late

LEMMA InterruptedPath ==
  ASSUME TypeInv, NEW c \in Claims, task'[c] = Interrupted(c)
  PROVE  Path(c)
<1>1. CASE task[c].pc \in TryPC
  <2>1. task'[c] = Unwinding(c, "cancelled") BY <1>1 DEF Interrupted
  <2> QED BY <1>1, <2>1, UnwindingPath
<1>2. CASE task[c].pc \notin TryPC BY <1>2 DEF Interrupted, Path
<1> QED BY <1>1, <1>2

\* A task's own step.
LEMMA TaskPath ==
  ASSUME TypeInv, NEW c \in Claims, Execute(c) \/ Helpers(c)
  PROVE  Path(c)
<1> DEFINE t == task[c]
           r == c[1]
           Fits(step, target) ==
             /\ t.pc \in Executing /\ step \in Executing
             /\ run[r].status = "waiting_for_input" /\ t.pc \in Held => step \in Held
             /\ run'[r].status = "queued" /\ Owns(t, r) /\ t.pc \in Early
                => step \in Early /\ (t.target \notin Late => target \notin Late)
<1>1. t \in TaskType /\ t.fence \in Nat BY DEF TypeInv, TypeOK, TaskType
<1>2. ASSUME NEW u, Becomes(c, u) PROVE task'[c] = u
  BY <1>2 DEF Becomes, TypeInv, TypeOK
<1>3. ASSUME NEW u, Becomes(c, u), u.owner = t.owner, u.fence = t.fence, u.beating => t.beating,
             Fits(u.pc, u.target)
      PROVE  Path(c)
  BY <1>2, <1>3 DEF Path
<1>4. ASSUME NEW step, Goto(c, step), Fits(step, t.target) PROVE Path(c)
  <2> DEFINE u == [t EXCEPT !.pc = step, !.event = IF step = "append" THEN t.event ELSE NoEvent]
  <2>1. Becomes(c, u) BY <1>1, <1>4 DEF Goto, Becomes, TaskType
  <2>2. /\ u.pc = step /\ u.target = t.target /\ u.owner = t.owner /\ u.fence = t.fence
        /\ u.beating = t.beating
    BY <1>1 DEF TaskType
  <2> HIDE DEF u, Fits
  <2> QED BY <1>3, <1>4, <2>1, <2>2
<1>5. ASSUME NEW target, Raise(c, target), Fits("handler", target) PROVE Path(c)
  <2> DEFINE u == [t EXCEPT !.pc = "handler", !.target = target, !.event = NoEvent]
  <2>1. Becomes(c, u) BY <1>5 DEF Raise
  <2>2. /\ u.pc = "handler" /\ u.target = target /\ u.owner = t.owner /\ u.fence = t.fence
        /\ u.beating = t.beating
    BY <1>1 DEF TaskType
  <2> HIDE DEF u, Fits
  <2> QED BY <1>3, <1>5, <2>1, <2>2
<1>6. ASSUME End(c) PROVE Path(c) BY <1>2, <1>6 DEF End, Path
<1>7. CASE LoadHandle(c)
  <2> DEFINE u == [t EXCEPT !.pc = "slot", !.beating = TRUE,
                            !.fence = IF t.fence = 0 THEN run[r].fence ELSE t.fence,
                            !.done = run[r].doneEmitted]
  <2>1. Becomes(c, u) BY <1>1, <1>7 DEF LoadHandle, Becomes, TaskType
  <2>2. u.pc = "slot" /\ u.target = t.target /\ u.owner = t.owner BY <1>1 DEF TaskType
  <2>3. t.pc = "load" BY <1>7 DEF LoadHandle, At
  <2> HIDE DEF u
  <2> QED BY <1>2, <2>1, <2>2, <2>3 DEF Path
<1>8. CASE \E reply \in Replies : AcquireRunning(c, reply)
  <2>1. t.pc = "slot" /\ run[r].status = "queued" BY <1>8 DEF AcquireRunning, At, Ready
  <2>2. run'[r].status = "running"
    <3> DEFINE h == [run[r] EXCEPT !.status = "running", !.lease = TRUE]
    <3>0. r \in Requests BY ClaimRequest
    <3>1. run'[r] = h BY <1>8, <3>0 DEF AcquireRunning, HSet, TypeInv, TypeOK
    <3>2. run[r] \in RunType BY <3>0 DEF TypeInv, TypeOK
    <3>3. h.status = "running" BY <3>2 DEF RunType
    <3> QED BY <3>1, <3>3
  <2>3. \A step \in Executing : \A target : Fits(step, target)
    BY <2>1, <2>2 DEF Executing, TryPC
  <2> HIDE DEF Fits
  <2> QED BY <1>4, <1>5, <1>8, <2>3 DEF AcquireRunning, Executing, TryPC, HandlerPC
<1>9. CASE AcquireRefused(c)
  <2>1. t.pc = "slot" /\ ~(run'[r].status = "queued" /\ Owns(t, r))
    BY <1>9 DEF AcquireRefused, At, Ready, store
  <2>2. \A target : Fits("handler", target) BY <2>1 DEF Executing, TryPC, HandlerPC, Held
  <2> HIDE DEF Fits
  <2> QED BY <1>5, <1>9, <2>2 DEF AcquireRefused
<1>10. CASE ProducerYields(c)
  <2>1. PICK e \in Yielded(c) :
          Becomes(c, [t EXCEPT !.event = e, !.pc = IF e.type \in {"error", "large"} THEN "mark" ELSE "append"])
    BY <1>10 DEF ProducerYields
  <2> DEFINE u == [t EXCEPT !.event = e, !.pc = IF e.type \in {"error", "large"} THEN "mark" ELSE "append"]
  <2>2. /\ u.pc \in {"mark", "append"} /\ u.target = t.target /\ u.owner = t.owner
        /\ u.fence = t.fence /\ u.beating = t.beating
    BY <1>1 DEF TaskType
  <2>3. t.pc = "produce" BY <1>10 DEF ProducerYields, At
  <2>4. Fits(u.pc, u.target) BY <2>2, <2>3 DEF Executing, TryPC, HandlerPC, Held, Early
  <2> HIDE DEF Fits, u
  <2> QED BY <1>3, <2>1, <2>2, <2>4 DEF u
<1>11. CASE \E reply \in Replies : AppendEvent(c, reply)
  <2> DEFINE u == AfterAppend(t)
  <2>1. t.pc = "append" BY <1>11 DEF AppendEvent, At
  <2>2. /\ u.pc \in {"tail", "handler", "append", "produce"} /\ u.owner = t.owner
        /\ u.fence = t.fence /\ u.beating = t.beating
    BY <1>1, <2>1 DEF AfterAppend, TaskType
  <2>3. \A step \in Executing : \A target : Fits(step, target)
    BY <2>1 DEF Executing, TryPC, HandlerPC, Held, Early
  <2>4. u.pc \in Executing /\ "handler" \in Executing BY <2>2 DEF Executing, TryPC, HandlerPC
  <2> HIDE DEF Fits, u
  <2> QED BY <1>3, <1>5, <1>11, <2>2, <2>3, <2>4 DEF AppendEvent, u
<1>12. CASE Timeout(c)
  <2>1. task'[c] = Unwinding(c, "timed_out") BY <1>2, <1>12 DEF Timeout
  <2>2. t.pc \in TryPC /\ t.pc # "slot" BY <1>12 DEF Timeout, At, TryPC
  <2> QED BY <2>1, <2>2, UnwindingPath
<1>13. CASE Refresh(c)
  <2> DEFINE u == [t EXCEPT
                !.pc = IF Stream(r) /\ ~run[r].doneEmitted THEN "finish" ELSE "commit",
                !.target = Outcome(r)]
  <2>1. /\ u.pc \in {"finish", "commit"} /\ u.owner = t.owner /\ u.fence = t.fence
        /\ u.beating = t.beating
    BY <1>1 DEF TaskType
  <2>2. t.pc = "refresh" /\ (~End(c) => Becomes(c, u) /\ run[r].status # "waiting_for_input")
    BY <1>13, Zenon DEF Refresh, At
  <2>3. run[r].status # "waiting_for_input" => Fits(u.pc, u.target)
    BY <2>1, <2>2 DEF Executing, TryPC, HandlerPC, Early
  <2> HIDE DEF Fits, u
  <2> QED BY <1>3, <1>6, <2>1, <2>2, <2>3
<1>18. CASE \E reply \in Replies : FinishDone(c, reply)
  <2> DEFINE u == [t EXCEPT !.pc = "commit", !.done = TRUE, !.target = Outcome(r)]
  <2>1. u.pc = "commit" /\ u.owner = t.owner /\ u.fence = t.fence /\ u.beating = t.beating
    BY <1>1 DEF TaskType
  <2>2. t.pc = "finish" /\ (Becomes(c, u) \/ Raise(c, "failed")) BY <1>18 DEF FinishDone, At
  <2>3. \A target : Fits("commit", target) /\ Fits("handler", target)
    BY <2>2 DEF Executing, TryPC, HandlerPC, Held, Early
  <2> HIDE DEF Fits, u
  <2> QED BY <1>3, <1>5, <2>1, <2>2, <2>3
<1>14. CASE HeartbeatLost(c) \/ LeaseLoopStops(c) \/ LeaseLoopDies(c) \/ CancellationWatch(c)
  <2>1. ASSUME NEW x \in TaskType
        PROVE  LET u == [x EXCEPT !.beating = FALSE] IN
               /\ u.pc = x.pc /\ u.owner = x.owner /\ u.fence = x.fence /\ u.target = x.target
               /\ ~u.beating
    BY DEF TaskType
  <2>2. CASE LeaseLoopStops(c) \/ LeaseLoopDies(c)
    <3> DEFINE u == [t EXCEPT !.beating = FALSE]
    <3>1. Becomes(c, u) /\ t.pc \in Executing
      BY <2>2 DEF LeaseLoopStops, LeaseLoopDies, Beats, Executing
    <3>2. Fits(t.pc, t.target) BY <3>1
    <3>3. /\ u.pc = t.pc /\ u.owner = t.owner /\ u.fence = t.fence /\ u.target = t.target
          /\ ~u.beating
      BY <1>1, <2>1
    <3> HIDE DEF Fits, u
    <3> QED BY <1>3, <3>1, <3>2, <3>3
  <2>3. CASE CancellationWatch(c)
    BY <1>2, <2>3, InterruptedPath DEF CancellationWatch
  <2>4. CASE HeartbeatLost(c)
    <3> DEFINE x == Interrupted(c)
               u == [x EXCEPT !.beating = FALSE]
    <3>1. Becomes(c, u) /\ t.pc \in Executing BY <2>4 DEF HeartbeatLost, Beats, Executing
    <3>2. CASE t.pc \in HandlerPC
      <4>1. x = Ended BY <3>2 DEF Interrupted, TryPC, HandlerPC
      <4>2. u = Ended BY <4>1 DEF Ended, NoTask
      <4> QED BY <1>2, <3>1, <4>2 DEF Path
    <3>3. CASE t.pc \in TryPC
      <4>1. x = Unwinding(c, "cancelled") BY <3>3 DEF Interrupted
      <4>2. /\ x.pc = IF t.pc = "produce" /\ Stream(r) THEN "append" ELSE "handler"
            /\ x.owner = t.owner /\ x.fence = t.fence /\ x.target = "cancelled"
        BY <1>1, <4>1 DEF Unwinding, TaskType
      <4>3. x \in TaskType BY InterruptedType DEF TypeInv
      <4>4. u.pc = x.pc /\ u.owner = x.owner /\ u.fence = x.fence /\ u.target = x.target
            /\ ~u.beating
        BY <2>1, <4>3
      <4>5. Fits(u.pc, u.target)
        BY <3>3, <4>2, <4>4 DEF Executing, TryPC, HandlerPC, Held, Early, Late
      <4> HIDE DEF Fits, u, x
      <4> QED BY <1>3, <3>1, <4>2, <4>4, <4>5
    <3> QED BY <3>1, <3>2, <3>3 DEF Executing
  <2> QED BY <1>14, <2>2, <2>3, <2>4
<1>15. CASE Heartbeat(c) BY <1>15 DEF Heartbeat, Path
<1>16. CASE \/ EnterProducer(c) \/ ProducerReturns(c) \/ ProducerRaises(c) \/ PauseRefused(c)
            \/ \E reply \in Replies : \/ MarkStreamFailed(c, reply) \/ PauseForInput(c, reply)
                                      \/ Commit(c, reply)
  <2>1. /\ \/ t.pc \in {"lock", "produce", "mark", "append", "commit"}
           \/ t.pc = "tail" /\ Goto(c, "refresh")
        /\ \/ \E step \in {"produce", "refresh", "append", "tail"} : Goto(c, step)
           \/ Raise(c, "failed") \/ End(c)
    BY <1>16 DEF EnterProducer, ProducerReturns, ProducerRaises, PauseRefused, MarkStreamFailed,
                 PauseForInput, Commit, At
  <2>2. CASE t.pc = "tail" /\ Goto(c, "refresh")
    <3>1. Fits("refresh", t.target) BY <2>2 DEF Executing, TryPC, HandlerPC, Held, Early
    <3> HIDE DEF Fits
    <3> QED BY <1>4, <2>2, <3>1
  <2>3. CASE t.pc \in {"lock", "produce", "mark", "append", "commit"}
    <3>1. \A step \in {"produce", "refresh", "append", "tail", "handler"} : \A target : Fits(step, target)
      BY <2>3 DEF Executing, TryPC, HandlerPC, Held, Early
    <3> HIDE DEF Fits
    <3> QED BY <1>4, <1>5, <1>6, <2>1, <3>1
  <2> QED BY <2>1, <2>2, <2>3
<1>17. CASE \/ ReleaseLease(c) \/ Handler(c) \/ HandlerCommit(c) \/ RedisFails(c)
            \/ \E reply \in Replies : HandlerError(c, reply) \/ HandlerDone(c, reply)
  <2>1. \/ End(c)
        \/ /\ t.pc \in {"slot", "mark", "append", "refresh", "finish", "commit"}
           /\ Raise(c, "failed")
        \/ /\ t.pc = "handler" /\ run[r].status # "waiting_for_input"
           /\ \E step \in {"h_error", "h_commit"} : Goto(c, step)
        \/ /\ t.pc \in {"h_error", "h_done"}
           /\ \E step \in {"h_done", "h_commit"} : Goto(c, step)
    BY <1>17 DEF ReleaseLease, Handler, HandlerCommit, RedisFails, HandlerError, HandlerDone, At
  <2>2. ASSUME t.pc \in {"slot", "mark", "append", "refresh", "finish", "commit"}
        PROVE  Fits("handler", "failed")
    BY <2>2 DEF Executing, TryPC, HandlerPC, Held, Early, Late
  <2>3. ASSUME NEW step \in {"h_error", "h_done", "h_commit"},
               \/ t.pc = "handler" /\ run[r].status # "waiting_for_input"
               \/ t.pc \in {"h_error", "h_done"}
        PROVE  Fits(step, t.target)
    BY <2>3 DEF Executing, TryPC, HandlerPC, Held, Early
  <2> HIDE DEF Fits
  <2> QED BY <1>4, <1>5, <1>6, <2>1, <2>2, <2>3
<1> QED BY <1>7, <1>8, <1>9, <1>10, <1>11, <1>12, <1>13, <1>14, <1>15, <1>16, <1>17, <1>18
    DEF Execute, Helpers

\* A lease is withdrawn by a commit, a pause, or the last step of the task in charge.
LEMMA TaskLease ==
  ASSUME TypeInv, NEW c \in Claims, Execute(c) \/ Helpers(c)
  PROVE  \/ run'[c[1]].status = run[c[1]].status /\ run'[c[1]].lease = run[c[1]].lease
         \/ run'[c[1]].lease
         \/ run'[c[1]].status \notin Pending
         \/ Owns(task[c], c[1]) /\ task[c].pc = "handler" /\ task'[c] = Ended
<1> DEFINE r == c[1]
<1>0. r \in Requests /\ run[r] \in RunType BY ClaimRequest DEF TypeInv, TypeOK
<1>3. ASSUME NEW hash, HSet(r, hash) PROVE run'[r] = hash
  BY <1>0, <1>3 DEF HSet, TypeInv, TypeOK
<1>4. CASE \E reply \in Replies : AcquireRunning(c, reply)
  <2> DEFINE h == [run[r] EXCEPT !.status = "running", !.lease = TRUE]
  <2>1. HSet(r, h) BY <1>4 DEF AcquireRunning
  <2>2. run'[r].lease BY <1>0, <1>3, <2>1 DEF RunType
  <2> QED BY <2>2
<1>5. CASE \E reply \in Replies : PauseForInput(c, reply)
  <2> DEFINE h == [run[r] EXCEPT !.status = "waiting_for_input", !.lease = FALSE,
                                 !.interaction = task[c].event.ref]
  <2>1. HSet(r, h) BY <1>5 DEF PauseForInput
  <2>2. run'[r].status = "waiting_for_input" BY <1>0, <1>3, <2>1 DEF RunType
  <2> QED BY <2>2 DEF Pending
<1>6. CASE (\E reply \in Replies : Commit(c, reply)) \/ HandlerCommit(c)
  <2> DEFINE h == [run[r] EXCEPT !.status = task[c].target, !.lease = FALSE]
  <2>1. task[c].pc \in {"commit", "h_commit"} /\ (HSet(r, h) \/ UNCHANGED run)
    BY <1>6 DEF Commit, HandlerCommit, At, Transition
  <2>2. task[c].target \in Terminal
    BY <2>1 DEF TypeInv, TasksOK, TargetSet, HandlerPC
  <2>3. HSet(r, h) => run'[r].status = task[c].target BY <1>0, <1>3 DEF RunType
  <2> QED BY <2>1, <2>2, <2>3 DEF Terminal, Pending
<1>7. CASE \E reply \in Replies :
             \/ MarkStreamFailed(c, reply) \/ AppendEvent(c, reply) \/ FinishDone(c, reply)
             \/ HandlerError(c, reply) \/ HandlerDone(c, reply)
  BY <1>0, <1>7, QuietSteps
<1>8. CASE Heartbeat(c)
  <2>1. [run[r] EXCEPT !.lease = TRUE].lease BY <1>0 DEF RunType
  <2>2. run'[r].lease BY <1>3, <1>8, <2>1 DEF Heartbeat
  <2> QED BY <2>2
<1>9. CASE ReleaseLease(c)
  <2>1. task'[c] = Ended BY <1>9 DEF ReleaseLease, End, Becomes, TypeInv, TypeOK
  <2>2. task[c].pc = "handler" /\ (Owns(task[c], r) \/ UNCHANGED run)
    BY <1>9 DEF ReleaseLease, At
  <2> QED BY <2>1, <2>2
<1>10. CASE UNCHANGED store BY <1>10 DEF store
<1> QED BY <1>4, <1>5, <1>6, <1>7, <1>8, <1>9, <1>10
  DEF Execute, Helpers, LoadHandle, AcquireRefused, EnterProducer, ProducerYields,
      ProducerReturns, ProducerRaises, PauseRefused, Timeout, Refresh, Handler, RedisFails,
      LeaseLoopStops, HeartbeatLost, LeaseLoopDies, CancellationWatch

\* A step of one task leaves nobody else in charge than before, and keeps the
\* stages of every task.
LEMMA TimelyTask ==
  ASSUME TypeInv, IndexAgreement, TokensIssued, TimelyInv, NEW c \in Claims,
         Execute(c) \/ Helpers(c)
  PROVE  TimelyInv'
<1> DEFINE t == task[c]
           u == task'[c]
           r == c[1]
<1>1. /\ r \in Requests /\ run[r].fence \in Nat /\ t \in TaskType
      /\ \A d \in Claims : d[1] \in Requests
  BY ClaimRequest DEF TypeInv, TypeOK, RunType
<1>2. /\ \A d \in Claims \ {c} : task'[d] = task[d]
      /\ \A q \in Requests : run'[q].owner = run[q].owner /\ run'[q].fence = run[q].fence
      /\ \A q \in Requests \ {r} : run'[q] = run[q]
  BY TaskScope DEF Untouched
<1>3. Path(c) BY TaskPath
<1>4. Ended.pc = "ended" /\ ~Ended.beating BY DEF Ended, NoTask
<1>5. \A d \in Claims : task'[d].pc = "load" => task[d].pc = "load"
  BY <1>2, <1>3, <1>4 DEF Path, Executing, TryPC, HandlerPC
<1>6. \A d \in Claims : InCharge(d)' => InCharge(d)
  BY <1>1, <1>2, <1>3, <1>4, <1>5 DEF Path, InCharge, Owns, Executing, TryPC, HandlerPC
<1>7. OneInCharge' BY <1>6 DEF TimelyInv, OneInCharge
<1>8. \A q \in Requests : Attended(q)' => Attended(q)
  BY <1>1, <1>2, <1>3, <1>4, <1>5 DEF Path, Attended, Owns
<1>9. \A d \in Claims : task'[d].beating => task'[d].pc \in Executing
  BY <1>2, <1>3, <1>4 DEF Path, TimelyInv, TaskStages, Stage, Executing, TryPC
<1>10. \A d \in Claims : task'[d].beating /\ Owns(task[d], d[1])' => InCharge(d)'
  BY <1>9 DEF InCharge
<1>11. AttendedHeld'
  <2> SUFFICES ASSUME NEW q \in Requests, run'[q].status \in Pending, Attended(q)'
               PROVE  run'[q].lease
    BY DEF AttendedHeld
  <2>1. Attended(q) BY <1>8
  <2>2. CASE run'[q].status = run[q].status /\ run'[q].lease = run[q].lease
    BY <2>1, <2>2 DEF TimelyInv, AttendedHeld
  <2>3. CASE q = r /\ Owns(t, r) /\ t.pc = "handler" /\ u = Ended
    <3>1. PICK d \in Claims : d[1] = r /\ InCharge(d)' /\ (task'[d].pc = "load" \/ task'[d].beating)
      BY <1>10, <2>3 DEF Attended, InCharge
    <3>2. d # c BY <1>4, <2>3, <3>1
    <3>3. InCharge(c) /\ InCharge(d)
      BY <1>6, <2>3, <3>1 DEF InCharge, Executing, HandlerPC
    <3> QED BY <3>1, <3>2, <3>3 DEF TimelyInv, OneInCharge
  <2> QED BY <1>2, <2>2, <2>3, TaskLease
<1>12. ASSUME NEW d \in Claims, d # c PROVE Stage(d)'
  <2>1. task'[d] = task[d] /\ d[1] \in Requests BY <1>1, <1>2, <1>12
  <2>2. Owns(task[d], d[1])' = Owns(task[d], d[1]) BY <1>2, <2>1 DEF Owns
  <2>3. CASE run'[d[1]].status = run[d[1]].status
    BY <2>1, <2>2, <2>3 DEF TimelyInv, TaskStages, Stage
  <2>4. CASE d[1] = r /\ run'[r].status # run[r].status
    <3>1. InCharge(c) /\ run'[r].status # "queued"
      BY <2>4, TaskStatus DEF AcquireRunning, PauseForInput, Commits, At, Ready, InCharge,
                              Executing, TryPC, HandlerPC, Terminal
    <3>2. ~InCharge(d) BY <1>12, <2>4, <3>1 DEF TimelyInv, OneInCharge
    <3> QED BY <2>1, <2>2, <2>4, <3>1, <3>2 DEF TimelyInv, TaskStages, Stage, InCharge
  <2> QED BY <1>2, <2>1, <2>3, <2>4
<1>13. Stage(c)'
  <2>1. u.beating => u.pc \in Executing BY <1>9
  <2>2. /\ u.pc = "load" => u = t
        /\ Owns(task[c], r)' /\ t.pc # "load" /\ u.pc \in Executing => Owns(t, r)
        /\ Stage(c)
    BY <1>1, <1>2, <1>3, <1>4
    DEF Path, Owns, Executing, TryPC, HandlerPC, TimelyInv, TaskStages
  <2>3. CASE run'[r].status = run[r].status
    <3>1. run'[r].status = "waiting_for_input" =>
            /\ u.pc # "load"
            /\ Owns(task[c], r)' /\ u.pc \in Executing => u.pc \in Held
      BY <1>3, <1>4, <2>2, <2>3 DEF Path, Stage, Executing, TryPC, HandlerPC
    <3>2. run'[r].status = "queued" /\ Owns(task[c], r)' /\ u.pc \in Executing =>
            u.pc \in Early /\ u.target \notin Late
      BY <1>3, <1>4, <2>2, <2>3 DEF Path, Stage, Executing, TryPC, HandlerPC, Early, Late
    <3> QED BY <2>1, <2>2, <3>1, <3>2 DEF Stage
  <2>4. CASE run'[r].status = "waiting_for_input" /\ run[r].status = "running"
    <3>1. PICK reply \in Replies : PauseForInput(c, reply)
      BY <2>4, TaskStatus DEF Terminal
    <3>2. u.pc \in {"tail", "handler"}
      <4>1. Goto(c, "tail") \/ Raise(c, "failed") BY <3>1 DEF PauseForInput
      <4> DEFINE g == [t EXCEPT !.pc = "tail", !.event = NoEvent]
                 h == [t EXCEPT !.pc = "handler", !.target = "failed", !.event = NoEvent]
      <4>2. u = g \/ u = h
        BY <1>1, <4>1 DEF Goto, Raise, Becomes, TypeInv, TypeOK, TaskType
      <4>3. g.pc = "tail" /\ h.pc = "handler" BY <1>1 DEF TaskType
      <4> QED BY <4>2, <4>3
    <3> QED BY <2>1, <2>4, <3>2 DEF Stage, Held
  <2>5. CASE run'[r].status \notin {"queued", "waiting_for_input"}
    BY <2>1, <2>2, <2>5 DEF Stage
  <2> QED BY <2>3, <2>4, <2>5, TaskStatus DEF Terminal
<1>14. TaskStages' BY <1>12, <1>13 DEF TaskStages, Stage
<1> QED BY <1>7, <1>11, <1>14 DEF TimelyInv

\* A start() or resume() that claims a run finds nobody in charge: a new run has
\* no task, an orphaned one no attended lease, a waiting one no task that loads.
LEMMA TimelyClaim ==
  ASSUME TypeInv, IndexAgreement, TokensIssued, TimelyInv, IndexAgreement',
         NEW i \in Instances, NEW r \in Requests,
         \/ Create(i, r) \/ TakeOver(i, r)
         \/ \E q \in Responses, v \in Interactions : Resume(i, r, q, v)
  PROVE  TimelyInv'
<1>1. PICK n \in Nat : n = run[r].fence + 1 BY DEF TypeInv, TypeOK, RunType
<1> DEFINE new == <<r, n>>
<1>2. /\ new \in Claims /\ new[1] = r
      /\ task'[new].pc = "load" /\ task'[new].target = "none" /\ ~task'[new].beating
      /\ \A d \in Claims \ {new} : task'[d] = task[d]
      /\ \A q \in Requests \ {r} : run'[q] = run[q]
      /\ run'[r].fence = n /\ run'[r].status = "queued"
  <2>1. Claimed(i, r) BY StartScope
  <2>2. \A f : /\ NewClaim(i, f).pc = "load" /\ NewClaim(i, f).target = "none"
               /\ NewClaim(i, f).beating = FALSE
    BY DEF NewClaim, NoTask
  <2>3. new \in Claims /\ task'[new] \in {NewClaim(i, 0), NewClaim(i, n)}
    BY <1>1, <2>1 DEF Claimed
  <2>4. /\ \A d \in Claims \ {new} : task'[d] = task[d]
        /\ \A q \in Requests \ {r} : run'[q] = run[q]
        /\ run'[r].fence = n /\ run'[r].status = "queued"
    BY <1>1, <2>1 DEF Claimed
  <2> QED BY <2>2, <2>3, <2>4
<1>3. /\ \A d \in Claims : d[1] \in Requests /\ task[d].fence \in Nat
      /\ \A d \in Claims : task[d].fence <= run[d[1]].fence
      /\ \A q \in Requests : run[q].fence \in Nat
  BY ClaimRequest DEF TypeInv, TypeOK, TaskType, RunType, TokensIssued, Tokened
<1>4. \A d \in Claims : d[1] = r => task[d].pc # "load"
  <2>1. CASE Create(i, r)
    <3>1. run[r].status = "absent" BY <2>1 DEF Create
    <3>2. \A d \in Claims : d[1] = r => task[d] = NoTask
      BY <3>1 DEF TokensIssued, Claims
    <3> QED BY <3>2 DEF NoTask
  <2>2. CASE TakeOver(i, r)
    <3>1. run[r].status \in Pending /\ ~run[r].lease BY <2>2 DEF TakeOver, Orphaned
    <3> QED BY <3>1 DEF TimelyInv, AttendedHeld, Attended
  <2>3. CASE \E q \in Responses, v \in Interactions : Resume(i, r, q, v)
    <3>1. run[r].status = "waiting_for_input" BY <2>3 DEF Resume, Resumable
    <3> QED BY <3>1 DEF TimelyInv, TaskStages, Stage
  <2> QED BY <2>1, <2>2, <2>3
<1>5. \A d \in Claims \ {new} : d[1] = r => ~InCharge(d)' /\ ~Owns(task[d], r)'
  BY <1>1, <1>2, <1>3, <1>4 DEF InCharge, Owns
<1>6. ASSUME NEW d \in Claims, d[1] # r
      PROVE  task'[d] = task[d] /\ run'[d[1]] = run[d[1]]
  BY <1>2, <1>3, <1>6
<1>7. OneInCharge'
  BY <1>2, <1>5, <1>6 DEF TimelyInv, OneInCharge, InCharge, Owns
<1>8. AttendedHeld'
  <2> SUFFICES ASSUME NEW q \in Requests, run'[q].status \in Pending, Attended(q)'
               PROVE  run'[q].lease
    BY DEF AttendedHeld
  <2>1. CASE q = r
    <3>1. active'[r] = "live"
      BY DEF Create, TakeOver, Resume, TypeInv, TypeOK
    <3> QED BY <1>2, <2>1, <3>1 DEF IndexAgreement, Indexed, Pending
  <2>2. CASE q # r
    <3>1. Attended(q) /\ run[q].status \in Pending
      BY <1>2, <1>6, <2>2 DEF Attended, Owns
    <3> QED BY <1>2, <2>2, <3>1 DEF TimelyInv, AttendedHeld
  <2> QED BY <2>1, <2>2
<1>9. ASSUME NEW d \in Claims PROVE Stage(d)'
  <2>1. CASE d = new
    BY <1>2, <2>1 DEF Stage, Executing, TryPC, HandlerPC
  <2>2. CASE d # new /\ d[1] = r
    BY <1>2, <1>4, <1>5, <2>2 DEF TimelyInv, TaskStages, Stage
  <2>3. CASE d[1] # r
    BY <1>6, <2>3 DEF TimelyInv, TaskStages, Stage, Owns
  <2> QED BY <1>2, <2>1, <2>2, <2>3
<1> QED BY <1>7, <1>8, <1>9 DEF TimelyInv, TaskStages

\* A user's cancellation leaves nobody in charge but a task that still loads.
LEMMA TimelyCancel ==
  ASSUME TypeInv, TokensIssued, TimelyInv, NEW r \in Requests, Cancel(r)
  PROVE  TimelyInv'
<1>1. /\ run'[r].fence = run[r].fence + 1 /\ run'[r].status = "cancelled"
      /\ \A q \in Requests \ {r} : run'[q] = run[q]
      /\ task' = task
  BY CancelScope DEF Untouched
<1>2. /\ \A d \in Claims : d[1] \in Requests /\ task[d].fence \in Nat
      /\ \A d \in Claims : task[d].fence <= run[d[1]].fence
      /\ \A q \in Requests : run[q].fence \in Nat
  BY ClaimRequest DEF TypeInv, TypeOK, TaskType, RunType, TokensIssued, Tokened
<1>3. \A d \in Claims : /\ d[1] = r => ~Owns(task[d], r)'
                        /\ d[1] # r => run'[d[1]] = run[d[1]]
  BY <1>1, <1>2 DEF Owns
<1>4. OneInCharge' BY <1>1, <1>3 DEF TimelyInv, OneInCharge, InCharge, Owns
<1>5. AttendedHeld'
  BY <1>1, <1>3 DEF TimelyInv, AttendedHeld, Attended, Owns, Pending
<1>6. TaskStages' BY <1>1, <1>3 DEF TimelyInv, TaskStages, Stage, Owns
<1> QED BY <1>4, <1>5, <1>6 DEF TimelyInv

\* With timely processes only a lease that nobody attends to runs out.
LEMMA TimelyExpiry ==
  ASSUME "expiry" \notin Faults, TypeInv, IndexAgreement, TimelyInv,
         NEW r \in Requests, LeaseExpires(r)
  PROVE  TimelyInv'
<1>1. /\ \A q \in Requests : /\ run'[q].fence = run[q].fence /\ run'[q].owner = run[q].owner
                             /\ run'[q].status = run[q].status
      /\ \A q \in Requests \ {r} : run'[q] = run[q]
      /\ task' = task
  BY ExpiryScope
<1>2. ~Attended(r) BY DEF LeaseExpires
<1>3. \A d \in Claims : Owns(task[d], d[1])' <=> Owns(task[d], d[1])
  BY <1>1, ClaimRequest DEF Owns
<1>4. OneInCharge' BY <1>1, <1>3 DEF TimelyInv, OneInCharge, InCharge
<1>5. \A q \in Requests : Attended(q)' => Attended(q)
  BY <1>1, <1>3 DEF Attended
<1>6. AttendedHeld' BY <1>1, <1>2, <1>5 DEF TimelyInv, AttendedHeld
<1>7. TaskStages' BY <1>1, <1>3, ClaimRequest DEF TimelyInv, TaskStages, Stage
<1> QED BY <1>4, <1>6, <1>7 DEF TimelyInv

\* The end of a process only ends tasks, or sends them to their handlers.
LEMMA TimelyProcess ==
  ASSUME TypeInv, TimelyInv, NEW i \in Instances, Shutdown(i) \/ Crash(i)
  PROVE  TimelyInv'
<1>1. UNCHANGED store /\ \A c \in Claims : task'[c] \in {task[c], Interrupted(c), Ended}
  BY ProcessScope
<1>2. \A c \in Claims : Path(c) BY <1>1, InterruptedPath DEF Path
<1>3. Ended.pc = "ended" /\ ~Ended.beating BY DEF Ended, NoTask
<1>4. run' = run BY <1>1 DEF store
<1>5. ASSUME NEW c \in Claims
      PROVE  /\ task'[c].pc = "load" => task'[c] = task[c]
             /\ task'[c] \in {task[c], Ended} \/ task[c].pc \in TryPC
    BY <1>1, <1>2, <1>3 DEF Path, Interrupted, Executing, TryPC, HandlerPC
<1>6. \A c \in Claims : InCharge(c)' => InCharge(c)
  BY <1>2, <1>3, <1>4, <1>5 DEF Path, InCharge, Owns, Executing, TryPC, HandlerPC
<1>7. OneInCharge' BY <1>6 DEF TimelyInv, OneInCharge
<1>8. \A q \in Requests : Attended(q)' => Attended(q)
  BY <1>2, <1>3, <1>4, <1>5 DEF Path, Attended, Owns, TryPC
<1>9. AttendedHeld' BY <1>4, <1>8 DEF TimelyInv, AttendedHeld
<1>10. TaskStages'
  <2> SUFFICES ASSUME NEW c \in Claims PROVE Stage(c)' BY DEF TaskStages
  <2>1. Stage(c) BY DEF TimelyInv, TaskStages
  <2>2. CASE task'[c] = task[c] BY <1>4, <2>1, <2>2 DEF Stage, Owns
  <2>3. CASE task'[c] = Ended BY <1>3, <2>3 DEF Stage, Executing, TryPC, HandlerPC
  <2>4. CASE /\ task'[c].pc \in Executing /\ task[c].pc \in Executing
             /\ task'[c].owner = task[c].owner /\ task'[c].fence = task[c].fence
             /\ task'[c].beating => task[c].beating
    <3>1. Owns(task[c], c[1])' <=> Owns(task[c], c[1]) BY <1>4, <2>4 DEF Owns
    <3>2. task'[c].pc # "load" BY <2>4 DEF Executing, TryPC, HandlerPC
    <3>3. run[c[1]].status = "waiting_for_input" /\ Owns(task[c], c[1]) => task'[c].pc \in Held
      BY <1>2, <1>3, <2>1, <2>4 DEF Stage, Path, Executing, TryPC, HandlerPC
    <3>4. run[c[1]].status = "queued" /\ Owns(task[c], c[1]) =>
            task'[c].pc \in Early /\ task'[c].target \notin Late
      BY <1>2, <1>3, <1>4, <2>1, <2>4 DEF Stage, Path, Executing, TryPC, HandlerPC
    <3> QED BY <1>4, <2>4, <3>1, <3>2, <3>3, <3>4 DEF Stage
  <2> QED BY <1>2, <1>5, <2>2, <2>3, <2>4 DEF Path, Executing, TryPC
<1> QED BY <1>7, <1>9, <1>10 DEF TimelyInv

\* With timely processes the invariant holds along every behaviour.
LEMMA TimelyStep ==
  ASSUME "expiry" \notin Faults
  PROVE  RegistryInv /\ TimelyInv /\ [Next]_vars => TimelyInv'
<1> SUFFICES ASSUME RegistryInv, TimelyInv, [Next]_vars PROVE TimelyInv'
  OBVIOUS
<1>1. TypeInv /\ IndexAgreement /\ TokensIssued /\ IndexAgreement'
  BY IndexStep DEF RegistryInv
<1>2. CASE UNCHANGED vars
  BY <1>2 DEF vars, TimelyInv, OneInCharge, InCharge, Owns, AttendedHeld, Attended, TaskStages,
              Stage
<1> QED BY <1>1, <1>2, TimelyTask, TimelyClaim, TimelyCancel, TimelyExpiry, TimelyProcess DEF Next

LEMMA TimelyInvariant ==
  ASSUME "expiry" \notin Faults
  PROVE  Spec => [](RegistryInv /\ TimelyInv)
<1>1. Init => TimelyInv
  BY DEF Init, TimelyInv, OneInCharge, InCharge, AttendedHeld, Attended, TaskStages, Stage,
         NoTask, Executing, TryPC, HandlerPC, Pending
<1> QED BY <1>1, TimelyStep, RegistryInvariant, PTL DEF Spec

\* Under the owner and the token of a run at most one task is at work, so that the
\* fencing of the scripts leaves one effective writer (redis_run_registry.py).
THEOREM OneWriter == "expiry" \notin Faults => (Spec => []AtMostOneWriter)
<1> SUFFICES ASSUME "expiry" \notin Faults PROVE Spec => []AtMostOneWriter
  OBVIOUS
<1>1. TimelyInv => AtMostOneWriter
  BY DEF TimelyInv, OneInCharge, InCharge, AtMostOneWriter, Executing
<1> QED BY <1>1, TimelyInvariant, PTL

-----------------------------------------------------------------------------
(* What timely processes guarantee                                          *)

Slots == {r \in Requests : running[r] = "live"}

\* Only the acquisition under a free slot makes an entry of "running" live: the
\* heartbeat of a running run renews an entry that was live already.
LEMMA SlotStep ==
  ASSUME TypeInv, IndexAgreement, TimelyInv, [Next]_vars
  PROVE  \/ Slots' \subseteq Slots
         \/ SlotFree /\ \E r \in Requests : Slots' \subseteq Slots \union {r}
<1>1. CASE \E c \in Claims, reply \in Replies : AcquireRunning(c, reply)
  <2>1. PICK c \in Claims, reply \in Replies : AcquireRunning(c, reply) BY <1>1
  <2>2. SlotFree /\ running' = [running EXCEPT ![c[1]] = "live"] /\ c[1] \in Requests
    BY <2>1, ClaimRequest DEF AcquireRunning
  <2>3. Slots' \subseteq Slots \union {c[1]} BY <2>2 DEF Slots, TypeInv, TypeOK
  <2> QED BY <2>2, <2>3
<1>2. ASSUME NEW c \in Claims, Heartbeat(c) PROVE Slots' \subseteq Slots
  <2> DEFINE r == c[1]
  <2>1. CASE run[r].status = "running"
    <3>1. r \in Requests /\ Attended(r)
      BY <1>2, ClaimRequest DEF Heartbeat, Beats, Renewable, Attended
    <3>2. run[r].lease BY <2>1, <3>1 DEF TimelyInv, AttendedHeld, Pending
    <3>3. running[r] = "live" BY <2>1, <3>1, <3>2 DEF IndexAgreement, Indexed
    <3>4. running' = [running EXCEPT ![r] = "live"] BY <1>2, <2>1 DEF Heartbeat
    <3> QED BY <3>3, <3>4 DEF Slots, TypeInv, TypeOK
  <2>2. CASE run[r].status # "running"
    <3>1. running' = running BY <1>2, <2>2 DEF Heartbeat
    <3> QED BY <3>1 DEF Slots
  <2> QED BY <2>1, <2>2
<1>3. CASE \/ running' = running
           \/ \E r \in Requests, s \in {"absent", "expired"} : running' = [running EXCEPT ![r] = s]
  BY <1>3 DEF Slots, TypeInv, TypeOK
<1>4. ASSUME NEW r \in Requests, LeaseExpires(r) PROVE Slots' \subseteq Slots
  <2>1. running' = [running EXCEPT ![r] = IF running[r] = "live" THEN "expired" ELSE running[r]]
    BY <1>4 DEF LeaseExpires
  <2> QED BY <2>1 DEF Slots, TypeInv, TypeOK
<1>5. ASSUME NEW c \in Claims, Execute(c) \/ Helpers(c),
             \A reply \in Replies : ~AcquireRunning(c, reply), ~Heartbeat(c)
      PROVE  \/ running' = running
             \/ \E r \in Requests, s \in {"absent", "expired"} :
                  running' = [running EXCEPT ![r] = s]
  <2>1. \/ running' = running
        \/ \E s \in {"absent", "expired"} : running' = [running EXCEPT ![c[1]] = s]
    BY <1>5 DEF Execute, Helpers, LoadHandle, AcquireRefused, EnterProducer, ProducerYields,
       ProducerReturns, ProducerRaises, MarkStreamFailed, AppendEvent, PauseForInput,
       PauseRefused, Timeout, Refresh, FinishDone, Commit, ReleaseLease, Handler, HandlerError,
       HandlerDone, HandlerCommit, RedisFails, LeaseLoopStops, HeartbeatLost, LeaseLoopDies,
       CancellationWatch, Transition, store
  <2> QED BY <2>1, ClaimRequest
<1>6. ASSUME \/ \E i \in Instances, r \in Requests :
                  \/ Create(i, r) \/ TakeOver(i, r)
                  \/ \E q \in Responses, v \in Interactions : Resume(i, r, q, v)
             \/ \E r \in Requests : Cancel(r)
             \/ \E i \in Instances : Shutdown(i) \/ Crash(i)
             \/ UNCHANGED vars
      PROVE  \/ running' = running
             \/ \E r \in Requests, s \in {"absent", "expired"} :
                  running' = [running EXCEPT ![r] = s]
  BY <1>6 DEF Create, TakeOver, Resume, Cancel, Shutdown, Crash, store, vars
<1> QED BY <1>1, <1>2, <1>3, <1>4, <1>5, <1>6 DEF Next

\* No more than max_concurrent runs hold a running slot.
THEOREM SlotsLimited == "expiry" \notin Faults => (Spec => []RunningWithinLimit)
<1> SUFFICES ASSUME "expiry" \notin Faults PROVE Spec => []RunningWithinLimit
  OBVIOUS
<1>1. Init => RunningWithinLimit
  <2> SUFFICES ASSUME Init PROVE RunningWithinLimit
    OBVIOUS
  <2>1. {r \in Requests : running[r] = "live"} = {} BY DEF Init
  <2> QED BY <2>1, FS_EmptySet, ConstantsAssumption DEF RunningWithinLimit, LiveCount
<1>2. RegistryInv /\ TimelyInv /\ RunningWithinLimit /\ [Next]_vars => RunningWithinLimit'
  <2> SUFFICES ASSUME TypeInv, IndexAgreement, TimelyInv, RunningWithinLimit, [Next]_vars
               PROVE  Cardinality(Slots') <= MaxConcurrent
    BY DEF RegistryInv, RunningWithinLimit, LiveCount, Slots
  <2>1. /\ Slots \subseteq Requests /\ Slots' \subseteq Requests
        /\ Cardinality(Slots) <= MaxConcurrent
        /\ SlotFree => Cardinality(Slots) < MaxConcurrent
    BY DEF Slots, RunningWithinLimit, LiveCount, SlotFree
  <2>2. IsFiniteSet(Slots) /\ Cardinality(Slots) \in Nat /\ MaxConcurrent \in Nat
    BY <2>1, FiniteAssumption, FS_Subset, FS_CardinalityType, ConstantsAssumption
  <2>3. CASE Slots' \subseteq Slots
    <3>1. Cardinality(Slots') <= Cardinality(Slots) /\ Cardinality(Slots') \in Nat
      BY <2>2, <2>3, FS_Subset, FS_CardinalityType
    <3> QED BY <2>1, <2>2, <3>1
  <2>4. ASSUME NEW r \in Requests, Slots' \subseteq Slots \union {r}, SlotFree
        PROVE  Cardinality(Slots') <= MaxConcurrent
    <3>1. /\ IsFiniteSet(Slots \union {r})
          /\ Cardinality(Slots \union {r}) <= Cardinality(Slots) + 1
          /\ Cardinality(Slots \union {r}) \in Nat
      BY <2>2, FS_AddElement, FS_CardinalityType
    <3>2. Cardinality(Slots') <= Cardinality(Slots \union {r}) /\ Cardinality(Slots') \in Nat
      BY <2>4, <3>1, FS_Subset, FS_CardinalityType
    <3> QED BY <2>1, <2>2, <2>4, <3>1, <3>2
  <2> QED BY <2>3, <2>4, SlotStep
<1> QED BY <1>1, <1>2, TimelyInvariant, PTL DEF Spec

\* A run waiting for input leaves that state only by a cancellation or by a new
\* response to its interaction, under a new token.
THEOREM WaitingHeld == "expiry" \notin Faults => (Spec => WaitingIsHeld)
<1> SUFFICES ASSUME "expiry" \notin Faults PROVE Spec => WaitingIsHeld
  OBVIOUS
<1>1. RegistryInv /\ TimelyInv /\ [Next]_vars
        => [\A r \in Requests :
              run[r].status = "waiting_for_input" /\ run'[r].status # "waiting_for_input"
                => /\ run'[r].fence = run[r].fence + 1
                   /\ \/ run'[r].status = "cancelled"
                      \/ /\ run'[r].status = "queued"
                         /\ \E q \in Responses :
                              <<q, run[r].interaction>> \in answers'[r] \ answers[r]]_vars
  <2> SUFFICES ASSUME TypeInv, IndexAgreement, TokensIssued, TimelyInv, Next, NEW r \in Requests,
                      run[r].status = "waiting_for_input",
                      run'[r].status # "waiting_for_input"
               PROVE  /\ run'[r].fence = run[r].fence + 1
                      /\ \/ run'[r].status = "cancelled"
                         \/ /\ run'[r].status = "queued"
                            /\ \E q \in Responses :
                                 <<q, run[r].interaction>> \in answers'[r] \ answers[r]
    BY DEF RegistryInv, vars
  <2>1. ASSUME NEW c \in Claims, Execute(c) \/ Helpers(c) PROVE FALSE
    <3>1. c[1] = r BY <2>1, TaskScope DEF Untouched
    <3>2. Commits(c) /\ task[c].pc \in {"commit", "h_commit"}
      BY <2>1, <3>1, TaskStatus
    <3>3. task[c].pc \in Held
      BY <3>1, <3>2 DEF Commits, TimelyInv, TaskStages, Stage, Executing, TryPC, HandlerPC
    <3> QED BY <3>2, <3>3 DEF Held
  <2>2. ASSUME NEW i \in Instances, NEW p \in Requests, Create(i, p) \/ TakeOver(i, p) PROVE FALSE
    <3>1. Claimed(i, p) BY <2>2, StartScope
    <3>2. p = r BY <3>1 DEF Claimed
    <3> QED BY <2>2, <3>2 DEF Create, TakeOver, Orphaned, Pending
  <2>3. ASSUME NEW i \in Instances, NEW p \in Requests, NEW q \in Responses,
               NEW v \in Interactions, Resume(i, p, q, v)
        PROVE  /\ run'[r].fence = run[r].fence + 1 /\ run'[r].status = "queued"
               /\ <<q, run[r].interaction>> \in answers'[r] \ answers[r]
    <3>1. Claimed(i, p) BY <2>3, StartScope
    <3>2. p = r BY <3>1 DEF Claimed
    <3>3. run'[r].fence = run[r].fence + 1 /\ run'[r].status = "queued"
      BY <3>1, <3>2 DEF Claimed
    <3>4. v = run[r].interaction /\ <<q, v>> \notin answers[r]
      BY <2>3, <3>2 DEF Resume, Resumable, Answered
    <3>5. <<q, v>> \in answers'[r] BY <2>3, <3>2 DEF Resume, TypeInv, TypeOK
    <3> QED BY <3>3, <3>4, <3>5
  <2>4. ASSUME NEW p \in Requests, Cancel(p)
        PROVE  run'[r].fence = run[r].fence + 1 /\ run'[r].status = "cancelled"
    BY <2>4, CancelScope DEF Untouched
  <2>5. ASSUME NEW p \in Requests, LeaseExpires(p) PROVE FALSE BY <2>5, ExpiryScope
  <2>6. ASSUME NEW i \in Instances, Shutdown(i) \/ Crash(i) PROVE FALSE
    BY <2>6, ProcessScope DEF store
  <2> QED BY <2>1, <2>2, <2>3, <2>4, <2>5, <2>6 DEF Next
<1> QED BY <1>1, TimelyInvariant, PTL DEF Spec, WaitingIsHeld

-----------------------------------------------------------------------------
(* The refinement of RunLifecycle                                           *)

\* The abstract variables.
LifecycleStatus == [r \in Requests |-> run[r].status]
LifecycleFence  == [r \in Requests |-> run[r].fence]

\* What the task in charge may decide: a run that never ran does not complete
\* or time out, and a waiting run is not decided by a task.
LEMMA Decided ==
  ASSUME TypeInv, TokensIssued, TimelyInv, NEW c \in Claims, Commits(c),
         task[c].pc \in {"commit", "h_commit"}
  PROVE  /\ run[c[1]].status \in Pending
         /\ task[c].target \in Late => run[c[1]].status = "running"
<1>1. c[1] \in Requests /\ run[c[1]].status \in Status
  BY ClaimRequest DEF TypeInv, TypeOK, RunType
<1>2. run[c[1]].status # "absent"
  <2>1. NoTask.pc = "none" BY DEF NoTask
  <2>2. run[c[1]].fence = 0 /\ c[2] > 0 => task[c] = NoTask BY DEF TokensIssued
  <2>3. run[c[1]].status = "absent" => run[c[1]].fence = 0 BY <1>1 DEF TokensIssued
  <2>4. c[2] > 0 BY ConstantsAssumption DEF Claims
  <2> QED BY <2>1, <2>2, <2>3, <2>4
<1>3. Stage(c) /\ Owns(task[c], c[1]) /\ task[c].pc \in Executing \ Held
  BY DEF Commits, TimelyInv, TaskStages, Executing, TryPC, HandlerPC, Held
<1> QED BY <1>1, <1>2, <1>3 DEF Stage, Commits, Status, Recorded, Pending, Terminal

\* The steps of one run are steps of RunLifecycle.
LEMMA LifecycleMoves ==
  ASSUME TypeInv, TokensIssued, TimelyInv, NEW r \in Requests, OneMoves(r)
  PROVE  Lifecycle!Next
<1> DEFINE old == run[r].status
           new == run'[r].status
           s == LifecycleStatus
           f == LifecycleFence
<1>1. /\ s[r] = old /\ f[r] = run[r].fence
      /\ s' = [s EXCEPT ![r] = new] /\ f' = [f EXCEPT ![r] = run'[r].fence]
      /\ run'[r].fence = run[r].fence => f' = f
  BY DEF OneMoves, LifecycleStatus, LifecycleFence
<1>2. CASE old = "absent" /\ new = "queued" /\ run'[r].fence = run[r].fence + 1
  <2>1. run'[r].fence = 1 BY <1>2 DEF TokensIssued
  <2>2. Lifecycle!Accept(r)
    BY <1>1, <1>2, <2>1 DEF Lifecycle!Accept, LifecycleStatus, LifecycleFence
  <2> QED BY <2>2 DEF Lifecycle!Next
<1>3. CASE old = "queued" /\ new = "running" /\ run'[r].fence = run[r].fence
  <2>1. Lifecycle!Begin(r) BY <1>1, <1>3 DEF Lifecycle!Begin, LifecycleStatus, LifecycleFence
  <2> QED BY <2>1 DEF Lifecycle!Next
<1>4. CASE /\ old \in Pending \union {"waiting_for_input"} /\ new = "queued"
           /\ run'[r].fence = run[r].fence + 1
  <2>1. Lifecycle!Supersede(r)
    BY <1>1, <1>4 DEF Lifecycle!Supersede, Lifecycle!Open, Pending, LifecycleStatus, LifecycleFence
  <2> QED BY <2>1 DEF Lifecycle!Next
<1>5. CASE old = "running" /\ new = "waiting_for_input" /\ run'[r].fence = run[r].fence
  <2>1. Lifecycle!Suspend(r) BY <1>1, <1>5 DEF Lifecycle!Suspend, LifecycleStatus, LifecycleFence
  <2> QED BY <2>1 DEF Lifecycle!Next
<1>6. ASSUME NEW c \in Claims, c[1] = r, Commits(c), task[c].pc \in {"commit", "h_commit"},
             new = task[c].target, new \in Terminal, run'[r].fence = run[r].fence
      PROVE  Lifecycle!Next
  <2>1. old \in Pending /\ (new \in Late => old = "running") BY <1>6, Decided
  <2>2. Lifecycle!Decide(r)
    BY <1>1, <1>6, <2>1
    DEF Lifecycle!Decide, Lifecycle!Open, Lifecycle!Verdicts, Terminal, Pending, Late,
        LifecycleStatus, LifecycleFence
  <2> QED BY <2>2 DEF Lifecycle!Next
<1>7. CASE /\ old \in Pending \union {"waiting_for_input"} /\ new = "cancelled"
           /\ run'[r].fence = run[r].fence + 1
  <2>1. Lifecycle!Abort(r)
    BY <1>1, <1>7 DEF Lifecycle!Abort, Lifecycle!Open, Pending, LifecycleStatus, LifecycleFence
  <2> QED BY <2>1 DEF Lifecycle!Next
<1> QED BY <1>2, <1>3, <1>4, <1>5, <1>6, <1>7 DEF OneMoves, Moves

\* The status and the token of the run hash behave as RunLifecycle promises.
THEOREM LifecycleRefined == "expiry" \notin Faults => (Spec => LifecycleSpec)
<1> SUFFICES ASSUME "expiry" \notin Faults PROVE Spec => LifecycleSpec
  OBVIOUS
<1>1. Init => Lifecycle!Init
  BY DEF Init, Lifecycle!Init
<1>2. RegistryInv /\ TimelyInv /\ [Next]_vars
        => [Lifecycle!Next]_<<[r \in Requests |-> run[r].status],
                              [r \in Requests |-> run[r].fence]>>
  <2> SUFFICES ASSUME TypeInv, IndexAgreement, TokensIssued, TimelyInv, [Next]_vars
               PROVE  Lifecycle!Next \/ UNCHANGED <<LifecycleStatus, LifecycleFence>>
    BY DEF RegistryInv, LifecycleStatus, LifecycleFence
  <2>1. CASE NoneMoves BY <2>1 DEF NoneMoves, LifecycleStatus, LifecycleFence
  <2> QED BY <2>1, StatusStep, LifecycleMoves
<1> QED BY <1>1, <1>2, TimelyInvariant, PTL DEF Spec, LifecycleSpec, Lifecycle!Spec

-----------------------------------------------------------------------------
(* What a subscriber is told                                                *)

SubTypeOK ==
  /\ pc \in {"open", "gap", "check", "read", "look", "deliver", "idle", "ended", "replay_gap"}
  /\ cursor \in Nat /\ next \in Nat \ {0} /\ last \in Nat
  /\ seen \in [over : BOOLEAN, fence : Nat, newest : Nat]
  /\ out \in Seq(Nat) /\ redials \in Nat

\* The cursor is not ahead of the stream, nor the client ahead of the cursor.
CursorBacked ==
  /\ cursor <= Newest
  /\ \A k \in 1..Len(out) : out[k] \in 1..cursor

\* The batch in hand begins behind the cursor, and skips only trimmed entries.
BatchFollows ==
  pc \in {"look", "deliver"} =>
    /\ cursor < next /\ next <= last /\ last <= Newest
    /\ next = cursor + 1 \/ next <= Oldest

\* A run that was seen over is what it was when it was seen.
SeenHolds ==
  pc = "deliver" /\ seen.over =>
    /\ run[Watched].status \in Terminal
    /\ seen.fence = run[Watched].fence /\ seen.newest = Newest

\* SentInOrder is part of it: a reconnect resumes after the last id sent, which
\* is the greatest only because of that order.
SubInv == SubTypeOK /\ CursorBacked /\ BatchFollows /\ SeenHolds /\ SentInOrder

-----------------------------------------------------------------------------
(* The registry under the subscriber                                        *)

\* The registry of the composition is a registry.
LEMMA Embedded == SubSpec => Spec
<1>1. SubInit => Init BY DEF SubInit
<1>2. [SubNext]_<<vars, subVars>> => [Next]_vars BY DEF SubNext
<1> QED BY <1>1, <1>2, PTL DEF SubSpec, Spec

LEMMA WatchedRequest == Watched \in Requests
  BY ConstantsAssumption, SubscriberAssumption

LEMMA StreamTyped ==
  ASSUME TypeInv
  PROVE  /\ events[Watched] \in Seq(EventType) /\ Newest \in Nat /\ Oldest \in Nat \ {0}
         /\ run[Watched].fence \in Nat
  BY WatchedRequest, SubscriberAssumption DEF TypeInv, TypeOK, RunType, Newest, Oldest

\* A stream grows at its end: entries keep their ids, and the trimmed stream
\* never begins earlier.
LEMMA StreamGrows ==
  ASSUME RegistryInv, [Next]_vars
  PROVE  /\ Newest <= Newest' /\ Oldest <= Oldest' /\ Newest' \in Nat /\ Oldest' \in Nat
         /\ \A k \in 1..Newest : events'[Watched][k] = events[Watched][k]
<1> DEFINE s == events[Watched]
<1>0. TypeInv /\ IndexAgreement /\ TokensIssued BY DEF RegistryInv
<1>1. s \in Seq(EventType) /\ run[Watched].fence \in Nat BY <1>0, StreamTyped
<1>2. Logged(Watched) BY <1>0, NextLogged, WatchedRequest
<1>3. Len(s) <= Len(events'[Watched]) /\ Len(events'[Watched]) \in Nat
        /\ \A k \in 1..Len(s) : events'[Watched][k] = s[k]
  <2>1. CASE events'[Watched] = s BY <1>1, <2>1
  <2>2. CASE \E e \in EventType : events'[Watched] = Append(s, e) BY <1>1, <2>2
  <2>3. ASSUME NEW a \in EventType, NEW b \in EventType, events'[Watched] = s \o <<a, b>>
        PROVE  Len(s) <= Len(events'[Watched]) /\ Len(events'[Watched]) \in Nat
                 /\ \A k \in 1..Len(s) : events'[Watched][k] = s[k]
    BY <1>1, <2>3
  <2>4. run[Watched].fence + 1 \in Nat BY <1>1
  <2> QED BY <1>2, <2>1, <2>2, <2>3, <2>4, EventIsTyped DEF Logged
<1> QED BY <1>1, <1>3, SubscriberAssumption DEF Newest, Oldest

-----------------------------------------------------------------------------
(* The invariant                                                            *)

LEMMA SubInitial == SubInit => SubInv
  BY WatchedRequest, SubscriberAssumption
  DEF SubInit, Init, SubInv, SubTypeOK, CursorBacked, BatchFollows, SeenHolds,
      SentInOrder, NothingSeen, Newest

\* The registry's steps leave the subscriber's facts alone.
LEMMA RegistryKeepsSub ==
  ASSUME RegistryInv, SubInv, [Next]_vars, UNCHANGED subVars PROVE SubInv'
<1>0. TypeInv BY DEF RegistryInv
<1>1. SubTypeOK' BY DEF SubInv, SubTypeOK, subVars
<1>2. CursorBacked'
  BY <1>0, StreamGrows, StreamTyped DEF SubInv, SubTypeOK, CursorBacked, subVars
<1>3. BatchFollows'
  BY <1>0, StreamGrows, StreamTyped DEF SubInv, SubTypeOK, BatchFollows, subVars
<1>4. SeenHolds'
  BY WatchedRequest, TerminalKept DEF SubInv, SeenHolds, subVars, Newest
<1>5. SentInOrder' BY DEF SubInv, SentInOrder, subVars
<1> QED BY <1>1, <1>2, <1>3, <1>4, <1>5 DEF SubInv

\* The ids before and after one delivery.
LEMMA DeliverEffect ==
  ASSUME TypeInv, SubInv, Deliver, UNCHANGED vars
  PROVE  /\ cursor' = next /\ next \in Nat \ {0} /\ cursor < next /\ next <= Newest
         /\ next = cursor + 1 \/ next <= Oldest
         /\ out' = out \/ (out' = Append(out, next) /\ DoneDeliveryAction(next) = "deliver")
         /\ DoneDeliveryAction(next) = "deliver" => out' = Append(out, next)
  BY StreamTyped DEF Deliver, SubInv, SubTypeOK, BatchFollows, CursorAfter

\* Each step of the loop and each new connection keep them.
LEMMA SubscriberKeepsSub ==
  ASSUME RegistryInv, SubInv, Subscribe \/ Reconnect, UNCHANGED vars PROVE SubInv'
<1>0. TypeInv BY DEF RegistryInv
<1>1. /\ Newest \in Nat /\ Oldest \in Nat \ {0} /\ Newest' = Newest /\ Oldest' = Oldest
      /\ run'[Watched] = run[Watched] /\ run[Watched].fence \in Nat
  BY <1>0, StreamTyped DEF vars, Newest, Oldest
<1>2. ASSUME UNCHANGED <<cursor, next, last, seen, out, redials>>, pc' \notin {"look", "deliver"},
             pc' \in {"gap", "check", "read", "idle", "ended", "replay_gap"}
      PROVE  SubInv'
  BY <1>1, <1>2 DEF SubInv, SubTypeOK, CursorBacked, BatchFollows, SeenHolds, SentInOrder
<1>3. CASE Open \/ CheckGap \/ CheckEnd \/ ReadIdle
  BY <1>2, <1>3 DEF Open, CheckGap, CheckEnd, ReadIdle
<1>4. CASE Read
  <2>1. PICK n \in FirstUnread..Newest : next' = FirstUnread /\ last' = n BY <1>4 DEF Read
  <2>2. /\ FirstUnread \in Nat \ {0} /\ cursor < FirstUnread
        /\ FirstUnread = cursor + 1 \/ FirstUnread <= Oldest
    BY <1>1 DEF SubInv, SubTypeOK, FirstUnread
  <2>3. n \in Nat /\ FirstUnread <= n /\ n <= Newest BY <1>1, <2>2
  <2>4. SubTypeOK' BY <1>4, <2>1, <2>2, <2>3 DEF Read, SubInv, SubTypeOK
  <2>5. CursorBacked' BY <1>1, <1>4 DEF Read, SubInv, CursorBacked
  <2>6. BatchFollows' BY <1>1, <1>4, <2>1, <2>2, <2>3 DEF Read, BatchFollows
  <2>7. SeenHolds' BY <1>4 DEF Read, SeenHolds
  <2>8. SentInOrder' BY <1>4 DEF Read, SubInv, SentInOrder
  <2> QED BY <2>4, <2>5, <2>6, <2>7, <2>8 DEF SubInv
<1>5. CASE Look
  <2>1. seen' \in [over : BOOLEAN, fence : Nat, newest : Nat]
    BY <1>1, <1>5 DEF Look
  <2>2. SubTypeOK' BY <1>5, <2>1 DEF Look, SubInv, SubTypeOK
  <2>3. CursorBacked' BY <1>1, <1>5 DEF Look, SubInv, CursorBacked
  <2>4. BatchFollows' BY <1>1, <1>5 DEF Look, SubInv, BatchFollows
  <2>5. SeenHolds' BY <1>1, <1>5 DEF Look, SeenHolds
  <2>6. SentInOrder' BY <1>5 DEF Look, SubInv, SentInOrder
  <2> QED BY <2>2, <2>3, <2>4, <2>5, <2>6 DEF SubInv
<1>6. CASE Wait
  BY <1>1, <1>6
  DEF Wait, EmptyHanded, NothingSeen, SubInv, SubTypeOK, CursorBacked, BatchFollows, SeenHolds,
      SentInOrder
<1>7. CASE Deliver
  <2>1. /\ cursor' = next /\ next \in Nat \ {0} /\ cursor < next /\ next <= Newest
        /\ out' \in {out, Append(out, next)}
    BY <1>0, <1>7, DeliverEffect
  <2>2. /\ out \in Seq(Nat) /\ cursor \in Nat /\ \A k \in 1..Len(out) : out[k] \in 1..cursor
        /\ last \in Nat /\ next <= last /\ last <= Newest /\ pc = "deliver" /\ SentInOrder
    BY <1>7 DEF Deliver, SubInv, SubTypeOK, CursorBacked, BatchFollows
  <2>3. /\ out' \in Seq(Nat) /\ \A k \in 1..Len(out') : out'[k] \in 1..cursor'
        /\ SentInOrder'
    <3>1. CASE out' = out BY <2>1, <2>2, <3>1 DEF SentInOrder
    <3>2. CASE out' = Append(out, next)
      <4>1. /\ Len(out') = Len(out) + 1 /\ out'[Len(out) + 1] = next
            /\ \A k \in 1..Len(out) : out'[k] = out[k]
        BY <2>1, <2>2, <3>2
      <4>2. out' \in Seq(Nat) /\ Len(out) \in Nat BY <2>1, <2>2, <3>2
      <4>3. \A k \in 1..Len(out') : k \in 1..Len(out) \/ k = Len(out) + 1 BY <4>1, <4>2
      <4>4. ASSUME NEW k \in 1..Len(out') PROVE out'[k] \in 1..cursor'
        BY <2>1, <2>2, <4>1, <4>3
      <4>5. ASSUME NEW j \in 1..Len(out'), NEW k \in 1..Len(out'), j < k
            PROVE  out'[j] < out'[k]
        <5>1. j \in 1..Len(out) BY <4>2, <4>3, <4>5
        <5>2. CASE k \in 1..Len(out) BY <2>2, <4>1, <4>5, <5>1, <5>2 DEF SentInOrder
        <5>3. CASE k = Len(out) + 1 BY <2>1, <2>2, <4>1, <5>1, <5>3
        <5> QED BY <4>3, <5>2, <5>3
      <4> QED BY <4>2, <4>4, <4>5 DEF SentInOrder
    <3> QED BY <2>1, <3>1, <3>2
  <2>4. CursorBacked' BY <1>1, <2>1, <2>3 DEF CursorBacked
  <2>5. CASE EmptyHanded /\ pc' = "check"
    <3>1. SubTypeOK'
      BY <1>7, <2>1, <2>3, <2>5 DEF Deliver, EmptyHanded, NothingSeen, SubInv, SubTypeOK
    <3> QED BY <2>3, <2>4, <2>5, <3>1 DEF SubInv, BatchFollows, SeenHolds
  <2>6. CASE next # last /\ next' = next + 1 /\ UNCHANGED <<last, seen, pc>>
    <3>1. SubTypeOK' BY <1>7, <2>1, <2>3, <2>6 DEF Deliver, SubInv, SubTypeOK
    <3>2. BatchFollows' BY <1>1, <2>1, <2>2, <2>6 DEF BatchFollows
    <3>3. SeenHolds' BY <1>1, <2>6 DEF SubInv, SeenHolds
    <3> QED BY <2>3, <2>4, <3>1, <3>2, <3>3 DEF SubInv
  <2> QED BY <1>7, <2>5, <2>6 DEF Deliver
<1>8. CASE Reconnect
  <2>1. /\ out \in Seq(Nat) /\ cursor \in Nat /\ \A k \in 1..Len(out) : out[k] \in 1..cursor
        /\ SentInOrder /\ out' = out
    BY <1>8 DEF Reconnect, SubInv, SubTypeOK, CursorBacked
  <2>2. cursor' \in Nat /\ cursor' <= cursor /\ \A k \in 1..Len(out) : out[k] \in 1..cursor'
    <3>1. CASE out = <<>> BY <1>8, <2>1, <3>1 DEF Reconnect
    <3>2. CASE out # <<>>
      <4>1. Len(out) \in 1..Len(out) /\ cursor' = out[Len(out)]
        BY <1>8, <2>1, <3>2 DEF Reconnect
      <4>2. ASSUME NEW k \in 1..Len(out) PROVE out[k] \in 1..cursor'
        BY <2>1, <4>1 DEF SentInOrder
      <4> QED BY <2>1, <4>1, <4>2
    <3> QED BY <3>1, <3>2
  <2>3. SubTypeOK'
    BY <1>8, <2>2 DEF Reconnect, EmptyHanded, NothingSeen, SubInv, SubTypeOK
  <2>4. CursorBacked' BY <1>1, <2>1, <2>2 DEF SubInv, CursorBacked
  <2>5. SentInOrder' BY <2>1 DEF SentInOrder
  <2> QED BY <1>8, <2>3, <2>4, <2>5 DEF Reconnect, SubInv, BatchFollows, SeenHolds
<1> QED BY <1>3, <1>4, <1>5, <1>6, <1>7, <1>8 DEF Subscribe

\* The subscriber's invariant holds along every behaviour of the composition.
LEMMA SubInvariant == SubSpec => [](RegistryInv /\ SubInv)
<1>1. RegistryInv /\ SubInv /\ [SubNext]_<<vars, subVars>> => SubInv'
  <2> SUFFICES ASSUME RegistryInv, SubInv, [SubNext]_<<vars, subVars>> PROVE SubInv'
    OBVIOUS
  <2>1. ASSUME [Next]_vars, UNCHANGED subVars PROVE SubInv' BY <2>1, RegistryKeepsSub
  <2>2. ASSUME Subscribe \/ Reconnect, UNCHANGED vars PROVE SubInv'
    BY <2>2, SubscriberKeepsSub
  <2> QED BY <2>1, <2>2 DEF SubNext
<1> QED BY <1>1, SubInitial, Embedded, RegistryInvariant, PTL DEF SubSpec

-----------------------------------------------------------------------------
(* The theorems                                                             *)

\* A DONE marker that reached a client ends a run that is over: it is the last
\* entry, under the final token.  _done_delivery_action decides on a state that is
\* older than the delivery, so this needs SeenHolds: what was over stays as it was.
THEOREM DoneFinal == SubSpec => []DoneIsFinal
<1> DEFINE FinalAt(k) == events[Watched][k].type = "done" =>
                           /\ run[Watched].status \in Terminal
                           /\ k = Newest /\ events[Watched][k].fence = run[Watched].fence
<1>1. SubInit => DoneIsFinal BY DEF SubInit, DoneIsFinal, Sent
<1>2. RegistryInv /\ SubInv /\ DoneIsFinal /\ [SubNext]_<<vars, subVars>> => DoneIsFinal'
  <2> SUFFICES ASSUME RegistryInv, SubInv, DoneIsFinal, [SubNext]_<<vars, subVars>>
               PROVE  DoneIsFinal'
    OBVIOUS
  <2>0. /\ TypeInv /\ out \in Seq(Nat) /\ cursor \in Nat /\ cursor <= Newest
        /\ \A k \in 1..Len(out) : out[k] \in 1..cursor
    BY DEF RegistryInv, SubInv, SubTypeOK, CursorBacked
  <2>1. ASSUME [Next]_vars, UNCHANGED subVars PROVE DoneIsFinal'
    <3> SUFFICES ASSUME NEW j \in 1..Len(out) PROVE FinalAt(out[j])'
      BY <2>1 DEF DoneIsFinal, Sent, subVars
    <3>1. out[j] \in 1..Newest /\ FinalAt(out[j]) /\ out'[j] = out[j]
      BY <2>0, <2>1, StreamTyped DEF DoneIsFinal, Sent, subVars
    <3>2. events'[Watched][out[j]] = events[Watched][out[j]] BY <2>1, <3>1, StreamGrows
    <3> QED BY <2>1, <3>1, <3>2, WatchedRequest, TerminalKept DEF Newest
  <2>2. ASSUME UNCHANGED vars, out' = out PROVE DoneIsFinal'
    BY <2>2 DEF vars, DoneIsFinal, Sent, Newest
  <2>3. ASSUME Deliver, UNCHANGED vars, out' = Append(out, next),
               DoneDeliveryAction(next) = "deliver"
        PROVE  DoneIsFinal'
    <3>1. FinalAt(next)
      BY <2>3 DEF Deliver, DoneDeliveryAction, SubInv, SeenHolds
    <3>2. next \in Nat BY DEF SubInv, SubTypeOK
    <3>3. \A j \in 1..Len(out') : out'[j] = next \/ \E i \in 1..Len(out) : out'[j] = out[i]
      BY <2>0, <2>3, <3>2
    <3>4. \A j \in 1..Len(out') : FinalAt(out'[j]) BY <3>1, <3>3 DEF DoneIsFinal, Sent
    <3> QED BY <2>3, <3>4 DEF DoneIsFinal, Sent, vars, Newest
  <2>4. ASSUME Deliver, UNCHANGED vars PROVE DoneIsFinal'
    BY <2>0, <2>2, <2>3, <2>4, DeliverEffect
  <2>5. ASSUME Subscribe \/ Reconnect, UNCHANGED vars, ~Deliver PROVE out' = out
    BY <2>5 DEF Subscribe, Open, CheckGap, CheckEnd, Read, ReadIdle, Look, Wait, Reconnect
  <2> QED BY <2>1, <2>2, <2>4, <2>5 DEF SubNext
<1> QED BY <1>1, <1>2, SubInvariant, PTL DEF SubSpec

\* The client sees ids in increasing order, none twice, and whatever the stream
\* still holds up to its cursor it was sent, DONE markers aside: subscribe's cursor
\* moves over an entry only when it was sent, skipped as a DONE, or trimmed.
THEOREM DeliveredOnce == SubSpec => []DeliveredInOrder
<1>1. SubInit => NothingPassedOver
  BY SubscriberAssumption, WatchedRequest DEF SubInit, Init, NothingPassedOver, Newest, Oldest
<1>2. RegistryInv /\ SubInv /\ NothingPassedOver /\ [SubNext]_<<vars, subVars>>
        => NothingPassedOver'
  <2> SUFFICES ASSUME RegistryInv, SubInv, NothingPassedOver, [SubNext]_<<vars, subVars>>,
                      NEW k \in (Oldest..Newest)', k <= cursor',
                      events'[Watched][k].type # "done"
               PROVE  k \in Sent'
    BY DEF NothingPassedOver
  <2>0. /\ TypeInv /\ out \in Seq(Nat) /\ cursor \in Nat /\ cursor <= Newest
        /\ Newest \in Nat /\ Oldest \in Nat \ {0}
    BY StreamTyped DEF RegistryInv, SubInv, SubTypeOK, CursorBacked
  <2>1. ASSUME [Next]_vars, UNCHANGED subVars PROVE k \in Sent'
    <3>1. k \in Oldest..Newest /\ k <= cursor /\ k \in 1..Newest
      BY <2>0, <2>1, StreamGrows DEF subVars
    <3>2. events'[Watched][k] = events[Watched][k] BY <2>1, <3>1, StreamGrows
    <3> QED BY <2>1, <3>1, <3>2 DEF NothingPassedOver, Sent, subVars
  <2>2. ASSUME UNCHANGED vars, out' = out, k <= cursor PROVE k \in Sent'
    BY <2>2 DEF vars, NothingPassedOver, Sent, Newest, Oldest
  <2>3. ASSUME Subscribe \/ Reconnect, UNCHANGED vars, ~Deliver PROVE k \in Sent'
    <3>1. out' = out
      BY <2>3 DEF Subscribe, Open, CheckGap, CheckEnd, Read, ReadIdle, Look, Wait, Reconnect
    <3>2. ASSUME cursor' = cursor PROVE k <= cursor BY <3>2
    <3>3. ASSUME Reconnect PROVE k <= cursor
      <4>1. CASE out = <<>> BY <2>0, <2>3, <3>3, <4>1 DEF Reconnect, vars, Oldest, Newest
      <4>2. CASE out # <<>>
        <5>1. Len(out) \in 1..Len(out) /\ cursor' = out[Len(out)]
          BY <2>0, <3>3, <4>2 DEF Reconnect
        <5>2. cursor' \in 1..cursor BY <5>1 DEF SubInv, CursorBacked
        <5>3. k \in Oldest..Newest BY <2>3 DEF vars, Oldest, Newest
        <5> QED BY <2>0, <5>2, <5>3
      <4> QED BY <4>1, <4>2
    <3>4. cursor' = cursor \/ Reconnect
      BY <2>3 DEF Subscribe, Open, CheckGap, CheckEnd, Read, ReadIdle, Look, Wait
    <3> QED BY <2>2, <2>3, <3>1, <3>2, <3>3, <3>4
  <2>4. ASSUME Deliver, UNCHANGED vars PROVE k \in Sent'
    <3>1. /\ cursor' = next /\ next \in Nat \ {0} /\ cursor < next /\ next <= Newest
          /\ next = cursor + 1 \/ next <= Oldest
          /\ out' \in {out, Append(out, next)}
          /\ DoneDeliveryAction(next) = "deliver" => out' = Append(out, next)
      BY <2>0, <2>4, DeliverEffect
    <3>2. k \in Oldest..Newest /\ events[Watched][k].type # "done"
      BY <2>4 DEF vars, Oldest, Newest
    <3>3. k <= cursor \/ k = next BY <2>0, <3>1, <3>2
    <3>4. CASE k <= cursor
      <4>1. PICK j \in 1..Len(out) : out[j] = k BY <3>2, <3>4 DEF NothingPassedOver, Sent
      <4>2. j \in 1..Len(out') /\ out'[j] = k BY <2>0, <3>1, <4>1
      <4> QED BY <4>2 DEF Sent
    <3>5. CASE k = next
      <4>1. out' = Append(out, next) BY <3>1, <3>2, <3>5 DEF DoneDeliveryAction
      <4>2. Len(out) + 1 \in 1..Len(out') /\ out'[Len(out) + 1] = next BY <2>0, <3>1, <4>1
      <4> QED BY <3>5, <4>2 DEF Sent
    <3> QED BY <3>3, <3>4, <3>5
  <2> QED BY <2>0, <2>1, <2>3, <2>4 DEF SubNext, Subscribe
<1>3. SubInv /\ NothingPassedOver => DeliveredInOrder BY DEF SubInv, DeliveredInOrder
<1> QED BY <1>1, <1>2, <1>3, SubInvariant, PTL DEF SubSpec

=============================================================================
