----------------------- MODULE HardwareWorkflowProofs -----------------------
(***************************************************************************)
(* Safety of HardwareWorkflow for every number of requests, steps,         *)
(* attempts, signals and losses.  The invariant is local: Good says of one *)
(* execution what each of its phases promises, Awaited how the child       *)
(* processes belong to the attempts, and the directory keeps its shape.    *)
(***************************************************************************)
EXTENDS HardwareWorkflow, TLAPS

Unhappy == {"cancelled", "stopped", "timed_out", "failed"}

FrameType ==
  [st : {"absent", "top", "act", "comp", "read", "closed"}, from : 0..N, step : 0..N,
   alone : BOOLEAN, times : Nat, paused : BOOLEAN, cancel : BOOLEAN, early : BOOLEAN, late : BOOLEAN,
   att : 0..Attempts, why : Unhappy \union {"none", "completed"}, handled : BOOLEAN,
   comp : Nat, path : BOOLEAN,
   end : Unhappy \union {"none", "completed", "raised", "expired"}]

Stages == {"wait", "load", "work", "stop", "stopped", "reported", "checkpointed"}

KidType == [w : W, s : Steps, att : 1..Attempts, ph : Stages, orphan : BOOLEAN]

DirType == [len : 0..N, bad : 0..N, token : {0} \union W, ask : 0..N]

\* What an execution promises while it runs its steps,
Running(f) ==
  f.st \in {"top", "act"} =>
    /\ f.step \in Steps /\ f.comp = 0 /\ ~f.handled
    /\ f.early => f.cancel
    /\ f.st = "act" => f.att \in 1..Attempts

\* while it is being compensated,
Unwinding(f) ==
  f.st = "comp" => f.why \in Unhappy /\ (f.comp = 0 \/ (f.comp = 1 /\ f.handled))

\* while it reads the final result,
Reading(f) ==
  f.st = "read" =>
    /\ f.why \in Unhappy \union {"completed"}
    /\ f.why = "completed" => ~f.early /\ ~f.handled
    /\ f.why # "completed" => f.comp > 0
    /\ IF f.handled THEN f.comp \in 1..2 ELSE f.comp \in 0..1

\* and before and after that.
Over(f) ==
  f.st \in {"absent", "closed"} =>
    /\ f.comp \in 0..2
    /\ f.early => f.end # "completed"
    /\ f.end \in Unhappy \union {"raised"} => f.comp > 0

Good(f) ==
  /\ f \in FrameType
  /\ Running(f) /\ Unwinding(f) /\ Reading(f) /\ Over(f)
  /\ f.st # "closed" => f.end = "none"
  /\ f.st = "absent" => f.comp = 0 /\ ~f.handled /\ ~f.early

Types ==
  /\ task \in [W -> {"none", "dispatch", "wait", "done", "refused", "gone"}]
  /\ del \in [W -> {"no", "signalled", "acked"}]
  /\ wf \in [W -> FrameType]
  /\ kids \subseteq KidType
  /\ dir \in DirType

Phases == \A w \in W : Good(wf[w])

\* A child that is no orphan is the one its execution's current attempt waits for.
Awaited ==
  /\ \A k \in kids : ~k.orphan =>
       Is(k.w, "act") /\ wf[k.w].att = k.att /\ wf[k.w].step = k.s
  /\ \A k, m \in kids : ~k.orphan /\ ~m.orphan /\ k.w = m.w => k = m

WInv == Types /\ Phases /\ Awaited

-----------------------------------------------------------------------------
(* What the operators on one execution preserve.                             *)

LEMMA Bounds ==
  /\ N \in Nat /\ Attempts \in Nat
  /\ 0 \in 0..N /\ 1 \in 1..N /\ 0 \in 0..Attempts /\ 1 \in 0..Attempts /\ 1 \in 1..Attempts
BY WorkflowAssumption

\* A phase other than the one an execution is in promises nothing.
LEMMA OnePhase ==
  ASSUME NEW f
  PROVE  /\ f.st \notin {"top", "act"} => Running(f)
         /\ f.st # "comp" => Unwinding(f)
         /\ f.st # "read" => Reading(f)
         /\ f.st \notin {"absent", "closed"} => Over(f)
BY DEF Running, Unwinding, Reading, Over

\* A new execution promises nothing yet.
LEMMA AbsentGood == Good(Absent)
<1>1. Absent \in FrameType
  BY Bounds DEF Absent, FrameType, Unhappy
<1>2. Absent.st = "absent" /\ ~Absent.early /\ Absent.end = "none" /\ Absent.comp = 0
      /\ ~Absent.handled
  BY DEF Absent
<1>3. Over(Absent)
  <2>1. Absent.comp \in 0..2 BY <1>2
  <2>2. Absent.end # "completed" /\ Absent.end \notin Unhappy \union {"raised"}
    BY <1>2 DEF Unhappy
  <2>3. /\ Absent.early => Absent.end # "completed"
        /\ Absent.end \in Unhappy \union {"raised"} => Absent.comp > 0
    BY <1>2, <2>2
  <2> QED BY <2>1, <2>3, Zenon DEF Over
<1> QED BY <1>1, <1>2, <1>3, OnePhase DEF Good

\* Unwinding starts: a reason other than success, nothing compensated yet, or
\* once if the final read failed.
LEMMA CompensatingGood ==
  ASSUME NEW f, Good(f), NEW why \in Unhappy,
         f.st \in {"top", "act"} \/ (f.st # "closed" /\ f.handled /\ f.comp \in 0..1)
  PROVE  Good(Compensating(f, why))
<1> DEFINE g == Compensating(f, why)
<1>1. f \in FrameType BY DEF Good
<1>2. g \in FrameType
  BY <1>1, Bounds DEF FrameType, Compensating, Unhappy
<1>3. /\ g.st = "comp" /\ g.why = why /\ g.comp = f.comp /\ g.handled = f.handled
      /\ g.end = f.end
  BY <1>1 DEF FrameType, Compensating
<1>4. f.st \in {"top", "act"} => f.comp = 0 BY DEF Good, Running
<1>5. f.end = "none" BY DEF Good
<1>6. f.comp = 0 \/ (f.comp = 1 /\ f.handled) BY <1>4
<1> HIDE DEF g
<1>7. Unwinding(g) BY <1>3, <1>6 DEF Unwinding
<1>8. Good(g) BY <1>2, <1>3, <1>5, <1>7, OnePhase DEF Good
<1> QED BY <1>8 DEF g

\* The handler of a failed activity, or of a failed final read that no handler
\* has seen before.
LEMMA AfterActivityErrorGood ==
  ASSUME NEW f, Good(f), f.st = "act" \/ (f.st = "read" /\ ~f.handled)
  PROVE  Good(AfterActivityError(f)) /\ AfterActivityError(f).st = "comp"
<1> DEFINE h == [f EXCEPT !.handled = TRUE]
           why == IF f.cancel THEN "cancelled" ELSE "failed"
           g == Compensating(h, why)
<1>1. f \in FrameType BY DEF Good
<1>2. h \in FrameType BY <1>1 DEF FrameType
<1>3. f.comp \in 0..1
  <2>1. CASE f.st = "act" BY <2>1 DEF Good, Running
  <2>2. CASE f.st = "read" /\ ~f.handled 
    <3>1. IF f.handled THEN f.comp \in 1..2 ELSE f.comp \in 0..1
      BY <2>2, Zenon DEF Good, Reading
    <3> QED BY <3>1, <2>2
  <2> QED BY <2>1, <2>2
<1>4. /\ h.st = f.st /\ h.handled = TRUE /\ h.comp = f.comp /\ h.end = f.end
      /\ f.end = "none"
  BY <1>1 DEF FrameType, Good
<1>5. why \in Unhappy BY DEF Unhappy
<1>6. g \in FrameType
  BY <1>2, <1>5, Bounds DEF FrameType, Compensating, Unhappy
<1>7. /\ g.st = "comp" /\ g.why = why /\ g.comp = h.comp /\ g.handled = h.handled
      /\ g.end = h.end
  BY <1>2 DEF FrameType, Compensating
<1>8. g = AfterActivityError(f) BY DEF AfterActivityError
<1> HIDE DEF g, h, why
<1>9. Unwinding(g)
  <2>1. g.comp = 0 \/ g.comp = 1 BY <1>3, <1>4, <1>7
  <2>2. g.handled BY <1>4, <1>7
  <2>3. g.why \in Unhappy BY <1>5, <1>7
  <2> QED BY <2>1, <2>2, <2>3, Zenon DEF Unwinding
<1>10. Good(g) BY <1>3, <1>4, <1>6, <1>7, <1>9, OnePhase DEF Good
<1> QED BY <1>7, <1>8, <1>10

\* An execution closes with nothing to its credit that it did not earn.
LEMMA ClosedGood ==
  ASSUME NEW f, Good(f), NEW end \in Unhappy \union {"completed", "raised", "expired"},
         f.comp \in 0..2,
         end = "completed" => ~f.early,
         end \in Unhappy \union {"raised"} => f.comp > 0
  PROVE  Good(Closed(f, end)) /\ Closed(f, end).st = "closed"
<1> DEFINE g == Closed(f, end)
<1>1. f \in FrameType BY DEF Good
<1>2. /\ f.alone \in BOOLEAN /\ f.times \in Nat /\ f.early \in BOOLEAN
      /\ f.from \in 0..N /\ f.comp \in Nat
  BY <1>1 DEF FrameType
<1>4. g \in FrameType
  BY <1>2, Bounds DEF FrameType, Closed, Absent, Unhappy
<1>5. /\ g.st = "closed" /\ g.end = end /\ g.comp = f.comp /\ g.early = f.early
  BY DEF Closed, Absent
<1> HIDE DEF g
<1>6. Over(g) BY <1>2, <1>5 DEF Over
<1>7. Good(g) BY <1>4, <1>5, <1>6, OnePhase DEF Good
<1> QED BY <1>5, <1>7 DEF g

\* A cancel leaves the execution where it is.
LEMMA CancelledGood ==
  ASSUME NEW f, Good(f), f.st \notin {"absent", "closed"}
  PROVE  /\ Good(Cancelled(f)) /\ Cancelled(f).st = f.st
         /\ Cancelled(f).att = f.att /\ Cancelled(f).step = f.step
<1> DEFINE g == Cancelled(f)
<1>1. f \in FrameType BY DEF Good
<1>2. /\ g \in FrameType /\ g.st = f.st /\ g.att = f.att /\ g.step = f.step
      /\ g.cancel = TRUE /\ g.end = f.end /\ g.comp = f.comp /\ g.handled = f.handled
      /\ g.why = f.why
  BY <1>1 DEF FrameType, Cancelled
<1>3. f.st \notin {"top", "act"} => g.early = f.early
  BY <1>1 DEF FrameType, Cancelled
<1> HIDE DEF g
<1>4. Running(g) BY <1>2 DEF Good, Running
<1>5. Unwinding(g) BY <1>2 DEF Good, Unwinding
<1>6. Reading(g) BY <1>2, <1>3 DEF Good, Reading
<1>7. Good(g) BY <1>2, <1>4, <1>5, <1>6, OnePhase DEF Good
<1> QED BY <1>2, <1>7 DEF g

\* A summary moves the execution on only if no cancel came before it.
LEMMA AfterSummaryGood ==
  ASSUME NEW w \in W, Good(wf[w]), Is(w, "act"), NEW ok \in BOOLEAN, NEW full \in BOOLEAN
  PROVE  Good(AfterSummary(w, ok, full)) /\ AfterSummary(w, ok, full).st # "act"
<1> DEFINE f == [wf[w] EXCEPT !.att = 0, !.path = full]
<1>1. wf[w] \in FrameType /\ wf[w].st = "act" BY DEF Good, Is
<1>2. f \in FrameType BY <1>1, Bounds DEF FrameType
<1>3. /\ f.st = "act" /\ f.step = wf[w].step /\ f.comp = wf[w].comp
      /\ f.handled = wf[w].handled /\ f.early = wf[w].early /\ f.cancel = wf[w].cancel
      /\ f.att = 0 /\ f.end = wf[w].end /\ f.why = wf[w].why
  BY <1>1 DEF FrameType
<1>4. /\ f.step \in 1..N /\ f.comp = 0 /\ f.handled = FALSE /\ f.end = "none"
      /\ f.early => f.cancel
  BY <1>1, <1>2, <1>3 DEF Good, Running, Steps, FrameType
<1> HIDE DEF f
<1> DEFINE t == [f EXCEPT !.st = "top", !.step = @ + 1]
           r == [f EXCEPT !.st = "read", !.why = "completed"]
           c(why) == Compensating(f, why)
<1>5. ASSUME NEW why \in Unhappy PROVE Good(c(why)) /\ c(why).st = "comp"
  <2>1. /\ c(why) \in FrameType
        /\ c(why).st = "comp" /\ c(why).why = why /\ c(why).comp = f.comp
        /\ c(why).end = f.end
    BY <1>2, Bounds DEF Compensating, FrameType, Unhappy
  <2> HIDE DEF c
  <2>2. Unwinding(c(why)) BY <2>1, <1>4 DEF Unwinding
  <2> QED BY <2>1, <2>2, <1>4, OnePhase DEF Good
<1>6. ASSUME ~f.cancel, ok, f.step = N PROVE Good(r) /\ r.st = "read"
  <2>1. /\ r \in FrameType /\ r.st = "read" /\ r.why = "completed" /\ r.comp = f.comp
        /\ r.handled = f.handled /\ r.end = f.end /\ r.early = f.early
    BY <1>2 DEF FrameType
  <2> HIDE DEF r
  <2>3. Reading(r) BY <2>1, <1>4, <1>6 DEF Reading
  <2> QED BY <2>1, <2>3, <1>4, OnePhase DEF Good
<1>7. ASSUME ~f.cancel, f.step # N PROVE Good(t) /\ t.st = "top"
  <2>1. f.step + 1 \in 1..N /\ f.step + 1 \in 0..N BY <1>4, <1>7, Bounds
  <2>2. /\ t \in FrameType /\ t.st = "top" /\ t.step = f.step + 1 /\ t.comp = f.comp
        /\ t.handled = f.handled /\ t.end = f.end /\ t.early = f.early /\ t.cancel = f.cancel
    BY <1>2, <2>1 DEF FrameType
  <2> HIDE DEF t
  <2>3. Running(t) BY <2>1, <2>2, <1>4 DEF Running, Steps
  <2> QED BY <2>2, <2>3, <1>4, OnePhase DEF Good
<1>8. AfterSummary(w, ok, full) =
        IF f.cancel THEN c("cancelled") ELSE IF ~ok THEN c("stopped")
        ELSE IF f.step = N THEN r ELSE t
  BY DEF AfterSummary, f
<1> HIDE DEF r, t, c
<1>9. "cancelled" \in Unhappy /\ "stopped" \in Unhappy BY DEF Unhappy
<1> QED BY <1>5, <1>6, <1>7, <1>8, <1>9

\* Compensation counts, and at the end of it the execution closes or reads.
LEMMA CompensateGood ==
  ASSUME NEW f, Good(f), f.st = "comp"
  PROVE  Good(Unwound(f)) /\ Unwound(f).st # "act"
<1> DEFINE g == [f EXCEPT !.comp = @ + 1]
           r == [g EXCEPT !.st = "read"]
           c == Closed(g, f.why)
<1>1. /\ f \in FrameType /\ f.why \in Unhappy /\ f.end = "none"
      /\ f.comp = 0 \/ (f.comp = 1 /\ f.handled)
  BY DEF Good, Unwinding
<1>2. /\ f.comp \in 0..1 /\ f.comp + 1 \in Nat /\ f.comp + 1 \in 1..2
      /\ f.comp = 1 => f.handled
  BY <1>1
<1>3. g \in FrameType /\ g.comp = f.comp + 1 /\ g.early = f.early /\ g.from = f.from
      /\ g.handled = f.handled /\ g.why = f.why /\ g.end = f.end
  BY <1>1, <1>2 DEF FrameType
<1> HIDE DEF g
<1>4. /\ r \in FrameType /\ r.st = "read" /\ r.comp = g.comp /\ r.handled = g.handled
      /\ r.why = g.why /\ r.end = g.end
  BY <1>3 DEF FrameType
<1>5. /\ c.st = "closed" /\ c.end = f.why /\ c.comp = g.comp
  BY <1>3 DEF Closed, Absent
<1>7. /\ g.from \in 0..N /\ g.early \in BOOLEAN /\ g.comp \in Nat
      /\ g.alone \in BOOLEAN /\ g.times \in Nat
  BY <1>3 DEF FrameType
<1>8. c \in FrameType
  BY <1>1, <1>7, Bounds DEF FrameType, Closed, Absent, Unhappy
<1> HIDE DEF r, c
<1>9. r.why # "completed" /\ c.end \notin {"completed"} BY <1>1, <1>3, <1>4, <1>5 DEF Unhappy
<1>10. Reading(r)
  <2>1. IF r.handled THEN r.comp \in 1..2 ELSE r.comp \in 0..1 BY <1>2, <1>3, <1>4
  <2> QED BY <2>1, <1>1, <1>2, <1>3, <1>4, <1>9 DEF Reading
<1>11. Over(c) BY <1>2, <1>3, <1>5, <1>9 DEF Over
<1>12. Good(r) BY <1>1, <1>3, <1>4, <1>10, OnePhase DEF Good
<1>13. Good(c) BY <1>5, <1>8, <1>11, OnePhase DEF Good
<1>14. Unwound(f) = (IF f.why = "failed" \/ ~f.path THEN c ELSE r)
  BY DEF Unwound, c, r, g
<1> QED BY <1>4, <1>5, <1>12, <1>13, <1>14

-----------------------------------------------------------------------------
(* The steps.  A step changes one execution, and the children that remain in *)
(* it are still the ones it waits for.                                       *)

\* One execution is replaced by another that keeps its promises.
LEMMA OneExecution ==
  ASSUME Types, Phases, NEW w \in W, NEW g, Good(g), wf' = [wf EXCEPT ![w] = g]
  PROVE  /\ wf' \in [W -> FrameType] /\ Phases'
         /\ wf'[w] = g /\ \A v \in W : v # w => wf'[v] = wf[v]
<1>1. g \in FrameType BY DEF Good
<1>2. wf' \in [W -> FrameType] BY <1>1 DEF Types
<1>3. wf'[w] = g /\ \A v \in W : v # w => wf'[v] = wf[v] BY DEF Types
<1>4. Phases' BY <1>3 DEF Phases
<1> QED BY <1>2, <1>3, <1>4

\* The current attempt of an execution has at most the one child.
LEMMA OnlyChild ==
  ASSUME Types, Awaited, NEW k \in kids, ~k.orphan
  PROVE  /\ k.w \in W /\ k.s \in Steps /\ k.att \in 1..Attempts
         /\ wf[k.w].st = "act" /\ wf[k.w].att = k.att /\ wf[k.w].step = k.s
         /\ \A m \in kids : m # k /\ m.w = k.w => m.orphan
BY DEF Types, Awaited, KidType, Is

\* Children go, and the execution of those that stay does not move.
LEMMA StillAwaited ==
  ASSUME Types, Awaited, kids' \subseteq kids,
         \A k \in kids' : ~k.orphan =>
           /\ wf'[k.w].st = wf[k.w].st
           /\ wf'[k.w].att = wf[k.w].att
           /\ wf'[k.w].step = wf[k.w].step
  PROVE  Awaited'
BY DEF Awaited, Is

\* A child of the current attempt is changed without ceasing to be it.
LEMMA ChildChanges ==
  ASSUME Types, Awaited, NEW k \in kids, NEW m,
         m.w = k.w, m.s = k.s, m.att = k.att, m.orphan = k.orphan,
         kids' = (kids \ {k}) \union {m}, UNCHANGED wf
  PROVE  Awaited'
<1>1. \A a \in kids' : a = m \/ (a \in kids /\ a # k) OBVIOUS
<1>2. \A a \in kids' : ~a.orphan =>
        Is(a.w, "act")' /\ wf'[a.w].att = a.att /\ wf'[a.w].step = a.s
  BY <1>1 DEF Awaited, Is
<1>3. \A a, b \in kids' : ~a.orphan /\ ~b.orphan /\ a.w = b.w => a = b
  BY <1>1 DEF Awaited
<1> QED BY <1>2, <1>3 DEF Awaited

\* The attempt of k is over, and the next has its own child or the execution
\* has left the activity.
LEMMA AttemptOver ==
  ASSUME Types, Awaited, NEW k \in kids, ~k.orphan, NEW rest, NEW next,
         \A a \in rest : a.orphan \/ (a \in kids /\ a # k),
         \A a \in next : /\ a.w = k.w /\ wf'[k.w].st = "act"
                         /\ a.att = wf'[k.w].att /\ a.s = wf'[k.w].step,
         \A a, b \in next : a = b,
         \A v \in W : v # k.w => wf'[v] = wf[v],
         kids' = rest \union next, kids' \subseteq KidType
  PROVE  Awaited'
<1>1. \A a \in rest : ~a.orphan => a \in kids /\ a.w # k.w /\ a.w \in W
  BY OnlyChild DEF Types, KidType
<1>2. \A a \in kids' : ~a.orphan =>
        Is(a.w, "act")' /\ wf'[a.w].att = a.att /\ wf'[a.w].step = a.s
  <2> SUFFICES ASSUME NEW a \in kids', ~a.orphan
               PROVE  Is(a.w, "act")' /\ wf'[a.w].att = a.att /\ wf'[a.w].step = a.s
    OBVIOUS
  <2>1. CASE a \in rest BY <2>1, <1>1 DEF Awaited, Is
  <2>2. CASE a \in next BY <2>2 DEF Is
  <2> QED BY <2>1, <2>2
<1>3. \A a, b \in kids' : ~a.orphan /\ ~b.orphan /\ a.w = b.w => a = b
  BY <1>1 DEF Awaited
<1> QED BY <1>2, <1>3 DEF Awaited

\* The next attempt of a step keeps the promises of the one before.
LEMMA AgainGood ==
  ASSUME Types, Phases, Awaited, NEW k \in kids, ~k.orphan, wf[k.w].att < Attempts
  PROVE  /\ Good(Again(wf[k.w])) /\ Again(wf[k.w]).st = "act" /\ Again(wf[k.w]).att = k.att + 1
         /\ Again(wf[k.w]).step = k.s /\ NewChild(k.w, k.s, k.att + 1) \in KidType
<1> DEFINE f == wf[k.w]
           g == Again(wf[k.w])
<1>1. /\ k.w \in W /\ k.s \in Steps /\ k.att \in 1..Attempts
      /\ f.st = "act" /\ f.att = k.att /\ f.step = k.s
  BY OnlyChild
<1>2. f \in FrameType /\ Good(f) BY <1>1 DEF Phases, Types
<1>3. k.att + 1 \in 0..Attempts /\ k.att + 1 \in 1..Attempts BY <1>1, Bounds
<1>4. /\ g \in FrameType /\ g.st = "act" /\ g.att = k.att + 1 /\ g.step = f.step
      /\ g.comp = f.comp /\ g.handled = f.handled /\ g.early = f.early
      /\ g.cancel = f.cancel /\ g.end = f.end
  BY <1>1, <1>2, <1>3 DEF Again, FrameType
<1>5. NewChild(k.w, k.s, k.att + 1) \in KidType BY <1>1, <1>3 DEF NewChild, KidType, Stages
<1>6. f.step \in Steps /\ f.comp = 0 /\ ~f.handled /\ (f.early => f.cancel) /\ f.end = "none"
  BY <1>1, <1>2 DEF Good, Running
<1> HIDE DEF f, g
<1>7. Running(g) BY <1>3, <1>4, <1>6 DEF Running
<1>8. Good(g) BY <1>4, <1>6, <1>7, OnePhase DEF Good
<1> QED BY <1>1, <1>4, <1>5, <1>8 DEF f, g

\* An attempt that ended is repeated with a child of its own or handled, and its
\* own child is gone or an orphan.
LEMMA AttemptEnds ==
  ASSUME WInv, NEW k \in kids, ~k.orphan, NEW again \in BOOLEAN, NEW left,
         again => wf[k.w].att < Attempts,
         \A a \in left : a.orphan, left \subseteq KidType,
         NEW g, g = IF again THEN Again(wf[k.w]) ELSE AfterActivityError(wf[k.w]),
         wf' = [wf EXCEPT ![k.w] = g],
         kids' = ((kids \ {k}) \union left)
                  \union IF again THEN {NewChild(k.w, k.s, k.att + 1)} ELSE {}
  PROVE  /\ wf' \in [W -> FrameType] /\ kids' \subseteq KidType
         /\ Phases' /\ Awaited'
<1> USE DEF WInv
<1>1. k.w \in W /\ wf[k.w].st = "act" BY OnlyChild
<1>2. Good(wf[k.w]) BY <1>1 DEF Phases
<1>3. CASE again
  <2>1. g = Again(wf[k.w]) BY <1>3
  <2>2. /\ Good(Again(wf[k.w])) /\ Again(wf[k.w]).st = "act" /\ Again(wf[k.w]).att = k.att + 1
        /\ Again(wf[k.w]).step = k.s /\ NewChild(k.w, k.s, k.att + 1) \in KidType
    BY <1>3, AgainGood
  <2>3. /\ wf' \in [W -> FrameType] /\ Phases' /\ wf'[k.w] = Again(wf[k.w])
        /\ \A v \in W : v # k.w => wf'[v] = wf[v]
    BY <1>1, <2>1, <2>2, OneExecution
  <2>4. kids' = ((kids \ {k}) \union left) \union {NewChild(k.w, k.s, k.att + 1)} BY <1>3
  <2>5. kids' \subseteq KidType BY <2>2, <2>4 DEF Types
  <2>6. LET child == NewChild(k.w, k.s, k.att + 1) IN
        child.w = k.w /\ child.att = k.att + 1 /\ child.s = k.s
    BY DEF NewChild
  <2> DEFINE rest == (kids \ {k}) \union left
             next == {NewChild(k.w, k.s, k.att + 1)}
  <2>7. \A a \in next : /\ a.w = k.w /\ wf'[k.w].st = "act"
                         /\ a.att = wf'[k.w].att /\ a.s = wf'[k.w].step
    BY <2>2, <2>3, <2>6
  <2>8. \A a \in rest : a.orphan \/ (a \in kids /\ a # k) OBVIOUS
  <2>9. \A a, b \in next : a = b OBVIOUS
  <2>10. kids' = rest \union next BY <2>4
  <2> HIDE DEF rest, next
  <2>11. Awaited' BY <2>3, <2>5, <2>7, <2>8, <2>9, <2>10, AttemptOver
  <2> QED BY <2>3, <2>5, <2>11
<1>4. CASE ~again
  <2>1. g = AfterActivityError(wf[k.w]) BY <1>4
  <2>2. Good(AfterActivityError(wf[k.w])) BY <1>1, <1>2, AfterActivityErrorGood
  <2>3. /\ wf' \in [W -> FrameType] /\ Phases'
        /\ \A v \in W : v # k.w => wf'[v] = wf[v]
    BY <1>1, <2>1, <2>2, OneExecution
  <2>4. kids' = ((kids \ {k}) \union left) \union {} BY <1>4
  <2>5. kids' \subseteq KidType BY <2>4 DEF Types
  <2> DEFINE rest == (kids \ {k}) \union left
             next == {}
  <2>6. /\ \A a \in rest : a.orphan \/ (a \in kids /\ a # k)
        /\ kids' = rest \union next
        /\ \A a, b \in next : a = b
        /\ \A a \in next : /\ a.w = k.w /\ wf'[k.w].st = "act"
                            /\ a.att = wf'[k.w].att /\ a.s = wf'[k.w].step
    BY <2>4
  <2> HIDE DEF rest, next
  <2>7. Awaited' BY <2>3, <2>5, <2>6, AttemptOver
  <2> QED BY <2>3, <2>5, <2>7
<1> QED BY <1>3, <1>4

LEMMA AttemptFailsStep ==
  ASSUME WInv, NEW k \in kids, Current(k), NEW retry \in BOOLEAN, AttemptFails(k, retry)
  PROVE  wf' \in [W -> FrameType] /\ kids' \subseteq KidType /\ Phases' /\ Awaited'
<1> DEFINE again == retry /\ wf[k.w].att < Attempts /\ ~wf[k.w].cancel
           g == IF again THEN Again(wf[k.w]) ELSE AfterActivityError(wf[k.w])
<1>1. again \in BOOLEAN /\ ~k.orphan BY DEF Current
<1>2. wf' = [wf EXCEPT ![k.w] = g] BY DEF AttemptFails
<1>5. g = IF again THEN Again(wf[k.w]) ELSE AfterActivityError(wf[k.w]) OBVIOUS
<1>3. kids' = ((kids \ {k}) \union {}) \union IF again THEN {NewChild(k.w, k.s, k.att + 1)} ELSE {}
  BY DEF AttemptFails
<1>4. again => wf[k.w].att < Attempts OBVIOUS
<1> HIDE DEF again, g
<1> QED BY <1>1, <1>2, <1>3, <1>4, <1>5, AttemptEnds

\* One execution is replaced and its children, if it waits for any, are kept.
LEMMA ExecutionStep ==
  ASSUME WInv, NEW w \in W, NEW g, Good(g), wf' = [wf EXCEPT ![w] = g],
         UNCHANGED kids,
         wf[w].st = "act" => g.st = "act" /\ g.att = wf[w].att /\ g.step = wf[w].step
  PROVE  wf' \in [W -> FrameType] /\ Phases' /\ Awaited'
<1> USE DEF WInv
<1>1. /\ wf' \in [W -> FrameType] /\ Phases' /\ wf'[w] = g
      /\ \A v \in W : v # w => wf'[v] = wf[v]
  BY OneExecution
<1>2. \A k \in kids' : ~k.orphan =>
        /\ wf'[k.w].st = wf[k.w].st /\ wf'[k.w].att = wf[k.w].att
        /\ wf'[k.w].step = wf[k.w].step
  BY <1>1, OnlyChild
<1>3. Awaited' BY <1>2, StillAwaited
<1> QED BY <1>1, <1>3

\* The graph's node starts, waits, leaves.
LEMMA GraphStep ==
  ASSUME WInv, NEW w \in W,
         TaskStarts(w) \/ TaskReturns(w) \/ TaskTimesOut(w) \/ CancelAcknowledge(w)
  PROVE  WInv'
<1>1. UNCHANGED <<wf, kids, dir>>
  BY DEF TaskStarts, TaskReturns, TaskTimesOut, CancelAcknowledge
<1>2. /\ task' \in [W -> {"none", "dispatch", "wait", "done", "refused", "gone"}]
      /\ del' \in [W -> {"no", "signalled", "acked"}]
  BY DEF WInv, Types, TaskStarts, TaskReturns, TaskTimesOut, CancelAcknowledge
<1>3. Types' /\ Phases' /\ Awaited'
  BY <1>1, <1>2 DEF WInv, Types, Phases, Awaited, Is
<1> QED BY <1>3 DEF WInv

\* A dispatch starts the execution, at a step that the checkpoint names.
LEMMA DispatchStep ==
  ASSUME WInv, NEW w \in W, Dispatch(w)
  PROVE  WInv'
<1> DEFINE r == ResumeStep(w)
           s == IF r = 0 THEN 1 ELSE r
           g == [wf[w] EXCEPT !.st = "top", !.from = r, !.alone = TRUE, !.step = s]
<1>1. r \in 0..N BY Bounds DEF WInv, Types, DirType, ResumeStep, Expected
<1>2. UNCHANGED <<del, kids, dir>> BY DEF Dispatch
<1>3. task' \in [W -> {"none", "dispatch", "wait", "done", "refused", "gone"}]
  BY DEF WInv, Types, Dispatch
<1>4. CASE UNCHANGED wf
  BY <1>2, <1>3, <1>4 DEF WInv, Types, Phases, Awaited, Is
<1>5. CASE Is(w, "absent") /\ wf' = [wf EXCEPT ![w] = g]
  <2>1. wf[w] \in FrameType /\ Good(wf[w]) /\ wf[w].st = "absent"
    BY <1>5 DEF WInv, Types, Phases, Is
  <2>2. s \in 1..N /\ s \in 0..N BY <1>1, Bounds
  <2> HIDE DEF r, s
  <2>3. /\ g \in FrameType /\ g.st = "top" /\ g.step \in 1..N
        /\ g.comp = wf[w].comp /\ g.handled = wf[w].handled /\ g.early = wf[w].early
        /\ g.end = wf[w].end
    BY <1>1, <2>1, <2>2 DEF FrameType
  <2>5. wf[w].comp = 0 /\ ~wf[w].handled /\ wf[w].end = "none" /\ ~wf[w].early
    BY <2>1 DEF Good
  <2> HIDE DEF g
  <2>6. Running(g) BY <2>3, <2>5 DEF Running, Steps
  <2>7. Good(g) BY <2>3, <2>5, <2>6, OnePhase DEF Good
  <2>8. wf' \in [W -> FrameType] /\ Phases' /\ Awaited'
    BY <1>2, <1>5, <2>1, <2>7, ExecutionStep
  <2>9. Types' BY <1>2, <1>3, <2>8 DEF WInv, Types
  <2> QED BY <2>8, <2>9 DEF WInv
<1> QED BY <1>4, <1>5 DEF Dispatch

\* What a step leaves to show when it touches executions and children only.
LEMMA RestOfTypes ==
  ASSUME WInv, task' \in [W -> {"none", "dispatch", "wait", "done", "refused", "gone"}],
         del' \in [W -> {"no", "signalled", "acked"}], dir' \in DirType,
         wf' \in [W -> FrameType], kids' \subseteq KidType, Phases', Awaited'
  PROVE  WInv'
BY DEF WInv, Types

\* A signal is recorded in the execution, which goes on where it was.
LEMMA SignalStep ==
  ASSUME WInv, NEW w \in W,
         RequestPause(w) \/ RequestResume(w) \/ CancelSignal(w) \/ DeadlinePasses(w)
  PROVE  WInv'
<1>1. /\ UNCHANGED <<task, kids, dir>> /\ wf \in [W -> FrameType] /\ kids \subseteq KidType
      /\ del' \in [W -> {"no", "signalled", "acked"}]
      /\ task \in [W -> {"none", "dispatch", "wait", "done", "refused", "gone"}]
      /\ dir \in DirType
  BY DEF WInv, Types, RequestPause, RequestResume, CancelSignal, DeadlinePasses
<1>8. wf[w] \in FrameType BY <1>1
<1>2. ASSUME Open(w), NEW g, Good(g), g.st = wf[w].st, g.att = wf[w].att,
             g.step = wf[w].step, wf' = [wf EXCEPT ![w] = g]
      PROVE  WInv'
  <2>1. wf' \in [W -> FrameType] /\ Phases' /\ Awaited' BY <1>1, <1>2, ExecutionStep
  <2> QED BY <1>1, <2>1, RestOfTypes
<1>3. ASSUME Open(w), NEW g, g \in FrameType, g.st = wf[w].st, g.att = wf[w].att,
             g.step = wf[w].step, g.comp = wf[w].comp, g.handled = wf[w].handled,
             g.why = wf[w].why, g.early = wf[w].early, g.cancel = wf[w].cancel,
             g.end = wf[w].end
      PROVE  Good(g)
  <2>1. Good(wf[w]) /\ wf[w].st \notin {"absent", "closed"}
    BY <1>3 DEF WInv, Phases, Open
  <2> DEFINE f == wf[w]
  <2>2. Running(g) BY <1>3, <2>1 DEF Good, Running
  <2>3. Unwinding(g) BY <1>3, <2>1 DEF Good, Unwinding
  <2>4. Reading(g) BY <1>3, <2>1 DEF Good, Reading
  <2> QED BY <1>3, <2>1, <2>2, <2>3, <2>4, OnePhase DEF Good
<1>4. CASE RequestPause(w)
  <2> DEFINE g == [wf[w] EXCEPT !.paused = TRUE]
  <2>1. Open(w) /\ wf' = [wf EXCEPT ![w] = g] BY <1>4 DEF RequestPause
  <2>2. /\ g \in FrameType /\ g.st = wf[w].st /\ g.att = wf[w].att
        /\ g.step = wf[w].step /\ g.comp = wf[w].comp /\ g.handled = wf[w].handled
        /\ g.why = wf[w].why /\ g.early = wf[w].early /\ g.cancel = wf[w].cancel
        /\ g.end = wf[w].end
    BY <1>8 DEF FrameType
  <2> HIDE DEF g
  <2> QED BY <2>1, <2>2, <1>2, <1>3
<1>5. CASE RequestResume(w)
  <2> DEFINE g == [wf[w] EXCEPT !.paused = FALSE]
  <2>1. Open(w) /\ wf' = [wf EXCEPT ![w] = g] BY <1>5 DEF RequestResume
  <2>2. /\ g \in FrameType /\ g.st = wf[w].st /\ g.att = wf[w].att
        /\ g.step = wf[w].step /\ g.comp = wf[w].comp /\ g.handled = wf[w].handled
        /\ g.why = wf[w].why /\ g.early = wf[w].early /\ g.cancel = wf[w].cancel
        /\ g.end = wf[w].end
    BY <1>8 DEF FrameType
  <2> HIDE DEF g
  <2> QED BY <2>1, <2>2, <1>2, <1>3
<1>6. CASE DeadlinePasses(w)
  <2> DEFINE g == [wf[w] EXCEPT !.late = TRUE]
  <2>1. Open(w) /\ wf' = [wf EXCEPT ![w] = g] BY <1>6 DEF DeadlinePasses
  <2>2. /\ g \in FrameType /\ g.st = wf[w].st /\ g.att = wf[w].att
        /\ g.step = wf[w].step /\ g.comp = wf[w].comp /\ g.handled = wf[w].handled
        /\ g.why = wf[w].why /\ g.early = wf[w].early /\ g.cancel = wf[w].cancel
        /\ g.end = wf[w].end
    BY <1>8 DEF FrameType
  <2> HIDE DEF g
  <2> QED BY <2>1, <2>2, <1>2, <1>3
<1>7. CASE CancelSignal(w)
  <2>1. CASE Open(w)
    <3>1. wf' = [wf EXCEPT ![w] = Cancelled(wf[w])] BY <1>7, <2>1 DEF CancelSignal
    <3>2. Good(wf[w]) /\ wf[w].st \notin {"absent", "closed"}
      BY <2>1 DEF WInv, Phases, Open
    <3> QED BY <2>1, <3>1, <3>2, <1>2, CancelledGood
  <2>2. CASE ~Open(w)
    <3>1. UNCHANGED wf BY <1>7, <2>2 DEF CancelSignal
    <3> QED BY <1>1, <3>1 DEF WInv, Types, Phases, Awaited, Is
  <2> QED BY <2>1, <2>2
<1> QED BY <1>4, <1>5, <1>6, <1>7

\* The top of the loop: a cancel and then the deadline are honoured before the
\* step's activity is started with its child.
LEMMA LoopTopStep ==
  ASSUME WInv, NEW w \in W, LoopTop(w)
  PROVE  WInv'
<1> DEFINE f == wf[w]
           a == [f EXCEPT !.st = "act", !.att = 1]
           g == IF f.cancel THEN Compensating(f, "cancelled")
                ELSE IF f.late THEN Compensating(f, "timed_out") ELSE a
<1>1. /\ f \in FrameType /\ Good(f) /\ f.st = "top" /\ UNCHANGED <<task, del, dir>>
      /\ kids \subseteq KidType
  BY DEF WInv, Types, Phases, LoopTop, Is
<1>2. f.step \in Steps /\ f.comp = 0 /\ ~f.handled /\ f.end = "none" /\ (f.early => f.cancel)
  BY <1>1 DEF Good, Running
<1> HIDE DEF f
<1>3. Good(a) /\ a.st = "act" /\ a.att = 1 /\ a.step = f.step
  <2>1. /\ a \in FrameType /\ a.st = "act" /\ a.att = 1 /\ a.step = f.step
        /\ a.comp = f.comp /\ a.handled = f.handled /\ a.end = f.end
        /\ a.early = f.early /\ a.cancel = f.cancel
    BY <1>1, Bounds DEF FrameType
  <2> HIDE DEF a
  <2>2. Running(a) BY <1>2, <2>1, Bounds DEF Running
  <2> QED BY <1>2, <2>1, <2>2, OnePhase DEF Good
<1>4. \A why \in {"cancelled", "timed_out"} :
        Good(Compensating(f, why)) /\ Compensating(f, why).st = "comp"
  <2>1. ASSUME NEW why \in {"cancelled", "timed_out"}
        PROVE  Good(Compensating(f, why)) /\ Compensating(f, why).st = "comp"
    <3>1. why \in Unhappy BY DEF Unhappy
    <3>2. Compensating(f, why).st = "comp" BY <1>1 DEF Compensating, FrameType
    <3> QED BY <1>1, <3>1, <3>2, CompensatingGood
  <2> QED BY <2>1
<1>5. wf' = [wf EXCEPT ![w] = g] BY DEF LoopTop, f
<1>6. kids' = IF wf'[w].st = "act" THEN kids \union {NewChild(w, f.step, 1)} ELSE kids
  BY DEF LoopTop, f
<1> HIDE DEF a
<1>7. Good(g) /\ (g.st = "act" => g = a) BY <1>3, <1>4
<1>8. /\ wf' \in [W -> FrameType] /\ Phases' /\ wf'[w] = g
      /\ \A v \in W : v # w => wf'[v] = wf[v]
  BY <1>5, <1>7, OneExecution DEF WInv
<1>9. \A k \in kids : ~k.orphan => k.w # w /\ k.w \in W
  BY <1>1, OnlyChild DEF f, WInv
<1> HIDE DEF g
<1>10. CASE g.st = "act"
  <2> DEFINE n == NewChild(w, f.step, 1)
  <2>1. kids' = kids \union {n} BY <1>6, <1>8, <1>10
  <2>2. n \in KidType /\ n.w = w /\ n.att = 1 /\ n.s = f.step
    BY <1>2, Bounds DEF KidType, NewChild, Stages
  <2> HIDE DEF n
  <2>3. \A k \in kids' : ~k.orphan =>
          Is(k.w, "act")' /\ wf'[k.w].att = k.att /\ wf'[k.w].step = k.s
    <3> SUFFICES ASSUME NEW k \in kids', ~k.orphan
                 PROVE  Is(k.w, "act")' /\ wf'[k.w].att = k.att /\ wf'[k.w].step = k.s
      OBVIOUS
    <3>1. CASE k = n BY <3>1, <1>3, <1>7, <1>8, <1>10, <2>2 DEF Is
    <3>2. CASE k \in kids BY <3>2, <1>8, <1>9 DEF WInv, Awaited, Is
    <3> QED BY <2>1, <3>1, <3>2
  <2>4. \A k, m \in kids' : ~k.orphan /\ ~m.orphan /\ k.w = m.w => k = m
    BY <1>9, <2>1, <2>2 DEF WInv, Awaited
  <2>5. Awaited' BY <2>3, <2>4 DEF Awaited
  <2>6. kids' \subseteq KidType BY <1>1, <2>1, <2>2
  <2> QED BY <1>1, <1>8, <2>5, <2>6, RestOfTypes DEF WInv, Types
<1>11. CASE g.st # "act"
  <2>1. kids' = kids BY <1>6, <1>8, <1>11
  <2>2. \A k \in kids' : ~k.orphan =>
          /\ wf'[k.w].st = wf[k.w].st /\ wf'[k.w].att = wf[k.w].att
          /\ wf'[k.w].step = wf[k.w].step
    BY <1>8, <1>9, <2>1
  <2>3. Awaited' BY <2>1, <2>2, StillAwaited DEF WInv
  <2> QED BY <1>1, <1>8, <2>1, <2>3, RestOfTypes DEF WInv, Types
<1> QED BY <1>10, <1>11

\* Compensation and the final read, which has two outcomes.
LEMMA ReadStep ==
  ASSUME WInv, NEW w \in W, Compensate(w) \/ FinalResult(w)
  PROVE  WInv'
<1>1. /\ Good(wf[w]) /\ wf[w].st \in {"comp", "read"} /\ UNCHANGED <<task, del, kids, dir>>
  BY DEF WInv, Phases, Compensate, FinalResult, Is
<1>2. ASSUME NEW g, Good(g), wf' = [wf EXCEPT ![w] = g]
      PROVE  WInv'
  <2>1. wf' \in [W -> FrameType] /\ Phases' /\ Awaited' BY <1>1, <1>2, ExecutionStep
  <2> QED BY <1>1, <2>1, RestOfTypes DEF WInv, Types
<1>3. CASE Compensate(w)
  <2>1. wf' = [wf EXCEPT ![w] = Unwound(wf[w])] /\ wf[w].st = "comp"
    BY <1>3 DEF Compensate, Is
  <2> QED BY <1>1, <1>2, <2>1, CompensateGood
<1>4. CASE FinalResult(w)
  <2> DEFINE f == wf[w]
  <2>1. f.st = "read" BY <1>4 DEF FinalResult, Is
  <2>2. Reading(f) BY <1>1 DEF Good
  <2>3. /\ f.why \in Unhappy \union {"completed"}
        /\ f.why = "completed" => ~f.early /\ ~f.handled
        /\ f.why # "completed" => f.comp > 0
        /\ f.comp \in 0..2 /\ (f.handled => f.comp \in 1..2)
    BY <2>1, <2>2 DEF Reading
  <2>4. Good(Closed(f, f.why))
    <3>1. f.why \in Unhappy \union {"raised"} => f.comp > 0 BY <2>3 DEF Unhappy
    <3>2. f.why \in Unhappy \union {"completed", "raised", "expired"} BY <2>3
    <3> HIDE DEF f
    <3> QED BY <1>1, <2>3, <3>1, <3>2, ClosedGood DEF f
  <2>5. f.handled => Good(Closed(f, "raised"))
    <3>1. f.handled => f.comp > 0 BY <2>3
    <3> QED BY <1>1, <2>3, <3>1, ClosedGood DEF Unhappy
  <2>6. ~f.handled => Good(AfterActivityError(f)) BY <1>1, <2>1, AfterActivityErrorGood
  <2>7. CASE wf' = [wf EXCEPT ![w] = Closed(f, f.why)] BY <1>2, <2>4, <2>7
  <2>8. CASE wf' = [wf EXCEPT ![w] = IF f.handled THEN Closed(f, "raised")
                                      ELSE AfterActivityError(f)]
    BY <1>2, <2>5, <2>6, <2>8
  <2> QED BY <1>4, <2>7, <2>8 DEF FinalResult
<1> QED BY <1>3, <1>4

\* The server closes an execution that is too old; its child is on its own.
LEMMA TimeoutStep ==
  ASSUME WInv, NEW w \in W, ExecutionTimeout(w)
  PROVE  WInv'
<1> DEFINE f == wf[w]
           g == Closed(f, "expired")
           o(k) == [k EXCEPT !.orphan = k.orphan \/ k.w = w]
<1>1. /\ Good(f) /\ f.st \notin {"absent", "closed"} /\ UNCHANGED <<task, del, dir>>
      /\ wf' = [wf EXCEPT ![w] = g] /\ kids' = {o(k) : k \in kids}
      /\ kids \subseteq KidType
  BY DEF WInv, Types, Phases, ExecutionTimeout, Open
<1> HIDE DEF f
<1>2. f.comp \in 0..2
  <2>1. CASE f.st \in {"top", "act"} BY <1>1, <2>1 DEF Good, Running
  <2>2. CASE f.st = "comp" BY <1>1, <2>2 DEF Good, Unwinding
  <2>3. CASE f.st = "read"
    <3>1. IF f.handled THEN f.comp \in 1..2 ELSE f.comp \in 0..1
      BY <1>1, <2>3 DEF Good, Reading
    <3> QED BY <3>1
  <2> QED BY <1>1, <2>1, <2>2, <2>3 DEF Good, FrameType
<1>3. "expired" \notin Unhappy \union {"raised", "completed"} BY DEF Unhappy
<1>4. Good(g) /\ g.st = "closed" BY <1>1, <1>2, <1>3, ClosedGood
<1> HIDE DEF g
<1>5. /\ wf' \in [W -> FrameType] /\ Phases' /\ \A v \in W : v # w => wf'[v] = wf[v]
  BY <1>1, <1>4, OneExecution DEF WInv
<1>6. \A k \in kids : /\ o(k) \in KidType /\ o(k).w = k.w /\ o(k).att = k.att /\ o(k).s = k.s
                      /\ ~o(k).orphan => ~k.orphan /\ k.w # w /\ o(k) = k
  <2> SUFFICES ASSUME NEW k \in kids
               PROVE  /\ o(k) \in KidType /\ o(k).w = k.w /\ o(k).att = k.att
                      /\ o(k).s = k.s
                      /\ ~o(k).orphan => ~k.orphan /\ k.w # w /\ o(k) = k
    OBVIOUS
  <2>1. k \in KidType BY <1>1
  <2>2. /\ o(k) \in KidType /\ o(k).w = k.w /\ o(k).att = k.att /\ o(k).s = k.s
        /\ o(k).orphan <=> (k.orphan \/ k.w = w)
    BY <2>1 DEF KidType
  <2>3. ASSUME ~k.orphan, k.w # w PROVE o(k) = k
    <3>1. (k.orphan \/ k.w = w) = FALSE /\ k.orphan = FALSE BY <2>1, <2>3 DEF KidType
    <3> QED BY <2>1, <3>1 DEF KidType
  <2> QED BY <2>2, <2>3
<1> HIDE DEF o
<1>7. \A k \in kids' : ~k.orphan => k \in kids /\ k.w # w
  BY <1>1, <1>6
<1>8. kids' \subseteq KidType BY <1>1, <1>6
<1>9. Awaited' BY <1>5, <1>7, <1>8 DEF WInv, Awaited, Is, KidType
<1> QED BY <1>1, <1>5, <1>8, <1>9, RestOfTypes DEF WInv, Types

\* An attempt that fails under its own control, or is stopped.
LEMMA FailureStep ==
  ASSUME WInv, NEW k \in kids, KidFails(k) \/ CancelReachesActivity(k)
  PROVE  WInv'
<1>1. UNCHANGED <<task, del, dir>> BY DEF KidFails, CancelReachesActivity
<1>2. PICK retry \in BOOLEAN : Current(k) /\ AttemptFails(k, retry)
  BY DEF KidFails, CancelReachesActivity
<1>3. wf' \in [W -> FrameType] /\ kids' \subseteq KidType /\ Phases' /\ Awaited'
  BY <1>2, AttemptFailsStep
<1> QED BY <1>1, <1>3, RestOfTypes DEF WInv, Types

\* An attempt whose worker is lost leaves its child behind.
LEMMA HeartbeatStep ==
  ASSUME WInv, NEW k \in kids, HeartbeatTimeout(k)
  PROVE  WInv'
<1> DEFINE again == wf[k.w].att < Attempts /\ ~wf[k.w].cancel
           g == IF again THEN Again(wf[k.w]) ELSE AfterActivityError(wf[k.w])
           left == {[k EXCEPT !.orphan = TRUE]}
<1>1. UNCHANGED <<task, del, dir>> /\ ~k.orphan BY DEF HeartbeatTimeout, Current
<1>2. wf' = [wf EXCEPT ![k.w] = g] BY DEF HeartbeatTimeout
<1>3. kids' = ((kids \ {k}) \union left)
                \union IF again THEN {NewChild(k.w, k.s, k.att + 1)} ELSE {}
  BY DEF HeartbeatTimeout
<1>4. /\ again \in BOOLEAN /\ (again => wf[k.w].att < Attempts)
      /\ g = IF again THEN Again(wf[k.w]) ELSE AfterActivityError(wf[k.w])
  OBVIOUS
<1>5. k \in KidType BY DEF WInv, Types
<1>6. left \subseteq KidType /\ \A a \in left : a.orphan BY <1>5 DEF KidType
<1> HIDE DEF again, g, left
<1>7. wf' \in [W -> FrameType] /\ kids' \subseteq KidType /\ Phases' /\ Awaited'
  BY <1>1, <1>2, <1>3, <1>4, <1>6, AttemptEnds
<1> QED BY <1>1, <1>7, RestOfTypes DEF WInv, Types

\* A child in its next stage is still the one that its execution waits for.
LEMMA StageStep ==
  ASSUME WInv, NEW k \in kids, NEW ph \in Stages, dir' \in DirType,
         UNCHANGED <<task, del, wf>>,
         kids' = (kids \ {k}) \union {[k EXCEPT !.ph = ph]}
  PROVE  WInv'
<1> DEFINE m == [k EXCEPT !.ph = ph]
<1>1. k \in KidType /\ kids \subseteq KidType BY DEF WInv, Types
<1>2. /\ m \in KidType /\ m.w = k.w /\ m.s = k.s /\ m.att = k.att /\ m.orphan = k.orphan
  BY <1>1 DEF KidType
<1>3. kids' = (kids \ {k}) \union {m} OBVIOUS
<1> HIDE DEF m
<1>4. Awaited' BY <1>2, <1>3, ChildChanges DEF WInv
<1>5. kids' \subseteq KidType BY <1>1, <1>2, <1>3
<1> QED BY <1>4, <1>5 DEF WInv, Types, Phases

\* The child that takes the lock, or whose resume is refused.
LEMMA LocksStep ==
  ASSUME WInv, NEW k \in kids, KidLocks(k)
  PROVE  WInv'
<1>1. UNCHANGED <<task, del, dir>> /\ dir \in DirType BY DEF WInv, Types, KidLocks
<1>3. CASE Current(k) /\ AttemptFails(k, FALSE)
  <2>1. wf' \in [W -> FrameType] /\ kids' \subseteq KidType /\ Phases' /\ Awaited'
    BY <1>3, AttemptFailsStep
  <2> QED BY <1>1, <2>1, RestOfTypes DEF WInv, Types
<1>4. CASE kids' = kids \ {k} /\ UNCHANGED wf
  <2>1. Awaited' BY <1>4, StillAwaited DEF WInv
  <2> QED BY <1>1, <1>4, <2>1 DEF WInv, Types, Phases
<1>5. CASE kids' = (kids \ {k}) \union {[k EXCEPT !.ph = "load"]} /\ UNCHANGED wf
  BY <1>1, <1>5, StageStep DEF Stages
<1> QED BY <1>3, <1>4, <1>5, Zenon DEF KidLocks

\* The history of an execution is no part of what its phases promise.
LEMMA NotedGood ==
  ASSUME WInv, NEW k \in kids, NEW applied \in BOOLEAN, NEW dropped \in BOOLEAN,
         wf' = Noted(k, applied, dropped)
  PROVE  /\ wf' \in [W -> FrameType] /\ Phases'
         /\ \A v \in W :
              /\ wf'[v].st = wf[v].st /\ wf'[v].att = wf[v].att
              /\ wf'[v].step = wf[v].step /\ wf'[v].from = wf[v].from
              /\ wf'[v].why = wf[v].why /\ wf'[v].end = wf[v].end
              /\ wf'[v].alone <=> (wf[v].alone /\ ~dropped /\ (applied => v = k.w))
              /\ wf'[v].times = IF applied /\ v = k.w THEN wf[v].times + 1 ELSE wf[v].times
<1> DEFINE h(v) == [wf[v] EXCEPT
             !.alone = wf[v].alone /\ ~dropped /\ (applied => v = k.w),
             !.times = IF applied /\ v = k.w THEN wf[v].times + 1 ELSE wf[v].times]
<1>1. \A v \in W : wf'[v] = h(v) BY DEF Noted
<1>2. ASSUME NEW v \in W
      PROVE  /\ h(v) \in FrameType /\ Good(h(v))
             /\ h(v).st = wf[v].st /\ h(v).att = wf[v].att
             /\ h(v).step = wf[v].step /\ h(v).from = wf[v].from
             /\ h(v).why = wf[v].why /\ h(v).end = wf[v].end
             /\ h(v).alone <=> (wf[v].alone /\ ~dropped /\ (applied => v = k.w))
             /\ h(v).times = IF applied /\ v = k.w THEN wf[v].times + 1 ELSE wf[v].times
  <2>1. wf[v] \in FrameType /\ Good(wf[v]) BY DEF WInv, Types, Phases
  <2>2. (wf[v].alone /\ ~dropped /\ (applied => v = k.w)) \in BOOLEAN OBVIOUS
  <2>3. (IF applied /\ v = k.w THEN wf[v].times + 1 ELSE wf[v].times) \in Nat
    BY <2>1 DEF FrameType
  <2>4. /\ h(v) \in FrameType
        /\ h(v).st = wf[v].st /\ h(v).att = wf[v].att /\ h(v).step = wf[v].step
        /\ h(v).from = wf[v].from /\ h(v).why = wf[v].why /\ h(v).end = wf[v].end
        /\ h(v).alone <=> (wf[v].alone /\ ~dropped /\ (applied => v = k.w))
        /\ h(v).times = IF applied /\ v = k.w THEN wf[v].times + 1 ELSE wf[v].times
        /\ h(v).comp = wf[v].comp /\ h(v).handled = wf[v].handled
        /\ h(v).early = wf[v].early /\ h(v).cancel = wf[v].cancel
    BY <2>1, <2>2, <2>3 DEF FrameType
  <2> HIDE DEF h
  <2>5. Running(h(v)) BY <2>1, <2>4 DEF Good, Running
  <2>6. Unwinding(h(v)) BY <2>1, <2>4 DEF Good, Unwinding
  <2>7. Reading(h(v)) BY <2>1, <2>4 DEF Good, Reading
  <2>8. Over(h(v)) BY <2>1, <2>4 DEF Good, Over
  <2>9. Good(h(v)) BY <2>1, <2>4, <2>5, <2>6, <2>7, <2>8 DEF Good
  <2> QED BY <2>4, <2>9
<1> HIDE DEF h
<1>3. wf' \in [W -> FrameType]
  <2>1. wf' = [v \in W |-> wf'[v]] BY DEF Noted
  <2> QED BY <1>1, <1>2, <2>1
<1>4. Phases' BY <1>1, <1>2 DEF Phases
<1> QED BY <1>1, <1>2, <1>3, <1>4

\* The first save under the lock.
LEMMA RestoresStep ==
  ASSUME WInv, NEW k \in kids, KidRestores(k)
  PROVE  WInv'
<1> DEFINE applied == Active(k) /\ ~Consumed(k.w)
           cut == applied /\ ~Truncated(k.w)
           m == [k EXCEPT !.ph = "work"]
<1>1. /\ k \in KidType /\ k.w \in W /\ UNCHANGED <<task, del>> /\ kids \subseteq KidType
      /\ dir \in DirType /\ kids' = (kids \ {k}) \union {m}
  BY DEF WInv, Types, KidRestores, KidType
<1>2. PICK n \in 0..dir.len :
        /\ dir' = [dir EXCEPT !.len = n, !.bad = IF @ > n THEN 0 ELSE @,
                              !.token = IF applied THEN k.w ELSE @]
        /\ wf' = Noted(k, applied, ~cut /\ n < dir.len)
  BY DEF KidRestores
<1>3. dir.len \in 0..N /\ n \in 0..N /\ dir.bad \in 0..N BY <1>1, Bounds DEF DirType
<1>4. dir' \in DirType BY <1>1, <1>2, <1>3, Bounds DEF DirType
<1>5. applied \in BOOLEAN /\ (~cut /\ n < dir.len) \in BOOLEAN
  BY DEF Active, Consumed
<1>6. /\ wf' \in [W -> FrameType] /\ Phases'
      /\ \A v \in W : /\ wf'[v].st = wf[v].st /\ wf'[v].att = wf[v].att
                      /\ wf'[v].step = wf[v].step
  <2> DEFINE dropped == ~cut /\ n < dir.len
  <2>1. dropped \in BOOLEAN /\ wf' = Noted(k, applied, dropped) BY <1>2
  <2> HIDE DEF dropped, applied, cut
  <2> QED BY <1>5, <2>1, NotedGood
<1>7. m \in KidType /\ m.w = k.w /\ m.s = k.s /\ m.att = k.att /\ m.orphan = k.orphan
  BY <1>1 DEF KidType, Stages
<1> HIDE DEF m
<1>8. \A a \in kids' : a = m \/ (a \in kids /\ a # k) BY <1>1
<1>9. kids' \subseteq KidType BY <1>1, <1>7
<1>10. \A a \in kids' : ~a.orphan =>
         Is(a.w, "act")' /\ wf'[a.w].att = a.att /\ wf'[a.w].step = a.s
  <2> SUFFICES ASSUME NEW a \in kids', ~a.orphan
               PROVE  /\ wf'[a.w].st = "act" /\ wf'[a.w].att = a.att
                      /\ wf'[a.w].step = a.s
    BY DEF Is
  <2>1. PICK b \in kids : ~b.orphan /\ b.w = a.w /\ b.att = a.att /\ b.s = a.s
    BY <1>7, <1>8
  <2>2. wf[b.w].st = "act" /\ wf[b.w].att = b.att /\ wf[b.w].step = b.s
    BY <2>1 DEF WInv, Awaited, Is
  <2>3. b.w \in W BY <1>1 DEF KidType
  <2> QED BY <2>1, <2>2, <2>3, <1>6
<1>11. \A a, b \in kids' : ~a.orphan /\ ~b.orphan /\ a.w = b.w => a = b
  BY <1>7, <1>8 DEF WInv, Awaited
<1>12. Awaited' BY <1>10, <1>11 DEF Awaited
<1> QED BY <1>1, <1>4, <1>6, <1>9, <1>12, RestOfTypes DEF WInv, Types

\* The report under the lock.
LEMMA FinishesStep ==
  ASSUME WInv, NEW k \in kids, KidFinishes(k)
  PROVE  WInv'
<1>1. UNCHANGED <<task, del, wf>> /\ dir \in DirType BY DEF WInv, Types, KidFinishes
<1>2. PICK ph \in {"stopped", "reported", "checkpointed"} :
        kids' = (kids \ {k}) \union {[k EXCEPT !.ph = ph]}
  BY DEF KidFinishes
<1>3. dir' = dir \/ \E a \in 0..N : dir' = [dir EXCEPT !.ask = a]
  <2>1. N \in 0..N BY Bounds
  <2> QED BY <2>1, Zenon DEF KidFinishes
<1>4. dir' \in DirType BY <1>1, <1>3 DEF DirType
<1> QED BY <1>1, <1>2, <1>4, StageStep DEF Stages
\* A commit adds one step, or marks the first that is not committed.
LEMMA CommitsStep ==
  ASSUME WInv, NEW k \in kids, KidCommits(k)
  PROVE  WInv'
<1> DEFINE m == [k EXCEPT !.ph = "stop"]
<1>1. /\ k \in KidType /\ UNCHANGED <<task, del, wf>> /\ kids \subseteq KidType
      /\ dir \in DirType /\ dir.len < k.s
  BY DEF WInv, Types, KidCommits
<1>2. dir.len + 1 \in 0..N /\ dir.bad \in 0..N BY <1>1, Bounds DEF KidType, DirType, Steps
<1>3. dir' \in DirType
  <2>1. CASE dir' = [dir EXCEPT !.len = @ + 1] BY <1>1, <1>2, <2>1 DEF DirType
  <2>2. CASE dir' = [dir EXCEPT !.len = @ + 1, !.bad = IF @ = 0 THEN dir.len + 1 ELSE @]
    BY <1>1, <1>2, <2>2 DEF DirType
  <2>3. CASE dir' = [dir EXCEPT !.bad = dir.len + 1] BY <1>1, <1>2, <2>3 DEF DirType
  <2> QED BY <2>1, <2>2, <2>3 DEF KidCommits
<1>4. /\ m \in KidType /\ m.w = k.w /\ m.s = k.s /\ m.att = k.att /\ m.orphan = k.orphan
  BY <1>1 DEF KidType, Stages
<1>5. kids' = kids \/ kids' = (kids \ {k}) \union {m} BY DEF KidCommits
<1> HIDE DEF m
<1>6. Awaited'
  <2>1. CASE kids' = kids BY <1>1, <2>1, StillAwaited DEF WInv
  <2>2. CASE kids' = (kids \ {k}) \union {m} BY <1>1, <1>4, <2>2, ChildChanges DEF WInv
  <2> QED BY <1>5, <2>1, <2>2
<1>7. kids' \subseteq KidType BY <1>1, <1>4, <1>5
<1> QED BY <1>1, <1>3, <1>6, <1>7 DEF WInv, Types, Phases

\* The child that an attempt waits for exits, and its summary decides; any other
\* child just goes.
LEMMA ExitsStep ==
  ASSUME WInv, NEW k \in kids, KidExits(k)
  PROVE  WInv'
<1> DEFINE ok == k.ph # "stopped"
           full == k.ph # "checkpointed"
           g == AfterSummary(k.w, ok, full)
<1>1. /\ k \in KidType /\ UNCHANGED <<task, del, dir>> /\ kids' = kids \ {k}
      /\ kids \subseteq KidType /\ dir \in DirType
  BY DEF WInv, Types, KidExits
<1>2. CASE ~Current(k)
  <2>1. UNCHANGED wf BY <1>2 DEF KidExits
  <2>2. Awaited' BY <1>1, <2>1, StillAwaited DEF WInv
  <2> QED BY <1>1, <2>1, <2>2 DEF WInv, Types, Phases
<1>3. CASE Current(k)
  <2>1. wf' = [wf EXCEPT ![k.w] = g] BY <1>3 DEF KidExits
  <2>2. /\ ~k.orphan /\ k.w \in W /\ Is(k.w, "act") /\ wf[k.w].step = k.s
        /\ \A a \in kids : a # k /\ a.w = k.w => a.orphan
    BY <1>3, OnlyChild DEF WInv, Current
  <2>3. Good(wf[k.w]) BY <2>2 DEF WInv, Phases
  <2>4. ok \in BOOLEAN /\ full \in BOOLEAN OBVIOUS
  <2> HIDE DEF ok, full
  <2>5. Good(g) BY <1>1, <2>2, <2>3, <2>4, AfterSummaryGood
  <2> HIDE DEF g
  <2>6. /\ wf' \in [W -> FrameType] /\ Phases'
        /\ \A v \in W : v # k.w => wf'[v] = wf[v]
    BY <2>1, <2>2, <2>5, OneExecution DEF WInv
  <2>7. \A a \in kids' : ~a.orphan => a \in kids /\ a.w # k.w /\ a.w \in W
    BY <1>1, <2>2 DEF KidType
  <2>8. Awaited' BY <2>6, <2>7 DEF WInv, Awaited, Is
  <2> QED BY <1>1, <2>6, <2>8, RestOfTypes DEF WInv, Types
<1> QED BY <1>2, <1>3

LEMMA OrphanStep ==
  ASSUME WInv, NEW k \in kids, OrphanKilled(k)
  PROVE  WInv'
<1>1. UNCHANGED <<task, del, wf, dir>> /\ kids' = kids \ {k} BY DEF OrphanKilled
<1>2. Awaited' BY <1>1, StillAwaited DEF WInv
<1> QED BY <1>1, <1>2 DEF WInv, Types, Phases

-----------------------------------------------------------------------------
(* The invariant and what follows from it. *)

LEMMA WInit == Init => WInv
<1> SUFFICES ASSUME Init PROVE WInv OBVIOUS
<1>1. Good(Absent) /\ Absent \in FrameType BY AbsentGood DEF Good
<1>2. wf = [w \in W |-> Absent] /\ kids = {} BY DEF Init
<1>3. wf \in [W -> FrameType] /\ Phases BY <1>1, <1>2 DEF Phases
<1>4. dir \in DirType BY Bounds DEF Init, DirType
<1>5. Types BY <1>2, <1>3, <1>4 DEF Init, Types
<1>6. Awaited BY <1>2 DEF Awaited
<1> QED BY <1>3, <1>5, <1>6 DEF WInv

LEMMA WNext == WInv /\ [Next]_vars => WInv'
<1> SUFFICES ASSUME WInv, [Next]_vars PROVE WInv' OBVIOUS
<1>1. CASE UNCHANGED vars BY <1>1 DEF WInv, Types, Phases, Awaited, Is, vars
<1>2. ASSUME NEW w \in W,
             \/ TaskStarts(w) \/ Dispatch(w) \/ TaskReturns(w) \/ TaskTimesOut(w)
             \/ RequestPause(w) \/ RequestResume(w) \/ CancelSignal(w)
             \/ CancelAcknowledge(w) \/ LoopTop(w) \/ Compensate(w) \/ FinalResult(w)
             \/ ExecutionTimeout(w) \/ DeadlinePasses(w)
      PROVE  WInv'
  BY <1>2, GraphStep, DispatchStep, SignalStep, LoopTopStep, ReadStep, TimeoutStep
<1>3. CASE Kid BY <1>3, LocksStep, RestoresStep, CommitsStep, FinishesStep, ExitsStep DEF Kid
<1>4. ASSUME NEW k \in kids,
             KidFails(k) \/ CancelReachesActivity(k) \/ HeartbeatTimeout(k) \/ OrphanKilled(k)
      PROVE  WInv'
  BY <1>4, FailureStep, HeartbeatStep, OrphanStep
<1> QED BY <1>1, <1>2, <1>3, <1>4 DEF Next

LEMMA WInvariant == Spec => []WInv
BY WInit, WNext, PTL DEF Spec

\* The resumes.  An execution that is done, or will be when its summary is read:
Done(f) == f.end = "completed" \/ (f.st = "read" /\ f.why = "completed")

\* it is past the step it resumed at;
Past(f) == f.from # 0 /\ (Done(f) \/ (f.st \in {"top", "act"} /\ f.step > f.from))

\* while it is alone, the token in the checkpoint is its own, applied once;
Tokens ==
  /\ \A w \in W : wf[w].alone /\ wf[w].times > 0 => dir.token = w /\ wf[w].times = 1
  /\ dir.token # 0 => wf[dir.token].times > 0
  /\ \A w \in W : wf[w].st = "absent" => wf[w].times = 0 /\ ~wf[w].alone

\* no step after the first runs before the resume was applied;
Applied ==
  /\ \A w \in W : Past(wf[w]) => wf[w].times > 0
  /\ \A w \in W : wf[w].st \in {"top", "act"} => wf[w].step >= wf[w].from
  /\ \A k \in kids :
       /\ wf[k.w].st # "absent" /\ k.s >= wf[k.w].from
       /\ wf[k.w].from # 0 /\ (k.s > wf[k.w].from \/ k.ph \notin {"wait", "load"})
            => wf[k.w].times > 0

\* and what it left whole stays so.
Whole ==
  /\ \A w \in W : Done(wf[w]) /\ wf[w].alone => dir.len = N
  /\ \A k \in kids : k.ph \in {"reported", "checkpointed"} /\ k.s = N /\ wf[k.w].alone
                       => dir.len = N

RInv == Tokens /\ Applied /\ Whole

\* What every step but a dispatch and those of a lock holder keeps of an execution,
Continues(f, g) ==
  /\ g.from = f.from /\ g.alone = f.alone /\ g.times = f.times
  /\ g.st = "absent" <=> f.st = "absent"
  /\ g.st \in {"top", "act"} => f.st \in {"top", "act"} /\ g.step = f.step
  /\ Done(g) => Done(f)

\* and of a child: it was there before, at the latest without the lock's work done,
\* or is the first of its step.
Descends(a) ==
  \/ \E b \in kids : a.w = b.w /\ a.s = b.s /\ (a.ph = b.ph \/ a.ph \in {"wait", "load"})
  \/ a.ph = "wait" /\ wf[a.w].st = "top" /\ a.s = wf[a.w].step

LEMMA Resumed ==
  ASSUME WInv, WInv', RInv, UNCHANGED dir,
         \A v \in W : Continues(wf[v], wf'[v]),
         \A a \in kids' : Descends(a)
  PROVE  RInv'
<1>1. \A k \in kids : k.w \in W BY DEF WInv, Types, KidType
<1>2. \A k \in kids' : k.w \in W BY DEF WInv, Types, KidType
<1>3. dir.token \in {0} \union W BY DEF WInv, Types, DirType
<1>4. Tokens' BY <1>3 DEF RInv, Tokens, Continues
<1>5. \A w \in W : Past(wf'[w]) => Past(wf[w]) BY DEF Past, Continues
<1>6. ASSUME NEW w \in W, wf[w].st = "top", wf[w].from # 0, wf[w].step > wf[w].from
      PROVE  wf[w].times > 0
  BY <1>6 DEF RInv, Applied, Past
<1>7. Applied'
  <2>1. \A w \in W : Past(wf'[w]) => wf'[w].times > 0
    BY <1>5 DEF RInv, Applied, Continues
  <2>2. \A w \in W : wf'[w].st \in {"top", "act"} => wf'[w].step >= wf'[w].from
    BY DEF RInv, Applied, Continues
  <2>3. ASSUME NEW a \in kids'
        PROVE  /\ wf'[a.w].st # "absent" /\ a.s >= wf'[a.w].from
               /\ wf'[a.w].from # 0 /\ (a.s > wf'[a.w].from \/ a.ph \notin {"wait", "load"})
                    => wf'[a.w].times > 0
    <3>1. a.w \in W /\ Continues(wf[a.w], wf'[a.w]) /\ Descends(a) BY <1>2
    <3>2. CASE \E b \in kids : a.w = b.w /\ a.s = b.s
                                /\ (a.ph = b.ph \/ a.ph \in {"wait", "load"})
      <4>1. PICK b \in kids : a.w = b.w /\ a.s = b.s
                                /\ (a.ph = b.ph \/ a.ph \in {"wait", "load"})
        BY <3>2
      <4>2. /\ wf[b.w].st # "absent" /\ b.s >= wf[b.w].from
            /\ wf[b.w].from # 0 /\ (b.s > wf[b.w].from \/ b.ph \notin {"wait", "load"})
                    => wf[b.w].times > 0
        BY DEF RInv, Applied
      <4> QED BY <3>1, <4>1, <4>2 DEF Continues
    <3>3. CASE a.ph = "wait" /\ wf[a.w].st = "top" /\ a.s = wf[a.w].step
      BY <3>1, <3>3, <1>6 DEF RInv, Applied, Continues
    <3> QED BY <3>1, <3>2, <3>3 DEF Descends
  <2> QED BY <2>1, <2>2, <2>3 DEF Applied
<1>8. Whole'
  <2>1. \A w \in W : Done(wf'[w]) /\ wf'[w].alone => dir'.len = N
    BY DEF RInv, Whole, Continues
  <2>2. \A a \in kids' : a.ph \in {"reported", "checkpointed"} /\ a.s = N /\ wf'[a.w].alone
                          => dir'.len = N
    BY <1>2 DEF RInv, Whole, Continues, Descends
  <2> QED BY <2>1, <2>2 DEF Whole
<1> QED BY <1>4, <1>7, <1>8 DEF RInv

\* How the workflow's own turns change an execution.
LEMMA Turns ==
  ASSUME NEW f \in FrameType, f.st # "absent"
  PROVE  /\ \A why \in Unhappy : Continues(f, Compensating(f, why))
         /\ Continues(f, AfterActivityError(f))
         /\ \A end \in Unhappy \union {"raised", "expired"} : Continues(f, Closed(f, end))
         /\ f.st = "read" => Continues(f, Closed(f, f.why))
         /\ f.st = "act" => Continues(f, Again(f))
         /\ Continues(f, Cancelled(f))
<1>1. ASSUME NEW why \in Unhappy PROVE Continues(f, Compensating(f, why))
  BY DEF FrameType, Compensating, Continues, Done
<1>2. Continues(f, AfterActivityError(f))
  <2> DEFINE h == [f EXCEPT !.handled = TRUE]
             why == IF f.cancel THEN "cancelled" ELSE "failed"
  <2>1. /\ h \in FrameType /\ h.st = f.st /\ h.from = f.from /\ h.alone = f.alone
        /\ h.times = f.times /\ h.end = f.end
    BY DEF FrameType
  <2> HIDE DEF h, why
  <2>2. Continues(f, Compensating(h, why))
    BY <2>1 DEF FrameType, Compensating, Continues, Done
  <2> QED BY <2>2 DEF AfterActivityError, h, why
<1>3. ASSUME NEW end \in Unhappy \union {"raised", "expired"}
      PROVE  Continues(f, Closed(f, end))
  BY DEF Closed, Absent, Continues, Done, Unhappy
<1>4. ASSUME f.st = "read" PROVE Continues(f, Closed(f, f.why))
  BY <1>4 DEF Closed, Absent, Continues, Done
<1>5. ASSUME f.st = "act" PROVE Continues(f, Again(f))
  BY <1>5 DEF FrameType, Again, Continues, Done
<1>6. Continues(f, Cancelled(f))
  BY DEF FrameType, Cancelled, Continues, Done
<1> QED BY <1>1, <1>2, <1>3, <1>4, <1>5, <1>6

\* One execution goes on, and so do the children, with at most a new one.
LEMMA OneContinues ==
  ASSUME WInv, WInv', RInv, UNCHANGED dir, NEW w \in W, NEW g, Continues(wf[w], g),
         wf' = [wf EXCEPT ![w] = g], \A a \in kids' : Descends(a)
  PROVE  RInv'
<1>1. \A v \in W : Continues(wf[v], wf'[v]) BY DEF WInv, Types, Continues
<1> QED BY <1>1, Resumed

\* No execution changes.
LEMMA NoneChanges ==
  ASSUME WInv, WInv', RInv, UNCHANGED <<wf, dir>>, \A a \in kids' : Descends(a)
  PROVE  RInv'
<1>1. \A v \in W : Continues(wf[v], wf'[v]) BY DEF Continues
<1> QED BY <1>1, Resumed

LEMMA Stays == \A a \in kids : Descends(a)
BY DEF Descends

LEMMA GraphResumed ==
  ASSUME WInv, WInv', RInv, NEW w \in W,
         TaskStarts(w) \/ TaskReturns(w) \/ TaskTimesOut(w) \/ CancelAcknowledge(w)
  PROVE  RInv'
<1>1. UNCHANGED <<wf, kids, dir>>
  BY DEF TaskStarts, TaskReturns, TaskTimesOut, CancelAcknowledge
<1> QED BY <1>1, Stays, NoneChanges

\* A new execution has applied nothing, and no child is its.
LEMMA DispatchResumed ==
  ASSUME WInv, WInv', RInv, NEW w \in W, Dispatch(w)
  PROVE  RInv'
<1> DEFINE r == ResumeStep(w)
           s == IF r = 0 THEN 1 ELSE r
           g == [wf[w] EXCEPT !.st = "top", !.from = r, !.alone = TRUE, !.step = s]
<1>1. UNCHANGED <<kids, dir>> BY DEF Dispatch
<1>2. CASE UNCHANGED wf BY <1>1, <1>2, Stays, NoneChanges
<1>3. CASE wf[w].st = "absent" /\ wf' = [wf EXCEPT ![w] = g]
  <2>1. wf[w] \in FrameType /\ Good(wf[w]) BY DEF WInv, Types, Phases
  <2>2. r \in 0..N BY Bounds DEF WInv, Types, DirType, ResumeStep, Expected
  <2>3. s >= r /\ (r # 0 => s = r) BY <2>2
  <2> HIDE DEF r, s
  <2>4. /\ g.st = "top" /\ g.from = r /\ g.step = s /\ g.times = wf[w].times
        /\ g.end = wf[w].end
    BY <2>1 DEF FrameType
  <2> HIDE DEF g
  <2>5. wf'[w] = g /\ \A v \in W : v # w => wf'[v] = wf[v]
    BY <1>3 DEF WInv, Types
  <2>6. wf[w].times = 0 /\ wf[w].end = "none"
    BY <1>3, <2>1 DEF RInv, Tokens, Good
  <2>7. \A k \in kids : k.w # w /\ k.w \in W
    BY <1>3 DEF RInv, Applied, WInv, Types, KidType
  <2>8. dir.token # w /\ dir.token \in {0} \union W
    <3>1. dir.token # 0 => wf[dir.token].times > 0 BY DEF RInv, Tokens
    <3>2. w # 0 BY WorkflowAssumption
    <3> QED BY <2>6, <3>1, <3>2 DEF WInv, Types, DirType
  <2>9. ~Done(g) /\ ~Past(g)
    <3>1. ~Done(g) BY <2>4, <2>6 DEF Done
    <3>2. g.from # 0 => ~(g.step > g.from) BY <2>2, <2>3, <2>4
    <3> QED BY <3>1, <3>2 DEF Past
  <2>10. Tokens' BY <1>1, <2>4, <2>5, <2>6, <2>8 DEF RInv, Tokens
  <2>11. Applied' BY <1>1, <2>3, <2>4, <2>5, <2>7, <2>9 DEF RInv, Applied
  <2>12. Whole' BY <1>1, <2>5, <2>7, <2>9 DEF RInv, Whole
  <2> QED BY <2>10, <2>11, <2>12 DEF RInv
<1> QED BY <1>2, <1>3 DEF Dispatch, Is

LEMMA SignalResumed ==
  ASSUME WInv, WInv', RInv, NEW w \in W,
         RequestPause(w) \/ RequestResume(w) \/ CancelSignal(w) \/ DeadlinePasses(w)
  PROVE  RInv'
<1>1. UNCHANGED <<kids, dir>> /\ wf[w] \in FrameType
  BY DEF WInv, Types, RequestPause, RequestResume, CancelSignal, DeadlinePasses
<1>2. CASE UNCHANGED wf BY <1>1, <1>2, Stays, NoneChanges
<1>3. ASSUME NEW g, Continues(wf[w], g), wf' = [wf EXCEPT ![w] = g]
      PROVE  RInv'
  BY <1>1, <1>3, Stays, OneContinues
<1>4. CASE RequestPause(w)
  <2>1. Continues(wf[w], [wf[w] EXCEPT !.paused = TRUE])
    BY <1>1 DEF FrameType, Continues, Done
  <2> QED BY <1>3, <1>4, <2>1 DEF RequestPause
<1>5. CASE RequestResume(w)
  <2>1. Continues(wf[w], [wf[w] EXCEPT !.paused = FALSE])
    BY <1>1 DEF FrameType, Continues, Done
  <2> QED BY <1>3, <1>5, <2>1 DEF RequestResume
<1>6. CASE DeadlinePasses(w)
  <2>1. Continues(wf[w], [wf[w] EXCEPT !.late = TRUE])
    BY <1>1 DEF FrameType, Continues, Done
  <2> QED BY <1>3, <1>6, <2>1 DEF DeadlinePasses
<1>7. CASE CancelSignal(w)
  <2>1. Open(w) => Continues(wf[w], Cancelled(wf[w])) BY <1>1, Turns DEF Open
  <2> QED BY <1>2, <1>3, <1>7, <2>1 DEF CancelSignal
<1> QED BY <1>4, <1>5, <1>6, <1>7

LEMMA LoopTopResumed ==
  ASSUME WInv, WInv', RInv, NEW w \in W, LoopTop(w)
  PROVE  RInv'
<1> DEFINE f == wf[w]
           a == [f EXCEPT !.st = "act", !.att = 1]
           g == IF f.cancel THEN Compensating(f, "cancelled")
                ELSE IF f.late THEN Compensating(f, "timed_out") ELSE a
<1>1. f \in FrameType /\ f.st = "top" /\ UNCHANGED dir
  BY DEF WInv, Types, LoopTop, Is
<1>2. wf' = [wf EXCEPT ![w] = g] BY DEF LoopTop
<1>3. kids' = kids \/ kids' = kids \union {NewChild(w, f.step, 1)} BY DEF LoopTop
<1>4. Continues(f, a) BY <1>1 DEF FrameType, Continues, Done
<1>5. Continues(f, g) BY <1>1, <1>4, Turns DEF Unhappy
<1>6. Descends(NewChild(w, f.step, 1)) BY <1>1 DEF NewChild, Descends
<1>7. \A k \in kids' : Descends(k) BY <1>3, <1>6, Stays
<1> HIDE DEF g
<1> QED BY <1>1, <1>2, <1>5, <1>7, OneContinues

LEMMA ReadResumed ==
  ASSUME WInv, WInv', RInv, NEW w \in W, Compensate(w) \/ FinalResult(w)
  PROVE  RInv'
<1>1. wf[w] \in FrameType /\ Good(wf[w]) /\ UNCHANGED <<kids, dir>>
  BY DEF WInv, Types, Phases, Compensate, FinalResult
<1>2. ASSUME NEW g, Continues(wf[w], g), wf' = [wf EXCEPT ![w] = g]
      PROVE  RInv'
  BY <1>1, <1>2, Stays, OneContinues
<1>3. CASE Compensate(w)
  <2> DEFINE f == wf[w]
             h == [f EXCEPT !.comp = @ + 1]
             t == [h EXCEPT !.st = "read"]
  <2>1. f.st = "comp" /\ f.why \in Unhappy /\ f.end = "none"
    BY <1>1, <1>3 DEF Compensate, Is, Good, Unwinding
  <2>2. h \in FrameType /\ h.st = f.st /\ h.from = f.from /\ h.alone = f.alone
        /\ h.times = f.times /\ h.end = f.end /\ h.why = f.why
    BY <1>1 DEF FrameType
  <2> HIDE DEF h
  <2>3. Continues(f, t) BY <2>1, <2>2 DEF FrameType, Continues, Done, Unhappy
  <2>4. Continues(f, Closed(h, f.why))
    BY <2>1, <2>2 DEF Closed, Absent, Continues, Done, Unhappy
  <2>5. Unwound(f) = IF f.why = "failed" \/ ~f.path THEN Closed(h, f.why) ELSE t
    BY DEF Unwound, h
  <2>6. Continues(f, Unwound(f)) BY <2>3, <2>4, <2>5
  <2> QED BY <1>2, <1>3, <2>6 DEF Compensate
<1>4. CASE FinalResult(w)
  <2>1. wf[w].st = "read" BY <1>4 DEF FinalResult, Is
  <2>2. /\ Continues(wf[w], Closed(wf[w], wf[w].why))
        /\ Continues(wf[w], Closed(wf[w], "raised"))
        /\ Continues(wf[w], AfterActivityError(wf[w]))
    BY <1>1, <2>1, Turns
  <2> QED BY <1>2, <1>4, <2>2 DEF FinalResult
<1> QED BY <1>3, <1>4

LEMMA TimeoutResumed ==
  ASSUME WInv, WInv', RInv, NEW w \in W, ExecutionTimeout(w)
  PROVE  RInv'
<1>1. /\ wf[w] \in FrameType /\ wf[w].st # "absent" /\ UNCHANGED dir
      /\ wf' = [wf EXCEPT ![w] = Closed(wf[w], "expired")]
  BY DEF WInv, Types, ExecutionTimeout, Open
<1>2. Continues(wf[w], Closed(wf[w], "expired")) BY <1>1, Turns
<1>3. ASSUME NEW a \in kids' PROVE Descends(a)
  <2>1. PICK k \in kids : a = [k EXCEPT !.orphan = k.orphan \/ k.w = w]
    BY DEF ExecutionTimeout
  <2>2. k \in KidType BY DEF WInv, Types
  <2>3. a.w = k.w /\ a.s = k.s /\ a.ph = k.ph BY <2>1, <2>2 DEF KidType
  <2> QED BY <2>3 DEF Descends
<1> QED BY <1>1, <1>2, <1>3, OneContinues

\* An attempt ends, its child may go on as an orphan, the next may have one.
LEMMA AttemptResumed ==
  ASSUME WInv, WInv', RInv, UNCHANGED dir, NEW k \in kids, Current(k), NEW again \in BOOLEAN,
         wf' = [wf EXCEPT ![k.w] = IF again THEN Again(wf[k.w]) ELSE AfterActivityError(wf[k.w])],
         \A a \in kids' : a \in kids \/ a = [k EXCEPT !.orphan = TRUE]
                            \/ a = NewChild(k.w, k.s, k.att + 1)
  PROVE  RInv'
<1>1. k \in KidType /\ k.w \in W /\ wf[k.w] \in FrameType /\ wf[k.w].st = "act"
  BY DEF WInv, Types, KidType, Current, Is
<1> DEFINE g == IF again THEN Again(wf[k.w]) ELSE AfterActivityError(wf[k.w])
<1>2. Continues(wf[k.w], g) BY <1>1, Turns
<1>3. Descends([k EXCEPT !.orphan = TRUE])
  <2> DEFINE a == [k EXCEPT !.orphan = TRUE]
  <2>1. a.w = k.w /\ a.s = k.s /\ a.ph = k.ph BY <1>1 DEF KidType
  <2> HIDE DEF a
  <2>2. Descends(a) BY <2>1 DEF Descends
  <2> QED BY <2>2 DEF a
<1>4. Descends(NewChild(k.w, k.s, k.att + 1)) BY DEF NewChild, Descends
<1>5. \A a \in kids' : Descends(a) BY <1>3, <1>4, Stays
<1> HIDE DEF g
<1>6. wf' = [wf EXCEPT ![k.w] = g] BY DEF g
<1> QED BY <1>1, <1>2, <1>5, <1>6, OneContinues

LEMMA FailsResumed ==
  ASSUME WInv, WInv', RInv, UNCHANGED dir, NEW k \in kids, Current(k), NEW retry \in BOOLEAN,
         AttemptFails(k, retry)
  PROVE  RInv'
<1> DEFINE again == retry /\ wf[k.w].att < Attempts /\ ~wf[k.w].cancel
<1>1. again \in BOOLEAN OBVIOUS
<1>2. wf' = [wf EXCEPT ![k.w] = IF again THEN Again(wf[k.w]) ELSE AfterActivityError(wf[k.w])]
  BY DEF AttemptFails
<1>3. \A a \in kids' : a \in kids \/ a = NewChild(k.w, k.s, k.att + 1) BY DEF AttemptFails
<1> HIDE DEF again
<1> QED BY <1>1, <1>2, <1>3, AttemptResumed

LEMMA FailureResumed ==
  ASSUME WInv, WInv', RInv, NEW k \in kids,
         \/ KidFails(k) \/ CancelReachesActivity(k) \/ HeartbeatTimeout(k) \/ OrphanKilled(k)
  PROVE  RInv'
<1>1. CASE KidFails(k) \/ CancelReachesActivity(k)
  <2>1. UNCHANGED dir BY <1>1 DEF KidFails, CancelReachesActivity
  <2>2. PICK retry \in BOOLEAN : Current(k) /\ AttemptFails(k, retry)
    BY <1>1 DEF KidFails, CancelReachesActivity
  <2> QED BY <2>1, <2>2, FailsResumed
<1>2. CASE HeartbeatTimeout(k)
  <2> DEFINE again == wf[k.w].att < Attempts /\ ~wf[k.w].cancel
  <2>1. again \in BOOLEAN /\ UNCHANGED dir /\ Current(k) BY <1>2 DEF HeartbeatTimeout
  <2>2. wf' = [wf EXCEPT ![k.w] = IF again THEN Again(wf[k.w])
                                  ELSE AfterActivityError(wf[k.w])]
    BY <1>2 DEF HeartbeatTimeout
  <2>3. \A a \in kids' : a \in kids \/ a = [k EXCEPT !.orphan = TRUE]
                            \/ a = NewChild(k.w, k.s, k.att + 1)
    BY <1>2 DEF HeartbeatTimeout
  <2> HIDE DEF again
  <2> QED BY <2>1, <2>2, <2>3, AttemptResumed
<1>3. CASE OrphanKilled(k)
  <2>1. UNCHANGED <<wf, dir>> /\ kids' \subseteq kids BY <1>3 DEF OrphanKilled
  <2> QED BY <2>1, Stays, NoneChanges
<1> QED BY <1>1, <1>2, <1>3

LEMMA LocksResumed ==
  ASSUME WInv, WInv', RInv, NEW k \in kids, KidLocks(k)
  PROVE  RInv'
<1>1. UNCHANGED dir BY DEF KidLocks
<1>2. CASE Current(k) /\ AttemptFails(k, FALSE) BY <1>1, <1>2, FailsResumed
<1>3. CASE kids' = kids \ {k} /\ UNCHANGED wf BY <1>1, <1>3, Stays, NoneChanges
<1>4. CASE kids' = (kids \ {k}) \union {[k EXCEPT !.ph = "load"]} /\ UNCHANGED wf
  <2> DEFINE m == [k EXCEPT !.ph = "load"]
  <2>1. k \in KidType BY DEF WInv, Types
  <2>2. m.w = k.w /\ m.s = k.s /\ m.ph = "load" BY <2>1 DEF KidType
  <2> HIDE DEF m
  <2>3. Descends(m) BY <2>2 DEF Descends
  <2>4. kids' = (kids \ {k}) \union {m} BY <1>4 DEF m
  <2> QED BY <1>1, <1>4, <2>3, <2>4, Stays, NoneChanges
<1> QED BY <1>2, <1>3, <1>4, Zenon DEF KidLocks

\* The first save under the lock: a resume that is applied was not before, and drops
\* no step of an execution that is done; a restore that drops steps is noted.
LEMMA RestoresResumed ==
  ASSUME WInv, WInv', RInv, NEW k \in kids, KidRestores(k)
  PROVE  RInv'
<1> DEFINE applied == Active(k) /\ ~Consumed(k.w)
           cut == applied /\ ~Truncated(k.w)
           m == [k EXCEPT !.ph = "work"]
<1>1. PICK n \in 0..dir.len :
        /\ cut \/ n = dir.len \/ n < dir.len
        /\ dir' = [dir EXCEPT !.len = n, !.bad = IF @ > n THEN 0 ELSE @,
                              !.token = IF applied THEN k.w ELSE @]
        /\ wf' = Noted(k, applied, ~cut /\ n < dir.len)
  <2>1. \A n \in 0..dir.len : n = dir.len \/ n < dir.len BY DEF WInv, Types, DirType
  <2> QED BY <2>1 DEF KidRestores
<1> DEFINE dropped == ~cut /\ n < dir.len
<1>2. /\ dir \in DirType /\ k.w \in W /\ wf[k.w].st # "absent" /\ k \in KidType
      /\ kids' = (kids \ {k}) \union {m}
      /\ \A b \in kids : b.w \in W
  BY DEF WInv, Types, KidType, RInv, Applied, KidRestores
<1>3. dir'.len = n /\ dir'.token = IF applied THEN k.w ELSE dir.token
  BY <1>1, <1>2 DEF DirType
<1>4. applied \in BOOLEAN /\ dropped \in BOOLEAN /\ wf' = Noted(k, applied, dropped)
  BY <1>1 DEF Active, Consumed
<1>5. cut => applied OBVIOUS
<1>6. dropped \/ cut \/ dir'.len = dir.len BY <1>1, <1>3
<1>7. applied => wf[k.w].from # 0 /\ k.s = wf[k.w].from /\ dir.token # k.w
  BY DEF Active, Consumed
<1>8. wf[k.w].from # 0 /\ k.s = wf[k.w].from => applied \/ dir.token = k.w
  BY DEF Active, Consumed
<1>9. m.w = k.w /\ m.s = k.s /\ m.ph = "work" BY <1>2 DEF KidType
<1> HIDE DEF applied, cut, dropped, m
<1>10. \A v \in W :
         /\ wf'[v].st = wf[v].st /\ wf'[v].att = wf[v].att
         /\ wf'[v].step = wf[v].step /\ wf'[v].from = wf[v].from
         /\ wf'[v].why = wf[v].why /\ wf'[v].end = wf[v].end
         /\ wf'[v].alone <=> (wf[v].alone /\ ~dropped /\ (applied => v = k.w))
         /\ wf'[v].times = IF applied /\ v = k.w THEN wf[v].times + 1 ELSE wf[v].times
  BY <1>4, NotedGood
<1>11. \A v \in W : /\ Done(wf'[v]) <=> Done(wf[v])
                    /\ Past(wf'[v]) <=> Past(wf[v])
                    /\ wf[v].times \in Nat
                    /\ wf[v].times > 0 => wf'[v].times > 0
  BY <1>10 DEF Done, Past, WInv, Types, FrameType
<1>12. applied /\ wf[k.w].alone => wf[k.w].times = 0
  BY <1>2, <1>7, <1>11 DEF RInv, Tokens
<1>13. \A a \in kids' : a = m \/ a \in kids BY <1>2
<1>14. Tokens'
  <2>1. ASSUME NEW w \in W, wf'[w].alone, wf'[w].times > 0
        PROVE  dir'.token = w /\ wf'[w].times = 1
    <3>1. CASE applied
      <4>1. w = k.w /\ wf[w].alone BY <2>1, <3>1, <1>10
      <4>2. wf'[w].times = 0 + 1 BY <3>1, <4>1, <1>10, <1>12
      <4> QED BY <3>1, <4>1, <4>2, <1>3
    <3>2. CASE ~applied BY <2>1, <3>2, <1>3, <1>10 DEF RInv, Tokens
    <3> QED BY <3>1, <3>2
  <2>2. ASSUME dir'.token # 0 PROVE wf'[dir'.token].times > 0
    <3>1. CASE applied
      <4>1. wf'[k.w].times = wf[k.w].times + 1 BY <3>1, <1>2, <1>10
      <4>2. wf'[k.w].times > 0 BY <4>1, <1>2, <1>11
      <4> QED BY <3>1, <4>2, <1>3
    <3>2. CASE ~applied
      <4>1. dir.token # 0 /\ dir.token \in W /\ dir'.token = dir.token
        BY <2>2, <3>2, <1>2, <1>3 DEF DirType
      <4> QED BY <4>1, <1>11 DEF RInv, Tokens
    <3> QED BY <3>1, <3>2
  <2>3. \A w \in W : wf'[w].st = "absent" => wf'[w].times = 0 /\ ~wf'[w].alone
    BY <1>2, <1>10 DEF RInv, Tokens
  <2> QED BY <2>1, <2>2, <2>3 DEF Tokens
<1>15. Applied'
  <2>1. \A w \in W : Past(wf'[w]) => wf'[w].times > 0 BY <1>11 DEF RInv, Applied
  <2>2. \A w \in W : wf'[w].st \in {"top", "act"} => wf'[w].step >= wf'[w].from
    BY <1>10 DEF RInv, Applied
  <2>3. ASSUME NEW a \in kids'
        PROVE  /\ wf'[a.w].st # "absent" /\ a.s >= wf'[a.w].from
               /\ wf'[a.w].from # 0 /\ (a.s > wf'[a.w].from \/ a.ph \notin {"wait", "load"})
                    => wf'[a.w].times > 0
    <3>1. CASE a \in kids BY <3>1, <1>2, <1>10, <1>11 DEF RInv, Applied
    <3>2. CASE a = m
      <4>1. wf'[k.w].st # "absent" /\ k.s >= wf'[k.w].from
        BY <1>2, <1>10 DEF RInv, Applied
      <4>2. ASSUME wf[k.w].from # 0 PROVE wf'[k.w].times > 0
        <5>1. CASE k.s > wf[k.w].from
          BY <4>2, <5>1, <1>2, <1>11 DEF RInv, Applied
        <5>2. CASE applied
          <6>1. wf'[k.w].times = wf[k.w].times + 1 BY <5>2, <1>2, <1>10
          <6> QED BY <6>1, <1>2, <1>11
        <5>3. CASE dir.token = k.w
          <6>1. k.w # 0 BY <1>2, WorkflowAssumption
          <6> QED BY <5>3, <6>1, <1>2, <1>11 DEF RInv, Tokens
        <5>4. k.s >= wf[k.w].from /\ k.s \in Nat /\ wf[k.w].from \in Nat
          BY <1>2, Bounds DEF RInv, Applied, KidType, Steps, WInv, Types, FrameType
        <5> QED BY <4>2, <5>1, <5>2, <5>3, <5>4, <1>8
      <4> QED BY <3>2, <4>1, <4>2, <1>2, <1>9, <1>10
    <3> QED BY <3>1, <3>2, <1>13
  <2> QED BY <2>1, <2>2, <2>3 DEF Applied
<1>16. Whole'
  <2>1. ASSUME NEW w \in W, Done(wf'[w]), wf'[w].alone PROVE dir'.len = N
    <3>1. Done(wf[w]) /\ wf[w].alone /\ ~dropped /\ (applied => w = k.w)
      BY <2>1, <1>10, <1>11
    <3>2. dir.len = N BY <3>1 DEF RInv, Whole
    <3>3. ~cut
      <4> SUFFICES ASSUME cut PROVE FALSE OBVIOUS
      <4>1. w = k.w /\ wf[w].from # 0 /\ wf[w].times = 0 BY <3>1, <1>5, <1>7, <1>12
      <4>2. Past(wf[w]) BY <3>1, <4>1 DEF Past
      <4> QED BY <4>1, <4>2 DEF RInv, Applied
    <3> QED BY <3>1, <3>2, <3>3, <1>6
  <2>2. ASSUME NEW a \in kids', a.ph \in {"reported", "checkpointed"}, a.s = N,
               wf'[a.w].alone
        PROVE  dir'.len = N
    <3>1. a \in kids /\ a.w \in W BY <2>2, <1>2, <1>9, <1>13
    <3>2. wf[a.w].alone /\ ~dropped /\ (applied => a.w = k.w) BY <2>2, <3>1, <1>10
    <3>3. dir.len = N BY <2>2, <3>1, <3>2 DEF RInv, Whole
    <3>4. ~cut
      <4> SUFFICES ASSUME cut PROVE FALSE OBVIOUS
      <4>1. a.w = k.w /\ wf[a.w].from # 0 /\ wf[a.w].times = 0
        BY <3>2, <1>5, <1>7, <1>12
      <4> QED BY <2>2, <3>1, <4>1 DEF RInv, Applied
    <3> QED BY <3>2, <3>3, <3>4, <1>6
  <2> QED BY <2>1, <2>2 DEF Whole
<1> QED BY <1>14, <1>15, <1>16 DEF RInv

\* A commit finds the checkpoint short, so nothing was whole.
LEMMA CommitsResumed ==
  ASSUME WInv, WInv', RInv, NEW k \in kids, KidCommits(k)
  PROVE  RInv'
<1> DEFINE m == [k EXCEPT !.ph = "stop"]
<1>1. /\ UNCHANGED wf /\ dir \in DirType /\ k \in KidType /\ k.ph = "work" /\ dir.len < k.s
      /\ \A b \in kids : b.w \in W
  BY DEF WInv, Types, KidCommits, KidType
<1>2. dir'.token = dir.token BY <1>1 DEF KidCommits, DirType
<1>3. kids' = kids \/ kids' = (kids \ {k}) \union {m} BY DEF KidCommits
<1>4. m.w = k.w /\ m.s = k.s /\ m.ph = "stop" BY <1>1 DEF KidType
<1> HIDE DEF m
<1>5. dir.len # N
  <2>1. k.s \in 1..N /\ dir.len \in 0..N BY <1>1 DEF KidType, Steps, DirType
  <2> QED BY <1>1, <2>1, Bounds
<1>6. Tokens' BY <1>1, <1>2 DEF RInv, Tokens
<1>7. Applied' BY <1>1, <1>3, <1>4 DEF RInv, Applied
<1>8. Whole' BY <1>1, <1>3, <1>4, <1>5 DEF RInv, Whole
<1> QED BY <1>6, <1>7, <1>8 DEF RInv

\* The report says that the last step is reached only when the checkpoint is whole.
LEMMA FinishesResumed ==
  ASSUME WInv, WInv', RInv, NEW k \in kids, KidFinishes(k)
  PROVE  RInv'
<1>1. /\ UNCHANGED wf /\ dir \in DirType /\ k \in KidType /\ k.ph \in {"work", "stop"}
      /\ \A b \in kids : b.w \in W
  BY DEF WInv, Types, KidFinishes, KidType
<1>2. dir'.len = dir.len /\ dir'.token = dir.token BY <1>1 DEF KidFinishes, DirType
<1>3. PICK ph \in {"stopped", "reported", "checkpointed"} :
        /\ kids' = (kids \ {k}) \union {[k EXCEPT !.ph = ph]}
        /\ ph # "stopped" => dir.len >= k.s
  BY DEF KidFinishes
<1> DEFINE m == [k EXCEPT !.ph = ph]
<1>4. m.w = k.w /\ m.s = k.s /\ m.ph = ph BY <1>1 DEF KidType
<1>5. kids' = (kids \ {k}) \union {m} BY <1>3
<1> HIDE DEF m
<1>6. ph # "stopped" /\ k.s = N => dir.len = N
  <2>1. dir.len \in 0..N BY <1>1 DEF DirType
  <2> QED BY <1>3, <2>1, Bounds
<1>7. Tokens' BY <1>1, <1>2 DEF RInv, Tokens
<1>8. Applied' BY <1>1, <1>4, <1>5 DEF RInv, Applied
<1>9. Whole' BY <1>1, <1>2, <1>3, <1>4, <1>5, <1>6 DEF RInv, Whole
<1> QED BY <1>7, <1>8, <1>9 DEF RInv

\* A summary moves its execution past the step, and past the last one when the
\* child found the checkpoint whole.
LEMMA ExitsResumed ==
  ASSUME WInv, WInv', RInv, NEW k \in kids, KidExits(k)
  PROVE  RInv'
<1>1. UNCHANGED dir /\ kids' = kids \ {k} /\ k.ph \in {"stopped", "reported", "checkpointed"}
  BY DEF KidExits
<1>2. CASE ~Current(k)
  <2>1. UNCHANGED wf BY <1>2 DEF KidExits
  <2> QED BY <1>1, <2>1, Stays, NoneChanges
<1>3. CASE Current(k)
  <2> DEFINE ok == k.ph # "stopped"
             f == [wf[k.w] EXCEPT !.att = 0, !.path = k.ph # "checkpointed"]
             g == AfterSummary(k.w, ok, k.ph # "checkpointed")
             t == [f EXCEPT !.st = "top", !.step = @ + 1]
             r == [f EXCEPT !.st = "read", !.why = "completed"]
  <2>1. /\ ~k.orphan /\ k.w \in W /\ wf[k.w].st = "act" /\ wf[k.w].step = k.s
        /\ wf[k.w] \in FrameType
    BY <1>3, OnlyChild DEF WInv, Types, Current
  <2>2. /\ f \in FrameType /\ f.st = "act" /\ f.step = k.s /\ f.from = wf[k.w].from
        /\ f.alone = wf[k.w].alone /\ f.times = wf[k.w].times /\ f.end = wf[k.w].end
    BY <2>1, Bounds DEF FrameType
  <2>3. wf' = [wf EXCEPT ![k.w] = g] BY <1>3 DEF KidExits
  <2>4. g = IF f.cancel THEN Compensating(f, "cancelled")
            ELSE IF ~ok THEN Compensating(f, "stopped")
            ELSE IF f.step = N THEN r ELSE t
    BY DEF AfterSummary
  <2>5. f.end = "none" BY <2>1, <2>2 DEF WInv, Phases, Good
  <2> HIDE DEF f, g
  <2>6. \A why \in Unhappy : LET c == Compensating(f, why) IN
          /\ c.st = "comp" /\ c.from = f.from /\ c.alone = f.alone /\ c.times = f.times
          /\ c.end = f.end
    BY <2>2 DEF FrameType, Compensating
  <2>7. /\ r.st = "read" /\ r.from = f.from /\ r.alone = f.alone /\ r.times = f.times
        /\ r.end = f.end
        /\ t.st = "top" /\ t.from = f.from /\ t.alone = f.alone /\ t.times = f.times
        /\ t.end = f.end /\ t.step = f.step + 1
    BY <2>2 DEF FrameType
  <2> HIDE DEF r, t
  <2>8. /\ g.from = f.from /\ g.alone = f.alone /\ g.times = f.times /\ g.end = "none"
        /\ g.st \in {"comp", "read", "top"}
        /\ g.st = "read" => ok /\ f.step = N
        /\ g.st = "top" => g.step = f.step + 1
    BY <2>4, <2>5, <2>6, <2>7 DEF Unhappy
  <2>9. wf'[k.w] = g /\ \A v \in W : v # k.w => wf'[v] = wf[v]
    BY <2>1, <2>3 DEF WInv, Types
  <2>10. f.from # 0 => f.times > 0 BY <1>1, <2>2 DEF RInv, Applied
  <2>11. k.s >= f.from /\ k.s \in Nat /\ f.from \in Nat
    BY <2>1, <2>2, Bounds DEF RInv, Applied, FrameType
  <2>12. \A b \in kids : b.w \in W BY DEF WInv, Types, KidType
  <2>13. Tokens'
    <3>1. dir.token \in {0} \union W BY DEF WInv, Types, DirType
    <3> QED BY <1>1, <2>1, <2>2, <2>8, <2>9, <3>1 DEF RInv, Tokens
  <2>14. Applied'
    <3>1. ASSUME NEW w \in W, Past(wf'[w]) PROVE wf'[w].times > 0
      <4>1. CASE w = k.w BY <3>1, <4>1, <2>8, <2>9, <2>10 DEF Past
      <4>2. CASE w # k.w BY <3>1, <4>2, <2>9 DEF RInv, Applied
      <4> QED BY <4>1, <4>2
    <3>2. ASSUME NEW w \in W, wf'[w].st \in {"top", "act"} PROVE wf'[w].step >= wf'[w].from
      <4>1. CASE w = k.w
        <5>1. g.st = "top" /\ g.step = k.s + 1 BY <3>2, <4>1, <2>2, <2>8, <2>9
        <5>2. g.step >= g.from BY <5>1, <2>8, <2>11
        <5> QED BY <4>1, <5>2, <2>9
      <4>2. CASE w # k.w BY <3>2, <4>2, <2>9 DEF RInv, Applied
      <4> QED BY <4>1, <4>2
    <3>3. ASSUME NEW a \in kids'
          PROVE  /\ wf'[a.w].st # "absent" /\ a.s >= wf'[a.w].from
                 /\ wf'[a.w].from # 0 /\ (a.s > wf'[a.w].from \/ a.ph \notin {"wait", "load"})
                      => wf'[a.w].times > 0
      <4>1. a \in kids /\ a.w \in W BY <1>1, <2>12
      <4>2. /\ wf[a.w].st # "absent" /\ a.s >= wf[a.w].from
            /\ wf[a.w].from # 0 /\ (a.s > wf[a.w].from \/ a.ph \notin {"wait", "load"})
                 => wf[a.w].times > 0
        BY <4>1 DEF RInv, Applied
      <4>3. CASE a.w = k.w BY <4>2, <4>3, <2>2, <2>8, <2>9
      <4>4. CASE a.w # k.w BY <4>1, <4>2, <4>4, <2>9
      <4> QED BY <4>3, <4>4
    <3> QED BY <3>1, <3>2, <3>3 DEF Applied
  <2>15. Whole'
    <3>1. ASSUME NEW w \in W, Done(wf'[w]), wf'[w].alone PROVE dir'.len = N
      <4>1. CASE w = k.w
        <5>1. k.s = N /\ k.ph \in {"reported", "checkpointed"} /\ wf[k.w].alone
          BY <3>1, <4>1, <1>1, <2>2, <2>8, <2>9 DEF Done
        <5> QED BY <5>1, <1>1 DEF RInv, Whole
      <4>2. CASE w # k.w BY <3>1, <4>2, <1>1, <2>9 DEF RInv, Whole
      <4> QED BY <4>1, <4>2
    <3>2. ASSUME NEW a \in kids', a.ph \in {"reported", "checkpointed"}, a.s = N,
                 wf'[a.w].alone
          PROVE  dir'.len = N
      <4>1. a \in kids /\ a.w \in W BY <1>1, <2>12
      <4>2. wf[a.w].alone BY <3>2, <4>1, <2>2, <2>8, <2>9
      <4> QED BY <3>2, <4>1, <4>2, <1>1 DEF RInv, Whole
    <3> QED BY <3>1, <3>2 DEF Whole
  <2> QED BY <2>13, <2>14, <2>15 DEF RInv
<1> QED BY <1>2, <1>3

LEMMA RInit == Init => RInv
<1> SUFFICES ASSUME Init PROVE RInv OBVIOUS
<1>1. /\ kids = {} /\ dir.token = 0
      /\ \A w \in W : /\ wf[w].st = "absent" /\ wf[w].times = 0 /\ ~wf[w].alone
                      /\ wf[w].end = "none"
  BY DEF Init, Absent
<1>2. \A w \in W : ~Done(wf[w]) /\ ~Past(wf[w]) BY <1>1 DEF Done, Past
<1> QED BY <1>1, <1>2 DEF RInv, Tokens, Applied, Whole

LEMMA RNext == WInv /\ WInv' /\ RInv /\ [Next]_vars => RInv'
<1> SUFFICES ASSUME WInv, WInv', RInv, [Next]_vars PROVE RInv' OBVIOUS
<1>1. CASE UNCHANGED vars
  <2>1. UNCHANGED <<wf, kids, dir>> BY <1>1 DEF vars
  <2> QED BY <2>1, Stays, NoneChanges
<1>2. ASSUME NEW w \in W,
             \/ TaskStarts(w) \/ Dispatch(w) \/ TaskReturns(w) \/ TaskTimesOut(w)
             \/ RequestPause(w) \/ RequestResume(w) \/ CancelSignal(w)
             \/ CancelAcknowledge(w) \/ LoopTop(w) \/ Compensate(w) \/ FinalResult(w)
             \/ ExecutionTimeout(w) \/ DeadlinePasses(w)
      PROVE  RInv'
  BY <1>2, GraphResumed, DispatchResumed, SignalResumed, LoopTopResumed, ReadResumed,
     TimeoutResumed
<1>3. CASE Kid
  BY <1>3, LocksResumed, RestoresResumed, CommitsResumed, FinishesResumed, ExitsResumed
     DEF Kid
<1>4. ASSUME NEW k \in kids,
             KidFails(k) \/ CancelReachesActivity(k) \/ HeartbeatTimeout(k) \/ OrphanKilled(k)
      PROVE  RInv'
  BY <1>4, FailureResumed
<1> QED BY <1>1, <1>2, <1>3, <1>4 DEF Next

LEMMA RInvariant == Spec => [](WInv /\ RInv)
<1>1. Init => WInv /\ RInv BY WInit, RInit
<1>2. WInv /\ RInv /\ [Next]_vars => WInv' /\ RInv' BY WNext, RNext
<1> QED BY <1>1, <1>2, PTL DEF Spec

\* However often a resume's activity is retried, whichever of its children gets the
\* flock first and whatever other executions do meanwhile, its token cuts the
\* checkpoint once, and what a completed execution left whole stays whole, until
\* another request's resume is applied or a restore drops steps.
THEOREM CompletedStaysWhole == Spec => []CompletedIsWhole
<1>1. WInv /\ RInv => CompletedIsWhole
  <2> SUFFICES ASSUME WInv, RInv, NEW w \in W, wf[w].alone
               PROVE  wf[w].times <= 1 /\ (wf[w].end = "completed" => dir.len = N)
    BY DEF CompletedIsWhole
  <2>1. wf[w].times \in Nat BY DEF WInv, Types, FrameType
  <2>2. wf[w].times > 0 => wf[w].times = 1 BY DEF RInv, Tokens
  <2>3. wf[w].end = "completed" => dir.len = N BY DEF RInv, Whole, Done
  <2> QED BY <2>1, <2>2, <2>3
<1> QED BY <1>1, RInvariant, PTL

\* A cancel that the workflow sees before its last step returned is what it ends
\* with, or an error, never success: request_cancel against the loop, the
\* retries and the final read.
THEOREM CancelDecides == Spec => []CancelWins
<1>1. WInv => CancelWins
  <2> SUFFICES ASSUME WInv, NEW w \in W, wf[w].early, wf[w].end = "completed"
               PROVE  FALSE
    BY DEF CancelWins
  <2>1. Good(wf[w]) BY DEF WInv, Phases
  <2>2. wf[w].st = "closed" BY <2>1 DEF Good
  <2> QED BY <2>1, <2>2 DEF Good, Over
<1> QED BY <1>1, WInvariant, PTL

\* Every unhappy end was compensated, once or twice, and a child that is no
\* orphan is the one that the execution's current attempt waits for.
THEOREM WorkflowAccounted == Spec => []Accounted
<1>1. WInv => TypeOK
  BY DEF WInv, Types, TypeOK, FrameType, KidType, Stages, DirType, Unhappy
<1>2. WInv => Compensated
  <2> SUFFICES ASSUME WInv, NEW w \in W
               PROVE  /\ wf[w].end \in {"cancelled", "stopped", "timed_out", "failed", "raised"}
                           => wf[w].comp > 0
                      /\ wf[w].comp <= 2
    BY DEF Compensated
  <2>1. Good(wf[w]) BY DEF WInv, Phases
  <2>2. CASE wf[w].st \in {"absent", "closed"} BY <2>1, <2>2 DEF Good, Over, Unhappy
  <2>3. CASE wf[w].st \in {"top", "act"} BY <2>1, <2>3 DEF Good, Running
  <2>4. CASE wf[w].st = "comp" BY <2>1, <2>4 DEF Good, Unwinding
  <2>5. CASE wf[w].st = "read"
    <3>1. wf[w].comp \in 0..2 /\ wf[w].end = "none" BY <2>1, <2>5 DEF Good, Reading
    <3> QED BY <3>1
  <2> QED BY <2>1, <2>2, <2>3, <2>4, <2>5 DEF Good, FrameType
<1>3. WInv => ChildrenAreAwaited BY DEF WInv, Awaited, ChildrenAreAwaited
<1>4. WInv => Accounted BY <1>1, <1>2, <1>3 DEF Accounted
<1> QED BY <1>4, WInvariant, PTL
=============================================================================
