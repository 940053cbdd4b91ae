------------------------ MODULE ConnectionSynthesis ------------------------
(***************************************************************************)
(* The schematic connection step (SchConnectionsStep of                    *)
(* orchestration/pipeline.py with orchestration/connection_synthesis.py):  *)
(* a large netlist is asked of the model in batches, each answer an        *)
(* additive transaction on a persisted checkpoint under a round budget and *)
(* a total budget of calls; a small one is asked for at once.  The result  *)
(* is normalized, checked, repaired by bounded patches and committed; a    *)
(* restart continues from what was persisted.                              *)
(***************************************************************************)
EXTENDS NetlistChecks

CONSTANTS Designs,      \* design -> its board, the model's possible answers, and the
                        \* selections the selection step may propose instead
          Contexts,     \* design -> runs [required, first]: LLM mode required, artifact-first
          TargetPins,   \* connection_batch_target_pins
          MaxBatches,   \* connection_max_batches
          DirectPins,   \* connection_direct_pin_limit of the run of each design
          MergeRetries, \* connection_batch_merge_retries
          RoundLimit,   \* connection_max_llm_invocations
          TotalLimit,   \* connection_max_total_llm_invocations
          MaxRepairs,   \* repair budget of the step
          MaxFaults     \* crashes and failed saves of a behaviour

ASSUME LimitsPositive ==
  /\ {TargetPins, MaxBatches, RoundLimit, TotalLimit} \subseteq Nat \ {0}
  /\ {MergeRetries, MaxRepairs, MaxFaults} \subseteq Nat

Asks == 3   \* attempts of propose_structured for one answer

VARIABLES design, ctx,   \* the inputs, fixed by Init
          board,         \* the board, its selection artifact in board.sel
          at,            \* control point of the step
          cp, rep,       \* in-flight checkpoint and what the report says of it
          k, tries, asks,\* current batch, merge attempts, attempts of one answer
          raw, art, from,\* netlist before and after normalization, and its origin
          repairs, disk, \* repairs used; what the last successful save wrote
          calls, lost, faults  \* calls made for this checkpoint, failed saves, faults

vars == <<design, ctx, board, at, cp, rep, k, tries, asks, raw, art, from,
          repairs, disk, calls, lost, faults>>
loop == <<k, tries, asks>>
output == <<raw, art, from, repairs>>
input == <<design, ctx>>

WithSelection(s) == [board EXCEPT !.sel = s]
Empty == [nets |-> <<>>, nc |-> {}, supply |-> {}, added |-> {}]
NoCheckpoint == [sel |-> {}, plan |-> <<>>, agg |-> Empty, st |-> <<>>, fp |-> <<>>,
                 llm |-> 0, round |-> 0]
InFlight(c) == c # NoCheckpoint

(***************************************************************************)
(* The batch plan: parts by topology block, filled up to a pin target;     *)
(* central hubs are shared by all and owned by a last integration batch.   *)
(***************************************************************************)
PinCount(b, R) == FoldLeft(LAMBDA n, r : n + Len(Pins(b, r)), 0, Listed(b, R))
Ceil(a, d) == (a + d - 1) \div d
Larger(a, c) == IF a < c THEN c ELSE a

\* A part belongs to the one block with the best positive score, else to none.
BlockOf(b, r) ==
  LET s == b.scores[r]
      best == {i \in DOMAIN s : s[i] > 0 /\ \A j \in DOMAIN s : s[j] <= s[i]}
  IN  IF Single(best) THEN The(best) ELSE Len(s) + 1

Hubs(b) == {r \in b.sel : Has(b, r, {"hub"}) /\ Len(Pins(b, r)) >= 4}

ShouldBatch(b) == PinCount(b, b.sel) > DirectPins[design]

Fill(b, parts, target) ==
  LET step(a, r) ==
        LET n == Len(Pins(b, r))
            flushed == IF a.cur = <<>> THEN a.done ELSE Append(a.done, a.cur)
        IN  IF n > TargetPins
            THEN [done |-> Append(flushed, <<r>>), cur |-> <<>>, pins |-> 0]
            ELSE IF a.cur # <<>> /\ a.pins + n > target
            THEN [done |-> flushed, cur |-> <<r>>, pins |-> n]
            ELSE [a EXCEPT !.cur = Append(@, r), !.pins = @ + n]
      end == FoldLeft(step, [done |-> <<>>, cur |-> <<>>, pins |-> 0], parts)
  IN  IF end.cur = <<>> THEN end.done ELSE Append(end.done, end.cur)

\* Too many batches: the last ones become one.
CappedDropsTail(batches, cap) == SubSeq(batches, 1, IF Len(batches) < cap THEN Len(batches) ELSE cap)
Capped(batches, cap) ==
  IF Len(batches) <= cap THEN batches
  ELSE Append(SubSeq(batches, 1, cap - 1),
              FlattenSeq(SubSeq(batches, cap, Len(batches))))

PlanBatches(b) ==
  LET shared == IF MaxBatches = 1 THEN {} ELSE Hubs(b)
      own == {r \in b.sel \ shared : Pins(b, r) # <<>>}
      big == {r \in own : Len(Pins(b, r)) > TargetPins}
      blocks == 1..(1 + Len(b.scores[The(b.sel)]))
      parts == FlattenSeq([i \in blocks |-> Listed(b, {r \in own : BlockOf(b, r) = i})])
      cap == MaxBatches - (IF shared = {} THEN 0 ELSE 1)
      target == Larger(TargetPins, Larger(1, Ceil(PinCount(b, own \ big),
                                                  Larger(1, cap - Cardinality(big)))))
      filled == Capped(Fill(b, parts, target), cap)
      plain == IF filled = <<>> /\ shared = {} THEN << <<>> >> ELSE filled
      spec(refs) == [owned |-> ToSet(refs), shared |-> shared]
  IN  [i \in DOMAIN plain |-> spec(plain[i])]
      \o (IF shared = {} THEN <<>> ELSE <<[owned |-> shared, shared |-> b.sel \ shared]>>)

NewCheckpoint(b) ==
  LET plan == PlanBatches(b)
  IN  [NoCheckpoint EXCEPT
        !.sel = b.sel, !.plan = plan,
        !.agg = [Empty EXCEPT !.nets = [m \in b.rails \cup {b.ground} |-> {}],
                              !.supply = b.rails \ {b.ground}],
        !.st = [i \in DOMAIN plan |-> "pending"],
        !.fp = [i \in DOMAIN plan |-> <<>>]]

Completed(c) == {i \in DOMAIN c.st : c.st[i] = "completed"}
Revision(c) == Cardinality(Completed(c))

\* What the validators of a plan and of a checkpoint require.
PlanValid(plan) ==
  /\ \A i \in DOMAIN plan : plan[i].owned \cap plan[i].shared = {}
  /\ \A i, j \in DOMAIN plan : i # j => plan[i].owned \cap plan[j].owned = {}
Consistent(c) ==
  /\ DOMAIN c.st = DOMAIN c.plan /\ PlanValid(c.plan)
  /\ \A i \in Completed(c) : c.fp[i] # <<>> /\ \A j \in 1..i : j \in Completed(c)
  /\ c.round <= c.llm

\* A stored checkpoint is taken up only if it is consistent and for these inputs.
Fits(c, b) == InFlight(c) /\ c.sel = b.sel /\ Consistent(c)

(***************************************************************************)
(* The merge of one answer: its batch id, the revision it was written for, *)
(* pins put on nets, the nets it creates, and its no-connect pins.         *)
(***************************************************************************)
Keyed(b, P) == {<<RefOf(p), ResolveStrictly(b, p)>> : p \in P}
Owner(b, agg) == UNION {{<<x, m>> : x \in Keyed(b, agg.nets[m])} : m \in DOMAIN agg.nets}
Delta(a) == <<a.put, a.create, a.nc>>
PutOn(a, m) == {p \in DOMAIN a.put : a.put[p] = m}

KeepsReservedInAnswer(b, agg, a) ==
  \A v \in Owner(b, agg) : v[1] \notin Keyed(b, a.nc)
KeepsReserved(b, agg, a) ==
  LET put == UNION {{<<x, m>> : x \in Keyed(b, PutOn(a, m))} : m \in {a.put[p] : p \in DOMAIN a.put}}
      after == Owner(b, agg) \cup put
  IN  /\ \A u \in put, v \in after : u[1] = v[1] => u[2] = v[2]
      /\ \A u \in put : u[1] \notin Keyed(b, agg.nc)
      /\ \A v \in after : v[1] \notin Keyed(b, a.nc)

Mergeable(c, b, a) ==
  LET batch == c.plan[a.id]
      refs == {RefOf(p) : p \in DOMAIN a.put}
      nets == {a.put[p] : p \in DOMAIN a.put}
      own == UNION {{<<r, i>> : i \in Numbers(b, r)} : r \in batch.owned}
      all == {u[1] : u \in Owner(b, c.agg)} \cup Keyed(b, c.agg.nc \cup a.nc \cup DOMAIN a.put)
  IN  /\ a.base = Revision(c)
      /\ refs \subseteq batch.owned \cup batch.shared
      /\ {RefOf(p) : p \in a.nc} \subseteq batch.owned \ batch.shared
      /\ a.create \cap DOMAIN c.agg.nets = {}
      /\ nets \subseteq DOMAIN c.agg.nets \cup a.create
      /\ \A x \in Keyed(b, DOMAIN a.put \cup a.nc) : x[2] # None
      /\ KeepsReserved(b, c.agg, a)
      /\ own \subseteq all

MergedOver(c, b, a) ==
  [c EXCEPT
    !.agg.nets = [m \in DOMAIN @ \cup a.create |-> PutOn(a, m)],
    !.agg.nc = @ \cup a.nc,
    !.st[a.id] = "completed", !.fp[a.id] = Delta(a)]
Merged(c, b, a) ==
  LET nets == DOMAIN c.agg.nets \cup a.create
      fresh(m) == {x \in Keyed(b, PutOn(a, m)) : <<x, m>> \notin Owner(b, c.agg)}
      one(P, x) == CHOOSE p \in P : Keyed(b, {p}) = {x}
  IN  [c EXCEPT
        !.agg.nets = [m \in nets |-> NetPins(c.agg, m) \cup
                                     {one(PutOn(a, m), x) : x \in fresh(m)}],
        !.agg.nc = @ \cup {one(a.nc, x) : x \in Keyed(b, a.nc) \ Keyed(b, @)},
        !.agg.supply = @ \cup {m \in a.create : b.kind[m] = "power" /\ m # b.ground},
        !.st[a.id] = "completed", !.fp[a.id] = Delta(a)]

Refused(c, b, a) ==
  \/ a.id \notin DOMAIN c.plan
  \/ \E i \in 1..(a.id - 1) : i \notin Completed(c)
  \/ IF a.id \in Completed(c) THEN c.fp[a.id] # Delta(a)
     ELSE ~Mergeable(c, b, a)

Merge(c, b, a) == IF a.id \in Completed(c) THEN c ELSE Merged(c, b, a)

(***************************************************************************)
(* Saving.  The state is written at every progress point; a failed write   *)
(* is ignored and the run goes on.                                         *)
(***************************************************************************)
Save(c, r) ==
  \/ disk' = [disk EXCEPT !.cp = c, !.rep = r] /\ UNCHANGED <<lost, faults>>
  \/ /\ faults < MaxFaults /\ faults' = faults + 1
     /\ lost' = lost + 1 /\ UNCHANGED disk

Exhausted(c) == c.llm >= TotalLimit \/ c.round >= RoundLimit
NextBatch(c, i) ==
  LET todo == {j \in (i + 1)..Len(c.st) : c.st[j] # "completed"}
  IN  IF todo = {} THEN Len(c.st) + 1 ELSE CHOOSE j \in todo : \A l \in todo : j <= l

(***************************************************************************)
(* Batched synthesis.                                                      *)
(***************************************************************************)
StartRound ==
  /\ at = "ready" /\ ShouldBatch(board)
  /\ cp' = [IF Fits(cp, board) THEN cp ELSE NewCheckpoint(board) EXCEPT !.round = 0]
  /\ Save(cp', rep)
  /\ k' = NextBatch(cp', 0)
  /\ calls' = IF Fits(cp, board) THEN calls ELSE 0
  /\ tries' = 0 /\ asks' = 0 /\ at' = "loop"
  /\ UNCHANGED <<input, board, rep, output>>

\* The call is counted and saved before it is made.
AskUnsaved ==
  /\ cp' = [cp EXCEPT !.llm = @ + 1, !.round = @ + 1]
  /\ calls' = calls + 1
  /\ UNCHANGED <<disk, lost, faults>>
CountAndAsk ==
  /\ cp' = [cp EXCEPT !.llm = @ + 1, !.round = @ + 1]
  /\ calls' = calls + 1
  /\ Save(cp', rep)

Ask ==
  /\ at \in {"loop", "retry"} /\ k <= Len(cp.plan) /\ ~Exhausted(cp)
  /\ CountAndAsk
  /\ tries' = IF at = "loop" THEN tries + 1 ELSE tries
  /\ asks' = IF at = "loop" THEN 1 ELSE asks + 1
  /\ at' = "asked"
  /\ UNCHANGED <<input, board, rep, k, output>>

\* The synthesis stops with what has been merged: a draft, or an exception.
Draft(c) ==
  /\ cp' = c /\ raw' = c.agg /\ art' = Normalize(board, c.agg) /\ from' = "partial"
  /\ rep' = IF c.llm < TotalLimit THEN "resumable" ELSE "final"
  /\ Save(c, rep') /\ at' = "checking" /\ UNCHANGED <<repairs, loop>>
Stop(c) ==
  IF ctx.first THEN Draft(c)
  ELSE cp' = c /\ at' = "raised" /\ UNCHANGED <<rep, output, loop, disk, lost, faults>>

Failure(c) == [c EXCEPT !.st[k] = "failed"]

\* The budget is spent; or the answers fail for good; or the last batch ended with
\* an earlier one still open, because an answer only repeated a completed batch.
StopsShort ==
  /\ \/ at \in {"loop", "retry"} /\ k <= Len(cp.plan) /\ Exhausted(cp)
     \/ at = "asked" /\ (asks < Asks \/ ctx.required)
     \/ at = "loop" /\ k > Len(cp.plan) /\ Completed(cp) # DOMAIN cp.plan
  /\ Stop(IF at = "asked" /\ ctx.first THEN Failure(cp) ELSE cp)
  /\ UNCHANGED <<input, board, calls>>

Garbled ==
  /\ at = "asked" /\ asks < Asks
  /\ at' = "retry"
  /\ UNCHANGED <<input, board, cp, rep, loop, output, disk, calls, lost, faults>>

\* What is merged: an answer, with the batch and revision it names, or in auto
\* mode, after the last unusable one, an empty answer.
Answers ==
  {[id |-> id, base |-> base, put |-> d.put, create |-> d.create, nc |-> d.nc] :
     d \in Designs[design].answers, id \in 0..Len(cp.plan), base \in {0, Revision(cp)}}
  \cup {[id |-> k, base |-> Revision(cp), put |-> <<>>, create |-> {}, nc |-> {}] :
          i \in {j \in {asks} : j = Asks /\ ~ctx.required}}

Answer ==
  /\ at = "asked"
  /\ \E a \in Answers :
       IF ~Refused(cp, board, a)
       THEN /\ cp' = Merge(cp, board, a) /\ Save(cp', rep)
            /\ k' = NextBatch(cp', k) /\ tries' = 0 /\ asks' = 0 /\ at' = "loop"
            /\ UNCHANGED <<rep, output>>
       ELSE IF tries > MergeRetries /\ ctx.first THEN Draft(Failure(cp))
       ELSE /\ cp' = Failure(cp) /\ Save(cp', rep)
            /\ at' = IF tries > MergeRetries THEN "raised" ELSE "loop"
            /\ UNCHANGED <<rep, loop, output>>
  /\ UNCHANGED <<input, board, calls>>

Finish ==
  /\ at = "loop" /\ k > Len(cp.plan) /\ Completed(cp) = DOMAIN cp.plan
  /\ raw' = cp.agg /\ art' = Normalize(board, cp.agg) /\ from' = "whole"
  /\ cp' = NoCheckpoint /\ rep' = "final" /\ Save(cp', rep')
  /\ at' = "checking"
  /\ UNCHANGED <<input, board, loop, repairs, calls>>

(***************************************************************************)
(* The direct proposal, the checks, the repair and the commit.             *)
(***************************************************************************)
Offered == Designs[design].offers
Direct ==
  /\ at = "ready" /\ ~ShouldBatch(board)
  /\ cp' = NoCheckpoint /\ rep' = "final"
  /\ IF InFlight(cp) THEN Save(cp', rep) ELSE UNCHANGED <<disk, lost, faults>>
  /\ \E n \in Offered : raw' = n /\ art' = Normalize(board, n)
  /\ from' = "direct" /\ at' = "checking"
  /\ UNCHANGED <<input, board, loop, repairs, calls>>

\* The step's result is written with the run, accepted or not (the repair budget
\* is the run's, and has a deadline); accepted additions join the selection.
Commit ==
  /\ at = "checking"
  /\ LET ok == Accepted(board, art)
     IN  /\ board' = IF ok THEN WithSelection(board.sel \cup art.added) ELSE board
         /\ disk' = [cp |-> cp, rep |-> rep, sel |-> board'.sel, done |-> TRUE, art |-> art,
                     blocked |-> ~ok]
  /\ at' = "done"
  /\ UNCHANGED <<input, cp, rep, loop, output, calls, lost, faults>>

Scopes == {RepairScope(board, art, c) : c \in {Cohort(board, art)}}
Patched(pt, scope) == RemoveUnknown(board, ApplyPatch(board, art, LimitPatch(board, art, pt, scope)))

\* A repair is kept if fewer checks fail, or as many with a shorter report.
Repair ==
  /\ at = "checking" /\ art.nets # <<>> /\ repairs < MaxRepairs
  /\ repairs' = repairs + 1
  /\ \E failing \in {Len(Failed(board, art))} \ {0} : \E scope \in Scopes, pt \in Designs[design].patches :
       \E r \in {Patched(pt, scope)} : \E n \in {Normalize(board, r)} :
         \E more \in {Len(Failed(board, n)) - failing} :
           \/ more <= 0 /\ raw' = r /\ art' = n /\ from' = "repair"
           \/ more >= 0 /\ UNCHANGED <<raw, art, from>>
  /\ UNCHANGED <<input, board, at, cp, rep, loop, disk, calls, lost, faults>>

\* An empty netlist is no basis for a patch: the whole is proposed again.
ProposeAgain ==
  /\ at = "checking" /\ art.nets = <<>> /\ repairs < MaxRepairs
  /\ repairs' = repairs + 1 /\ at' = "ready"
  /\ UNCHANGED <<input, board, cp, rep, loop, raw, art, from, disk, calls, lost, faults>>

\* Failures of the parts themselves send the run back to their selection.
Reselect ==
  /\ at = "done" /\ disk.blocked /\ RollsBack(board, art)
  /\ \E s \in Designs[design].selections \ {board.sel} :
       board' = WithSelection(s) /\ disk' = [disk EXCEPT !.sel = s, !.done = FALSE, !.art = Empty]
  /\ raw' = Empty /\ art' = Empty /\ from' = "none" /\ repairs' = 0 /\ at' = "ready"
  /\ UNCHANGED <<input, cp, rep, loop, calls, lost, faults>>

(***************************************************************************)
(* Crash and restart from what was saved.                                  *)
(***************************************************************************)
Crash ==
  /\ at \notin {"down", "raised"} /\ faults < MaxFaults
  /\ faults' = faults + 1 /\ at' = "down"
  /\ UNCHANGED <<input, board, cp, rep, loop, output, disk, calls, lost>>

Resumable(c) == disk.rep \in {"none", "resumable"} /\ Fits(c, WithSelection(disk.sel))

Restart ==
  /\ at \in {"down", "raised"}
  /\ board' = WithSelection(disk.sel) /\ rep' = disk.rep /\ k' = 0 /\ tries' = 0 /\ asks' = 0
  /\ LET again == Resumable(disk.cp) /\ (disk.done => Completed(disk.cp) # DOMAIN disk.cp.st)
     IN  IF again \/ ~disk.done
         THEN /\ cp' = IF again THEN disk.cp ELSE NoCheckpoint
              /\ raw' = Empty /\ art' = Empty /\ from' = "none" /\ at' = "ready"
         ELSE /\ cp' = NoCheckpoint
              /\ raw' = Normalize(board', disk.art) /\ from' = "resumed"
              /\ art' = Normalize(board', raw')
              /\ \E reordered \in Reordered(board') :
                   at' = IF raw' # disk.art \/ reordered \/ (disk.blocked /\ ~ctx.first)
                         THEN "checking" ELSE "done"
  /\ repairs' = 0
  /\ UNCHANGED <<input, disk, calls, lost, faults>>

Init ==
  /\ design \in DOMAIN Designs /\ ctx \in Contexts[design]
  /\ board = Designs[design].board
  /\ at = "ready" /\ cp = NoCheckpoint /\ rep = "none"
  /\ k = 0 /\ tries = 0 /\ asks = 0
  /\ raw = Empty /\ art = Empty /\ from = "none" /\ repairs = 0
  /\ disk = [cp |-> NoCheckpoint, rep |-> "none", sel |-> board.sel, done |-> FALSE,
             art |-> Empty, blocked |-> FALSE]
  /\ calls = 0 /\ lost = 0 /\ faults = 0

Next ==
  \/ StartRound \/ Ask \/ StopsShort \/ Garbled \/ Answer \/ Finish
  \/ Direct \/ Commit \/ Repair \/ ProposeAgain \/ Reselect
  \/ Crash \/ Restart

Spec == Init /\ [][Next]_vars

-----------------------------------------------------------------------------
(***************************************************************************)
(* Properties.                                                             *)
(***************************************************************************)
\* The step's variables keep their shape, and a synthesis in flight is always
\* one the checkpoint's own validator accepts: completed batches are a prefix of
\* the plan, the calls of the round are among all calls, and each part of the
\* selection with pins is owned by exactly one batch.
TypeOK ==
  /\ at \in {"ready", "loop", "asked", "retry", "checking", "done", "raised", "down"}
  /\ rep \in {"none", "resumable", "final"}
  /\ from \in {"none", "partial", "whole", "direct", "repair", "resumed"}
  /\ \A c \in {cp, disk.cp} : InFlight(c) =>
       LET b == WithSelection(c.sel)
       IN  /\ Fits(c, b)
           /\ \A r \in c.sel : Pins(b, r) # <<>> => \E i \in DOMAIN c.plan : r \in c.plan[i].owned

\* A merge never moves an accepted pin: in every checkpoint, in memory or saved,
\* a physical pin is on one net, or is a no-connect, never both, whatever names
\* the answers used for it (merge_connection_delta).
OneDisposition ==
  \A c \in {cp, disk.cp} :
    LET b == WithSelection(c.sel)
    IN  /\ \A u, v \in Owner(b, c.agg) : u[1] = v[1] => u[2] = v[2]
        /\ \A u \in Owner(b, c.agg) : u[1] \notin Keyed(b, c.agg.nc)

\* When every batch completed, every real pin of the selection is on a net or a
\* declared no-connect of the normalized netlist: the plan left out no part, the
\* merges no pin, and the normalizers dropped none.
WholeWhenComplete == from = "whole" => Unaccounted(board, art) = {}

\* The model is called for one checkpoint at most TotalLimit times, however
\* often the process crashes and resumes; only a save that failed before a crash
\* forgets a call (before_connection_attempt saves before it calls).
CallsBounded == calls <= TotalLimit + lost

\* The saved synthesis is one a restart accepts, its answers agree,
\* and its calls are counted.
CheckpointSound == TypeOK /\ OneDisposition /\ CallsBounded

\* A restart finds an accepted netlist that adds no part as it was committed:
\* the normalizers it applies again change no net and no no-connect, so that the
\* step, with all the steps after it, is kept, or, where the fingerprint sees the
\* forced no-connects in another order, is checked again and accepted as it is.
AcceptedIsStable ==
  [][(/\ at \in {"down", "raised"} /\ from' = "resumed"
      /\ ~disk.blocked /\ disk.art.added = {}) =>
        /\ art' = disk.art /\ raw' = disk.art
        /\ IF Cardinality(Forced(board')) > 1 THEN at' = "checking" => Accepted(board', art')
           ELSE at' = "done"]_vars

\* Normalization accounts for every pin the proposal, the merge or the patch
\* accounted for: a normalizer that lifts a pin puts it somewhere.
NothingForgotten ==
  (from # "none" /\ at \in {"checking", "done"}) =>
    (Connected(board, raw) \cup Open(board, raw)) \cap AllNumbers(board, art)
      \subseteq Connected(board, art) \cup Open(board, art)

\* No pin of the selection is lost between the answers and the committed
\* netlist, now or when a restart normalizes it again.
NetlistKept == [](WholeWhenComplete /\ NothingForgotten) /\ AcceptedIsStable

\* A saved checkpoint only grows while its inputs stay and its synthesis is not
\* reported final: a completed batch stays completed with its answer, and the
\* nets and no-connects keep their pins, through refused answers, crashes,
\* resumes and new rounds.
Additive ==
  [][(/\ InFlight(disk.cp) /\ InFlight(disk'.cp) /\ disk'.cp.sel = disk.cp.sel
      /\ rep # "final") =>
        /\ Completed(disk.cp) \subseteq Completed(disk'.cp)
        /\ \A i \in Completed(disk.cp) : disk'.cp.fp[i] = disk.cp.fp[i]
        /\ \A m \in DOMAIN disk.cp.agg.nets :
             disk.cp.agg.nets[m] \subseteq NetPins(disk'.cp.agg, m)
        /\ disk.cp.agg.nc \subseteq disk'.cp.agg.nc]_vars

\* A repair leaves what its failure does not concern: pins of parts outside the
\* scope stay on their nets outside the scope, before normalization, unless the
\* patch itself declares the part as an addition.
OutOfScopeKept ==
  [][(at = "checking" /\ from' = "repair" /\ raw' # raw) =>
       \A scope \in Scopes : \A m \in DOMAIN art.nets \ scope.nets :
         \A p \in art.nets[m] :
           (RefOf(p) \in board.sel \ (scope.refs \cup raw'.added)) => p \in NetPins(raw', m)]_vars

\* Answers and repairs change only what they are about.
OnlyMeantChanges == Additive /\ OutOfScopeKept

\* The opposite of what Reordered allows: a restart keeps every accepted step.
AcceptedStepKept ==
  [][(/\ at \in {"down", "raised"} /\ from' = "resumed"
      /\ ~disk.blocked /\ disk.art.added = {}) => at' = "done"]_vars

\* "Crash-safe state for one in-flight block-wise synthesis": a restart takes up
\* the saved synthesis for the same inputs while it has calls left.
InFlightSurvives ==
  [][(/\ at = "down" /\ at' = "ready" /\ ~disk.done
      /\ Fits(disk.cp, WithSelection(disk.sel))
      /\ disk.cp.llm < TotalLimit) => cp' = disk.cp]_vars
=============================================================================
