----------------------------- MODULE PcbPipeline -----------------------------
(***************************************************************************)
(* One run directory of the PCB pipeline: Pipeline.run and                 *)
(* PipelineStepBase.run of ratsnestpro/orchestration/pipeline.py under     *)
(* _run_pcb_pipeline_unlocked of agents/ratsnestpro/tools.py.  disk is     *)
(* pipeline_state.json, mem the PipelineState of the process that holds    *)
(* the directory's file lock.                                              *)
(*                                                                         *)
(* An artifact is its fingerprint, 0 when there is none.  A failure is its *)
(* kind: a step has one check of each kind.  What a producer proposes and  *)
(* what a check finds are inputs.  The model is available and required     *)
(* (LlmMode.REQUIRED), so a failed proposal raises.                        *)
(***************************************************************************)
EXTENDS Integers, Sequences, FiniteSets

CONSTANTS
  N,              \* steps, 17 in the code
  Prints,         \* the fingerprints the producer of a step may yield
  Checked,        \* the steps whose checks may fail
  Troubles,       \* the sets of kinds of failure one behaviour meets
  Details,        \* how finely a score tells apart equal numbers of errors
  Blocking,       \* the kinds whose checks block execution
  LlmSteps,       \* steps whose producer asks the model
  CustomRepair,   \* steps that override repair
  Deterministic,  \* of these, repair_is_deterministic
  AllowDesign,    \* steps with allow_artifact_first_design_repair
  Owner,          \* what rollback_target of a step may answer, 0 if nothing
  Merges,         \* upstream artifacts a step rewrites when it succeeds
  Swaps,          \* upstream artifacts a step's repair rewrites
  Substitutes,    \* upstream artifacts rewritten by rollback_target itself
  Incremental,    \* steps that override replan to edit the baseline
  Progress,       \* steps that checkpoint while they produce
  RepairRelease,  \* RATSNESTPRO_REPAIR_RELEASE_ISSUES
  Agentic,        \* RATSNESTPRO_AGENTIC_RECOVERY_ENABLED
  Learned,        \* the cross-run memory has scores for strategies and replans
  Retries, Stagnation, DesignStagnation, MaxRepairs, MaxSame,
  MaxDesignStep, MaxDesignTotal, MaxReplan, MaxTurnsStep, MaxTurnsTotal,
  Tokens,         \* resume tokens of the control plane
  Reopened,       \* steps a failed final verification may point at
  MaxStarts,      \* bound: processes started on the directory
  MaxFaults,      \* bound: exceptions out of a step, starts under a changed
                  \* library, tool or harness, and amendments of the requirement
  Untils,         \* bound: the steps an activity is asked to reach
  Modes           \* "legacy" (whole run), "stepwise" (one Temporal activity)

Steps == 1..N
Kinds == {"design", "evidence", "hard", "harness", "infra"}
Acts  == {"local", "replan", "retry", "investigate", "ask", "stop"}

ASSUME PipelineAssumption ==
  /\ N \in Nat \ {0}
  /\ Prints \in [Steps -> SUBSET (Nat \ {0})]
  /\ Troubles \subseteq SUBSET Kinds
  /\ Blocking \subseteq Kinds
  /\ Owner \in [Steps -> 0..N] /\ \A i \in Steps : Owner[i] < i /\ Owner[i] # 1
  /\ Merges \in [Steps -> SUBSET Steps]
  /\ Swaps \in [Steps -> SUBSET Steps]
  /\ Substitutes \in [Steps -> SUBSET Steps]
  /\ \A i \in Steps : \A j \in Merges[i] \union Swaps[i] \union Substitutes[i] : j < i
  /\ Modes \subseteq {"legacy", "stepwise"} /\ Untils \subseteq Steps
  /\ Details \subseteq Nat
  /\ {MaxRepairs, MaxSame, MaxDesignStep, MaxDesignTotal, MaxReplan, MaxTurnsTotal} \subseteq Nat

VARIABLES
  disk,     \* the checkpoint; its revision is -1 when there is none
  mem,      \* the state of the running process
  pc,       \* idle, loop, repair, judge, end
  mode,     \* how the deployment runs the pipeline
  until,    \* the last step it is to take
  ev,       \* the artifact in hand with what its checks found
  rp,       \* the repair loop
  tries,    \* execution_attempt
  late,     \* ahe_deadline_monotonic has passed
  refused,  \* a write was refused by the regression guard
  trouble,  \* the kinds of failure the checks report
  starts, faults

ledger == <<trouble, starts, faults>>
vars == <<disk, mem, pc, mode, until, ev, rp, tries, late, refused,
          trouble, starts, faults>>

CountIf(s, P(_)) == Cardinality({k \in DOMAIN s : P(s[k])})
LastIf(s, P(_))  ==                     \* the last index with P, 0 if none
  LET ks == {k \in DOMAIN s : P(s[k])} IN
  IF ks = {} THEN 0 ELSE CHOOSE k \in ks : \A l \in ks : l <= k
Least(a, b) == IF a < b THEN a ELSE b

-----------------------------------------------------------------------------
(* PipelineState *)

AnyPrint == {0} \union UNION {Prints[i] : i \in Steps}
NoArtifacts == [i \in Steps |-> 0]
Blank == [rev |-> 0, contract |-> 0, res |-> <<>>, arts |-> NoArtifacts,
          cands |-> NoArtifacts, loose |-> {}, repairs |-> <<>>,
          replans |-> <<>>, turns |-> <<>>, token |-> <<0, 0>>,
          basis |-> [i \in Steps |-> NoArtifacts]]
NoFile == [Blank EXCEPT !.rev = -1]

NoEval == [art |-> 0, fails |-> {}, exec |-> FALSE, detail |-> 0]
NoRepair == [kind |-> "design", hard |-> 0, stag |-> 0, att |-> 0, stuck |-> 0]

\* What a producer and the checks may come to.
Evaluation(art, fails, detail) ==
  [art |-> art, fails |-> fails, exec |-> fails \intersect Blocking # {},
   detail |-> IF fails = {} THEN 0 ELSE detail]
Evals(i, arts) ==
  {Evaluation(a, f, x) : a \in arts, f \in IF i \in Checked THEN SUBSET trouble ELSE {{}}, x \in Details}

\* Lower is better: error checks, then everything else the score weighs.
Score(e) == <<Cardinality(e.fails), e.detail>>
Better(a, b) == a[1] < b[1] \/ (a[1] = b[1] /\ a[2] < b[2])

At(m) == Len(m.res) + 1
Scheduled(m, i) ==                                       \* pending_replan
  LastIf(m.replans, LAMBDA r : r.trig = i /\ r.status = "scheduled")
ActiveReplan(m, i) ==
  LastIf(m.replans, LAMBDA r : r.status = "scheduled" /\ i \in r.to..r.trig)
ActiveTurn(m, i) ==
  LastIf(m.turns, LAMBDA t : t.step = i /\ t.status = "acted")

Feedback(m, i) ==
  \/ ActiveReplan(m, i) # 0
  \/ /\ ActiveTurn(m, i) # 0
     /\ m.turns[ActiveTurn(m, i)].act = "local"

-----------------------------------------------------------------------------
(* _write_pipeline_state behind _reject_same_revision_checkpoint_regression *)

RegressesNever(m) == FALSE                                    \* seeded fault
Regresses(m) ==
  \/ m.rev < disk.rev
  \/ /\ m.contract = disk.contract
     /\ m.rev = disk.rev
     /\ Len(m.res) < Len(disk.res)

Save(m, next) ==
  IF Regresses(m)
    THEN /\ refused' = TRUE /\ pc' = "idle" /\ mem' = Blank
         /\ UNCHANGED disk
    ELSE /\ disk' = m /\ mem' = m /\ pc' = next
         /\ UNCHANGED refused

Settled == ev' = NoEval /\ rp' = NoRepair /\ tries' = 0
Leave == Settled /\ late' = FALSE /\ until' = 0 /\ UNCHANGED mode

-----------------------------------------------------------------------------
(* PipelineStepBase.run *)

Proven(fails) == fails \intersect {"harness", "infra"} # {}
DesignScope(i, fails) ==
  ~Proven(fails) /\ (RepairRelease \/ (i \in AllowDesign /\ DesignStagnation > 0))

Harness(r) == r.kind = "harness"
TimesRepaired(m, i, f) ==
  CountIf(m.repairs, LAMBDA r : Harness(r) /\ r.step = i /\ f \in r.ids)

\* remaining_task_budget.
Remaining(m, i, fails) ==
  IF DesignScope(i, fails)
    THEN LET run  == CountIf(m.repairs, LAMBDA r : ~Harness(r))
             here == CountIf(m.repairs, LAMBDA r : ~Harness(r) /\ r.step = i) IN
         Least(MaxDesignTotal - run, MaxDesignStep - here)
    ELSE LET same == CHOOSE n \in {TimesRepaired(m, i, f) : f \in fails} :
                       \A f \in fails : TimesRepaired(m, i, f) <= n IN
         Least(MaxRepairs - CountIf(m.repairs, Harness), MaxSame - same)

\* The loop's budgets; learned is what strategy_score moves the allowance by.
RepairLoop(m, i, fails, learned) ==
  LET rest == IF Remaining(m, i, fails) > 0 THEN Remaining(m, i, fails) ELSE 0
      own  == Least(IF DesignScope(i, fails) THEN DesignStagnation ELSE Stagnation, rest)
      stag == IF own = 0 \/ learned = 0 THEN own
              ELSE IF learned > 0 THEN Least(own + 1, rest)
              ELSE IF own > 1 THEN own - 1 ELSE 1 IN
  [kind |-> IF DesignScope(i, fails) THEN "design" ELSE "harness",
   hard |-> Least(12, rest), stag |-> stag, att |-> 0, stuck |-> 0]

CanRepair(i, e) ==
  /\ e.fails # {}
  /\ Proven(e.fails) \/ DesignScope(i, e.fails)
  /\ i \in CustomRepair \/ "infra" \in e.fails \/ i \in LlmSteps

GoesOn(e, loop) ==
  /\ e.fails # {} /\ loop.att < loop.hard /\ loop.stuck < loop.stag /\ ~late

RewritesNeighbour(arts, which) ==                             \* seeded fault
  {arts} \union
    {[arts EXCEPT ![j - 1] = p] : j \in which \ {1}, p \in AnyPrint \ {0}}
Rewrites(arts, which) ==
  {arts} \union
    IF which = {} THEN {}
    ELSE {a \in [Steps -> AnyPrint] :
            \A j \in Steps : IF j \in which THEN a[j] # 0 ELSE a[j] = arts[j]}

UpTo(arts, k) == [j \in Steps |-> IF j <= k THEN arts[j] ELSE 0]
Result(e) == [blocked |-> e.fails # {}, exec |-> e.exec]

\* The result and the artifact are recorded.  SchConnectionsStep.run then adds
\* its additional parts to the selection; restore will drop them from the
\* netlist, which is therefore loose: its fingerprint is not what was saved.
Record(m, e, arts) ==
  LET i == At(m) IN
  [m EXCEPT !.res = Append(@, Result(e)),
            !.arts = [arts EXCEPT ![i] = e.art],
            !.loose = IF arts = m.arts THEN @ \ {i} ELSE @ \union {i},
            !.basis[i] = UpTo(m.arts, i - 1)]

Close(m, e) ==
  \E arts \in Rewrites(m.arts, IF e.fails = {} THEN Merges[At(m)] ELSE {}) :
    /\ mem' = Record(m, e, arts)
    /\ pc' = "judge"

Proceed(m, e, loop) ==
  /\ ev' = e /\ rp' = loop
  /\ IF GoesOn(e, loop) THEN pc' = "repair" /\ mem' = m ELSE Close(m, e)

\* The retained artifact is checked again, or replanned under feedback;
\* otherwise the step proposes.
Baselines(m, i) ==
  IF m.cands[i] # 0 /\ ~Feedback(m, i) THEN {m.cands[i]} ELSE Prints[i]

Running == pc = "loop" /\ At(mem) <= until

RunStep ==
  LET i == At(mem) IN
  /\ Running
  /\ \E e \in Evals(i, Baselines(mem, i)),
        learned \in IF Learned THEN {-1, 0, 1} ELSE {0},
        applicable \in IF i \in Deterministic THEN BOOLEAN ELSE {TRUE} :
       Proceed([mem EXCEPT !.cands[i] = 0], e,
               IF CanRepair(i, e) /\ applicable
                 THEN RepairLoop(mem, i, e.fails, learned) ELSE NoRepair)
  /\ UNCHANGED <<disk, mode, until, tries, late, refused, ledger>>

Repaired(m, status) ==
  [m EXCEPT !.repairs = Append(@, [kind |-> rp.kind, step |-> At(m), ids |-> ev.fails]),
            !.rev = IF status = "improved" THEN @ + 1 ELSE @]

\* The repair's model call fails: the rejected proposal is kept.
RepairError ==
  /\ pc = "repair" /\ GoesOn(ev, rp)
  /\ Close(Repaired(mem, "error"), ev)
  /\ UNCHANGED <<disk, mode, until, ev, rp, tries, late, refused, ledger>>

RepairAttempt ==
  /\ pc = "repair" /\ GoesOn(ev, rp)
  /\ \E e \in Evals(At(mem), Prints[At(mem)]), arts \in Rewrites(mem.arts, Swaps[At(mem)]) :
       LET improved == Better(Score(e), Score(ev))
           m == [Repaired(mem, IF improved THEN "improved" ELSE "rejected")
                   EXCEPT !.arts = arts]
           gives == ~improved /\ At(mem) \in Deterministic
           loop == [rp EXCEPT !.att = @ + 1,
                              !.stuck = IF improved THEN 0 ELSE @ + 1,
                              !.hard = IF gives THEN 0 ELSE @] IN
       Proceed(m, IF improved THEN e ELSE ev, loop)
  /\ UNCHANGED <<disk, mode, until, tries, late, refused, ledger>>

\* The deadline passed between two attempts.
RepairOutOfTime ==
  /\ pc = "repair" /\ ~GoesOn(ev, rp)
  /\ Close(mem, ev)
  /\ UNCHANGED <<disk, mode, until, ev, rp, tries, late, refused, ledger>>

\* step.run raises.  A Temporal activity lets it escape; a whole run tries
\* again if the failure is transient, the candidate already taken, and
\* otherwise records an execution failure.
StepRaises ==
  LET i == At(mem)
      m == [mem EXCEPT !.cands[i] = 0]
      e(k) == [art |-> 0, fails |-> {k}, exec |-> TRUE, detail |-> 0] IN
  /\ Running \/ pc = "repair"
  /\ faults < MaxFaults /\ faults' = faults + 1
  /\ \/ /\ mode = "stepwise"
        /\ pc' = "idle" /\ mem' = Blank /\ Leave
     \/ /\ mode = "legacy" /\ tries < Retries
        /\ pc' = "loop" /\ mem' = m /\ tries' = tries + 1
        /\ ev' = NoEval /\ rp' = NoRepair /\ UNCHANGED <<mode, until, late>>
     \/ \E k \in {"infra"} \union IF i \in LlmSteps THEN {"design"} ELSE {} :
        /\ mode = "legacy" /\ (k = "infra" => tries >= Retries)
        /\ pc' = "judge" /\ ev' = e(k)
        /\ mem' = [m EXCEPT !.res = Append(@, Result(e(k)))]
        /\ rp' = NoRepair /\ UNCHANGED <<mode, until, late, tries>>
  /\ UNCHANGED <<disk, refused, trouble, starts>>

\* on_progress_checkpoint between two connection batches.
SaveProgress ==
  /\ Running /\ At(mem) \in Progress
  /\ mem.cands[At(mem)] # 0 => Feedback(mem, At(mem))
  /\ Save([mem EXCEPT !.cands[At(mem)] = 0], "loop")
  /\ UNCHANGED <<mode, until, ev, rp, tries, late, ledger>>

-----------------------------------------------------------------------------
(* Pipeline.run after a step's result *)

Here == Len(mem.res)
Last(m) == m.res[Len(m.res)]

\* The acted recovery turn of this step learns what it came to.
Observed(m) ==
  LET k == ActiveTurn(m, Here) IN
  IF k = 0 THEN m
  ELSE [m EXCEPT !.turns[k].after = Score(ev),
                 !.turns[k].status = IF ev.fails = {} THEN "verified"
                    ELSE IF Better(Score(ev), m.turns[k].before) THEN "improved"
                    ELSE "rejected"]

CanContinue ==
  ~Last(mem).blocked \/ (~RepairRelease /\ ~Last(mem).exec)

Continue ==
  LET m == Observed(mem)  k == Scheduled(m, Here) IN
  /\ pc = "judge" /\ CanContinue
  /\ Save(IF k # 0 /\ ~Last(m).blocked
            THEN [m EXCEPT !.replans[k].status = "recovered"] ELSE m, "loop")
  /\ Settled
  /\ UNCHANGED <<mode, until, late, ledger>>

Related(r) == r.trig = Here /\ r.ids \intersect ev.fails # {}

\* allowed_targets: never the requirements.
Allowed(m) ==
  {t \in 2..(Here - 1) :
     /\ m.arts[t] # 0
     /\ CountIf(m.replans, LAMBDA r : Related(r) /\ r.to = t) < MaxReplan}

LocalAvailable(m) ==
  m.arts[Here] # 0 /\ (Here \in CustomRepair \union Incremental \union LlmSteps)

RelatedTurns(m) ==
  {k \in DOMAIN m.turns : m.turns[k].step = Here /\ m.turns[k].ids \intersect ev.fails # {}}

TurnsUnbounded(m) == Agentic /\ ~late                         \* seeded fault
TurnAvailable(m) ==
  /\ Agentic /\ ~late
  /\ Cardinality(RelatedTurns(m)) < MaxTurnsStep
  /\ Len(m.turns) < MaxTurnsTotal

DecisionOnlyReplansTarget(a, t) ==                            \* seeded fault
  [act |-> a, to |-> IF a = "replan" THEN t ELSE 0]
Decision(a, t) == [act |-> a, to |-> t]

\* _fallback_recovery_decision.
Fallback(m, suggested) ==
  LET allowed == Allowed(m) IN
  IF "hard" \in ev.fails THEN {Decision("stop", Here)}
  ELSE IF "infra" \in ev.fails \/ ev.exec THEN {Decision("retry", Here)}
  ELSE IF suggested \in allowed THEN {Decision("replan", suggested)}
  ELSE IF LocalAvailable(m) THEN {Decision("local", Here)}
  ELSE IF allowed # {}
    THEN {Decision("replan", t) : t \in {x \in allowed : \A u \in allowed : u <= x}}
  ELSE IF ev.fails = {"evidence"} THEN {Decision("ask", Here)}
  ELSE {Decision("investigate", Here)}

\* What the model may answer, an invalid answer being replaced.
Decisions(m, suggested) ==
  {d \in [act : Acts, to : Steps] :
     /\ d.act # "replan" => d.to = Here
     /\ d.act = "replan" => d.to \in Allowed(m)
     /\ d.act = "local" => LocalAvailable(m)
     /\ d.act = "ask" => ev.fails = {"evidence"}
     /\ d.act = "stop" =>
          "hard" \in ev.fails \/ (Allowed(m) = {} /\ ~LocalAvailable(m))}
  \union Fallback(m, suggested)

Stagnated(m, d) ==
  \E k \in RelatedTurns(m) :
    LET t == m.turns[k] IN
    /\ t.act = d.act /\ t.to = d.to /\ t.base = m.arts[Here]
    /\ t.status \in {"rejected", "exhausted"} /\ t.after = t.before

Turn(m, d, status) ==
  [step |-> Here, ids |-> ev.fails, act |-> d.act, to |-> d.to, status |-> status,
   before |-> Score(ev), after |-> Score(ev), base |-> m.arts[Here]]

Planned(m, d) ==
  [m EXCEPT !.turns =
     Append(@, Turn(m, d, IF Stagnated(m, d) THEN "exhausted" ELSE "planned"))]

\* A local repair keeps the rejected artifact to edit; a retry and an
\* investigation run the producer again.
ActedLocally(m, d) ==
  [m EXCEPT !.turns[Len(m.turns)].status = "acted",
            !.rev = @ + 1,
            !.cands[Here] = IF d.act = "local" THEN m.arts[Here] ELSE @,
            !.res = SubSeq(@, 1, Here - 1),
            !.arts[Here] = 0,
            !.loose = @ \ {Here}]

PriorPending(m, to) ==                                        \* seeded fault
  CountIf(m.replans, LAMBDA r : Related(r) /\ r.status = "scheduled"
                                  /\ r.base = (IF to = 0 THEN 0 ELSE m.arts[to]))
Prior(m, to) ==
  CountIf(m.replans,
          LAMBDA r : Related(r) /\ r.base = (IF to = 0 THEN 0 ELSE m.arts[to]))

\* replan_limit, as the learned score moves it.
Limits == IF Learned THEN {MaxReplan, Least(5, MaxReplan + 1), Least(MaxReplan, 1)}
          ELSE {MaxReplan}

CutLeavingArtifacts(m, to) ==                                 \* seeded fault
  [m EXCEPT !.res = SubSeq(@, 1, to - 1), !.cands[to] = m.arts[to]]
Cut(m, to) ==
  [m EXCEPT !.res = SubSeq(@, 1, to - 1),
            !.arts = UpTo(@, to - 1),
            !.loose = @ \intersect 1..(to - 1),
            !.cands = [i \in Steps |-> IF i = to /\ m.arts[to] # 0 THEN m.arts[to]
                                       ELSE IF i <= to THEN @[i] ELSE 0]]

\* The turn planned by this very step, if one was, is acted upon, even when it
\* was refused as a repetition.
Replanned(m, to) ==
  LET n == Len(m.turns)
      planning == n > Len(mem.turns) IN
  [Cut(m, to) EXCEPT
     !.replans = Append(@, [trig |-> Here, to |-> to, ids |-> ev.fails,
                            status |-> "scheduled", base |-> m.arts[to]]),
     !.rev = @ + 1,
     !.turns = IF planning THEN [m.turns EXCEPT ![n].status = "acted"] ELSE m.turns]

\* Fail closed: what is pending is closed and the result stands.
Stopped(m, to, limit) ==
  LET k == Scheduled(m, Here)  n == Len(m.turns) IN
  [m EXCEPT
     !.replans = IF k = 0 THEN m.replans
       ELSE [m.replans EXCEPT ![k].status =
               IF Prior(m, to) >= limit THEN "exhausted" ELSE "stagnated"],
     !.turns = IF n > 0 /\ m.turns[n].status = "planned"
                 THEN [m.turns EXCEPT ![n].status = "exhausted"] ELSE m.turns]

Fall(m, to) ==
  \E limit \in Limits :
    IF to # 0 /\ Prior(m, to) < limit
      THEN Save(Replanned(m, to), "loop")
      ELSE Save(Stopped(m, to, limit), "end")

\* rollback_target of the failed step, with what asking it may rewrite.
Suggestions(m) ==
  IF RepairRelease /\ m.arts[Here] # 0 /\ Owner[Here] # 0
    THEN {<<0, m.arts>>} \union
         {<<Owner[Here], a>> : a \in Rewrites(m.arts, Substitutes[Here])}
    ELSE {<<0, m.arts>>}

Recover ==
  /\ pc = "judge" /\ ~CanContinue
  /\ \E s \in Suggestions(mem) :
       LET m == [Observed(mem) EXCEPT !.arts = s[2]] IN
       IF TurnAvailable(m)
         THEN \E d \in Decisions(m, s[1]) :
                LET p == Planned(m, d)
                    fresh == ~Stagnated(m, d) IN
                IF fresh /\ d.act \in {"local", "retry", "investigate"}
                  THEN Save(ActedLocally(p, d), "loop")
                  ELSE Fall(p, IF fresh /\ d.act = "replan" THEN d.to
                               ELSE IF fresh /\ d.act \in {"ask", "stop"} THEN 0
                               ELSE s[1])
         ELSE Fall(m, s[1])
  /\ Settled
  /\ UNCHANGED <<mode, until, late, ledger>>

\* The last write of _run_pcb_pipeline_unlocked; the result is returned.
Finish ==
  /\ pc = "end" \/ (pc = "loop" /\ At(mem) > until)
  /\ IF Regresses(mem) THEN refused' = TRUE /\ UNCHANGED disk
                       ELSE disk' = mem /\ UNCHANGED refused
  /\ pc' = "idle" /\ mem' = Blank /\ Leave
  /\ UNCHANGED ledger

\* The process dies.
Crash ==
  /\ pc # "idle"
  /\ pc' = "idle" /\ mem' = Blank /\ Leave
  /\ UNCHANGED <<disk, refused, ledger>>

\* The deadline is looked at only where the loop and the recovery are entered.
DeadlinePasses ==
  /\ pc \in {"repair", "judge"} /\ ~late /\ late' = TRUE
  /\ UNCHANGED <<disk, mem, pc, mode, until, ev, rp, tries, refused, ledger>>

-----------------------------------------------------------------------------
(* _load_pipeline_state and restore_pipeline_state *)

\* A saved result restore can not accept: it blocks execution, or its artifact
\* is normalised to another one.
UnacceptableIfLoose(d, i) == i \in d.loose                    \* seeded fault
Unacceptable(d, i) == d.res[i].exec \/ i \in d.loose
StaleBasis(d, i) == d.basis[i] # UpTo(d.arts, i - 1)

\* The result of the connection step may be the draft of a synthesis in flight:
\* the restore stops before it, and the step goes on from its own checkpoint.
Draft(k) == k + 1 \in Steps /\ Merges[k + 1] # {}

\* How many results may come back, drift saying that any check may now fail.
Prefixes(d, drift) ==
  {k \in 0..Len(d.res) :
     /\ \A i \in 1..k : ~Unacceptable(d, i)
     /\ \/ k = Len(d.res) \/ Draft(k)
        \/ Unacceptable(d, k + 1) \/ drift \/ StaleBasis(d, k + 1)}

NextCandidate(d, k, kept, from) ==
  IF k = N \/ (from # 0 /\ k >= from - 1) THEN NoArtifacts
  ELSE IF k < Len(d.res) /\ d.arts[k + 1] # 0
    THEN [NoArtifacts EXCEPT ![k + 1] = IF kept THEN d.arts[k + 1] ELSE 0]
  ELSE [NoArtifacts EXCEPT ![k + 1] = d.cands[k + 1]]

Retired(replans) ==                      \* a run that does not repair defers
  IF RepairRelease THEN replans
  ELSE [k \in DOMAIN replans |->
          IF replans[k].status = "scheduled"
            THEN [replans[k] EXCEPT !.status = "deferred"] ELSE replans[k]]

\* The ledgers forget what concerned the invalidated steps.
Nth(K, n) == CHOOSE k \in K : Cardinality({j \in K : j <= k}) = n
Keep(s, K) == [n \in 1..Cardinality(K) |-> s[Nth(K, n)]]  \* its entries at K, in order
Before(s, from) == from = 0 \/ s < from
RepairsBefore(d, from) ==
  Keep(d.repairs, {k \in DOMAIN d.repairs : Before(d.repairs[k].step, from)})
ReplansBefore(d, from) ==
  Keep(d.replans, {k \in DOMAIN d.replans : /\ Before(d.replans[k].trig, from)
                                            /\ Before(d.replans[k].to, from)})
TurnsBefore(d, from) ==
  Keep(d.turns, {k \in DOMAIN d.turns : /\ Before(d.turns[k].step, from)
                                        /\ Before(d.turns[k].to, from)})

RestoredSameRevision(d, k, kept, from, forced) ==             \* seeded fault
  [d EXCEPT !.res = SubSeq(@, 1, k),
            !.arts = UpTo(@, k),
            !.cands = NextCandidate(d, k, kept, from)]

\* k results are kept, everything from step `from` on is invalidated.
Restored(d, k, kept, from, forced) ==
  [d EXCEPT !.res = SubSeq(@, 1, k),
            !.arts = UpTo(@, k),
            !.cands = NextCandidate(d, k, kept, from),
            !.loose = @ \intersect 1..k,
            !.repairs = RepairsBefore(d, from),
            !.replans = Retired(ReplansBefore(d, from)),
            !.turns = TurnsBefore(d, from),
            !.basis = [i \in Steps |-> IF i <= k THEN UpTo(d.arts, i - 1) ELSE NoArtifacts],
            !.rev = IF forced \/ k < Len(d.res) THEN @ + 1 ELSE @]

Begin(u, drift, amend) ==
  /\ pc = "idle" /\ starts < MaxStarts
  /\ starts' = starts + 1
  /\ faults' = IF drift \/ amend THEN faults + 1 ELSE faults
  /\ drift \/ amend => faults < MaxFaults
  /\ until' = u /\ UNCHANGED mode
  /\ Settled /\ late' = FALSE
  /\ UNCHANGED <<disk, refused, trouble>>

Ends == IF mode = "legacy" THEN {N} ELSE Untils

\* A run with no resume token; from # 0 when the requirement was amended.
Start ==
  \E drift \in BOOLEAN, from \in {0} \union 2..N, u \in Ends :
    /\ Begin(u, drift, from # 0)
    /\ from # 0 => disk # NoFile
    /\ pc' = "loop"
    /\ IF disk = NoFile THEN mem' = Blank
       ELSE \E k \in Prefixes(disk, drift), kept \in BOOLEAN :
              /\ kept \/ drift \/ Draft(k)
              /\ LET j == IF from # 0 THEN Least(k, from - 1) ELSE k IN
                 mem' = [Restored(disk, j, kept, from, FALSE)
                           EXCEPT !.contract = IF from # 0 THEN @ + 1 ELSE @]

\* checkpoint_resume_step.
ResumeSteps(d) ==
  LET bad == {i \in DOMAIN d.res : d.res[i].blocked} IN
  IF bad # {} THEN {CHOOSE i \in bad : \A j \in bad : i <= j}
  ELSE IF Len(d.res) < N THEN {Len(d.res) + 1}
  ELSE Reopened

Consumed(d, r, t) == d.token = <<r, t>>
Preinvalidated(d, r) == d.token[1] = r /\ Len(d.res) < r

\* A run with a resume token.  A token already applied goes on from what is
\* there; a new one discards the step it names and everything after it.
StartResume(r, t) ==
  /\ disk # NoFile
  /\ \E drift \in BOOLEAN, u \in Ends :
       /\ mode = "stepwise" => u = r
       /\ Begin(u, drift, FALSE)
       /\ \E k \in Prefixes(disk, drift), kept \in BOOLEAN :
            /\ kept \/ drift \/ Draft(k)
            /\ IF Consumed(disk, r, t) \/ Preinvalidated(disk, r)
                 THEN IF Preinvalidated(disk, r) \/ k >= r - 1
                        THEN /\ mem' = [Restored(disk, k, kept, 0, FALSE)
                                          EXCEPT !.token = <<r, t>>]
                             /\ pc' = "loop"
                        ELSE UNCHANGED <<pc, mem>>
                 ELSE /\ r \in ResumeSteps(disk) /\ k >= r - 1
                      /\ mem' = [Restored(disk, r - 1, kept, r, TRUE)
                                   EXCEPT !.token = <<r, t>>]
                      /\ pc' = "loop"

Init ==
  /\ disk = NoFile /\ mem = Blank /\ pc = "idle" /\ mode \in Modes /\ until = 0
  /\ ev = NoEval /\ rp = NoRepair /\ tries = 0 /\ late = FALSE
  /\ refused = FALSE 
  /\ starts = 0 /\ faults = 0
  /\ trouble \in Troubles

Work == \/ RunStep \/ RepairAttempt \/ RepairError \/ RepairOutOfTime \/ StepRaises
        \/ SaveProgress \/ Continue \/ Recover \/ Finish

Next == \/ Work \/ Start \/ Crash \/ DeadlinePasses
        \/ \E r \in Steps, t \in Tokens : StartResume(r, t)

Spec == Init /\ [][Next]_vars

FairSpec == Spec /\ WF_vars(Work)

-----------------------------------------------------------------------------
(* Properties *)

TypeOK ==
  /\ pc \in {"idle", "loop", "repair", "judge", "end"}
  /\ \A m \in {disk, mem} :
       /\ m.rev \in Int /\ m.rev >= -1
       /\ Len(m.res) <= N
       /\ m.arts \in [Steps -> AnyPrint]
       /\ m.cands \in [Steps -> AnyPrint]

\* What is saved is a prefix: an artifact for each result, except one that
\* raised, no artifact left over from before a rollback, and a candidate at most
\* for the step that comes next.
SavedPrefix ==
  \A i \in Steps :
    /\ disk.arts[i] # 0 => i <= Len(disk.res)
    /\ disk.arts[i] = 0 /\ i <= Len(disk.res) => disk.res[i].exec
    /\ disk.cands[i] # 0 => i = At(disk)

Rewritable == UNION {Merges[i] \union Swaps[i] \union Substitutes[i] : i \in Steps}

\* Every saved artifact was checked against the upstream artifacts it is saved
\* with, whatever was rolled back, repaired, restored or resumed in between;
\* only artifacts a downstream step rewrites on purpose may differ.
CheckedOnWhatIsSaved ==
  \A j \in 1..Len(disk.res) : \A i \in 1..(j - 1) :
    disk.arts[j] # 0 /\ disk.basis[j][i] # disk.arts[i] => i \in Rewritable

\* Nothing stands on a result that blocked execution.
ExecutionFailureIsLast ==
  \A i \in 1..(Len(disk.res) - 1) : ~disk.res[i].exec

\* What is saved, and what a process works on, is a well formed state of the
\* pipeline: a checked prefix of its steps with an artifact for each.
SavedState == TypeOK /\ SavedPrefix /\ ExecutionFailureIsLast

\* Under the directory's lock the regression guard never refuses a write: every
\* path that shortens the results takes a new revision first.
NeverRefused == ~refused

ReplanRecords ==
  [trig : Steps, to : Steps, ids : SUBSET Kinds, base : AnyPrint,
   status : {"scheduled", "recovered", "exhausted", "stagnated", "deferred"}]
TurnRecords ==
  [step : Steps, ids : SUBSET Kinds, act : Acts, to : Steps,
   status : {"planned", "acted", "verified", "improved", "rejected", "exhausted"},
   before : Nat \X Nat, after : Nat \X Nat, base : AnyPrint]
LedgersOf(m) ==
  /\ \A k \in DOMAIN m.replans : m.replans[k] \in ReplanRecords
  /\ \A k \in DOMAIN m.turns : m.turns[k] \in TurnRecords
  /\ \A k \in DOMAIN m.repairs :
       m.repairs[k] \in [kind : {"design", "harness"}, step : Steps, ids : SUBSET Kinds]
Ledgers == LedgersOf(disk) /\ LedgersOf(mem)

\* The persisted ledgers stay within their budgets over any number of restarts.
BudgetsHold ==
  /\ CountIf(disk.repairs, Harness) <= MaxRepairs
  /\ CountIf(disk.repairs, LAMBDA r : ~Harness(r)) <= MaxDesignTotal
  /\ \A i \in Steps :
       CountIf(disk.repairs, LAMBDA r : ~Harness(r) /\ r.step = i) <= MaxDesignStep
  /\ Len(disk.turns) <= MaxTurnsTotal

\* One baseline is replanned for one failure of one step no more often than a
\* limit the learned score allows.
ReplansPerBaseline ==
  \A k \in DOMAIN disk.replans : LET r == disk.replans[k] IN \A f \in r.ids :
    \E limit \in Limits :
      CountIf(disk.replans, LAMBDA q : q.trig = r.trig /\ q.base = r.base /\ f \in q.ids) <= limit

\* Repairs, recovery turns and replans are bounded by what is saved, and the
\* ledgers that say so are well formed.
BudgetsKept == Ledgers /\ BudgetsHold /\ ReplansPerBaseline

\* Every process that takes the directory ends: repair, recovery and replanning
\* run out of budget.
RunEnds == pc # "idle" ~> pc = "idle"

CleanPrefix(d) == CHOOSE k \in 0..Len(d.res) :
  /\ \A i \in 1..k : ~d.res[i].exec
  /\ k < Len(d.res) => d.res[k + 1].exec

\* "a worker retry never ... repeats already committed steps": a start with the
\* same requirement, no new token and nothing drifted restores every committed
\* result that does not block execution.
CommittedStepsKept ==
  [][ /\ pc = "idle" /\ pc' = "loop" /\ disk # NoFile
      /\ faults' = faults /\ mem'.token = disk.token
      => Len(mem'.res) = CleanPrefix(disk)]_vars

=============================================================================
