---------------------------- MODULE BoardRouting ----------------------------
(***************************************************************************)
(* The physical end of the PCB pipeline on one project directory:          *)
(* LayoutWriteStep, RouteSignalsStep and ManufactureStep of                *)
(* ratsnestpro/orchestration/pipeline.py with their repairs, over the      *)
(* files they share: the .kicad_pcb, its .unrouted baseline, the .ses, the *)
(* .drc.json report and the release receipt.  The steps edit one file in   *)
(* place, through workers that may fail or be killed at any point, and     *)
(* keep a result in memory that is to describe it.                         *)
(*                                                                         *)
(* A board is what the checks can tell of it: which placement it carries,  *)
(* its copper layers, whether its pads have nets, its open connections,    *)
(* how many other DRC errors of each kind it has, whether the planes are   *)
(* poured, whether it has tracks below the requested width, and its        *)
(* silkscreen warnings.  What routers and repairs do to it, what a router  *)
(* counts, and whether DRC answers, are inputs.                            *)
(* KiCad and Freerouting are installed and routing is required.            *)
(***************************************************************************)
EXTENDS Integers, FiniteSetsExt

CONSTANTS
  Open,           \* connections of an unrouted board
  Errs,           \* kinds (type and description) of DRC error besides open
                  \* connections; "drill" is one
  Leaves,         \* the errors of each kind a router or a local edit may leave
  Requirements,   \* what may be required, see RequirementType
  Planned,        \* layer counts the model may propose for the route plan
  Silks,          \* whether a written board may carry silkscreen warnings
  RouteBudget,    \* max_route_invocations
  Seeds,          \* length of the seed portfolio, 3 in the code
  MaxCandidates,  \* copper candidates of the gap closer, 18 in the code
  MaxRepairs,     \* repair attempts of one step
  MaxLayouts,     \* bound: placements proposed
  MaxFaults       \* bound: crashes of the process, and saves of the board by
                  \* another program

None == [none |-> TRUE]

RequirementType ==
  [explicit : {0, 2, 4, 6},   \* an explicit number of copper layers, 0 if none
   preferred : {0, 2, 4, 6},  \* a preferred one
   width : BOOLEAN,           \* a minimum track width above that of the net classes
   fixed : BOOLEAN,           \* the routing geometry is fixed, or already at fab minimum
   repair : BOOLEAN]          \* the deployment's RATSNESTPRO_REPAIR_RELEASE_ISSUES

ASSUME BoardAssumption ==
  /\ Open \in Nat \ {0} /\ RouteBudget \in Nat \ {0}
  /\ Seeds \in Nat /\ MaxCandidates \in Nat /\ MaxRepairs \in Nat
  /\ MaxLayouts \in Nat /\ MaxFaults \in Nat /\ Silks \subseteq BOOLEAN
  /\ "drill" \in Errs /\ Leaves \subseteq [Errs -> Nat]
  /\ Requirements \subseteq RequirementType
  /\ Planned \subseteq {2, 4, 6} /\ Planned # {}

VARIABLES
  req,      \* what the requirement and the deployment fix
  planned,  \* layers of the ROUTE_PLAN artifact
  pc, why,  \* where the step is, and for whom a proposal is made
  pcb, base, ses, report, receipt,        \* the project's files
  backup,   \* the repair's copy of the board
  layout,   \* placement of the LAYOUT_GENERAL and LAYOUT_WRITE artifacts
  saved,    \* the checkpoint: placement, and the committed ROUTE_SIGNALS
  rt,       \* the routing attempts of one proposal
  cand, art,\* the RouteResult in hand and the best one so far
  held,     \* what a relocation put aside
  att,      \* repair attempts
  tried,    \* copper candidates of the gap closer
  mfg,      \* the ManufactureResult in the making
  made,     \* the best ManufactureResult so far
  layouts, crashes, edits

files == <<pcb, base, ses, report, receipt>>
mfgs  == <<mfg, made>>
route == <<rt, cand, art, held, att, tried>>
vars  == <<req, planned, pc, why, pcb, base, ses, report, receipt, backup,
           layout, saved, rt, cand, art, held, att, tried, mfg, made,
           layouts, crashes, edits>>

Larger(a, b) == IF a > b THEN a ELSE b

-----------------------------------------------------------------------------
(* Boards and DRC *)

Board == [layout : 1..MaxLayouts, layers : {2, 4, 6}, nets : BOOLEAN,
          gaps : 0..Open, errs : [Errs -> Nat], zones : BOOLEAN,
          thin : BOOLEAN, silk : BOOLEAN]

NoErrs == [k \in Errs |-> 0]

\* LayoutWriteStep.propose: footprints without nets on two layers.
Written(l, silk) ==
  [layout |-> l, layers |-> 2, nets |-> FALSE, gaps |-> Open, errs |-> NoErrs,
   zones |-> FALSE, thin |-> FALSE, silk |-> silk]

\* What _DrcSnapshot counts: pads without nets cannot be unconnected.
Gaps(b) == IF b.nets THEN b.gaps ELSE 0
Clean(b) == Gaps(b) = 0 /\ b.errs = NoErrs

\* The workers count the errors of each kind (Counter), the repairs inside the
\* pipeline compare the sets of messages: a second one of a kind is none to them.
Fewer(e, f) == \A k \in Errs : e[k] <= f[k]                  \* _no_new_errors
NoNewKind(e, f) == \A k \in Errs : e[k] > 0 => f[k] > 0

\* routing-owned findings of audit_pcb_invariants on the file.
Invariants(b) ==
  /\ req.explicit # 0 => b.layers = req.explicit
  /\ ~(req.width /\ b.thin)

-----------------------------------------------------------------------------
(* RoutePlanStep and the layer requests *)

\* An explicit count is authoritative, a preferred one a lower bound.
PlanLayers(r, proposed) ==
  IF r.explicit # 0 THEN r.explicit
  ELSE Larger(proposed, r.preferred)

Requested(r) ==
  IF r.explicit # 0 THEN r.explicit
  ELSE IF r.preferred # 0 THEN r.preferred ELSE 2

\* A session file of an earlier attempt is taken as a failed two-layer one.
FirstLayersAnySession ==                                      \* seeded fault
  LET n == Larger(planned, Requested(req)) IN
  IF n < 4 /\ ses THEN 4 ELSE n
FirstLayers ==
  LET n == Larger(planned, Requested(req)) IN
  IF req.explicit = 0 /\ n < 4 /\ ses THEN 4 ELSE n

-----------------------------------------------------------------------------
(* Results *)

\* drc, for metric_basis: the count of open connections is DRC's, not the router's.
Result(ok, layers, gaps, total) ==          \* _route_completion_metrics
  [ok |-> ok, layers |-> layers, gaps |-> gaps, whole |-> ok /\ gaps = 0,
   drc |-> FALSE, total |-> total,
   routed |-> IF ok /\ total >= 0 /\ gaps \in 0..total THEN total - gaps ELSE -1]

\* _connection_metrics_after_copper_repair.
AfterCopper(r, remaining, changed) ==
  LET n == IF ~changed THEN r.routed
           ELSE IF r.total < 0 \/ remaining > r.total THEN -1
           ELSE r.total - remaining IN
  [r EXCEPT !.gaps = remaining, !.drc = TRUE, !.routed = n,
            !.whole = IF remaining = 0 THEN TRUE ELSE @]

\* _synchronize_route_result_with_drc.
Synced(r, b) ==
  [r EXCEPT !.gaps = Gaps(b), !.drc = TRUE, !.whole = Gaps(b) = 0,
            !.routed = IF r.total >= Gaps(b) THEN r.total - Gaps(b) ELSE -1]

\* RouteSignalsStep.check, the failing checks.
Complete(r) == r.ok /\ r.whole /\ r.gaps = 0
Failing(r, b) ==
  {c \in {"signals", "planes", "layers", "invariants"} :
     CASE c = "signals" -> ~Complete(r)
       [] c = "planes" -> ~b.zones
       [] c = "layers" -> req.explicit # 0 /\ r.layers # req.explicit
       [] c = "invariants" -> ~Invariants(b)}

\* convergence_score.
Score(r, fails) == <<Cardinality(fails), Larger(0, r.gaps)>>
Less(a, b) == a[1] < b[1] \/ (a[1] = b[1] /\ a[2] < b[2])

Applicable(r, fails) ==
  r.gaps > 0 \/ fails \intersect {"planes", "layers", "invariants"} # {}

-----------------------------------------------------------------------------
(* LayoutWriteStep *)

Env == <<req, planned>>
Bounds == <<layouts, crashes, edits>>

\* A placement is accepted and written; the deterministic copy is what every
\* routing attempt restarts from.  The session file is left where it is.
LayoutWrite ==
  /\ pc = "layout" /\ layouts < MaxLayouts
  /\ \E silk \in Silks :
       /\ pcb' = Written(layouts + 1, silk)
       /\ base' = pcb'
  /\ layout' = layouts + 1 /\ layouts' = layouts + 1
  /\ saved' = [layout |-> layouts + 1, route |-> None]
  /\ pc' = "begin" /\ why' = "run"
  /\ UNCHANGED <<Env, ses, report, receipt, backup, route, mfgs, crashes, edits>>

-----------------------------------------------------------------------------
(* RouteSignalsStep.propose *)

NoRoute == [prof |-> "none", layers |-> 0, n |-> 0, seed |-> 0,
            best |-> None, bestPcb |-> None]

RouteStart ==
  /\ pc = "begin"
  /\ rt' = [NoRoute EXCEPT !.prof = "requested", !.layers = FirstLayers]
  /\ pc' = "route"
  /\ UNCHANGED <<Env, why, files, backup, layout, saved, cand, art, held, att,
                 tried, mfgs, Bounds>>

Stuck(o) == o.ok /\ o.gaps > 0

\* The profile tried after rt.prof came to o, "done" when there is none.
Second == IF req.fixed THEN "extended" ELSE "fab_min"
Following(o) ==
  CASE rt.prof = "requested" /\ Stuck(o) ->
         IF req.explicit = 0 /\ rt.layers < 4 THEN "escalate" ELSE Second
    [] rt.prof = "escalate" /\ Stuck(o) -> Second
    [] rt.prof \in {"extended", "fab_min"} /\ Stuck(o) -> "seed"
    [] rt.prof = "seed" /\ o.gaps # 0 /\ rt.seed < Seeds -> "seed"
    [] OTHER -> "done"

\* routing.autoroute on the restored baseline: routed, with the worker's own
\* count c of what is open, which need not be DRC's, or without one; or failed,
\* having assigned nets or not.
Laid(b, n, g, e, c) ==
  [pcb |-> [b EXCEPT !.layers = n, !.nets = TRUE, !.gaps = g, !.errs = e],
   ses |-> TRUE, out |-> Result(TRUE, n, c, IF c < 0 THEN -1 ELSE Open)]
Routed(b, n) ==
  {Laid(b, n, g, e, c) : g \in 0..Open, e \in Leaves, c \in -1..Open}
Unrouted(b, n) ==
  {[pcb |-> b, ses |-> ses, out |-> Result(FALSE, n, -1, t)] : t \in {-1, Open}}
  \union
  {[pcb |-> [b EXCEPT !.layers = n, !.nets = TRUE], ses |-> s,
    out |-> Result(FALSE, n, -1, Open)] : s \in {ses, TRUE}}

Rank(o) == <<IF o.ok THEN 0 ELSE 1, IF o.gaps >= 0 THEN o.gaps ELSE Open + 1>>

\* more: the attempt laid more tracks than an otherwise equal best one.
Improves(o, best, more) ==
  \/ best = None
  \/ Less(Rank(o), Rank(best))
  \/ Rank(o) = Rank(best) /\ more

\* Seeded fault: the call past the budget is still made.
MayRouteOneMore == rt.prof # "done" /\ rt.n <= RouteBudget
MayRoute == rt.prof # "done" /\ rt.n < RouteBudget

RouteOnce ==
  /\ pc = "route" /\ MayRoute
  /\ \E a \in Routed(base, rt.layers) \union Unrouted(base, rt.layers), more \in BOOLEAN :
       LET keep == Improves(a.out, rt.best, more)
           next == Following(a.out) IN
       /\ pcb' = a.pcb /\ ses' = a.ses
       /\ rt' = [rt EXCEPT !.n = @ + 1, !.prof = next,
                           !.layers = IF next = "escalate" THEN 4 ELSE @,
                           !.seed = IF next = "seed" THEN @ + 1 ELSE @,
                           !.best = IF keep THEN a.out ELSE @,
                           !.bestPcb = IF keep THEN a.pcb ELSE @]
  /\ UNCHANGED <<Env, pc, why, base, report, receipt, backup, layout, saved,
                 cand, art, held, att, tried, mfgs, Bounds>>

\* The best attempt's files come back, and its outcome is the result.
RouteDone ==
  /\ pc = "route" /\ ~MayRoute
  /\ pcb' = rt.bestPcb /\ cand' = rt.best /\ rt' = NoRoute
  /\ pc' = IF rt.best.gaps < 0 THEN "sync" ELSE "plane"
  /\ UNCHANGED <<Env, why, base, ses, report, receipt, backup, layout, saved,
                 art, held, att, tried, mfgs, Bounds>>

-----------------------------------------------------------------------------
(* _repair_power_plane_gaps: _plane_stitch_worker.py works on copies and     *)
(* writes the board last; the caller keeps it, or puts its backup back.      *)

Poured(b, g, e) == [b EXCEPT !.zones = b.nets, !.gaps = g, !.errs = e]
PlaneGains(b) == {Poured(b, g, e) : g \in 0..b.gaps, e \in Leaves \union {b.errs}}
\* _candidate_is_monotonic_gain.
PlaneGain(b, a) ==
  /\ a.nets /\ Gaps(b) <= Gaps(a) /\ Fewer(b.errs, a.errs)
  /\ ~a.zones \/ Gaps(b) < Gaps(a)

\* The worker gains and reports, gains and fails to report, or fails.
PlaneWorker ==
  /\ pc = "plane"
  /\ backup' = pcb
  /\ \/ \E b \in PlaneGains(pcb) : PlaneGain(b, pcb) /\ pcb' = b /\ pc' \in {"planed", "lost"}
     \/ pcb' = pcb /\ pc' = "lost"
  /\ UNCHANGED <<Env, why, base, ses, report, receipt, layout, saved, route, mfgs, Bounds>>

PlaneKept ==
  /\ pc = "planed"
  /\ cand' = AfterCopper(cand, Gaps(pcb), Gaps(pcb) # cand.gaps)
  /\ backup' = None
  /\ pc' = IF why = "patch" THEN "check" ELSE "sync"
  /\ UNCHANGED <<Env, why, files, layout, saved, rt, art, held, att, tried, mfgs, Bounds>>

\* Seeded fault: the backup is dropped, not put back.
PlaneLeft ==
  /\ pc = "lost"
  /\ pcb' = pcb /\ backup' = None
  /\ pc' = IF why = "patch" THEN "move" ELSE "sync"
  /\ UNCHANGED <<Env, why, base, ses, report, receipt, layout, saved, route, mfgs, Bounds>>
PlaneRestored ==
  /\ pc = "lost"
  /\ pcb' = backup /\ backup' = None
  /\ pc' = IF why = "patch" THEN "move" ELSE "sync"
  /\ UNCHANGED <<Env, why, base, ses, report, receipt, layout, saved, route, mfgs, Bounds>>

\* The proposal ends with DRC's own count, when DRC answers.
Sync ==
  /\ pc = "sync"
  /\ \E answers \in BOOLEAN : cand' = IF answers THEN Synced(cand, pcb) ELSE cand
  /\ pc' = IF why = "move" THEN "moved" ELSE "check"
  /\ UNCHANGED <<Env, why, files, backup, layout, saved, rt, art, held, att, tried, mfgs, Bounds>>

-----------------------------------------------------------------------------
(* PipelineStepBase.run around RouteSignalsStep.check and repair *)

\* detail: equal scores whose diagnostics shrank enough to count as progress.
Progress(after, before, detail) == Less(after, before) \/ (after = before /\ detail)

Retained(best, fails) == [r |-> best, fails |-> fails]

\* The first proposal is retained; a repaired one only if it is better.  A
\* deterministic repair that did not help is not tried again.
RouteCheck ==
  LET fails == Failing(cand, pcb) IN
  /\ pc = "check"
  /\ \E detail \in BOOLEAN :
       LET better == \/ art = None
                     \/ Progress(Score(cand, fails), Score(art.r, art.fails), detail)
           kept == IF better THEN Retained(cand, fails) ELSE art
           more == better /\ kept.fails # {} /\ att < MaxRepairs
                     /\ (art = None => Applicable(cand, fails)) IN
       /\ art' = kept
       /\ pc' = IF more THEN "repair" ELSE "commit"
       /\ att' = IF more THEN att + 1 ELSE att
  /\ cand' = None
  /\ UNCHANGED <<Env, why, files, backup, layout, saved, rt, held, tried, mfgs, Bounds>>

\* RouteSignalsStep.repair: a new proposal, or the gap closer first.
Repair ==
  /\ pc = "repair"
  /\ IF art.fails \intersect {"layers", "invariants"} # {}
       THEN pc' = "begin" /\ why' = "repair" /\ UNCHANGED <<cand, backup, tried>>
       ELSE /\ pc' = "closer" /\ why' = "patch"
            /\ cand' = art.r /\ backup' = pcb /\ tried' = 0
  /\ UNCHANGED <<Env, files, layout, saved, rt, art, held, att, mfgs, Bounds>>

-----------------------------------------------------------------------------
(* _repair_drc_connectivity_gaps *)

\* One candidate track, narrower than a requested minimum if there is one.
CloserTry ==
  /\ pc = "closer" /\ Gaps(pcb) > 0 /\ tried < MaxCandidates
  /\ held' = pcb
  /\ \E g \in 0..pcb.gaps, e \in Leaves \union {pcb.errs} :
       pcb' = [pcb EXCEPT !.gaps = g, !.errs = e, !.thin = @ \/ req.width]
  /\ tried' = tried + 1 /\ pc' = "candidate"
  /\ UNCHANGED <<Env, why, base, ses, report, receipt, backup, layout, saved,
                 rt, cand, art, att, mfgs, Bounds>>

SafeByGaps(b, a) == Gaps(b) < Gaps(a)                         \* seeded fault
Safe(b, a) == Gaps(b) < Gaps(a) /\ NoNewKind(b.errs, a.errs)

CloserJudge ==
  /\ pc = "candidate"
  /\ \E answers \in BOOLEAN :
       pcb' = IF answers /\ Safe(pcb, held) THEN pcb ELSE held
  /\ held' = None /\ pc' = "closer"
  /\ UNCHANGED <<Env, why, base, ses, report, receipt, backup, layout, saved,
                 rt, cand, art, att, tried, mfgs, Bounds>>

AfterCloser(r) ==
  IF r.gaps < art.r.gaps THEN "check" ELSE IF art.r.gaps < 0 THEN "move" ELSE "plane"

\* No more candidates: what closed gaps stays, with its count.
CloserEnds ==
  LET closed == Gaps(pcb) < Gaps(backup)
      r == IF closed THEN AfterCopper(art.r, Gaps(pcb), TRUE) ELSE art.r IN
  /\ pc = "closer"
  /\ pc' = AfterCloser(r)
  /\ cand' = IF AfterCloser(r) = "check" THEN r ELSE art.r
  /\ pcb' = IF closed THEN pcb ELSE backup
  /\ backup' = None /\ tried' = 0
  /\ UNCHANGED <<Env, why, base, ses, report, receipt, layout, saved, rt, art,
                 held, att, mfgs, Bounds>>

\* An exception: everything accepted so far is undone with the rest.
CloserRaises ==
  /\ pc = "candidate"
  /\ pcb' = backup /\ backup' = None /\ held' = None /\ tried' = 0
  /\ pc' = AfterCloser(art.r) /\ cand' = art.r
  /\ UNCHANGED <<Env, why, base, ses, report, receipt, layout, saved, rt, art,
                 att, mfgs, Bounds>>

-----------------------------------------------------------------------------
(* _repair_route_endpoint_placement *)

\* The report of the last manufacture names no gap, or its endpoint has no
\* other legal place.
MoveNothing ==
  /\ pc = "move"
  /\ pc' = "check" /\ cand' = art.r
  /\ UNCHANGED <<Env, why, files, backup, layout, saved, rt, art, held, att, tried, mfgs, Bounds>>

Move ==
  /\ pc = "move" /\ layouts < MaxLayouts
  /\ report # None /\ Gaps(report) > 0
  /\ held' = [pcb |-> pcb, base |-> base, ses |-> ses, report |-> report, layout |-> layout]
  /\ pcb' = Written(layouts + 1, pcb.silk) /\ base' = pcb'
  /\ layout' = layouts + 1 /\ layouts' = layouts + 1
  /\ pc' = "begin" /\ why' = "move" /\ cand' = None
  /\ UNCHANGED <<Env, ses, report, receipt, backup, saved, rt, art, att, tried,
                 mfgs, crashes, edits>>

MoveKept ==
  /\ pc = "moved" /\ cand.gaps < art.r.gaps
  /\ held' = None /\ pc' = "check"
  /\ UNCHANGED <<Env, why, files, backup, layout, saved, rt, cand, art, att, tried, mfgs, Bounds>>

\* No better, or an exception out of the rerouting: all of it comes back.
\* Seeded fault: the baseline is not among the managed files.
MoveUndoneButBaseline ==
  /\ pc = "moved"
  /\ pcb' = held.pcb /\ ses' = held.ses /\ report' = held.report
  /\ layout' = held.layout
  /\ held' = None /\ cand' = art.r /\ pc' = "check"
  /\ UNCHANGED <<Env, why, base, receipt, backup, saved, rt, art, att, tried, mfgs, Bounds>>
MoveUndone ==
  /\ pc = "moved"
  /\ pcb' = held.pcb /\ base' = held.base /\ ses' = held.ses
  /\ report' = held.report /\ layout' = held.layout
  /\ held' = None /\ cand' = art.r /\ pc' = "check"
  /\ UNCHANGED <<Env, why, receipt, backup, saved, rt, art, att, tried, mfgs, Bounds>>

-----------------------------------------------------------------------------
(* Pipeline.run after RouteSignalsStep *)

Fresh == /\ rt' = NoRoute /\ cand' = None /\ art' = None /\ held' = None
         /\ att' = 0 /\ tried' = 0

RouteCommit ==
  /\ pc = "commit" /\ (art.fails = {} \/ ~req.repair)
  /\ saved' = [layout |-> layout, route |-> art]
  /\ pc' = "mfg" /\ why' = "run" /\ Fresh
  /\ UNCHANGED <<Env, files, backup, layout, mfgs, Bounds>>

\* rollback_target: open connections are given back to the layout.
RouteBlocked ==
  /\ pc = "commit" /\ art.fails # {} /\ req.repair
  /\ pc' = IF art.r.gaps > 0 THEN "layout" ELSE "end"
  /\ why' = "run" /\ Fresh
  /\ UNCHANGED <<Env, files, backup, layout, saved, mfgs, Bounds>>

-----------------------------------------------------------------------------
(* ManufactureStep.propose *)

NoMfg == [errs |-> NoErrs, rest |-> 0, clean |-> FALSE, gerber |-> None, audited |-> None,
          ready |-> FALSE, id |-> None]
Routing == <<layout, saved, route>>

\* The final DRC writes the report every later repair reads; a report that is
\* missing counts as one finding, like an open connection.
MfgDrc ==
  /\ pc = "mfg"
  /\ \E answers \in BOOLEAN :
       /\ report' = IF answers THEN pcb ELSE None
       /\ mfg' = [NoMfg EXCEPT !.errs = IF answers THEN pcb.errs ELSE NoErrs,
                               !.rest = IF answers THEN Gaps(pcb) ELSE 1,
                               !.clean = answers /\ Clean(pcb)]
       /\ pc' = IF answers /\ Clean(pcb) /\ pcb.silk THEN "silk" ELSE "export"
  /\ UNCHANGED <<Env, why, pcb, base, ses, receipt, backup, Routing, made, Bounds>>

\* _repair_silkscreen_entities: offending texts become fabrication marks.  What
\* it compares with is the report of the DRC before, not the board it copied.
SilkTry ==
  /\ pc = "silk"
  /\ backup' = pcb
  /\ \E silk \in BOOLEAN, e \in Leaves \union {pcb.errs} :
       pcb' = [pcb EXCEPT !.silk = silk, !.errs = e]
  /\ pc' = "silked"
  /\ UNCHANGED <<Env, why, base, ses, report, receipt, Routing, mfgs, Bounds>>

SilkAcceptsAny(b, a) == ~b.silk                               \* seeded fault
SilkAccepts(b, a) ==
  ~b.silk /\ Gaps(b) <= Gaps(a) /\ NoNewKind(b.errs, a.errs)

SilkJudge ==
  /\ pc = "silked"
  /\ \E answers \in BOOLEAN :
       IF answers /\ SilkAccepts(pcb, report)
         THEN /\ report' = pcb /\ UNCHANGED pcb
              /\ mfg' = [mfg EXCEPT !.errs = pcb.errs, !.rest = Gaps(pcb), !.clean = Clean(pcb)]
         ELSE pcb' = backup /\ UNCHANGED <<report, mfg>>
  /\ backup' = None /\ pc' = "export"
  /\ UNCHANGED <<Env, why, base, ses, receipt, Routing, made, Bounds>>

Export ==
  /\ pc = "export"
  /\ \E done \in BOOLEAN : mfg' = [mfg EXCEPT !.gerber = IF done THEN pcb ELSE None]
  /\ pc' = "audit"
  /\ UNCHANGED <<Env, why, files, backup, Routing, made, Bounds>>

\* The audit hashes the board, reads it, and hashes it again.
AuditBegin ==
  /\ pc = "audit"
  /\ mfg' = [mfg EXCEPT !.audited = pcb]
  /\ pc' = "hash"
  /\ UNCHANGED <<Env, why, files, backup, Routing, made, Bounds>>

AuditEnd ==
  /\ pc = "hash"
  /\ IF pcb = mfg.audited
       THEN mfg' = [mfg EXCEPT !.ready = Invariants(pcb)] /\ pc' = "receipt"
       ELSE mfg' = [mfg EXCEPT !.ready = FALSE] /\ pc' = "mcheck"
  /\ UNCHANGED <<Env, why, files, backup, Routing, made, Bounds>>

\* The hash once more before the receipt replaces the old one.
ReceiptHash ==
  /\ pc = "receipt"
  /\ IF pcb = mfg.audited THEN pc' = "replace" /\ UNCHANGED mfg
     ELSE pc' = "mcheck" /\ mfg' = [mfg EXCEPT !.ready = FALSE]
  /\ UNCHANGED <<Env, why, files, backup, Routing, made, Bounds>>

ReceiptCommit ==
  /\ pc = "replace"
  /\ receipt' = mfg.audited
  /\ mfg' = [mfg EXCEPT !.id = mfg.audited]
  /\ pc' = "mcheck"
  /\ UNCHANGED <<Env, why, pcb, base, ses, report, backup, Routing, made, Bounds>>

\* ManufactureStep.check over _manufacture_receipt_errors.
BoundToItself(m) == m.id # None /\ receipt = m.id             \* seeded fault
Bound(m) == m.id # None /\ receipt = m.id /\ receipt = pcb
MfgFailing(m) ==
  {c \in {"drc", "written", "identity", "ready", "gerber"} :
     CASE c = "drc" -> ~m.clean
       [] c = "written" -> m.id = None
       [] c = "identity" -> ~Bound(m)
       [] c = "ready" -> ~m.ready
       [] c = "gerber" -> m.gerber = None}

MfgScore(m, fails) ==
  <<Cardinality(fails), m.rest + MapThenSumSet(LAMBDA k : m.errs[k], Errs)>>
MfgApplicable(m, fails) == m.errs["drill"] > 0 \/ fails \intersect {"gerber", "written"} # {}

MfgCheck ==
  LET fails == MfgFailing(mfg) IN
  /\ pc = "mcheck"
  /\ \E detail \in BOOLEAN :
       LET better == \/ made = None
                     \/ Progress(MfgScore(mfg, fails), MfgScore(made.r, made.fails), detail)
           kept == IF better THEN Retained(mfg, fails) ELSE made
           more == better /\ kept.fails # {} /\ att < MaxRepairs
                     /\ (made = None => MfgApplicable(mfg, fails)) IN
       /\ made' = kept
       /\ pc' = IF more THEN "mrepair" ELSE "done"
       /\ att' = IF more THEN att + 1 ELSE 0
  /\ mfg' = NoMfg
  /\ UNCHANGED <<Env, why, files, backup, layout, saved, rt, cand, art, held, tried, Bounds>>

\* ManufactureStep.repair: propose again, or let the drill worker try.
MfgAgain ==
  /\ pc = "mrepair" /\ made.fails \intersect {"written", "gerber"} # {}
  /\ pc' = "mfg"
  /\ UNCHANGED <<Env, why, files, backup, Routing, mfgs, Bounds>>

Drilled(b) ==
  {[b EXCEPT !.errs = e] : e \in {x \in Leaves : Fewer(x, b.errs) /\ x # b.errs}}

\* The worker copies its candidate over the board before the caller, who
\* also wants no connection open, has seen its report.
MfgDrills ==
  /\ pc = "mrepair" /\ made.fails \intersect {"written", "gerber"} = {}
  /\ \/ /\ made.r.errs["drill"] > 0
        /\ \E b \in Drilled(pcb), heard \in BOOLEAN :
             /\ pcb' = b
             /\ IF heard /\ Gaps(b) = 0 THEN pc' = "mfg" /\ UNCHANGED mfg
                ELSE pc' = "mcheck" /\ mfg' = made.r
     \/ UNCHANGED pcb /\ pc' = "mcheck" /\ mfg' = made.r
  /\ UNCHANGED <<Env, why, base, ses, report, receipt, backup, Routing, made, Bounds>>

Releasable ==
  /\ pc = "done" /\ made # None /\ made.fails = {}
  /\ saved.route # None /\ saved.route.fails = {}

\* A replan, or a later request, takes up routing or the layout again.
Reopen ==
  /\ pc = "done" /\ ~Releasable
  /\ \/ pc' = "layout" /\ UNCHANGED saved
     \/ pc' = "begin" /\ saved' = [saved EXCEPT !.route = None]
  /\ why' = "run" /\ made' = None /\ mfg' = NoMfg /\ Fresh
  /\ UNCHANGED <<Env, files, backup, layout, Bounds>>

-----------------------------------------------------------------------------
(* The process dies and the directory is resumed from its checkpoint; files  *)
(* stay as they are.  Another program saves the board.                       *)

Crash ==
  LET again == Failing(saved.route.r, pcb) IN
  /\ pc \notin {"layout", "done", "end"} /\ crashes + edits < MaxFaults
  /\ crashes' = crashes + 1
  /\ layout' = saved.layout
  /\ backup' = None /\ why' = "run" /\ mfg' = NoMfg /\ made' = None
  /\ rt' = NoRoute /\ art' = None /\ held' = None /\ att' = 0 /\ tried' = 0
  /\ IF saved.route = None
       THEN pc' = "begin" /\ cand' = None /\ UNCHANGED saved
       ELSE IF again = {} \/ ~req.repair
       THEN pc' = "mfg" /\ cand' = None /\ saved' = [saved EXCEPT !.route.fails = again]
       ELSE pc' = "check" /\ cand' = saved.route.r /\ saved' = [saved EXCEPT !.route = None]
  /\ UNCHANGED <<Env, files, layouts, edits>>

Edit ==
  /\ pc \in {"silk", "export", "audit", "hash", "receipt", "replace", "mcheck"}
  /\ crashes + edits < MaxFaults /\ edits' = edits + 1
  /\ \E e \in Leaves \ {pcb.errs} : pcb' = [pcb EXCEPT !.errs = e]
  /\ UNCHANGED <<Env, pc, why, base, ses, report, receipt, backup, Routing, mfgs,
                 layouts, crashes>>

-----------------------------------------------------------------------------

Init ==
  /\ req \in Requirements
  /\ \E n \in Planned : planned = PlanLayers(req, n)
  /\ pc = "layout" /\ why = "run"
  /\ pcb = None /\ base = None /\ ses = FALSE /\ report = None /\ receipt = None
  /\ backup = None /\ layout = 0 /\ saved = [layout |-> 0, route |-> None]
  /\ rt = NoRoute /\ cand = None /\ art = None /\ held = None /\ att = 0 /\ tried = 0
  /\ mfg = NoMfg /\ made = None
  /\ layouts = 0 /\ crashes = 0 /\ edits = 0

Next ==
  \/ LayoutWrite \/ RouteStart \/ RouteOnce \/ RouteDone
  \/ PlaneWorker \/ PlaneKept \/ PlaneRestored \/ Sync
  \/ RouteCheck \/ Repair
  \/ CloserTry \/ CloserJudge \/ CloserEnds \/ CloserRaises
  \/ MoveNothing \/ Move \/ MoveKept \/ MoveUndone
  \/ RouteCommit \/ RouteBlocked
  \/ MfgDrc \/ SilkTry \/ SilkJudge \/ Export
  \/ AuditBegin \/ AuditEnd \/ ReceiptHash \/ ReceiptCommit
  \/ MfgCheck \/ MfgAgain \/ MfgDrills \/ Reopen
  \/ Crash \/ Edit

Spec == Init /\ [][Next]_vars

-----------------------------------------------------------------------------
(* Properties *)

Maybe(S) == S \union {None}
ResultType ==
  [ok : BOOLEAN, layers : {2, 4, 6}, gaps : -1..Open, whole : BOOLEAN, drc : BOOLEAN,
   total : {-1, Open}, routed : -1..Open]

\* Every variable has its type; the unions are the optional files and results.
TypeOK ==
  /\ req \in Requirements /\ planned \in {2, 4, 6}
  /\ why \in {"run", "repair", "patch", "move"}
  /\ {pcb, base, report, receipt, backup} \subseteq Maybe(Board)
  /\ ses \in BOOLEAN /\ layout \in 0..MaxLayouts
  /\ cand \in Maybe(ResultType) /\ art # None => art.r \in ResultType
  /\ rt.n \in 0..RouteBudget /\ rt.best \in Maybe(ResultType)
  /\ att \in 0..MaxRepairs /\ tried \in 0..MaxCandidates
  /\ mfg.gerber \in Maybe(Board) /\ mfg.audited \in Maybe(Board)

\* The RouteResult that is checked describes the board file it is checked
\* with, after every repair, rejected repair and exception: a count of open
\* connections that is DRC's is the board's, its metrics add up, and a routed
\* board has the layers it says.
ResultOfBoard ==
  pc = "check" =>
    /\ cand.drc => cand.gaps = Gaps(pcb)
    /\ cand.ok => cand.layers = pcb.layers /\ pcb.nets
    /\ cand.routed >= 0 => cand.routed + cand.gaps = cand.total

\* What leaves the pipeline as releasable is whole: the board on disk has its
\* nets connected, no DRC error, its planes and the requested layers, and the
\* receipt is of its bytes.  Only the last is claimed when another program
\* saves the board meanwhile.
ReleasedBoard ==
  Releasable =>
    /\ receipt = pcb
    /\ Invariants(pcb)
    /\ edits = 0 => pcb.nets /\ pcb.gaps = 0 /\ pcb.errs = NoErrs /\ pcb.zones

\* The placement artifact, from which the pick-and-place file is written, is
\* that of the board and of its baseline, relocations kept or undone.
PlacementOfBoard ==
  crashes = 0 /\ pc \in {"check", "repair", "commit", "mfg", "done"} =>
    pcb.layout = layout /\ base.layout = layout

\* The same of a released board, a restart of the process included.
ReleasedPlacement == Releasable => made.r.gerber.layout = layout

\* No proposal, restart or left-over session file gives a board other layers
\* than an explicit requirement.
ExplicitLayers ==
  /\ req.explicit # 0 /\ rt.prof # "none" => rt.layers = req.explicit
  /\ req.explicit # 0 /\ pc = "check" => cand.layers = req.explicit

\* The result and the placement in memory are those of the files, and the files
\* those that were asked for.
FilesAgree == TypeOK /\ ResultOfBoard /\ PlacementOfBoard /\ ExplicitLayers

\* A repair of the board that ends, kept or not, leaves no more open connections
\* and no kind of DRC error that its backup did not have.  Of the plane worker's,
\* which counts, and of the silkscreen's, which starts from a report without
\* errors, it leaves no more errors of any kind either; only the gap closer may.
RepairsMonotone ==
  [][backup # None /\ backup' = None /\ crashes' = crashes /\ edits' = edits
       => /\ Gaps(pcb') <= Gaps(backup) /\ NoNewKind(pcb'.errs, backup.errs)
          /\ pc \notin {"closer", "candidate"} => Fewer(pcb'.errs, backup.errs)]_vars

\* "accepting only monotonic, DRC-safe patches", the gap closer says of itself
\* (pipeline.py:14790): read as no more errors of any kind.
RepairsAddNoError ==
  [][backup # None /\ backup' = None /\ crashes' = crashes /\ edits' = edits
       => Fewer(pcb'.errs, backup.errs)]_vars

\* "rollback retains the verified board": a relocation replaces a board that
\* was routed only by one that is routed as well.
VerifiedBoardKept ==
  [][pc = "moved" /\ art.r.ok /\ layout' # held.layout => cand.ok]_vars
=============================================================================
