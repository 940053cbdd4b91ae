------------------------- MODULE BoardRoutingProofs -------------------------
(***************************************************************************)
(* Whatever routers, repairs and other programs do to the board, and       *)
(* wherever a process dies: the result and the placement in memory are     *)
(* those of the files, a repair that ends left no more open connections    *)
(* and no other kind of error than its backup had, and what can be         *)
(* released is whole.                                                      *)
(*                                                                         *)
(* The files and the results are related by Fits, which a step keeps by    *)
(* changing both or neither.  Between the steps of a repair the files are  *)
(* ahead of the result, and it is the backup, or what a relocation put     *)
(* aside, that the result fits: BoardInv says which, for each place of the *)
(* program.                                                                *)
(***************************************************************************)
EXTENDS BoardRouting, TLAPS

-----------------------------------------------------------------------------
(* Boards and the results that describe them *)

\* The planes are poured on boards whose pads have nets.
Good(b) == b \in Board /\ (b.zones => b.nets)

\* What is placed and routed, whatever the copper and the errors.
SameNets(b, a) == b.layout = a.layout /\ b.layers = a.layers /\ b.nets = a.nets
SameCopper(b, a) == /\ SameNets(b, a)
                    /\ b.gaps = a.gaps /\ b.zones = a.zones /\ b.thin = a.thin

Counts == [Errs -> Nat]

\* What every repair that is kept keeps to.
NoWorse(b, a) == Gaps(b) <= Gaps(a) /\ NoNewKind(b.errs, a.errs)

Required(q, r) == q.explicit # 0 => r.layers = q.explicit

\* r describes b: its count of open connections, if DRC's, is that of b, its
\* metrics add up, and a routed board has nets and the layers r says.
Fits(q, r, b) ==
  /\ r \in ResultType
  /\ r.drc => r.gaps = Gaps(b)
  /\ r.ok => r.layers = b.layers /\ b.nets
  /\ r.routed >= 0 => r.routed + r.gaps = r.total
  /\ Required(q, r)

\* RouteSignalsStep.check has nothing against r and b.
Passes(q, r, b) ==
  /\ Complete(r) /\ b.zones
  /\ q.explicit # 0 => r.layers = q.explicit /\ b.layers = q.explicit
  /\ ~(q.width /\ b.thin)

Checks == {"signals", "planes", "layers", "invariants"}
MfgChecks == {"drc", "written", "identity", "ready", "gerber"}

RetainedType == [r : ResultType, fails : SUBSET Checks]
AttemptType ==
  [prof : {"none", "requested", "escalate", "extended", "fab_min", "seed", "done"},
   layers : {0, 2, 4, 6}, n : 0..RouteBudget, seed : Nat,
   best : Maybe(ResultType), bestPcb : Maybe(Board)]
AsideType == [pcb : Board, base : Board, ses : BOOLEAN, report : Maybe(Board),
              layout : 0..MaxLayouts]
MfgType == [errs : Counts, rest : 0..Open, clean : BOOLEAN, gerber : Maybe(Board),
            audited : Maybe(Board), ready : BOOLEAN, id : Maybe(Board)]
MadeType == [r : MfgType, fails : SUBSET MfgChecks]

-----------------------------------------------------------------------------
(* The inductive invariant, by what it is about *)

RoutingPlaces == {"begin", "route", "plane", "planed", "lost", "sync", "moved", "check",
                  "repair", "closer", "candidate", "move", "commit"}
MfgPlaces == {"mfg", "silk", "silked", "export", "audit", "hash", "receipt", "replace",
              "mcheck", "mrepair", "done"}

Scalars ==
  /\ req \in Requirements /\ planned \in {2, 4, 6}
  /\ pc \in {"layout", "end"} \union RoutingPlaces \union MfgPlaces
  /\ why \in {"run", "repair", "patch", "move"}
  /\ layout \in 0..MaxLayouts /\ layouts \in 0..MaxLayouts
  /\ att \in 0..MaxRepairs /\ tried \in 0..MaxCandidates
  /\ crashes \in Nat /\ edits \in Nat
OnFile ==
  /\ pcb \in Maybe(Board) /\ base \in Maybe(Board) /\ backup \in Maybe(Board)
  /\ report \in Maybe(Board) /\ receipt \in Maybe(Board) /\ ses \in BOOLEAN
Results ==
  /\ rt \in AttemptType
  /\ cand \in Maybe(ResultType) /\ art \in Maybe(RetainedType)
  /\ saved \in [layout : 0..MaxLayouts, route : Maybe(RetainedType)]
Products == mfg \in MfgType /\ made \in Maybe(MadeType)
TypeInv == Scalars /\ OnFile /\ Results /\ Products

\* The files are boards, and those of the placement in memory.
Disk ==
  /\ pc # "layout" => Good(pcb) /\ Good(base)
  /\ pc # "layout" /\ crashes = 0 => pcb.layout = layout /\ base.layout = layout

\* An explicit number of layers is that of the plan and of every attempt, and
\* the best attempt so far comes with the board it left.
Attempt ==
  /\ req.explicit # 0 => planned = req.explicit
  /\ pc # "route" => rt = NoRoute
  /\ pc \in {"begin", "route"} => why # "patch"
  /\ pc = "route" =>
       /\ rt.layers \in {2, 4, 6} /\ Required(req, rt)
       /\ rt.n = 0 => rt.prof = "requested" /\ rt.best = None
       /\ rt.n > 0 =>
            /\ rt.best # None /\ Fits(req, rt.best, rt.bestPcb) /\ Good(rt.bestPcb)
            /\ crashes = 0 => rt.bestPcb.layout = layout

\* A repair under way has its backup, from which the board differs only in
\* what the repair may touch, and what is kept of it so far is no worse.
Backup ==
  /\ pc \notin {"planed", "lost", "closer", "candidate", "silked"} => backup = None
  /\ pc \in {"planed", "lost", "closer", "candidate", "silked"} =>
       Good(backup) /\ SameNets(pcb, backup)
  /\ pc \in {"planed", "closer"} => NoWorse(pcb, backup)
  /\ pc = "planed" => Fewer(pcb.errs, backup.errs)
  /\ pc = "candidate" => Good(held) /\ SameNets(held, backup) /\ NoWorse(held, backup)
  /\ pc = "silked" => SameCopper(pcb, backup)
  /\ pc \in {"silk", "silked"} => report \in Board /\ Clean(report)

\* The result in hand fits the board, or the backup that may come back.
InHand ==
  /\ pc \in {"plane", "sync", "moved", "check"} => Fits(req, cand, pcb)
  /\ pc \in {"planed", "lost"} => Fits(req, cand, backup)
  /\ pc \in {"plane", "planed", "lost"} /\ why = "patch" => art # None /\ cand = art.r
  /\ pc = "sync" => why # "patch"
  /\ pc = "moved" => why = "move"

\* The best result so far: what repairs start from fits the board, and it is
\* not retried once nothing is wrong with it.
Verdict ==
  /\ art # None => Required(req, art.r)
  /\ art # None /\ pc # "commit" => art.fails # {}
  /\ pc \in {"repair", "move"} => art # None /\ Fits(req, art.r, pcb)
  /\ pc \in {"closer", "candidate"} =>
       why = "patch" /\ art # None /\ Fits(req, art.r, backup)
  /\ pc = "commit" =>
       /\ art # None
       /\ art.fails = {} => Fits(req, art.r, pcb) /\ Passes(req, art.r, pcb)

\* What a relocation put aside is a placement, its board and its result.
Aside ==
  why = "move" /\ pc \in {"begin", "route", "plane", "planed", "lost", "sync", "moved"} =>
    /\ held \in AsideType /\ Good(held.pcb) /\ Good(held.base)
    /\ art # None /\ Fits(req, art.r, held.pcb)
    /\ crashes = 0 => held.pcb.layout = held.layout /\ held.base.layout = held.layout

\* A committed routing was checked with the board that is manufactured.
Committed ==
  /\ saved.route # None => pc \in {"layout"} \union MfgPlaces
  /\ pc \in MfgPlaces =>
       /\ saved.route # None /\ Required(req, saved.route.r)
       /\ saved.route.fails = {} => Passes(req, saved.route.r, pcb)
       /\ req.repair => Fits(req, saved.route.r, pcb)

\* A manufacture that is clean is of a clean board, unless another program
\* saved it, and one with nothing against it has its receipt.
Product ==
  /\ made # None /\ pc # "done" => made.fails # {}
  /\ pc \in {"silk", "export", "audit", "hash", "receipt", "replace", "mcheck"} =>
       (edits = 0 /\ mfg.clean => Clean(pcb))
  /\ pc = "silked" => (edits = 0 /\ mfg.clean => Clean(backup))
  /\ pc = "mrepair" => made # None /\ (edits = 0 /\ made.r.clean => Clean(pcb))
  /\ pc = "done" =>
       /\ made # None
       /\ made.fails = {} => receipt = pcb /\ (edits = 0 => Clean(pcb))

BoardInv ==
  /\ TypeInv /\ Disk /\ Attempt /\ Backup /\ InHand
  /\ Verdict /\ Aside /\ Committed /\ Product

-----------------------------------------------------------------------------
(* What the operators do *)

\* The placeholder for a missing file or result is neither.
LEMMA NoneApart ==
  /\ None \notin Board /\ None \notin ResultType
  /\ None \notin RetainedType /\ None \notin MadeType
<1>1. DOMAIN None = {"none"} BY DEF None
<1>2. \A b \in Board : DOMAIN b = {"layout", "layers", "nets", "gaps", "errs", "zones", "thin", "silk"}
  BY DEF Board
<1>3. \A r \in ResultType : DOMAIN r = {"ok", "layers", "gaps", "whole", "drc", "total", "routed"}
  BY DEF ResultType
<1>4. \A a : a \in RetainedType \/ a \in MadeType => DOMAIN a = {"r", "fails"}
  BY DEF RetainedType, MadeType
<1> QED BY <1>1, <1>2, <1>3, <1>4

\* The fields of a board.
LEMMA BoardFields ==
  ASSUME NEW b \in Board
  PROVE  /\ b.layout \in 1..MaxLayouts /\ b.layers \in {2, 4, 6} /\ b.nets \in BOOLEAN
         /\ b.gaps \in 0..Open /\ b.errs \in Counts /\ b.zones \in BOOLEAN
         /\ b.thin \in BOOLEAN /\ b.silk \in BOOLEAN /\ Gaps(b) \in 0..Open
  BY BoardAssumption DEF Board, Gaps, Counts

\* A new placement is a board without nets.
LEMMA WrittenGood ==
  ASSUME NEW l \in 1..MaxLayouts, NEW silk \in BOOLEAN
  PROVE  Good(Written(l, silk)) /\ Written(l, silk).layout = l
  BY BoardAssumption DEF Written, Good, Board, NoErrs

\* An edit of the copper, the errors or the silkscreen leaves a board, and does
\* not touch the rest of it.
LEMMA EditedGood ==
  ASSUME NEW b, Good(b), NEW g \in 0..Open, NEW e \in Counts, NEW w \in BOOLEAN
  PROVE  /\ Good([b EXCEPT !.gaps = g, !.errs = e, !.thin = w])
         /\ Good([b EXCEPT !.errs = e])
         /\ Good([b EXCEPT !.silk = w, !.errs = e])
         /\ Good([b EXCEPT !.zones = b.nets, !.gaps = g, !.errs = e])
  BY DEF Good, Board, Counts

LEMMA ReroutedGood ==
  ASSUME NEW b, Good(b), NEW n \in {2, 4, 6}, NEW g \in 0..Open, NEW e \in Counts
  PROVE  /\ Good([b EXCEPT !.layers = n, !.nets = TRUE, !.gaps = g, !.errs = e])
         /\ Good([b EXCEPT !.layers = n, !.nets = TRUE])
  BY DEF Good, Board, Counts

\* A result changed in its metrics is one.
Metered(r, g, n, w) == [r EXCEPT !.gaps = g, !.drc = TRUE, !.routed = n, !.whole = w]

LEMMA ResultEdited ==
  ASSUME NEW r \in ResultType, NEW g \in -1..Open, NEW n \in -1..Open, NEW w \in BOOLEAN
  PROVE  LET s == Metered(r, g, n, w) IN
         /\ s \in ResultType /\ s.gaps = g /\ s.routed = n
         /\ s.total = r.total /\ s.ok = r.ok /\ s.layers = r.layers
<1>1. Metered(r, g, n, w) \in ResultType BY BoardAssumption DEF ResultType, Metered
<1> QED BY <1>1 DEF ResultType, Metered

\* A routing attempt leaves a board that its result describes.
LEMMA RoutedFits ==
  ASSUME NEW q, NEW b, Good(b), NEW n \in {2, 4, 6}, q.explicit # 0 => n = q.explicit,
         ses \in BOOLEAN, NEW a \in Routed(b, n) \union Unrouted(b, n)
  PROVE  /\ Good(a.pcb) /\ a.pcb.layout = b.layout /\ a.ses \in BOOLEAN
         /\ Fits(q, a.out, a.pcb)
<1>1. CASE a \in Routed(b, n)
  <2>1. PICK g \in 0..Open, e \in Leaves, c \in -1..Open : a = Laid(b, n, g, e, c)
    BY <1>1 DEF Routed
  <2>2. e \in Counts BY <2>1, BoardAssumption DEF Counts
  <2>3. Good(a.pcb) BY <2>1, <2>2, ReroutedGood DEF Laid
  <2>4. /\ a.pcb.layout = b.layout /\ a.pcb.layers = n /\ a.pcb.nets = TRUE /\ a.pcb.gaps = g
        /\ a.ses \in BOOLEAN
    BY <2>1 DEF Good, Board, Laid
  <2> DEFINE t == IF c < 0 THEN -1 ELSE Open
  <2>5. t \in {-1, Open} /\ (c >= 0 => t = Open) /\ a.out = Result(TRUE, n, c, t) BY <2>1 DEF Laid
  <2> HIDE DEF t
  <2>6. Fits(q, Result(TRUE, n, c, t), a.pcb)
    BY <2>1, <2>4, <2>5, BoardAssumption DEF Fits, Result, ResultType, Required
  <2> QED BY <2>3, <2>4, <2>5, <2>6
<1>2. CASE a \in Unrouted(b, n)
  <2>1. \/ \E t \in {-1, Open} : a = [pcb |-> b, ses |-> ses, out |-> Result(FALSE, n, -1, t)]
        \/ \E s \in {ses, TRUE} :
             a = [pcb |-> [b EXCEPT !.layers = n, !.nets = TRUE], ses |-> s,
                  out |-> Result(FALSE, n, -1, Open)]
    BY <1>2, Zenon DEF Unrouted
  <2>2. ASSUME NEW t \in {-1, Open}, NEW c PROVE Fits(q, Result(FALSE, n, -1, t), c)
    BY BoardAssumption DEF Fits, Result, ResultType, Required
  <2>3. Good([b EXCEPT !.layers = n, !.nets = TRUE])
    <3>1. 0 \in 0..Open /\ NoErrs \in Counts BY BoardAssumption DEF NoErrs, Counts
    <3> QED BY <3>1, ReroutedGood
  <2>4. [b EXCEPT !.layers = n, !.nets = TRUE].layout = b.layout BY DEF Good, Board
  <2>5. CASE \E t \in {-1, Open} : a = [pcb |-> b, ses |-> ses, out |-> Result(FALSE, n, -1, t)]
    <3>1. PICK t \in {-1, Open} : a = [pcb |-> b, ses |-> ses, out |-> Result(FALSE, n, -1, t)]
      BY <2>5
    <3>2. a.pcb = b /\ a.ses = ses /\ a.out = Result(FALSE, n, -1, t) BY <3>1
    <3>3. Fits(q, Result(FALSE, n, -1, t), b) BY <2>2
    <3> QED BY <3>2, <3>3
  <2>6. CASE \E s \in {ses, TRUE} :
               a = [pcb |-> [b EXCEPT !.layers = n, !.nets = TRUE], ses |-> s,
                    out |-> Result(FALSE, n, -1, Open)]
    <3> DEFINE c == [b EXCEPT !.layers = n, !.nets = TRUE]
    <3>0. PICK s \in {ses, TRUE} : a = [pcb |-> c, ses |-> s, out |-> Result(FALSE, n, -1, Open)]
      BY <2>6
    <3>1. a.pcb = c /\ a.ses = s /\ a.out = Result(FALSE, n, -1, Open) BY <3>0
    <3>2. Fits(q, Result(FALSE, n, -1, Open), c) BY <2>2
    <3> QED BY <2>3, <2>4, <3>0, <3>1, <3>2
  <2> QED BY <2>1, <2>5, <2>6
<1> QED BY <1>1, <1>2

\* The result the gap closer makes of r when it closed connections.
Closed(r, b) == AfterCopper(r, Gaps(b), TRUE)

\* A result brought up to date with a repaired board fits it again.
LEMMA AfterCopperFits ==
  ASSUME NEW q, NEW r, NEW a, NEW b, Good(a), Good(b), SameNets(b, a), Fits(q, r, a)
  PROVE  /\ Fits(q, AfterCopper(r, Gaps(b), Gaps(b) # r.gaps), b)
         /\ Fits(q, Closed(r, b), b) /\ Closed(r, b).gaps = Gaps(b)
<1>1. r \in ResultType /\ Gaps(b) \in 0..Open /\ Gaps(b) \in -1..Open
  BY BoardFields, BoardAssumption DEF Fits, Good
<1>2. ASSUME NEW ch \in BOOLEAN, Gaps(b) # r.gaps => ch
      PROVE  Fits(q, AfterCopper(r, Gaps(b), ch), b) /\ AfterCopper(r, Gaps(b), ch).gaps = Gaps(b)
  <2> DEFINE w == IF Gaps(b) = 0 THEN TRUE ELSE r.whole
             n == IF ~ch THEN r.routed
                  ELSE IF r.total < 0 \/ Gaps(b) > r.total THEN -1 ELSE r.total - Gaps(b)
             s == AfterCopper(r, Gaps(b), ch)
  <2>1. n \in -1..Open /\ (n >= 0 => n + Gaps(b) = r.total)
    BY <1>1, <1>2, BoardAssumption DEF Fits, ResultType
  <2>2. s = Metered(r, Gaps(b), n, w) BY DEF AfterCopper, Metered
  <2>3. w \in BOOLEAN BY <1>1 DEF ResultType
  <2> HIDE DEF n, w, s
  <2>4. /\ s \in ResultType /\ s.gaps = Gaps(b) /\ s.routed = n /\ s.total = r.total
        /\ s.ok = r.ok /\ s.layers = r.layers
    BY <1>1, <2>1, <2>2, <2>3, ResultEdited
  <2> QED BY <2>1, <2>4 DEF Fits, s, SameNets, Required
<1> QED BY <1>2 DEF Closed

LEMMA SyncedFits ==
  ASSUME NEW q, NEW r, NEW b, Good(b), Fits(q, r, b)
  PROVE  Fits(q, Synced(r, b), b)
<1>1. r \in ResultType /\ Gaps(b) \in 0..Open /\ Gaps(b) \in -1..Open
  BY BoardFields, BoardAssumption DEF Fits, Good
<1> DEFINE w == Gaps(b) = 0
           n == IF r.total >= Gaps(b) THEN r.total - Gaps(b) ELSE -1
           s == Synced(r, b)
<1>2. n \in -1..Open /\ (n >= 0 => n + Gaps(b) = r.total)
  BY <1>1, BoardAssumption DEF ResultType
<1>3. s = Metered(r, Gaps(b), n, w) /\ w \in BOOLEAN
  BY <1>1 DEF Synced, ResultType, Metered
<1> HIDE DEF n, w, s
<1>4. /\ s \in ResultType /\ s.gaps = Gaps(b) /\ s.routed = n /\ s.total = r.total
      /\ s.ok = r.ok /\ s.layers = r.layers
  BY <1>1, <1>2, <1>3, ResultEdited
<1> QED BY <1>2, <1>4 DEF Fits, Required, s

\* A result fits every board with the same nets and connections.
LEMMA FitsSame ==
  ASSUME NEW q, NEW r, NEW a, NEW b, SameCopper(b, a), Fits(q, r, a)
  PROVE  Fits(q, r, b)
  BY DEF Fits, SameCopper, SameNets, Gaps

\* Nothing failing is what Passes says, whatever the errors and the silkscreen.
LEMMA NothingFails ==
  ASSUME NEW r, NEW b, Failing(r, b) = {} PROVE Passes(req, r, b)
<1>1. \A c \in Checks : c \notin Failing(r, b) OBVIOUS
<1>2. Complete(r) BY <1>1 DEF Failing, Checks
<1>3. b.zones BY <1>1 DEF Failing, Checks
<1>4. req.explicit # 0 => r.layers = req.explicit BY <1>1 DEF Failing, Checks
<1>5. Invariants(b) BY <1>1 DEF Failing, Checks
<1> QED BY <1>2, <1>3, <1>4, <1>5 DEF Passes, Invariants

LEMMA PassesSame ==
  ASSUME NEW q, NEW r, NEW a, NEW b, SameCopper(b, a), Passes(q, r, a)
  PROVE  Passes(q, r, b)
  BY DEF Passes, SameCopper, SameNets

LEMMA FailingChecks == \A r, b : Failing(r, b) \in SUBSET Checks
  BY DEF Failing, Checks

\* A board no worse than a clean one is clean.
LEMMA CleanStays ==
  ASSUME NEW a \in Board, NEW b \in Board, NoWorse(b, a), Clean(a)
  PROVE  Clean(b)
<1>1. Gaps(a) \in 0..Open /\ Gaps(b) \in 0..Open /\ b.errs \in Counts BY BoardFields
<1>2. Gaps(b) = 0 BY <1>1, BoardAssumption DEF NoWorse, Clean
<1>3. \A k \in Errs : b.errs[k] \in Nat /\ ~(b.errs[k] > 0)
  BY <1>1 DEF NoWorse, Clean, NoNewKind, NoErrs, Counts
<1>4. \A k \in Errs : b.errs[k] = 0 BY <1>3
<1>5. b.errs = NoErrs BY <1>1, <1>4 DEF NoErrs, Counts
<1> QED BY <1>2, <1>5 DEF Clean

\* Fewer of every kind is fewer kinds.
LEMMA FewerKinds ==
  ASSUME NEW e \in Counts, NEW f \in Counts, Fewer(e, f)
  PROVE  NoNewKind(e, f)
<1>1. \A k \in Errs : e[k] \in Nat /\ f[k] \in Nat /\ e[k] <= f[k] BY DEF Fewer, Counts
<1>2. \A k \in Errs : e[k] > 0 => f[k] > 0 BY <1>1
<1> QED BY <1>2 DEF NoNewKind

\* NoWorse is a preorder on boards.
LEMMA NoWorseOrder ==
  ASSUME NEW a \in Board, NEW b \in Board, NEW c \in Board
  PROVE  /\ NoWorse(a, a)
         /\ NoWorse(c, b) /\ NoWorse(b, a) => NoWorse(c, a)
         /\ Safe(b, a) => NoWorse(b, a)
         /\ Fewer(a.errs, a.errs)
<1>1. Gaps(a) \in 0..Open /\ Gaps(b) \in 0..Open /\ Gaps(c) \in 0..Open BY BoardFields
<1>2. \A k \in Errs : a.errs[k] \in Nat BY BoardFields DEF Counts
<1>3. Fewer(a.errs, a.errs) BY <1>2 DEF Fewer
<1> QED BY <1>1, <1>3, BoardAssumption DEF NoWorse, Safe, NoNewKind

-----------------------------------------------------------------------------
(* The actions *)

\* The placeholders at the start of a step are typed.
LEMMA NoRouteFields ==
  /\ NoRoute \in AttemptType /\ NoRoute.n = 0 /\ NoRoute.best = None
<1>1. 0 \in 0..RouteBudget /\ None \in Maybe(ResultType) /\ None \in Maybe(Board)
  BY BoardAssumption DEF Maybe
<1> QED BY <1>1 DEF NoRoute, AttemptType

\* A routing proposal begins with the requested profile on n layers.
LEMMA FirstAttempt ==
  ASSUME NEW n \in {2, 4, 6}
  PROVE  LET a == [NoRoute EXCEPT !.prof = "requested", !.layers = n] IN
         a \in AttemptType /\ a.n = 0 /\ a.prof = "requested" /\ a.best = None /\ a.layers = n
  BY NoRouteFields DEF AttemptType

LEMMA NoMfgTyped == NoMfg \in MfgType
<1>1. 0 \in 0..Open /\ NoErrs \in Counts BY BoardAssumption DEF NoErrs, Counts
<1> QED BY <1>1 DEF NoMfg, MfgType, Maybe

\* What a requirement may say.
LEMMA RequirementFields ==
  ASSUME NEW q \in Requirements
  PROVE  /\ q.explicit \in {0, 2, 4, 6} /\ q.preferred \in {0, 2, 4, 6}
         /\ q.width \in BOOLEAN /\ q.fixed \in BOOLEAN /\ q.repair \in BOOLEAN
  BY BoardAssumption DEF RequirementType

\* A new placement: the board, its baseline and the artifacts are of it.
LEMMA LayoutWriteKeeps == ASSUME BoardInv, LayoutWrite PROVE BoardInv'
<1> USE DEF BoardInv, TypeInv, LayoutWrite, RoutingPlaces, MfgPlaces, Env, files, mfgs, route,
           Routing, Bounds, Fresh
<1>1. PICK silk \in Silks : pcb' = Written(layouts + 1, silk) /\ base' = pcb' OBVIOUS
<1>2. layouts + 1 \in 1..MaxLayouts /\ layouts + 1 \in 0..MaxLayouts
  BY BoardAssumption DEF Scalars
<1>3. Good(pcb') /\ pcb'.layout = layouts + 1
  BY <1>1, <1>2, WrittenGood, BoardAssumption
<1>4. Scalars' BY <1>2 DEF Scalars
<1>5. OnFile' BY <1>1, <1>3 DEF OnFile, Maybe, Good
<1>6. Results' BY <1>2 DEF Results, Maybe
<1>7. Products' BY DEF Products, Maybe
<1>8. Disk' BY <1>1, <1>3 DEF Disk
<1>9. Attempt' BY DEF Attempt
<1>10. Backup' BY DEF Backup
<1>11. InHand' BY DEF InHand
<1>12. Verdict' BY DEF Verdict
<1>13. Aside' BY DEF Aside
<1>14. Committed' BY DEF Committed
<1>15. Product' BY DEF Product
<1> QED BY <1>4, <1>5, <1>6, <1>7, <1>8, <1>9, <1>10, <1>11, <1>12, <1>13, <1>14, <1>15

\* The first attempt has the explicit number of layers, if there is one.
LEMMA FirstLayersRequired ==
  ASSUME Scalars, Attempt
  PROVE  FirstLayers \in {2, 4, 6} /\ (req.explicit # 0 => FirstLayers = req.explicit)
<1>1. /\ req.explicit \in {0, 2, 4, 6} /\ req.preferred \in {0, 2, 4, 6}
      /\ planned \in {2, 4, 6} /\ (req.explicit # 0 => planned = req.explicit)
  BY RequirementFields DEF Scalars, Attempt
<1> DEFINE n == Larger(planned, Requested(req))
<1>2. n \in {2, 4, 6} /\ (req.explicit # 0 => n = req.explicit)
  BY <1>1 DEF Larger, Requested
<1> HIDE DEF n
<1>3. FirstLayers = IF req.explicit = 0 /\ n < 4 /\ ses THEN 4 ELSE n BY DEF FirstLayers, n
<1> QED BY <1>2, <1>3

\* A proposal starts with no attempt made.
LEMMA RouteStartKeeps == ASSUME BoardInv, RouteStart PROVE BoardInv'
<1> USE DEF BoardInv, TypeInv, RouteStart, RoutingPlaces, MfgPlaces, Env, files, mfgs, route,
           Routing, Bounds, Fresh
<1>1. FirstLayers \in {2, 4, 6} /\ (req.explicit # 0 => FirstLayers = req.explicit)
  BY FirstLayersRequired
<1>2. /\ rt' \in AttemptType /\ rt'.n = 0 /\ rt'.prof = "requested" /\ rt'.best = None
      /\ rt'.layers = FirstLayers
  BY <1>1, FirstAttempt
<1>3. Scalars' BY DEF Scalars
<1>4. OnFile' BY DEF OnFile, Maybe
<1>5. Results' BY <1>2 DEF Results
<1>6. Products' BY DEF Products, Maybe
<1>7. Disk' BY DEF Disk
<1>8. Attempt' BY <1>1, <1>2 DEF Attempt, Required
<1>9. Backup' BY DEF Backup
<1>10. InHand' BY DEF InHand
<1>11. Verdict' BY DEF Verdict
<1>12. Aside' BY DEF Aside
<1>13. Committed' BY DEF Committed
<1>14. Product' BY DEF Product
<1> QED BY <1>3, <1>4, <1>5, <1>6, <1>7, <1>8, <1>9, <1>10, <1>11, <1>12, <1>13, <1>14

\* An attempt starts from the baseline; the best one is kept with its board.
LEMMA RouteOnceKeeps == ASSUME BoardInv, RouteOnce PROVE BoardInv'
<1> USE DEF BoardInv, TypeInv, RouteOnce, RoutingPlaces, MfgPlaces, Env, files, mfgs, route,
           Routing, Bounds, Fresh
<1>1. PICK a \in Routed(base, rt.layers) \union Unrouted(base, rt.layers), more \in BOOLEAN :
        LET keep == Improves(a.out, rt.best, more)
            next == Following(a.out) IN
        /\ pcb' = a.pcb /\ ses' = a.ses
        /\ rt' = [rt EXCEPT !.n = @ + 1, !.prof = next,
                            !.layers = IF next = "escalate" THEN 4 ELSE @,
                            !.seed = IF next = "seed" THEN @ + 1 ELSE @,
                            !.best = IF keep THEN a.out ELSE @,
                            !.bestPcb = IF keep THEN a.pcb ELSE @]
  OBVIOUS
<1> DEFINE next == Following(a.out)
           lay == IF next = "escalate" THEN 4 ELSE rt.layers
           sd == IF next = "seed" THEN rt.seed + 1 ELSE rt.seed
<1>2. /\ rt \in AttemptType /\ rt.layers \in {2, 4, 6} /\ rt.n \in Nat /\ rt.seed \in Nat
      /\ req.explicit # 0 => rt.layers = req.explicit
      /\ Good(base) /\ ses \in BOOLEAN
  BY DEF Results, AttemptType, Attempt, Disk, OnFile, Required
<1>3. /\ Good(a.pcb) /\ a.pcb.layout = base.layout /\ a.ses \in BOOLEAN
      /\ Fits(req, a.out, a.pcb)
  BY <1>1, <1>2, RoutedFits
<1>4. next \in {"requested", "escalate", "extended", "fab_min", "seed", "done"}
  BY DEF Following, Second
<1>5. next = "escalate" => req.explicit = 0 BY DEF Following, Second
<1>6. lay \in {2, 4, 6} /\ (req.explicit # 0 => lay = req.explicit) BY <1>2, <1>5
<1>7. sd \in Nat BY <1>2
<1>8. rt.n + 1 \in 0..RouteBudget BY <1>2, BoardAssumption DEF MayRoute
<1>9. \/ rt' = [rt EXCEPT !.n = rt.n + 1, !.prof = next, !.layers = lay, !.seed = sd,
                          !.best = a.out, !.bestPcb = a.pcb]
      \/ /\ rt.best # None
         /\ rt' = [rt EXCEPT !.n = rt.n + 1, !.prof = next, !.layers = lay, !.seed = sd]
  <2>1. CASE Improves(a.out, rt.best, more) BY <1>1, <1>2, <2>1 DEF AttemptType
  <2>2. CASE ~Improves(a.out, rt.best, more) BY <1>1, <1>2, <2>2 DEF AttemptType, Improves
  <2> QED BY <2>1, <2>2
<1> HIDE DEF next, lay, sd
<1>10. a.out \in Maybe(ResultType) /\ a.pcb \in Maybe(Board) /\ a.out # None
  BY <1>3, NoneApart DEF Fits, Good, Maybe
<1>11. /\ rt' \in AttemptType /\ rt'.n = rt.n + 1 /\ rt'.prof = next /\ rt'.layers = lay
       /\ \/ rt'.best = a.out /\ rt'.bestPcb = a.pcb
          \/ rt.best # None /\ rt'.best = rt.best /\ rt'.bestPcb = rt.bestPcb
  <2>1. lay \in {0, 2, 4, 6} BY <1>6
  <2>2. CASE rt' = [rt EXCEPT !.n = rt.n + 1, !.prof = next, !.layers = lay, !.seed = sd,
                              !.best = a.out, !.bestPcb = a.pcb]
    <3>1. rt' \in AttemptType BY <1>2, <1>4, <1>7, <1>8, <1>10, <2>1, <2>2 DEF AttemptType
    <3> QED BY <1>2, <2>2, <3>1 DEF AttemptType
  <2>3. CASE /\ rt.best # None
             /\ rt' = [rt EXCEPT !.n = rt.n + 1, !.prof = next, !.layers = lay, !.seed = sd]
    <3>1. rt' \in AttemptType BY <1>2, <1>4, <1>7, <1>8, <2>1, <2>3 DEF AttemptType
    <3> QED BY <1>2, <2>3, <3>1 DEF AttemptType
  <2> QED BY <1>9, <2>2, <2>3
<1>12. Scalars' BY DEF Scalars
<1>13. OnFile' BY <1>1, <1>3 DEF OnFile, Maybe, Good
<1>14. Results' BY <1>11 DEF Results
<1>15. Products' BY DEF Products, Maybe
<1>16. Disk' BY <1>1, <1>3 DEF Disk
<1>17. Attempt'
  <2>1. rt'.n > 0 /\ rt'.n # 0 /\ (rt.n > 0 \/ rt.n = 0) BY <1>2, <1>11
  <2>2. rt.best # None => /\ Fits(req, rt.best, rt.bestPcb) /\ Good(rt.bestPcb)
                          /\ crashes = 0 => rt.bestPcb.layout = layout
    BY <2>1 DEF Attempt
  <2>3. crashes = 0 => a.pcb.layout = layout BY <1>3 DEF Disk
  <2> QED BY <1>3, <1>6, <1>10, <1>11, <2>1, <2>2, <2>3 DEF Attempt, Required
<1>18. Backup' BY DEF Backup
<1>19. InHand' BY DEF InHand
<1>20. Verdict' BY DEF Verdict
<1>21. Aside' BY DEF Aside
<1>22. Committed' BY DEF Committed
<1>23. Product' BY DEF Product
<1> QED BY <1>12, <1>13, <1>14, <1>15, <1>16, <1>17, <1>18, <1>19, <1>20, <1>21, <1>22,
           <1>23

\* The best attempt's result comes with its board.
LEMMA RouteDoneKeeps == ASSUME BoardInv, RouteDone PROVE BoardInv'
<1> USE DEF BoardInv, TypeInv, RouteDone, RoutingPlaces, MfgPlaces, Env, files, mfgs, route,
           Routing, Bounds, Fresh
<1>1. rt.n # 0 /\ rt.n > 0
  BY BoardAssumption DEF Attempt, MayRoute, Results, AttemptType
<1>2. /\ rt.best # None /\ Fits(req, rt.best, rt.bestPcb) /\ Good(rt.bestPcb)
      /\ crashes = 0 => rt.bestPcb.layout = layout
  BY <1>1 DEF Attempt
<1>3. Scalars' BY DEF Scalars
<1>4. OnFile' BY <1>2 DEF OnFile, Maybe, Good
<1>5. Results' BY <1>2, NoRouteFields DEF Results, Maybe, Fits
<1>6. Products' BY DEF Products, Maybe
<1>7. Disk' BY <1>2 DEF Disk
<1>8. Attempt' BY DEF Attempt
<1>9. Backup' BY DEF Backup
<1>10. InHand' BY <1>2 DEF InHand, Attempt
<1>11. Verdict' BY DEF Verdict
<1>12. Aside' BY DEF Aside
<1>13. Committed' BY DEF Committed
<1>14. Product' BY DEF Product
<1> QED BY <1>3, <1>4, <1>5, <1>6, <1>7, <1>8, <1>9, <1>10, <1>11, <1>12, <1>13, <1>14

\* Pouring a plane touches zones, connections and errors only.
LEMMA PlaneGainsGood ==
  ASSUME NEW b, Good(b), NEW a \in PlaneGains(b) PROVE Good(a) /\ SameNets(a, b)
<1>1. PICK g \in 0..b.gaps, e \in Leaves \union {b.errs} :
        a = Poured(b, g, e)
  BY DEF PlaneGains
<1>2. g \in 0..Open /\ e \in Counts
  BY <1>1, BoardFields, BoardAssumption DEF Good, Counts
<1>3. Good(a) BY <1>1, <1>2, EditedGood, TRUE \in BOOLEAN DEF Poured
<1> QED BY <1>1, <1>3 DEF Poured, Good, Board, SameNets

\* What the worker writes is judged, or its outcome is lost.
LEMMA PlaneWorkerKeeps == ASSUME BoardInv, PlaneWorker PROVE BoardInv'
<1> USE DEF BoardInv, TypeInv, PlaneWorker, RoutingPlaces, MfgPlaces, Env, files, mfgs, route,
           Routing, Bounds, Fresh
<1>1. Good(pcb) /\ backup' = pcb BY DEF Disk
<1>2. /\ Good(pcb') /\ SameNets(pcb', backup')
      /\ pc' = "planed" => NoWorse(pcb', backup') /\ Fewer(pcb'.errs, backup'.errs)
  <2>1. CASE \E b \in PlaneGains(pcb) : PlaneGain(b, pcb) /\ pcb' = b /\ pc' \in {"planed", "lost"}
    <3>1. PICK b \in PlaneGains(pcb) : PlaneGain(b, pcb) /\ pcb' = b BY <2>1
    <3>2. Good(b) /\ SameNets(b, pcb) BY <1>1, PlaneGainsGood
    <3>3. Gaps(b) <= Gaps(pcb) /\ Fewer(b.errs, pcb.errs) BY <3>1 DEF PlaneGain
    <3>4. NoNewKind(b.errs, pcb.errs) BY <1>1, <3>2, <3>3, FewerKinds, BoardFields DEF Good
    <3> QED BY <1>1, <3>1, <3>2, <3>3, <3>4 DEF NoWorse
  <2>2. CASE pcb' = pcb /\ pc' = "lost" BY <1>1, <2>2 DEF SameNets
  <2> QED BY <2>1, <2>2
<1>3. pc' \in {"planed", "lost"} OBVIOUS
<1>4. Scalars' BY DEF Scalars
<1>5. OnFile' BY <1>1, <1>2 DEF OnFile, Maybe, Good
<1>6. Results' BY DEF Results, Maybe
<1>7. Products' BY DEF Products, Maybe
<1>8. Disk' BY <1>2, <1>3 DEF Disk, SameNets
<1>9. Attempt' BY DEF Attempt
<1>10. Backup' BY <1>1, <1>2, <1>3 DEF Backup
<1>11. InHand' BY DEF InHand
<1>12. Verdict' BY DEF Verdict
<1>13. Aside' BY DEF Aside
<1>14. Committed' BY DEF Committed
<1>15. Product' BY DEF Product
<1> QED BY <1>4, <1>5, <1>6, <1>7, <1>8, <1>9, <1>10, <1>11, <1>12, <1>13, <1>14, <1>15

\* The result is brought up to date with the poured board.
LEMMA PlaneKeptKeeps == ASSUME BoardInv, PlaneKept PROVE BoardInv'
<1> USE DEF BoardInv, TypeInv, PlaneKept, RoutingPlaces, MfgPlaces, Env, files, mfgs, route,
           Routing, Bounds, Fresh
<1>1. Good(pcb) /\ Good(backup) /\ SameNets(pcb, backup) /\ Fits(req, cand, backup)
  BY DEF Disk, Backup, InHand
<1>2. Fits(req, cand', pcb) BY <1>1, AfterCopperFits
<1>3. Scalars' BY DEF Scalars
<1>4. OnFile' BY DEF OnFile, Maybe
<1>5. Results' BY <1>2 DEF Results, Maybe, Fits
<1>6. Products' BY DEF Products, Maybe
<1>7. Disk' BY DEF Disk
<1>8. Attempt' BY DEF Attempt
<1>9. Backup' BY DEF Backup
<1>10. InHand' BY <1>2 DEF InHand, Attempt
<1>11. Verdict' BY DEF Verdict
<1>12. Aside' BY DEF Aside
<1>13. Committed' BY DEF Committed
<1>14. Product' BY DEF Product
<1> QED BY <1>3, <1>4, <1>5, <1>6, <1>7, <1>8, <1>9, <1>10, <1>11, <1>12, <1>13, <1>14

\* The backup comes back, and with it the board the result fits.
LEMMA PlaneRestoredKeeps == ASSUME BoardInv, PlaneRestored PROVE BoardInv'
<1> USE DEF BoardInv, TypeInv, PlaneRestored, RoutingPlaces, MfgPlaces, Env, files, mfgs, route,
           Routing, Bounds, Fresh
<1>1. Good(backup) /\ SameNets(pcb, backup) /\ Fits(req, cand, backup)
  BY DEF Backup, InHand
<1>2. Scalars' BY DEF Scalars
<1>3. OnFile' BY DEF OnFile, Maybe
<1>4. Results' BY DEF Results, Maybe
<1>5. Products' BY DEF Products, Maybe
<1>6. Disk' BY <1>1 DEF Disk, SameNets
<1>7. Attempt' BY DEF Attempt
<1>8. Backup' BY DEF Backup
<1>9. InHand' BY DEF InHand
<1>10. Verdict' BY <1>1 DEF Verdict, InHand
<1>11. Aside' BY DEF Aside
<1>12. Committed' BY DEF Committed
<1>13. Product' BY DEF Product
<1> QED BY <1>2, <1>3, <1>4, <1>5, <1>6, <1>7, <1>8, <1>9, <1>10, <1>11, <1>12, <1>13

\* DRC's own count replaces that of the attempt.
LEMMA SyncKeeps == ASSUME BoardInv, Sync PROVE BoardInv'
<1> USE DEF BoardInv, TypeInv, Sync, RoutingPlaces, MfgPlaces, Env, files, mfgs, route,
           Routing, Bounds, Fresh
<1>1. Good(pcb) /\ Fits(req, cand, pcb) BY DEF Disk, InHand
<1>2. Fits(req, cand', pcb) BY <1>1, SyncedFits
<1>3. Scalars' BY DEF Scalars
<1>4. OnFile' BY DEF OnFile, Maybe
<1>5. Results' BY <1>2 DEF Results, Maybe, Fits
<1>6. Products' BY DEF Products, Maybe
<1>7. Disk' BY DEF Disk
<1>8. Attempt' BY DEF Attempt
<1>9. Backup' BY DEF Backup
<1>10. InHand' BY <1>2 DEF InHand
<1>11. Verdict' BY DEF Verdict
<1>12. Aside' BY DEF Aside
<1>13. Committed' BY DEF Committed
<1>14. Product' BY DEF Product
<1> QED BY <1>3, <1>4, <1>5, <1>6, <1>7, <1>8, <1>9, <1>10, <1>11, <1>12, <1>13, <1>14

\* The better of two results is retained, and only a failing one repaired.
LEMMA RouteCheckKeeps == ASSUME BoardInv, RouteCheck PROVE BoardInv'
<1> USE DEF BoardInv, TypeInv, RouteCheck, RoutingPlaces, MfgPlaces, Env, files, mfgs, route,
           Routing, Bounds, Fresh
<1> DEFINE fails == Failing(cand, pcb)
<1>1. \/ /\ art' = Retained(cand, fails) /\ pc' \in {"repair", "commit"}
         /\ pc' = "repair" => fails # {}
      \/ art # None /\ art' = art /\ pc' = "commit"
  BY DEF Retained
<1>2. att' \in 0..MaxRepairs BY BoardAssumption DEF Scalars
<1>3. Fits(req, cand, pcb) /\ fails \in SUBSET Checks BY FailingChecks DEF InHand
<1>4. Retained(cand, fails) \in RetainedType /\ Retained(cand, fails) # None
  BY <1>3, NoneApart DEF Retained, RetainedType, Fits
<1>5. Retained(cand, fails).r = cand /\ Retained(cand, fails).fails = fails BY DEF Retained
<1>6. fails = {} => Passes(req, cand, pcb) BY NothingFails
<1> HIDE DEF fails
<1>7. Scalars' BY <1>1, <1>2 DEF Scalars
<1>8. OnFile' BY DEF OnFile, Maybe
<1>9. Results' BY <1>1, <1>4 DEF Results, Maybe
<1>10. Products' BY DEF Products, Maybe
<1>11. Disk' BY DEF Disk
<1>12. Attempt' BY DEF Attempt
<1>13. Backup' BY DEF Backup
<1>14. InHand' BY DEF InHand
<1>15. Verdict'
  <2>1. CASE /\ art' = Retained(cand, fails) /\ pc' \in {"repair", "commit"}
             /\ pc' = "repair" => fails # {}
    BY <1>3, <1>4, <1>5, <1>6, <2>1 DEF Verdict, Fits
  <2>2. CASE art # None /\ art' = art /\ pc' = "commit" BY <2>2 DEF Verdict
  <2> QED BY <1>1, <2>1, <2>2
<1>16. Aside' BY DEF Aside
<1>17. Committed' BY DEF Committed
<1>18. Product' BY DEF Product
<1> QED BY <1>7, <1>8, <1>9, <1>10, <1>11, <1>12, <1>13, <1>14, <1>15, <1>16, <1>17, <1>18

\* A new proposal, or the gap closer on a copy of the board.
LEMMA RepairKeeps == ASSUME BoardInv, Repair PROVE BoardInv'
<1> USE DEF BoardInv, TypeInv, Repair, RoutingPlaces, MfgPlaces, Env, files, mfgs, route,
           Routing, Bounds, Fresh
<1>1. art # None /\ art \in RetainedType /\ Fits(req, art.r, pcb) /\ Good(pcb)
  BY DEF Verdict, Results, Maybe, Disk
<1>2. art.r \in ResultType BY <1>1 DEF Fits
<1>3. 0 \in 0..MaxCandidates BY BoardAssumption
<1>4. Scalars' BY <1>3 DEF Scalars
<1>5. OnFile' BY <1>1 DEF OnFile, Maybe, Good
<1>6. Results' BY <1>2 DEF Results, Maybe
<1>7. Products' BY DEF Products, Maybe
<1>8. Disk' BY DEF Disk
<1>9. Attempt' BY DEF Attempt
<1>10. Backup'
  <2>1. SameNets(pcb, pcb) /\ NoWorse(pcb, pcb) BY <1>1, NoWorseOrder DEF SameNets, Good
  <2> QED BY <1>1, <2>1 DEF Backup
<1>11. InHand' BY DEF InHand
<1>12. Verdict' BY DEF Verdict
<1>13. Aside' BY DEF Aside
<1>14. Committed' BY DEF Committed
<1>15. Product' BY DEF Product
<1> QED BY <1>4, <1>5, <1>6, <1>7, <1>8, <1>9, <1>10, <1>11, <1>12, <1>13, <1>14, <1>15

\* A candidate track changes connections, errors and widths only.
LEMMA CloserTryKeeps == ASSUME BoardInv, CloserTry PROVE BoardInv'
<1> USE DEF BoardInv, TypeInv, CloserTry, RoutingPlaces, MfgPlaces, Env, files, mfgs, route,
           Routing, Bounds, Fresh
<1>1. Good(pcb) /\ held' = pcb BY DEF Disk
<1>2. PICK g \in 0..pcb.gaps, e \in Leaves \union {pcb.errs} :
        pcb' = [pcb EXCEPT !.gaps = g, !.errs = e, !.thin = @ \/ req.width]
  OBVIOUS
<1> DEFINE w == pcb.thin \/ req.width
<1>3. g \in 0..Open /\ e \in Counts /\ w \in BOOLEAN
  BY <1>1, <1>2, BoardFields, BoardAssumption DEF Good, Counts
<1>4. pcb' = [pcb EXCEPT !.gaps = g, !.errs = e, !.thin = w] BY <1>2
<1> HIDE DEF w
<1>5. Good(pcb') /\ SameNets(pcb', pcb)
  <2>1. Good(pcb') BY <1>1, <1>3, <1>4, EditedGood
  <2>2. SameNets(pcb', pcb) BY <1>1, <1>4 DEF Good, Board, SameNets
  <2> QED BY <2>1, <2>2
<1>6. tried + 1 \in 0..MaxCandidates BY BoardAssumption DEF Scalars
<1>7. Scalars' BY <1>6 DEF Scalars
<1>8. OnFile' BY <1>5 DEF OnFile, Maybe, Good
<1>9. Results' BY DEF Results, Maybe
<1>10. Products' BY DEF Products, Maybe
<1>11. Disk' BY <1>5 DEF Disk, SameNets
<1>12. Attempt' BY DEF Attempt
<1>13. Backup' BY <1>1, <1>5 DEF Backup, SameNets
<1>14. InHand' BY DEF InHand
<1>15. Verdict' BY DEF Verdict
<1>16. Aside' BY DEF Aside
<1>17. Committed' BY DEF Committed
<1>18. Product' BY DEF Product
<1> QED BY <1>7, <1>8, <1>9, <1>10, <1>11, <1>12, <1>13, <1>14, <1>15, <1>16, <1>17, <1>18

\* A candidate stays only if it is safe.
LEMMA CloserJudgeKeeps == ASSUME BoardInv, CloserJudge PROVE BoardInv'
<1> USE DEF BoardInv, TypeInv, CloserJudge, RoutingPlaces, MfgPlaces, Env, files, mfgs, route,
           Routing, Bounds, Fresh
<1>1. /\ Good(pcb) /\ Good(held) /\ Good(backup) /\ SameNets(pcb, backup)
      /\ SameNets(held, backup) /\ NoWorse(held, backup)
  BY DEF Disk, Backup
<1>2. pcb' = held \/ (pcb' = pcb /\ Safe(pcb, held)) OBVIOUS
<1>3. Good(pcb') /\ SameNets(pcb', backup) /\ NoWorse(pcb', backup)
  BY <1>1, <1>2, NoWorseOrder DEF Good
<1>4. crashes = 0 => pcb'.layout = layout BY <1>1, <1>3 DEF Disk, SameNets
<1>5. Scalars' BY DEF Scalars
<1>6. OnFile' BY <1>3 DEF OnFile, Maybe, Good
<1>7. Results' BY DEF Results, Maybe
<1>8. Products' BY DEF Products, Maybe
<1>9. Disk' BY <1>3, <1>4 DEF Disk
<1>10. Attempt' BY DEF Attempt
<1>11. Backup' BY <1>1, <1>3 DEF Backup
<1>12. InHand' BY DEF InHand
<1>13. Verdict' BY DEF Verdict
<1>14. Aside' BY DEF Aside
<1>15. Committed' BY DEF Committed
<1>16. Product' BY DEF Product
<1> QED BY <1>5, <1>6, <1>7, <1>8, <1>9, <1>10, <1>11, <1>12, <1>13, <1>14, <1>15, <1>16

\* The gap closer ends: the board it leaves, and the result that goes on, fit.
LEMMA CloserOver ==
  ASSUME BoardInv, pc \in {"closer", "candidate"}, pc' \in {"check", "move", "plane"},
         Good(pcb'), SameNets(pcb', backup), backup' = None, tried' = 0,
         cand' \in ResultType,
         pc' \in {"check", "plane"} => Fits(req, cand', pcb'),
         pc' \in {"move", "plane"} => cand' = art.r /\ Fits(req, art.r, pcb'),
         UNCHANGED <<req, planned, why, base, ses, report, receipt, layout, saved, rt,
                     art, att, mfg, made, layouts, crashes, edits>>
  PROVE  BoardInv'
<1> USE DEF BoardInv, TypeInv, RoutingPlaces, MfgPlaces
<1>1. Good(backup) /\ Good(base) /\ why = "patch" /\ art # None /\ (crashes = 0 => pcb'.layout = layout)
  BY DEF Disk, Backup, Verdict, SameNets
<1>2. 0 \in 0..MaxCandidates BY BoardAssumption
<1>3. Scalars' BY <1>2 DEF Scalars
<1>4. OnFile' BY DEF OnFile, Maybe, Good
<1>5. Results' BY DEF Results, Maybe
<1>6. Products' BY DEF Products, Maybe
<1>7. Disk' BY <1>1 DEF Disk
<1>8. Attempt' BY DEF Attempt
<1>9. Backup' BY DEF Backup
<1>10. InHand' BY <1>1 DEF InHand, Attempt
<1>11. Verdict' BY <1>1 DEF Verdict
<1>12. Aside' BY <1>1 DEF Aside
<1>13. Committed' BY DEF Committed
<1>14. Product' BY DEF Product
<1> QED BY <1>3, <1>4, <1>5, <1>6, <1>7, <1>8, <1>9, <1>10, <1>11, <1>12, <1>13, <1>14

\* No more candidates: what closed connections stays, with its count.
LEMMA CloserEndsKeeps == ASSUME BoardInv, CloserEnds PROVE BoardInv'
<1> USE DEF CloserEnds, Env, mfgs, Bounds
<1> DEFINE closed == Gaps(pcb) < Gaps(backup)
           r == IF closed THEN Closed(art.r, pcb) ELSE art.r
           b == IF closed THEN pcb ELSE backup
<1>1. /\ Good(pcb) /\ Good(backup) /\ SameNets(pcb, backup)
      /\ art # None /\ art \in RetainedType /\ Fits(req, art.r, backup)
  BY DEF BoardInv, TypeInv, Disk, Backup, Verdict, Results, Maybe
<1>2. Fits(req, Closed(art.r, pcb), pcb) /\ Closed(art.r, pcb).gaps = Gaps(pcb)
  BY <1>1, AfterCopperFits
<1>3. Good(b) /\ SameNets(b, backup) /\ Fits(req, r, b)
  BY <1>1, <1>2 DEF SameNets
<1>4. pcb' = b OBVIOUS
<1>5. /\ art.r.gaps \in -1..Open /\ Gaps(pcb) \in 0..Open /\ Gaps(backup) \in 0..Open
      /\ art.r.drc => art.r.gaps = Gaps(backup)
      /\ art.r \in ResultType
  BY <1>1, BoardFields DEF Fits, ResultType, Good
<1>6. ~(r.gaps < art.r.gaps) => Fits(req, art.r, b)
  <2>1. CASE closed
    <3>1. ~(r.gaps < art.r.gaps) => ~art.r.drc
      BY <1>2, <1>5, <2>1, BoardAssumption
    <3>2. b = pcb BY <2>1
    <3> QED BY <1>1, <3>1, <3>2 DEF Fits, SameNets
  <2>2. CASE ~closed BY <1>1, <2>2
  <2> QED BY <2>1, <2>2
<1>7. pc' = AfterCloser(r) /\ cand' = IF AfterCloser(r) = "check" THEN r ELSE art.r
  BY DEF Closed
<1> HIDE DEF r, b
<1>8. \/ pc' = "check" /\ cand' = r
      \/ pc' \in {"move", "plane"} /\ cand' = art.r /\ ~(r.gaps < art.r.gaps)
  BY <1>7 DEF AfterCloser
<1>9. /\ pc' \in {"check", "move", "plane"} /\ cand' \in ResultType
      /\ pc' \in {"check", "plane"} => Fits(req, cand', pcb')
      /\ pc' \in {"move", "plane"} => cand' = art.r /\ Fits(req, art.r, pcb')
  BY <1>3, <1>4, <1>5, <1>6, <1>8 DEF Fits
<1> QED BY <1>3, <1>4, <1>9, CloserOver

\* An exception: the backup comes back, and the old result with it.
LEMMA CloserRaisesKeeps == ASSUME BoardInv, CloserRaises PROVE BoardInv'
<1> USE DEF CloserRaises, Env, mfgs, Bounds
<1>1. Good(backup) /\ Fits(req, art.r, backup) BY DEF BoardInv, Backup, Verdict
<1>2. pc' \in {"move", "plane"} \/ (pc' = "check" /\ art.r.gaps < art.r.gaps)
  BY DEF AfterCloser
<1>3. art.r.gaps \in Int BY <1>1, BoardAssumption DEF Fits, ResultType
<1>4. pc' \in {"move", "plane"} BY <1>2, <1>3
<1>5. pcb' = backup /\ SameNets(backup, backup) /\ cand' = art.r /\ art.r \in ResultType
  BY <1>1 DEF SameNets, Fits
<1> QED BY <1>1, <1>4, <1>5, CloserOver

\* Nothing to move: the old result fits the board still.
LEMMA MoveNothingKeeps == ASSUME BoardInv, MoveNothing PROVE BoardInv'
<1> USE DEF BoardInv, TypeInv, MoveNothing, RoutingPlaces, MfgPlaces, Env, files, mfgs, route,
           Routing, Bounds, Fresh
<1>1. art \in RetainedType /\ Fits(req, art.r, pcb) /\ art.r \in ResultType
  BY DEF Verdict, Results, Maybe, Fits
<1>2. Scalars' BY DEF Scalars
<1>3. OnFile' BY DEF OnFile, Maybe
<1>4. Results' BY <1>1 DEF Results, Maybe
<1>5. Products' BY DEF Products, Maybe
<1>6. Disk' BY DEF Disk
<1>7. Attempt' BY DEF Attempt
<1>8. Backup' BY DEF Backup
<1>9. InHand' BY <1>1 DEF InHand
<1>10. Verdict' BY DEF Verdict
<1>11. Aside' BY DEF Aside
<1>12. Committed' BY DEF Committed
<1>13. Product' BY DEF Product
<1> QED BY <1>2, <1>3, <1>4, <1>5, <1>6, <1>7, <1>8, <1>9, <1>10, <1>11, <1>12, <1>13

\* A relocation puts aside what it may have to bring back.
LEMMA MoveKeeps == ASSUME BoardInv, Move PROVE BoardInv'
<1> USE DEF BoardInv, TypeInv, Move, RoutingPlaces, MfgPlaces, Env, files, mfgs, route,
           Routing, Bounds, Fresh
<1>1. /\ Good(pcb) /\ Good(base) /\ art # None /\ Fits(req, art.r, pcb)
      /\ crashes = 0 => pcb.layout = layout /\ base.layout = layout
  BY DEF Disk, Verdict
<1>2. layouts + 1 \in 1..MaxLayouts /\ layouts + 1 \in 0..MaxLayouts
  BY BoardAssumption DEF Scalars
<1>3. pcb' = Written(layouts + 1, pcb.silk) /\ base' = pcb' /\ pcb.silk \in BOOLEAN
  BY <1>1, BoardFields DEF Good
<1>4. Good(pcb') /\ pcb'.layout = layouts + 1 BY <1>2, <1>3, WrittenGood
<1>5. held' = [pcb |-> pcb, base |-> base, ses |-> ses, report |-> report, layout |-> layout]
  OBVIOUS
<1>6. pcb \in Board /\ base \in Board /\ report \in Maybe(Board) /\ layout \in 0..MaxLayouts
  BY <1>1 DEF Good, OnFile, Scalars
<1>7. /\ held' \in AsideType /\ held'.pcb = pcb /\ held'.base = base /\ held'.layout = layout
  BY <1>5, <1>6 DEF AsideType, OnFile
<1>8. Scalars' BY <1>2 DEF Scalars
<1>9. OnFile' BY <1>3, <1>4 DEF OnFile, Maybe, Good
<1>10. Results' BY DEF Results, Maybe
<1>11. Products' BY DEF Products, Maybe
<1>12. Disk' BY <1>3, <1>4 DEF Disk
<1>13. Attempt' BY DEF Attempt
<1>14. Backup' BY DEF Backup
<1>15. InHand' BY DEF InHand
<1>16. Verdict' BY DEF Verdict
<1>17. Aside' BY <1>1, <1>7 DEF Aside
<1>18. Committed' BY DEF Committed
<1>19. Product' BY DEF Product
<1> QED BY <1>8, <1>9, <1>10, <1>11, <1>12, <1>13, <1>14, <1>15, <1>16, <1>17, <1>18, <1>19

\* A relocation with fewer open connections stays.
LEMMA MoveKeptKeeps == ASSUME BoardInv, MoveKept PROVE BoardInv'
<1> USE DEF BoardInv, TypeInv, MoveKept, RoutingPlaces, MfgPlaces, Env, files, mfgs, route,
           Routing, Bounds, Fresh
<1>1. Scalars' BY DEF Scalars
<1>2. OnFile' BY DEF OnFile, Maybe
<1>3. Results' BY DEF Results, Maybe
<1>4. Products' BY DEF Products, Maybe
<1>5. Disk' BY DEF Disk
<1>6. Attempt' BY DEF Attempt
<1>7. Backup' BY DEF Backup
<1>8. InHand' BY DEF InHand
<1>9. Verdict' BY DEF Verdict
<1>10. Aside' BY DEF Aside
<1>11. Committed' BY DEF Committed
<1>12. Product' BY DEF Product
<1> QED BY <1>1, <1>2, <1>3, <1>4, <1>5, <1>6, <1>7, <1>8, <1>9, <1>10, <1>11, <1>12

\* Otherwise placement, board, baseline and result come back together.
LEMMA MoveUndoneKeeps == ASSUME BoardInv, MoveUndone PROVE BoardInv'
<1> USE DEF BoardInv, TypeInv, MoveUndone, RoutingPlaces, MfgPlaces, Env, files, mfgs, route,
           Routing, Bounds, Fresh
<1>1. /\ held \in AsideType /\ Good(held.pcb) /\ Good(held.base)
      /\ art # None /\ Fits(req, art.r, held.pcb)
      /\ crashes = 0 => held.pcb.layout = held.layout /\ held.base.layout = held.layout
  BY DEF Aside, InHand
<1>2. /\ pcb' = held.pcb /\ base' = held.base /\ ses' = held.ses /\ report' = held.report
      /\ layout' = held.layout /\ cand' = art.r
  OBVIOUS
<1>3. /\ held.pcb \in Board /\ held.base \in Board /\ held.ses \in BOOLEAN
      /\ held.report \in Maybe(Board) /\ held.layout \in 0..MaxLayouts /\ art.r \in ResultType
  BY <1>1 DEF AsideType, Fits
<1>4. Scalars' BY <1>2, <1>3 DEF Scalars
<1>5. OnFile' BY <1>2, <1>3 DEF OnFile, Maybe
<1>6. Results' BY <1>2, <1>3 DEF Results, Maybe
<1>7. Products' BY DEF Products, Maybe
<1>8. Disk' BY <1>1, <1>2 DEF Disk
<1>9. Attempt' BY DEF Attempt
<1>10. Backup' BY DEF Backup
<1>11. InHand' BY <1>1, <1>2 DEF InHand
<1>12. Verdict' BY DEF Verdict
<1>13. Aside' BY DEF Aside
<1>14. Committed' BY DEF Committed
<1>15. Product' BY DEF Product
<1> QED BY <1>4, <1>5, <1>6, <1>7, <1>8, <1>9, <1>10, <1>11, <1>12, <1>13, <1>14, <1>15

\* What is committed without a finding passes with the board on disk.
LEMMA RouteCommitKeeps == ASSUME BoardInv, RouteCommit PROVE BoardInv'
<1> USE DEF BoardInv, TypeInv, RouteCommit, RoutingPlaces, MfgPlaces, Env, files, mfgs, route,
           Routing, Bounds, Fresh
<1>1. art # None /\ art \in RetainedType /\ Required(req, art.r)
  BY DEF Verdict, Results, Maybe
<1>2. saved'.layout = layout /\ saved'.route = art /\ saved' = [layout |-> layout, route |-> art]
  OBVIOUS
<1>3. 0 \in 0..MaxRepairs /\ 0 \in 0..MaxCandidates BY BoardAssumption
<1>4. Scalars' BY <1>3 DEF Scalars
<1>5. OnFile' BY DEF OnFile, Maybe
<1>6. Results' BY <1>1, <1>2, NoRouteFields DEF Results, Maybe, Scalars
<1>7. Products' BY DEF Products, Maybe
<1>8. Disk' BY DEF Disk
<1>9. Attempt' BY DEF Attempt
<1>10. Backup' BY DEF Backup
<1>11. InHand' BY DEF InHand
<1>12. Verdict' BY DEF Verdict
<1>13. Aside' BY DEF Aside
<1>14. Committed' BY <1>1, <1>2 DEF Committed, Verdict, Required
<1>15. Product' BY DEF Product
<1> QED BY <1>4, <1>5, <1>6, <1>7, <1>8, <1>9, <1>10, <1>11, <1>12, <1>13, <1>14, <1>15

\* A blocking result gives the step up, or the placement.
LEMMA RouteBlockedKeeps == ASSUME BoardInv, RouteBlocked PROVE BoardInv'
<1> USE DEF BoardInv, TypeInv, RouteBlocked, RoutingPlaces, MfgPlaces, Env, files, mfgs, route,
           Routing, Bounds, Fresh
<1>1. 0 \in 0..MaxRepairs /\ 0 \in 0..MaxCandidates BY BoardAssumption
<1>2. pc' \in {"layout", "end"} OBVIOUS
<1>3. Scalars' BY <1>1, <1>2 DEF Scalars
<1>4. OnFile' BY DEF OnFile, Maybe
<1>5. Results' BY NoRouteFields DEF Results, Maybe
<1>6. Products' BY DEF Products, Maybe
<1>7. Disk' BY DEF Disk
<1>8. Attempt' BY DEF Attempt
<1>9. Backup' BY DEF Backup
<1>10. InHand' BY DEF InHand
<1>11. Verdict' BY DEF Verdict
<1>12. Aside' BY DEF Aside
<1>13. Committed' BY DEF Committed
<1>14. Product' BY DEF Product
<1> QED BY <1>3, <1>4, <1>5, <1>6, <1>7, <1>8, <1>9, <1>10, <1>11, <1>12, <1>13, <1>14

\* What a step of manufacture does to the board leaves the committed routing
\* checked.
LEMMA StaysCommitted ==
  ASSUME Committed, pc \in MfgPlaces, pc' \in MfgPlaces, SameCopper(pcb', pcb),
         UNCHANGED <<req, saved>>
  PROVE  Committed'
<1>1. Passes(req, saved.route.r, pcb) => Passes(req, saved.route.r, pcb') BY PassesSame
<1>2. Fits(req, saved.route.r, pcb) => Fits(req, saved.route.r, pcb') BY FitsSame
<1> QED BY <1>1, <1>2 DEF Committed

\* Errors and silkscreen are not copper.
LEMMA EditedCopper ==
  ASSUME NEW b, Good(b), NEW e \in Counts, NEW w \in BOOLEAN
  PROVE  /\ Good([b EXCEPT !.errs = e]) /\ SameCopper([b EXCEPT !.errs = e], b)
         /\ Good([b EXCEPT !.silk = w, !.errs = e])
         /\ SameCopper([b EXCEPT !.silk = w, !.errs = e], b)
  BY DEF Good, Board, SameCopper, SameNets, Counts

\* The DRC result is that of the board, if DRC answers.
LEMMA MfgDrcKeeps == ASSUME BoardInv, MfgDrc PROVE BoardInv'
<1> USE DEF BoardInv, TypeInv, MfgDrc, RoutingPlaces, MfgPlaces, Env, files, mfgs, route,
           Routing, Bounds, Fresh
<1>1. /\ Good(pcb) /\ pcb.errs \in Counts /\ Clean(pcb) \in BOOLEAN
      /\ Gaps(pcb) \in 0..Open /\ 1 \in 0..Open /\ NoErrs \in Counts
  BY BoardFields, BoardAssumption DEF Disk, Good, Clean, NoErrs, Counts
<1>2. PICK answers \in BOOLEAN :
        /\ report' = IF answers THEN pcb ELSE None
        /\ mfg' = [NoMfg EXCEPT !.errs = IF answers THEN pcb.errs ELSE NoErrs,
                                !.rest = IF answers THEN Gaps(pcb) ELSE 1,
                                !.clean = answers /\ Clean(pcb)]
        /\ pc' = IF answers /\ Clean(pcb) /\ pcb.silk THEN "silk" ELSE "export"
  OBVIOUS
<1> DEFINE e == IF answers THEN pcb.errs ELSE NoErrs
           g == IF answers THEN Gaps(pcb) ELSE 1
           c == answers /\ Clean(pcb)
<1>3. e \in Counts /\ g \in 0..Open /\ c \in BOOLEAN /\ (c => Clean(pcb)) BY <1>1
<1>4. mfg' = [NoMfg EXCEPT !.errs = e, !.rest = g, !.clean = c] BY <1>2
<1> HIDE DEF e, g, c
<1>5. mfg' \in MfgType /\ mfg'.clean = c BY <1>3, <1>4, NoMfgTyped DEF MfgType
<1>6. /\ pc' \in {"silk", "export"} /\ (report' = pcb \/ report' = None)
      /\ pc' = "silk" => report' = pcb /\ Clean(pcb)
  BY <1>2
<1>7. Scalars' BY DEF Scalars
<1>8. OnFile' BY <1>1, <1>6 DEF OnFile, Maybe, Good
<1>9. Results' BY DEF Results, Maybe
<1>10. Products' BY <1>5 DEF Products
<1>11. Disk' BY DEF Disk
<1>12. Attempt' BY DEF Attempt
<1>13. Backup' BY <1>1, <1>6 DEF Backup, Good
<1>14. InHand' BY DEF InHand
<1>15. Verdict' BY DEF Verdict
<1>16. Aside' BY DEF Aside
<1>17. Committed' BY DEF Committed
<1>18. Product' BY <1>3, <1>5, <1>6 DEF Product
<1> QED BY <1>7, <1>8, <1>9, <1>10, <1>11, <1>12, <1>13, <1>14, <1>15, <1>16, <1>17, <1>18

\* A silkscreen repair changes silkscreen and errors only.
LEMMA SilkTryKeeps == ASSUME BoardInv, SilkTry PROVE BoardInv'
<1> USE DEF BoardInv, TypeInv, SilkTry, RoutingPlaces, MfgPlaces, Env, files, mfgs, route,
           Routing, Bounds, Fresh
<1>1. Good(pcb) /\ backup' = pcb BY DEF Disk
<1>2. PICK silk \in BOOLEAN, e \in Leaves \union {pcb.errs} :
        pcb' = [pcb EXCEPT !.silk = silk, !.errs = e]
  OBVIOUS
<1>3. e \in Counts BY <1>1, <1>2, BoardFields, BoardAssumption DEF Good, Counts
<1>4. Good(pcb') /\ SameCopper(pcb', pcb) BY <1>1, <1>2, <1>3, EditedCopper
<1>5. SameNets(pcb', pcb) /\ pcb'.layout = pcb.layout BY <1>4 DEF SameCopper, SameNets
<1>6. Scalars' BY DEF Scalars
<1>7. OnFile' BY <1>1, <1>4 DEF OnFile, Maybe, Good
<1>8. Results' BY DEF Results, Maybe
<1>9. Products' BY DEF Products, Maybe
<1>10. Disk' BY <1>4, <1>5 DEF Disk
<1>11. Attempt' BY DEF Attempt
<1>12. Backup' BY <1>1, <1>4, <1>5 DEF Backup
<1>13. InHand' BY DEF InHand
<1>14. Verdict' BY DEF Verdict
<1>15. Aside' BY DEF Aside
<1>16. Committed' BY <1>4, StaysCommitted
<1>17. Product' BY DEF Product
<1> QED BY <1>6, <1>7, <1>8, <1>9, <1>10, <1>11, <1>12, <1>13, <1>14, <1>15, <1>16, <1>17

\* The silkscreen repair stays with its own report, or the backup comes back.
LEMMA SilkJudgeKeeps == ASSUME BoardInv, SilkJudge PROVE BoardInv'
<1> USE DEF BoardInv, TypeInv, SilkJudge, RoutingPlaces, MfgPlaces, Env, files, mfgs, route,
           Routing, Bounds, Fresh
<1>1. Good(pcb) /\ Good(backup) /\ SameCopper(pcb, backup) BY DEF Disk, Backup
<1>2. pcb.errs \in Counts /\ Clean(pcb) \in BOOLEAN /\ Gaps(pcb) \in 0..Open
  BY <1>1, BoardFields DEF Good, Clean
<1>3. \/ /\ pcb' = pcb /\ report' = pcb
         /\ mfg' = [mfg EXCEPT !.errs = pcb.errs, !.rest = Gaps(pcb), !.clean = Clean(pcb)]
      \/ pcb' = backup /\ report' = report /\ mfg' = mfg
  OBVIOUS
<1>4. mfg \in MfgType BY DEF Products
<1>5. mfg' \in MfgType /\ (mfg'.clean => Clean(pcb') \/ (mfg' = mfg /\ pcb' = backup))
  BY <1>2, <1>3, <1>4 DEF MfgType
<1>6. /\ Good(pcb') /\ SameCopper(pcb', pcb) /\ pcb'.layout = pcb.layout
  BY <1>1, <1>3 DEF SameCopper, SameNets
<1>7. Scalars' BY DEF Scalars
<1>8. OnFile' BY <1>1, <1>3 DEF OnFile, Maybe, Good
<1>9. Results' BY DEF Results, Maybe
<1>10. Products' BY <1>5 DEF Products
<1>11. Disk' BY <1>6 DEF Disk
<1>12. Attempt' BY DEF Attempt
<1>13. Backup' BY DEF Backup
<1>14. InHand' BY DEF InHand
<1>15. Verdict' BY DEF Verdict
<1>16. Aside' BY DEF Aside
<1>17. Committed' BY <1>6, StaysCommitted
<1>18. Product' BY <1>5 DEF Product
<1> QED BY <1>7, <1>8, <1>9, <1>10, <1>11, <1>12, <1>13, <1>14, <1>15, <1>16, <1>17, <1>18

\* The export is of the board as it is, or fails.
LEMMA ExportKeeps == ASSUME BoardInv, Export PROVE BoardInv'
<1> USE DEF BoardInv, TypeInv, Export, RoutingPlaces, MfgPlaces, Env, files, mfgs, route,
           Routing, Bounds, Fresh
<1>1. mfg \in MfgType /\ pcb \in Maybe(Board) /\ None \in Maybe(Board)
  BY DEF Products, OnFile, Maybe
<1>2. PICK done \in BOOLEAN : mfg' = [mfg EXCEPT !.gerber = IF done THEN pcb ELSE None] OBVIOUS
<1>3. mfg' \in MfgType /\ mfg'.clean = mfg.clean BY <1>1, <1>2 DEF MfgType
<1>4. Scalars' BY DEF Scalars
<1>5. OnFile' BY DEF OnFile, Maybe
<1>6. Results' BY DEF Results, Maybe
<1>7. Products' BY <1>3 DEF Products
<1>8. Disk' BY DEF Disk
<1>9. Attempt' BY DEF Attempt
<1>10. Backup' BY DEF Backup
<1>11. InHand' BY DEF InHand
<1>12. Verdict' BY DEF Verdict
<1>13. Aside' BY DEF Aside
<1>14. Committed' BY DEF Committed
<1>15. Product' BY <1>3 DEF Product
<1> QED BY <1>4, <1>5, <1>6, <1>7, <1>8, <1>9, <1>10, <1>11, <1>12, <1>13, <1>14, <1>15

\* The audit notes the board it reads.
LEMMA AuditBeginKeeps == ASSUME BoardInv, AuditBegin PROVE BoardInv'
<1> USE DEF BoardInv, TypeInv, AuditBegin, RoutingPlaces, MfgPlaces, Env, files, mfgs, route,
           Routing, Bounds, Fresh
<1>1. mfg \in MfgType /\ pcb \in Maybe(Board) BY DEF Products, OnFile
<1>2. mfg' \in MfgType /\ mfg'.clean = mfg.clean BY <1>1 DEF MfgType
<1>3. Scalars' BY DEF Scalars
<1>4. OnFile' BY DEF OnFile, Maybe
<1>5. Results' BY DEF Results, Maybe
<1>6. Products' BY <1>2 DEF Products
<1>7. Disk' BY DEF Disk
<1>8. Attempt' BY DEF Attempt
<1>9. Backup' BY DEF Backup
<1>10. InHand' BY DEF InHand
<1>11. Verdict' BY DEF Verdict
<1>12. Aside' BY DEF Aside
<1>13. Committed' BY DEF Committed
<1>14. Product' BY <1>2 DEF Product
<1> QED BY <1>3, <1>4, <1>5, <1>6, <1>7, <1>8, <1>9, <1>10, <1>11, <1>12, <1>13, <1>14

\* A board that changed under the audit is not ready.
LEMMA AuditEndKeeps == ASSUME BoardInv, AuditEnd PROVE BoardInv'
<1> USE DEF BoardInv, TypeInv, AuditEnd, RoutingPlaces, MfgPlaces, Env, files, mfgs, route,
           Routing, Bounds, Fresh
<1>1. mfg \in MfgType /\ Invariants(pcb) \in BOOLEAN BY DEF Products, Invariants
<1>2. mfg' \in MfgType /\ mfg'.clean = mfg.clean BY <1>1 DEF MfgType
<1>3. Scalars' BY DEF Scalars
<1>4. OnFile' BY DEF OnFile, Maybe
<1>5. Results' BY DEF Results, Maybe
<1>6. Products' BY <1>2 DEF Products
<1>7. Disk' BY DEF Disk
<1>8. Attempt' BY DEF Attempt
<1>9. Backup' BY DEF Backup
<1>10. InHand' BY DEF InHand
<1>11. Verdict' BY DEF Verdict
<1>12. Aside' BY DEF Aside
<1>13. Committed' BY DEF Committed
<1>14. Product' BY <1>2 DEF Product
<1> QED BY <1>3, <1>4, <1>5, <1>6, <1>7, <1>8, <1>9, <1>10, <1>11, <1>12, <1>13, <1>14

\* Nor one that changed before the receipt.
LEMMA ReceiptHashKeeps == ASSUME BoardInv, ReceiptHash PROVE BoardInv'
<1> USE DEF BoardInv, TypeInv, ReceiptHash, RoutingPlaces, MfgPlaces, Env, files, mfgs, route,
           Routing, Bounds, Fresh
<1>1. mfg \in MfgType BY DEF Products
<1>2. mfg' \in MfgType /\ mfg'.clean = mfg.clean BY <1>1 DEF MfgType
<1>3. Scalars' BY DEF Scalars
<1>4. OnFile' BY DEF OnFile, Maybe
<1>5. Results' BY DEF Results, Maybe
<1>6. Products' BY <1>2 DEF Products
<1>7. Disk' BY DEF Disk
<1>8. Attempt' BY DEF Attempt
<1>9. Backup' BY DEF Backup
<1>10. InHand' BY DEF InHand
<1>11. Verdict' BY DEF Verdict
<1>12. Aside' BY DEF Aside
<1>13. Committed' BY DEF Committed
<1>14. Product' BY <1>2 DEF Product
<1> QED BY <1>3, <1>4, <1>5, <1>6, <1>7, <1>8, <1>9, <1>10, <1>11, <1>12, <1>13, <1>14

\* The receipt is of the board that was audited.
LEMMA ReceiptCommitKeeps == ASSUME BoardInv, ReceiptCommit PROVE BoardInv'
<1> USE DEF BoardInv, TypeInv, ReceiptCommit, RoutingPlaces, MfgPlaces, Env, files, mfgs, route,
           Routing, Bounds, Fresh
<1>1. mfg \in MfgType /\ mfg.audited \in Maybe(Board) BY DEF Products, MfgType
<1>2. mfg' \in MfgType /\ mfg'.clean = mfg.clean BY <1>1 DEF MfgType
<1>3. Scalars' BY DEF Scalars
<1>4. OnFile' BY <1>1 DEF OnFile
<1>5. Results' BY DEF Results, Maybe
<1>6. Products' BY <1>2 DEF Products
<1>7. Disk' BY DEF Disk
<1>8. Attempt' BY DEF Attempt
<1>9. Backup' BY DEF Backup
<1>10. InHand' BY DEF InHand
<1>11. Verdict' BY DEF Verdict
<1>12. Aside' BY DEF Aside
<1>13. Committed' BY DEF Committed
<1>14. Product' BY <1>2 DEF Product
<1> QED BY <1>3, <1>4, <1>5, <1>6, <1>7, <1>8, <1>9, <1>10, <1>11, <1>12, <1>13, <1>14

\* A manufacture with nothing against it is clean and has the board's receipt.
LEMMA MfgNothingFails ==
  ASSUME NEW m, MfgFailing(m) = {} PROVE m.clean /\ receipt = pcb
<1>1. \A c \in MfgChecks : c \notin MfgFailing(m) OBVIOUS
<1>2. m.clean BY <1>1 DEF MfgFailing, MfgChecks
<1>3. Bound(m) BY <1>1 DEF MfgFailing, MfgChecks
<1> QED BY <1>2, <1>3 DEF Bound

LEMMA MfgFailingChecks == \A m : MfgFailing(m) \in SUBSET MfgChecks
  BY DEF MfgFailing, MfgChecks

\* The better manufacture is retained, and only a failing one repaired.
LEMMA MfgCheckKeeps == ASSUME BoardInv, MfgCheck PROVE BoardInv'
<1> USE DEF BoardInv, TypeInv, MfgCheck, RoutingPlaces, MfgPlaces, Env, files, mfgs, route,
           Routing, Bounds, Fresh
<1> DEFINE fails == MfgFailing(mfg)
           new == Retained(mfg, fails)
<1>1. \/ /\ made' = new /\ pc' \in {"mrepair", "done"}
         /\ pc' = "mrepair" => fails # {}
      \/ made # None /\ made' = made /\ pc' = "done"
  BY DEF Retained
<1>2. att' \in 0..MaxRepairs BY BoardAssumption DEF Scalars
<1>3. fails \in SUBSET MfgChecks BY MfgFailingChecks
<1>4. fails = {} => mfg.clean /\ receipt = pcb BY MfgNothingFails
<1> HIDE DEF fails
<1>5. new \in MadeType /\ new.r = mfg /\ new.fails = fails
  BY <1>3 DEF Retained, MadeType, Products
<1>6. new # None BY <1>5, NoneApart
<1> HIDE DEF new
<1>7. edits = 0 /\ mfg.clean => Clean(pcb) BY DEF Product
<1>8. Scalars' BY <1>1, <1>2 DEF Scalars
<1>9. OnFile' BY DEF OnFile, Maybe
<1>10. Results' BY DEF Results, Maybe
<1>11. Products' BY <1>1, <1>5, NoMfgTyped DEF Products, Maybe
<1>12. Disk' BY DEF Disk
<1>13. Attempt' BY DEF Attempt
<1>14. Backup' BY DEF Backup
<1>15. InHand' BY DEF InHand
<1>16. Verdict' BY DEF Verdict
<1>17. Aside' BY DEF Aside
<1>18. Committed' BY DEF Committed
<1>19. Product'
  <2>1. CASE /\ made' = new /\ pc' \in {"mrepair", "done"}
             /\ pc' = "mrepair" => fails # {}
    BY <1>4, <1>5, <1>6, <1>7, <2>1 DEF Product
  <2>2. CASE made # None /\ made' = made /\ pc' = "done" BY <2>2 DEF Product
  <2> QED BY <1>1, <2>1, <2>2
<1> QED BY <1>8, <1>9, <1>10, <1>11, <1>12, <1>13, <1>14, <1>15, <1>16, <1>17, <1>18, <1>19

\* The manufacture is proposed again.
LEMMA MfgAgainKeeps == ASSUME BoardInv, MfgAgain PROVE BoardInv'
<1> USE DEF BoardInv, TypeInv, MfgAgain, RoutingPlaces, MfgPlaces, Env, files, mfgs, route,
           Routing, Bounds, Fresh
<1>1. Scalars' BY DEF Scalars
<1>2. OnFile' BY DEF OnFile, Maybe
<1>3. Results' BY DEF Results, Maybe
<1>4. Products' BY DEF Products, Maybe
<1>5. Disk' BY DEF Disk
<1>6. Attempt' BY DEF Attempt
<1>7. Backup' BY DEF Backup
<1>8. InHand' BY DEF InHand
<1>9. Verdict' BY DEF Verdict
<1>10. Aside' BY DEF Aside
<1>11. Committed' BY DEF Committed
<1>12. Product' BY DEF Product
<1> QED BY <1>1, <1>2, <1>3, <1>4, <1>5, <1>6, <1>7, <1>8, <1>9, <1>10, <1>11, <1>12

\* The drill worker removes errors, and is heard or not.
LEMMA MfgDrillsKeeps == ASSUME BoardInv, MfgDrills PROVE BoardInv'
<1> USE DEF BoardInv, TypeInv, MfgDrills, RoutingPlaces, MfgPlaces, Env, files, mfgs, route,
           Routing, Bounds, Fresh
<1>1. /\ Good(pcb) /\ made # None /\ made \in MadeType
      /\ edits = 0 /\ made.r.clean => Clean(pcb)
  BY DEF Disk, Product, Products, Maybe
<1>2. made.r \in MfgType BY <1>1 DEF MadeType
<1>3. /\ \/ pc' = "mfg" /\ mfg' = mfg
         \/ pc' = "mcheck" /\ mfg' = made.r
      /\ pcb' \in Drilled(pcb) \/ pcb' = pcb
  <2>1. CASE \E b \in Drilled(pcb), heard \in BOOLEAN :
               /\ pcb' = b
               /\ IF heard /\ Gaps(b) = 0 THEN pc' = "mfg" /\ UNCHANGED mfg
                  ELSE pc' = "mcheck" /\ mfg' = made.r
    BY <2>1
  <2>2. CASE UNCHANGED pcb /\ pc' = "mcheck" /\ mfg' = made.r BY <2>2
  <2> QED BY <2>1, <2>2
<1>4. Good(pcb') /\ SameCopper(pcb', pcb) /\ Fewer(pcb'.errs, pcb.errs)
  <2>1. CASE pcb' = pcb BY <1>1, <2>1, NoWorseOrder DEF SameCopper, SameNets, Good
  <2>2. CASE pcb' \in Drilled(pcb)
    <3>1. PICK e \in Leaves : Fewer(e, pcb.errs) /\ pcb' = [pcb EXCEPT !.errs = e]
      BY <2>2 DEF Drilled
    <3>2. e \in Counts BY <3>1, BoardAssumption DEF Counts
    <3>3. Good(pcb') /\ SameCopper(pcb', pcb)
      BY <1>1, <3>1, <3>2, EditedCopper, TRUE \in BOOLEAN
    <3> QED BY <1>1, <3>1, <3>3 DEF Good, Board
  <2> QED BY <1>3, <2>1, <2>2
<1>5. edits = 0 /\ made.r.clean => Clean(pcb')
  <2>1. Gaps(pcb') = Gaps(pcb) BY <1>4 DEF SameCopper, SameNets, Gaps
  <2>2. NoWorse(pcb', pcb) BY <1>1, <1>4, <2>1, FewerKinds, BoardFields, BoardAssumption DEF NoWorse, Good
  <2> QED BY <1>1, <1>4, <2>2, CleanStays DEF Good
<1>6. pcb'.layout = pcb.layout BY <1>4 DEF SameCopper, SameNets
<1>7. Scalars' BY <1>3 DEF Scalars
<1>8. OnFile' BY <1>4 DEF OnFile, Maybe, Good
<1>9. Results' BY DEF Results, Maybe
<1>10. Products' BY <1>2, <1>3 DEF Products
<1>11. Disk' BY <1>4, <1>6 DEF Disk
<1>12. Attempt' BY DEF Attempt
<1>13. Backup' BY DEF Backup
<1>14. InHand' BY DEF InHand
<1>15. Verdict' BY DEF Verdict
<1>16. Aside' BY DEF Aside
<1>17. Committed' BY <1>3, <1>4, StaysCommitted
<1>18. Product' BY <1>3, <1>5 DEF Product
<1> QED BY <1>7, <1>8, <1>9, <1>10, <1>11, <1>12, <1>13, <1>14, <1>15, <1>16, <1>17, <1>18

\* A replan forgets the results, and the committed routing with a new routing.
LEMMA ReopenKeeps == ASSUME BoardInv, Reopen PROVE BoardInv'
<1> USE DEF BoardInv, TypeInv, Reopen, RoutingPlaces, MfgPlaces, Env, files, mfgs, route,
           Routing, Bounds, Fresh
<1>1. 0 \in 0..MaxRepairs /\ 0 \in 0..MaxCandidates BY BoardAssumption
<1>2. \/ pc' = "layout" /\ saved' = saved
      \/ pc' = "begin" /\ saved' = [saved EXCEPT !.route = None]
  OBVIOUS
<1>3. saved' \in [layout : 0..MaxLayouts, route : Maybe(RetainedType)]
  BY <1>2 DEF Results, Maybe
<1>4. Scalars' BY <1>1, <1>2 DEF Scalars
<1>5. OnFile' BY DEF OnFile, Maybe
<1>6. Results' BY <1>3, NoRouteFields DEF Results, Maybe
<1>7. Products' BY NoMfgTyped DEF Products, Maybe
<1>8. Disk' BY DEF Disk
<1>9. Attempt' BY DEF Attempt
<1>10. Backup' BY DEF Backup
<1>11. InHand' BY DEF InHand
<1>12. Verdict' BY DEF Verdict
<1>13. Aside' BY DEF Aside
<1>14. Committed' BY <1>2 DEF Committed, Results
<1>15. Product' BY DEF Product
<1> QED BY <1>4, <1>5, <1>6, <1>7, <1>8, <1>9, <1>10, <1>11, <1>12, <1>13, <1>14, <1>15

\* A resumed process has the files as they are, and a committed routing only as
\* far as it passes with them.
LEMMA CrashKeeps == ASSUME BoardInv, Crash PROVE BoardInv'
<1> USE DEF BoardInv, TypeInv, Crash, RoutingPlaces, MfgPlaces, Env, files, mfgs, route,
           Routing, Bounds, Fresh
<1> DEFINE again == Failing(saved.route.r, pcb)
<1>1. 0 \in 0..MaxRepairs /\ 0 \in 0..MaxCandidates /\ crashes + 1 \in Nat /\ crashes + 1 # 0
  BY BoardAssumption DEF Scalars
<1>2. again \in SUBSET Checks /\ (again = {} => Passes(req, saved.route.r, pcb))
  BY FailingChecks, NothingFails
<1>3. \/ saved.route = None /\ pc' = "begin" /\ cand' = None /\ saved' = saved
      \/ /\ saved.route # None /\ (again = {} \/ ~req.repair)
         /\ pc' = "mfg" /\ cand' = None /\ saved' = [saved EXCEPT !.route.fails = again]
      \/ /\ saved.route # None /\ req.repair
         /\ pc' = "check" /\ cand' = saved.route.r /\ saved' = [saved EXCEPT !.route = None]
  OBVIOUS
<1> HIDE DEF again
<1>4. /\ saved \in [layout : 0..MaxLayouts, route : Maybe(RetainedType)]
      /\ saved.layout \in 0..MaxLayouts
  BY DEF Results
<1>5. saved.route # None =>
        /\ saved.route \in RetainedType /\ saved.route.r \in ResultType
        /\ Required(req, saved.route.r) /\ (req.repair => Fits(req, saved.route.r, pcb))
  BY <1>4 DEF Committed, RetainedType, Maybe
<1>6. pc' = "mfg" =>
        /\ saved'.route \in RetainedType /\ saved'.route.r = saved.route.r
        /\ saved'.route.fails = again /\ saved'.layout = saved.layout
        /\ saved' \in [layout : 0..MaxLayouts, route : Maybe(RetainedType)]
  <2> SUFFICES ASSUME pc' = "mfg" PROVE
        /\ saved'.route \in RetainedType /\ saved'.route.r = saved.route.r
        /\ saved'.route.fails = again /\ saved'.layout = saved.layout
        /\ saved' \in [layout : 0..MaxLayouts, route : Maybe(RetainedType)]
    OBVIOUS
  <2>1. saved' = [saved EXCEPT !.route = [saved.route EXCEPT !.fails = again]] BY <1>3, <1>4
  <2>2. saved.route \in RetainedType BY <1>3, <1>5
  <2> DEFINE new == [saved.route EXCEPT !.fails = again]
  <2>3. new \in RetainedType /\ new.r = saved.route.r /\ new.fails = again
    BY <1>2, <2>2 DEF RetainedType
  <2> HIDE DEF new
  <2>4. saved' = [saved EXCEPT !.route = new] BY <2>1 DEF new
  <2> QED BY <1>4, <2>3, <2>4 DEF Maybe
<1>7. pc' # "mfg" =>
        /\ saved' \in [layout : 0..MaxLayouts, route : Maybe(RetainedType)] /\ saved'.route = None
  BY <1>3, <1>4 DEF Maybe
<1>8. pc' = "mfg" => saved.route # None /\ (again = {} \/ ~req.repair) BY <1>3
<1>9. pc' \in {"begin", "mfg", "check"} BY <1>3
<1>10. pc' = "check" => cand' = saved.route.r /\ saved.route # None /\ req.repair BY <1>3
<1>11. cand' \in Maybe(ResultType) BY <1>3, <1>5 DEF Maybe
<1>12. Scalars' BY <1>1, <1>4, <1>9 DEF Scalars
<1>13. OnFile' BY DEF OnFile, Maybe
<1>14. Results' BY <1>6, <1>7, <1>11, NoRouteFields DEF Results, Maybe
<1>15. Products' BY NoMfgTyped DEF Products, Maybe
<1>16. Disk' BY <1>1, <1>9 DEF Disk
<1>17. Attempt' BY <1>9 DEF Attempt
<1>18. Backup' BY <1>9 DEF Backup
<1>19. InHand' BY <1>5, <1>9, <1>10 DEF InHand
<1>20. Verdict' BY <1>9 DEF Verdict
<1>21. Aside' BY <1>9 DEF Aside
<1>22. Committed'
  <2>1. CASE pc' = "mfg" BY <1>2, <1>5, <1>6, <1>8, <2>1, NoneApart DEF Committed, Required
  <2>2. CASE pc' # "mfg" BY <1>7, <1>9, <2>2 DEF Committed
  <2> QED BY <2>1, <2>2
<1>23. Product' BY <1>9, NoMfgTyped DEF Product
<1> QED BY <1>12, <1>13, <1>14, <1>15, <1>16, <1>17, <1>18, <1>19, <1>20, <1>21, <1>22,
           <1>23

\* Another program changes the errors, and that it did is counted.
LEMMA EditKeeps == ASSUME BoardInv, Edit PROVE BoardInv'
<1> USE DEF BoardInv, TypeInv, Edit, RoutingPlaces, MfgPlaces, Env, files, mfgs, route,
           Routing, Bounds, Fresh
<1>1. Good(pcb) BY DEF Disk
<1>2. PICK e \in Leaves : pcb' = [pcb EXCEPT !.errs = e] OBVIOUS
<1>3. e \in Counts BY <1>2, BoardAssumption DEF Counts
<1>4. Good(pcb') /\ SameCopper(pcb', pcb) BY <1>1, <1>2, <1>3, EditedCopper, TRUE \in BOOLEAN
<1>5. pcb'.layout = pcb.layout BY <1>4 DEF SameCopper, SameNets
<1>6. edits' \in Nat /\ edits' # 0 BY DEF Scalars
<1>7. Scalars' BY <1>6 DEF Scalars
<1>8. OnFile' BY <1>4 DEF OnFile, Maybe, Good
<1>9. Results' BY DEF Results, Maybe
<1>10. Products' BY DEF Products, Maybe
<1>11. Disk' BY <1>4, <1>5 DEF Disk
<1>12. Attempt' BY DEF Attempt
<1>13. Backup' BY DEF Backup
<1>14. InHand' BY DEF InHand
<1>15. Verdict' BY DEF Verdict
<1>16. Aside' BY DEF Aside
<1>17. Committed' BY <1>4, StaysCommitted
<1>18. Product' BY <1>6 DEF Product
<1> QED BY <1>7, <1>8, <1>9, <1>10, <1>11, <1>12, <1>13, <1>14, <1>15, <1>16, <1>17, <1>18

-----------------------------------------------------------------------------
(* The theorems *)

LEMMA InitEstablishes == Init => BoardInv
<1> SUFFICES ASSUME Init PROVE BoardInv OBVIOUS
<1> USE DEF Init, BoardInv, TypeInv, RoutingPlaces, MfgPlaces
<1>1. PICK n \in Planned : planned = PlanLayers(req, n) OBVIOUS
<1>2. /\ n \in {2, 4, 6} /\ req.explicit \in {0, 2, 4, 6} /\ req.preferred \in {0, 2, 4, 6}
  BY <1>1, BoardAssumption, RequirementFields
<1>3. planned \in {2, 4, 6} /\ (req.explicit # 0 => planned = req.explicit)
  BY <1>1, <1>2 DEF PlanLayers, Larger
<1>4. 0 \in 0..MaxLayouts /\ 0 \in 0..MaxRepairs /\ 0 \in 0..MaxCandidates
  BY BoardAssumption
<1>5. Scalars BY <1>3, <1>4 DEF Scalars
<1>6. OnFile BY DEF OnFile, Maybe
<1>7. Results BY <1>4, NoRouteFields DEF Results, Maybe
<1>8. Products BY NoMfgTyped DEF Products, Maybe
<1>9. Disk BY DEF Disk
<1>10. Attempt BY <1>3 DEF Attempt
<1>11. Backup BY DEF Backup
<1>12. InHand BY DEF InHand
<1>13. Verdict BY DEF Verdict
<1>14. Aside BY DEF Aside
<1>15. Committed BY DEF Committed
<1>16. Product BY DEF Product
<1> QED BY <1>5, <1>6, <1>7, <1>8, <1>9, <1>10, <1>11, <1>12, <1>13, <1>14, <1>15, <1>16

LEMMA StutterKeeps == ASSUME BoardInv, UNCHANGED vars PROVE BoardInv'
<1> USE DEF BoardInv, TypeInv, vars
<1>1. Scalars' BY DEF Scalars
<1>2. OnFile' BY DEF OnFile
<1>3. Results' BY DEF Results
<1>4. Products' BY DEF Products
<1>5. Disk' BY DEF Disk
<1>6. Attempt' BY DEF Attempt
<1>7. Backup' BY DEF Backup
<1>8. InHand' BY DEF InHand
<1>9. Verdict' BY DEF Verdict
<1>10. Aside' BY DEF Aside
<1>11. Committed' BY DEF Committed
<1>12. Product' BY DEF Product
<1> QED BY <1>1, <1>2, <1>3, <1>4, <1>5, <1>6, <1>7, <1>8, <1>9, <1>10, <1>11, <1>12

LEMMA NextKeeps == ASSUME BoardInv, [Next]_vars PROVE BoardInv'
<1>1. CASE LayoutWrite BY <1>1, LayoutWriteKeeps
<1>2. CASE RouteStart BY <1>2, RouteStartKeeps
<1>3. CASE RouteOnce BY <1>3, RouteOnceKeeps
<1>4. CASE RouteDone BY <1>4, RouteDoneKeeps
<1>5. CASE PlaneWorker BY <1>5, PlaneWorkerKeeps
<1>6. CASE PlaneKept BY <1>6, PlaneKeptKeeps
<1>7. CASE PlaneRestored BY <1>7, PlaneRestoredKeeps
<1>8. CASE Sync BY <1>8, SyncKeeps
<1>9. CASE RouteCheck BY <1>9, RouteCheckKeeps
<1>10. CASE Repair BY <1>10, RepairKeeps
<1>11. CASE CloserTry BY <1>11, CloserTryKeeps
<1>12. CASE CloserJudge BY <1>12, CloserJudgeKeeps
<1>13. CASE CloserEnds BY <1>13, CloserEndsKeeps
<1>14. CASE CloserRaises BY <1>14, CloserRaisesKeeps
<1>15. CASE MoveNothing BY <1>15, MoveNothingKeeps
<1>16. CASE Move BY <1>16, MoveKeeps
<1>17. CASE MoveKept BY <1>17, MoveKeptKeeps
<1>18. CASE MoveUndone BY <1>18, MoveUndoneKeeps
<1>19. CASE RouteCommit BY <1>19, RouteCommitKeeps
<1>20. CASE RouteBlocked BY <1>20, RouteBlockedKeeps
<1>21. CASE MfgDrc BY <1>21, MfgDrcKeeps
<1>22. CASE SilkTry BY <1>22, SilkTryKeeps
<1>23. CASE SilkJudge BY <1>23, SilkJudgeKeeps
<1>24. CASE Export BY <1>24, ExportKeeps
<1>25. CASE AuditBegin BY <1>25, AuditBeginKeeps
<1>26. CASE AuditEnd BY <1>26, AuditEndKeeps
<1>27. CASE ReceiptHash BY <1>27, ReceiptHashKeeps
<1>28. CASE ReceiptCommit BY <1>28, ReceiptCommitKeeps
<1>29. CASE MfgCheck BY <1>29, MfgCheckKeeps
<1>30. CASE MfgAgain BY <1>30, MfgAgainKeeps
<1>31. CASE MfgDrills BY <1>31, MfgDrillsKeeps
<1>32. CASE Reopen BY <1>32, ReopenKeeps
<1>33. CASE Crash BY <1>33, CrashKeeps
<1>34. CASE Edit BY <1>34, EditKeeps
<1>35. CASE UNCHANGED vars BY <1>35, StutterKeeps
<1> QED BY <1>1, <1>2, <1>3, <1>4, <1>5, <1>6, <1>7, <1>8, <1>9, <1>10, <1>11, <1>12, <1>13,
           <1>14, <1>15, <1>16, <1>17, <1>18, <1>19, <1>20, <1>21, <1>22, <1>23, <1>24, <1>25,
           <1>26, <1>27, <1>28, <1>29, <1>30, <1>31, <1>32, <1>33, <1>34, <1>35 DEF Next

LEMMA BoardInvariant == Spec => []BoardInv
<1>1. BoardInv /\ [Next]_vars => BoardInv' BY NextKeeps
<1> QED BY InitEstablishes, <1>1, PTL DEF Spec

\* FilesAgree: the result that is checked describes the board it is checked
\* with, the placement artifact is that of the board and its baseline, and no
\* attempt has other layers than an explicit requirement, after every repair,
\* rejected repair, exception and restart of RouteSignalsStep and
\* ManufactureStep.
THEOREM FilesCorrect == Spec => []FilesAgree
<1>1. BoardInv => FilesAgree
  <2> SUFFICES ASSUME BoardInv PROVE FilesAgree OBVIOUS
  <2>1. TypeOK
    <3>1. /\ art # None => art.r \in ResultType
          /\ rt.n \in 0..RouteBudget /\ rt.best \in Maybe(ResultType)
          /\ mfg.gerber \in Maybe(Board) /\ mfg.audited \in Maybe(Board)
      BY DEF BoardInv, TypeInv, Results, Products, Maybe, RetainedType, AttemptType, MfgType
    <3> QED BY <3>1 DEF BoardInv, TypeInv, Scalars, OnFile, Results, TypeOK
  <2>2. ResultOfBoard
    <3> SUFFICES ASSUME pc = "check"
                 PROVE  /\ cand.drc => cand.gaps = Gaps(pcb)
                        /\ cand.ok => cand.layers = pcb.layers /\ pcb.nets
                        /\ cand.routed >= 0 => cand.routed + cand.gaps = cand.total
      BY DEF ResultOfBoard
    <3>1. Fits(req, cand, pcb) BY DEF BoardInv, InHand
    <3> QED BY <3>1 DEF Fits
  <2>3. PlacementOfBoard BY DEF BoardInv, Disk, PlacementOfBoard
  <2>4. ExplicitLayers
    <3>1. req.explicit # 0 /\ rt.prof # "none" => rt.layers = req.explicit
      BY DEF BoardInv, Attempt, NoRoute, Required
    <3>2. req.explicit # 0 /\ pc = "check" => cand.layers = req.explicit
      BY DEF BoardInv, InHand, Fits, Required
    <3> QED BY <3>1, <3>2 DEF ExplicitLayers
  <2> QED BY <2>1, <2>2, <2>3, <2>4 DEF FilesAgree
<1> QED BY <1>1, BoardInvariant, PTL

\* ReleasedBoard: what ManufactureStep and the committed routing leave without
\* a finding is the board on disk, with its receipt, its requested layers and
\* widths, its planes, no open connection and no DRC error.
THEOREM ReleaseWhole == Spec => []ReleasedBoard
<1>1. BoardInv => ReleasedBoard
  <2> SUFFICES ASSUME BoardInv, Releasable
               PROVE  /\ receipt = pcb
                      /\ Invariants(pcb)
                      /\ edits = 0 => pcb.nets /\ pcb.gaps = 0 /\ pcb.errs = NoErrs /\ pcb.zones
    BY DEF ReleasedBoard
  <2>1. receipt = pcb /\ (edits = 0 => Clean(pcb)) BY DEF BoardInv, Product, Releasable
  <2>2. Passes(req, saved.route.r, pcb) BY DEF BoardInv, Committed, Releasable, MfgPlaces
  <2>3. Invariants(pcb) /\ pcb.zones BY <2>2 DEF Passes, Invariants
  <2>4. pcb.nets BY <2>3 DEF BoardInv, Disk, Good, Releasable
  <2> QED BY <2>1, <2>3, <2>4 DEF Clean, Gaps
<1> QED BY <1>1, BoardInvariant, PTL

\* RepairsMonotone: a repair that ends without a crash or a foreign save left no
\* more open connections and no kind of DRC error that its backup did not have,
\* whether the pipeline kept it, undid it, lost its worker or raised; and no more
\* errors of any kind, unless it was the gap closer, which compares kinds only.
THEOREM RepairsSafe == Spec => RepairsMonotone
<1>1. ASSUME BoardInv, [Next]_vars, backup # None, backup' = None,
             crashes' = crashes, edits' = edits
      PROVE  /\ NoWorse(pcb', backup)
             /\ pc \notin {"closer", "candidate"} => Fewer(pcb'.errs, backup.errs)
  <2> USE DEF Env, files, mfgs, route, Routing, Bounds
  <2>1. /\ pc \in {"planed", "lost", "closer", "candidate", "silked"}
        /\ Good(backup) /\ NoWorse(backup, backup) /\ Fewer(backup.errs, backup.errs)
        /\ pc \in {"planed", "closer"} => NoWorse(pcb, backup)
        /\ pc = "planed" => Fewer(pcb.errs, backup.errs)
    BY <1>1, NoWorseOrder DEF BoardInv, Backup, Good
  <2>2. CASE PlaneKept BY <2>1, <2>2 DEF PlaneKept
  <2>3. CASE PlaneRestored BY <2>1, <2>3 DEF PlaneRestored
  <2>4. CASE CloserEnds BY <2>1, <2>4 DEF CloserEnds
  <2>5. CASE CloserRaises BY <2>1, <2>5 DEF CloserRaises
  <2>6. CASE SilkJudge
    <3>1. /\ Good(pcb) /\ SameCopper(pcb, backup) /\ report \in Board /\ Clean(report)
      BY <1>1, <2>6 DEF SilkJudge, BoardInv, Backup, Disk
    <3>2. pcb' = backup \/ (pcb' = pcb /\ SilkAccepts(pcb, report)) BY <2>6 DEF SilkJudge
    <3>3. CASE pcb' = backup BY <2>1, <3>3
    <3>4. CASE pcb' = pcb /\ SilkAccepts(pcb, report)
      <4>1. NoWorse(pcb, report) BY <3>4 DEF SilkAccepts, NoWorse
      <4>2. pcb.errs = NoErrs BY <3>1, <4>1, CleanStays DEF Good, Clean
      <4>3. \A k \in Errs : backup.errs[k] \in Nat BY <2>1, BoardFields DEF Good, Counts
      <4>4. Fewer(pcb.errs, backup.errs) BY <4>2, <4>3 DEF Fewer, NoErrs
      <4>5. NoNewKind(pcb.errs, backup.errs) BY <4>2 DEF NoNewKind, NoErrs
      <4>6. Gaps(pcb) = Gaps(backup) BY <3>1 DEF SameCopper, SameNets, Gaps
      <4>7. Gaps(pcb) <= Gaps(backup) BY <2>1, <4>6, BoardFields, BoardAssumption DEF Good
      <4> QED BY <3>4, <4>4, <4>5, <4>7 DEF NoWorse
    <3> QED BY <3>2, <3>3, <3>4
  <2>7. CASE CloserTry \/ CloserJudge BY <1>1, <2>7 DEF CloserTry, CloserJudge
  <2>8. CASE Crash BY <1>1, <2>8 DEF Crash, BoardInv, TypeInv, Scalars
  <2>9. CASE UNCHANGED vars BY <1>1, <2>9 DEF vars
  <2>10. ~(LayoutWrite \/ RouteStart \/ RouteOnce \/ RouteDone \/ PlaneWorker \/ Sync)
    BY <2>1 DEF LayoutWrite, RouteStart, RouteOnce, RouteDone, PlaneWorker, Sync
  <2>11. ~(\/ RouteCheck \/ Repair \/ MoveNothing \/ Move \/ MoveKept \/ MoveUndone
           \/ RouteCommit \/ RouteBlocked)
    BY <2>1 DEF RouteCheck, Repair, MoveNothing, Move, MoveKept, MoveUndone, RouteCommit,
                RouteBlocked
  <2>12. ~(\/ MfgDrc \/ SilkTry \/ Export \/ AuditBegin \/ AuditEnd \/ ReceiptHash
           \/ ReceiptCommit \/ MfgCheck \/ MfgAgain \/ MfgDrills \/ Reopen \/ Edit)
    BY <2>1 DEF MfgDrc, SilkTry, Export, AuditBegin, AuditEnd, ReceiptHash, ReceiptCommit,
                MfgCheck, MfgAgain, MfgDrills, Reopen, Edit
  <2> QED BY <1>1, <2>2, <2>3, <2>4, <2>5, <2>6, <2>7, <2>8, <2>9, <2>10, <2>11, <2>12 DEF Next
<1>2. ASSUME BoardInv, [Next]_vars
      PROVE  [backup # None /\ backup' = None /\ crashes' = crashes /\ edits' = edits
                => /\ Gaps(pcb') <= Gaps(backup) /\ NoNewKind(pcb'.errs, backup.errs)
                   /\ pc \notin {"closer", "candidate"} => Fewer(pcb'.errs, backup.errs)]_vars
  BY <1>1, <1>2 DEF NoWorse
<1> QED BY <1>2, BoardInvariant, PTL DEF Spec, RepairsMonotone
=============================================================================
