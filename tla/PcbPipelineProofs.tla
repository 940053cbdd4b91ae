-------------------------- MODULE PcbPipelineProofs --------------------------
(***************************************************************************)
(* The safety of a run directory, for any steps, checks, budgets and       *)
(* numbers of processes and faults: what is saved is a checked prefix of   *)
(* the steps, every saved artifact was checked against what it is saved    *)
(* with, no write is refused, and the saved ledgers keep within the        *)
(* budgets of repairs, recovery turns and replans.                         *)
(***************************************************************************)
EXTENDS PcbPipeline, SequenceTheorems, FiniteSetTheorems, TLAPS

Fields == {"rev", "contract", "res", "arts", "cands", "loose", "repairs",
           "replans", "turns", "token", "basis"}
ResultType == {r \in [blocked : BOOLEAN, exec : BOOLEAN] : r.exec => r.blocked}
Artifacts == [Steps -> AnyPrint]

StateOK(m) ==
  /\ DOMAIN m = Fields
  /\ m.rev \in Int /\ m.rev >= -1 /\ m.contract \in Nat
  /\ m.res \in Seq(ResultType) /\ Len(m.res) <= N
  /\ m.arts \in Artifacts /\ m.cands \in Artifacts /\ m.basis \in [Steps -> Artifacts]

Passed(m, n) == \A i \in 1..Len(m.res) : i <= n => ~m.res[i].exec
Waiting(m, n) == \A i \in Steps : m.cands[i] # 0 => i = n
Prefix(m) ==
  \A i \in Steps :
    /\ m.arts[i] # 0 => i <= Len(m.res)
    /\ m.arts[i] = 0 /\ i <= Len(m.res) => m.res[i].exec
Based(m) ==
  \A j \in 1..Len(m.res) : \A i \in 1..(j - 1) :
    m.arts[j] # 0 /\ m.basis[j][i] # m.arts[i] => i \in Rewritable

\* A state whose first n results did not block execution.
Sound(m, n) == StateOK(m) /\ Prefix(m) /\ Passed(m, n) /\ Based(m)

\* What may be saved, what a step starts from, what it works on, and what it
\* leaves to be judged.
Saved(m)   == Sound(m, Len(m.res) - 1) /\ Waiting(m, Len(m.res) + 1)
Ready(m)   == Sound(m, Len(m.res)) /\ Waiting(m, Len(m.res) + 1)
Working(m) == Sound(m, Len(m.res)) /\ Waiting(m, 0) /\ Len(m.res) < N
Judged(m)  == Sound(m, Len(m.res) - 1) /\ Waiting(m, 0) /\ Len(m.res) >= 1

EvalOK(e) ==
  /\ e.art \in AnyPrint \ {0} /\ e.exec \in BOOLEAN
  /\ e.exec => e.fails # {}

PipelineInv ==
  /\ Saved(disk) /\ ~refused /\ until \in {0} \union Steps /\ trouble \subseteq Kinds
  /\ pc \in {"idle", "loop", "repair", "judge", "end"}
  /\ pc = "idle" => mem = Blank
  /\ pc # "idle" => ~Regresses(mem)
  /\ pc = "loop" => Ready(mem)
  /\ pc = "repair" => Working(mem) /\ EvalOK(ev)
  /\ pc = "judge" => Judged(mem)
  /\ pc = "end" => Saved(mem)

\* The parts of a state the invariant speaks of; the ledgers are not among them.
SameCore(a, b) ==
  /\ DOMAIN b = DOMAIN a /\ b.contract = a.contract
  /\ b.res = a.res /\ b.arts = a.arts /\ b.cands = a.cands /\ b.basis = a.basis

\* Only the contract and the ledgers may differ.
SameButContract(a, b) ==
  /\ DOMAIN b = DOMAIN a
  /\ b.res = a.res /\ b.arts = a.arts /\ b.cands = a.cands /\ b.basis = a.basis

\* b may be written wherever a may: it is newer, or as new and no shorter.
Follows(a, b) ==
  /\ b.rev \in Int /\ b.rev >= a.rev
  /\ b.rev = a.rev /\ b.contract = disk.contract =>
       b.contract = a.contract /\ Len(b.res) >= Len(a.res)

-----------------------------------------------------------------------------
(* Operators on states                                                      *)

LEMMA Assumed ==
  /\ N \in Nat \ {0} /\ Steps = 1..N
  /\ \A i \in Steps : Prints[i] \subseteq AnyPrint \ {0}
  /\ AnyPrint \subseteq Nat /\ 0 \in AnyPrint /\ NoArtifacts \in Artifacts
  /\ \A i \in Steps : /\ Owner[i] \in 0..N /\ Owner[i] < i /\ Owner[i] # 1
                      /\ Merges[i] \subseteq Steps /\ Swaps[i] \subseteq Steps
                      /\ Substitutes[i] \subseteq Steps
  /\ \A i \in Steps : \A j \in Merges[i] \union Swaps[i] \union Substitutes[i] :
       j < i /\ j \in Rewritable
  /\ Untils \subseteq Steps
PROOF
<1>1. N \in Nat \ {0} /\ Steps = 1..N /\ Untils \subseteq Steps
  BY PipelineAssumption DEF PipelineAssumption, Steps
<1>2. \A i \in Steps : Prints[i] \subseteq AnyPrint \ {0}
  BY PipelineAssumption DEF PipelineAssumption, AnyPrint
<1>3. AnyPrint \subseteq Nat /\ 0 \in AnyPrint
  BY PipelineAssumption DEF PipelineAssumption, AnyPrint
<1>4. NoArtifacts \in Artifacts
  BY <1>3 DEF NoArtifacts, Artifacts
<1>5. \A i \in Steps : /\ Owner[i] \in 0..N /\ Owner[i] < i /\ Owner[i] # 1
                       /\ Merges[i] \subseteq Steps /\ Swaps[i] \subseteq Steps
                       /\ Substitutes[i] \subseteq Steps
  BY PipelineAssumption DEF PipelineAssumption
<1>6. \A i \in Steps : \A j \in Merges[i] \union Swaps[i] \union Substitutes[i] :
        j < i /\ j \in Rewritable
  BY PipelineAssumption DEF PipelineAssumption, Rewritable
<1> QED BY <1>1, <1>2, <1>3, <1>4, <1>5, <1>6

LEMMA UpToType ==
  ASSUME NEW a \in Artifacts, NEW k
  PROVE  UpTo(a, k) \in Artifacts
PROOF BY Assumed DEF UpTo, Artifacts

\* A rewrite touches only the artifacts it names, and leaves something in each.
LEMMA RewritesType ==
  ASSUME NEW a \in Artifacts, NEW S \in SUBSET Steps, NEW b \in Rewrites(a, S)
  PROVE  /\ b \in Artifacts
         /\ \A i \in Steps : b[i] = a[i] \/ (i \in S /\ b[i] # 0)
PROOF BY DEF Rewrites, Artifacts

LEMMA CoreSound ==
  ASSUME NEW a, NEW b, NEW n \in Int, Sound(a, n), SameCore(a, b),
         b.rev \in Int, b.rev >= -1
  PROVE  Sound(b, n)
PROOF BY DEF Sound, SameCore, StateOK, Prefix, Passed, Based

LEMMA CoreForms ==
  ASSUME NEW a, NEW b, SameCore(a, b), StateOK(a), b.rev \in Int, b.rev >= -1
  PROVE  /\ Saved(a) => Saved(b)
         /\ Ready(a) => Ready(b)
         /\ Working(a) => Working(b)
         /\ Judged(a) => Judged(b)
PROOF
<1>1. Len(a.res) \in Nat /\ Len(b.res) = Len(a.res)
  BY DEF SameCore, StateOK
<1>2. \A n \in Int : Sound(a, n) => Sound(b, n)
  BY CoreSound
<1>3. \A n \in Int : Waiting(a, n) => Waiting(b, n)
  BY DEF SameCore, Waiting
<1> QED BY <1>1, <1>2, <1>3 DEF Saved, Ready, Working, Judged

LEMMA FollowsWritable ==
  ASSUME NEW a, NEW b, StateOK(disk), StateOK(a), StateOK(b), ~Regresses(a), Follows(a, b)
  PROVE  ~Regresses(b)
PROOF
<1>1. /\ a.rev \in Int /\ b.rev \in Int /\ disk.rev \in Int
      /\ Len(a.res) \in Nat /\ Len(b.res) \in Nat /\ Len(disk.res) \in Nat
  BY DEF StateOK
<1> QED BY <1>1 DEF Follows, Regresses

\* Saved artifacts that were rewritten downstream stay checked.
LEMMA RewriteSound ==
  ASSUME NEW m, NEW n \in Int, NEW S \in SUBSET Steps, NEW b \in Rewrites(m.arts, S),
         Sound(m, n),
         \A j \in S : j \in Rewritable /\ j <= n /\ j <= Len(m.res)
  PROVE  Sound([m EXCEPT !.arts = b], n)
PROOF
<1> DEFINE w == [m EXCEPT !.arts = b]
<1>1. /\ w.arts = b /\ w.res = m.res /\ w.basis = m.basis /\ w.cands = m.cands
      /\ w.rev = m.rev /\ w.contract = m.contract /\ DOMAIN w = Fields
  BY DEF Sound, StateOK, Fields
<1>2. b \in Artifacts /\ \A i \in Steps : b[i] = m.arts[i] \/ (i \in S /\ b[i] # 0)
  BY RewritesType DEF Sound, StateOK
<1>3. StateOK(w)
  BY <1>1, <1>2 DEF Sound, StateOK
<1>4. Len(m.res) \in Nat /\ Len(m.res) <= N /\ 1..Len(m.res) \subseteq Steps
  BY Assumed DEF Sound, StateOK
<1> HIDE DEF w
<1>5. Prefix(w)
  BY <1>1, <1>2 DEF Sound, Prefix
<1>6. Passed(w, n)
  BY <1>1 DEF Sound, Passed
<1>7. ASSUME NEW j \in 1..Len(w.res), NEW i \in 1..(j - 1),
             w.arts[j] # 0, w.basis[j][i] # w.arts[i]
      PROVE  i \in Rewritable
  <2>1. j \in Steps /\ i \in Steps /\ j \in 1..Len(m.res)
    BY <1>1, <1>4, Assumed
  <2>2. CASE m.arts[j] = 0
    <3>1. j \in S
      BY <2>2, <1>1, <1>2, <1>7, <2>1
    <3>2. ~m.res[j].exec
      BY <3>1, <2>1 DEF Sound, Passed
    <3> QED BY <2>1, <2>2, <3>2 DEF Sound, Prefix
  <2>3. CASE m.arts[j] # 0 /\ b[i] = m.arts[i]
    BY <2>1, <2>3, <1>1, <1>7 DEF Sound, Based
  <2>4. CASE b[i] # m.arts[i]
    BY <2>1, <2>4, <1>2
  <2> QED BY <2>2, <2>3, <2>4
<1>8. Based(w)
  BY <1>7 DEF Based
<1> QED BY <1>3, <1>5, <1>6, <1>8 DEF Sound, w

\* A result appended to a working state is the one to be judged.
LEMMA AppendedSeq ==
  ASSUME NEW T, NEW s \in Seq(T), NEW x \in T
  PROVE  /\ Append(s, x) \in Seq(T) /\ Len(Append(s, x)) = Len(s) + 1
         /\ \A i \in 1..Len(s) : Append(s, x)[i] = s[i]
         /\ Append(s, x)[Len(s) + 1] = x
PROOF OBVIOUS

LEMMA CutSeq ==
  ASSUME NEW T, NEW s \in Seq(T), NEW k \in 0..Len(s)
  PROVE  /\ SubSeq(s, 1, k) \in Seq(T) /\ Len(SubSeq(s, 1, k)) = k
         /\ \A i \in 1..k : SubSeq(s, 1, k)[i] = s[i]
PROOF OBVIOUS

LEMMA RecordJudged ==
  ASSUME NEW m, Working(m), NEW e, EvalOK(e),
         NEW arts \in Rewrites(m.arts, IF e.fails = {} THEN Merges[At(m)] ELSE {})
  PROVE  /\ Judged(Record(m, e, arts))
         /\ Record(m, e, arts).rev = m.rev /\ Record(m, e, arts).contract = m.contract
         /\ Len(Record(m, e, arts).res) = Len(m.res) + 1
PROOF
<1> DEFINE i == Len(m.res) + 1
           S == IF e.fails = {} THEN Merges[i] ELSE {}
           r == Result(e)
           a == [arts EXCEPT ![i] = e.art]
           w == Record(m, e, arts)
<1>1. /\ DOMAIN m = Fields /\ m.rev \in Int /\ m.rev >= -1 /\ m.contract \in Nat
      /\ m.res \in Seq(ResultType) /\ Len(m.res) \in Nat /\ Len(m.res) < N
      /\ m.arts \in Artifacts /\ m.cands \in Artifacts /\ m.basis \in [Steps -> Artifacts]
      /\ i \in Steps /\ 1..Len(m.res) \subseteq Steps
  BY Assumed DEF Working, Sound, StateOK
<1>2. /\ S \subseteq Steps /\ \A j \in S : j < i /\ j \in Rewritable /\ j \in 1..Len(m.res)
      /\ arts \in Rewrites(m.arts, S)
  BY <1>1, Assumed DEF At
<1>3. r \in ResultType /\ (r.exec => e.exec)
  BY DEF EvalOK, ResultType, Result
<1>4. arts \in Artifacts /\ \A j \in Steps : arts[j] = m.arts[j] \/ (j \in S /\ arts[j] # 0)
  BY <1>1, <1>2, RewritesType
<1>5. Sound([m EXCEPT !.arts = arts], Len(m.res))
  <2> HIDE DEF S, i
  <2>1. Sound(m, Len(m.res)) /\ Len(m.res) \in Int
    BY <1>1 DEF Working
  <2>2. \A j \in S : j \in Rewritable /\ j <= Len(m.res)
    BY <1>1, <1>2
  <2> QED BY <2>1, <2>2, <1>2, RewriteSound
<1>6. a \in Artifacts /\ a[i] = e.art /\ \A j \in Steps : j # i => a[j] = arts[j]
  BY <1>1, <1>4 DEF EvalOK, Artifacts
<1>7. /\ DOMAIN w = Fields /\ w.rev = m.rev /\ w.contract = m.contract
      /\ w.res = Append(m.res, r) /\ w.arts = a /\ w.cands = m.cands
      /\ w.basis = [m.basis EXCEPT ![i] = UpTo(m.arts, i - 1)]
  BY <1>1 DEF Record, At, Fields
<1> HIDE DEF r, a, w, S
<1>8. /\ w.res \in Seq(ResultType) /\ Len(w.res) = Len(m.res) + 1
      /\ \A j \in 1..Len(m.res) : w.res[j] = m.res[j]
      /\ w.res[i] = r
  BY <1>1, <1>3, <1>7, AppendedSeq
<1>9. /\ UpTo(m.arts, i - 1) \in Artifacts
      /\ \A j \in Steps : UpTo(m.arts, i - 1)[j] = IF j <= i - 1 THEN m.arts[j] ELSE 0
  <2>1. UpTo(m.arts, i - 1) \in Artifacts
    BY <1>1, UpToType
  <2>2. \A j \in Steps : UpTo(m.arts, i - 1)[j] = IF j <= i - 1 THEN m.arts[j] ELSE 0
    BY DEF UpTo
  <2> QED BY <2>1, <2>2
<1>10. /\ w.basis \in [Steps -> Artifacts] /\ w.basis[i] = UpTo(m.arts, i - 1)
       /\ \A j \in Steps : j # i => w.basis[j] = m.basis[j]
  BY <1>1, <1>7, <1>9
<1>11. StateOK(w)
  BY <1>1, <1>6, <1>7, <1>8, <1>10, Assumed DEF StateOK
<1>12. Passed(w, Len(m.res))
  BY <1>1, <1>8 DEF Passed, Working, Sound
<1>13. Prefix(w)
  <2> SUFFICES ASSUME NEW j \in Steps
               PROVE  /\ w.arts[j] # 0 => j <= Len(w.res)
                      /\ w.arts[j] = 0 /\ j <= Len(w.res) => w.res[j].exec
    BY DEF Prefix
  <2>1. CASE j = i
    BY <2>1, <1>1, <1>6, <1>7, <1>8 DEF EvalOK
  <2>2. CASE j # i
    <3>1. w.arts[j] = arts[j]
      BY <2>2, <1>6, <1>7
    <3>2. /\ arts[j] # 0 => j <= Len(m.res)
          /\ arts[j] = 0 /\ j <= Len(m.res) => m.res[j].exec
      BY <1>1, <1>5 DEF Sound, Prefix, Fields
    <3>3. j <= Len(m.res) => w.res[j] = m.res[j]
      BY <1>1, <1>8, Assumed
    <3> QED BY <2>2, <3>1, <3>2, <3>3, <1>1, <1>8, Assumed
  <2> QED BY <2>1, <2>2
<1>14. Based(w)
  <2> SUFFICES ASSUME NEW j \in 1..Len(w.res), NEW k \in 1..(j - 1),
                      w.arts[j] # 0, w.basis[j][k] # w.arts[k]
               PROVE  k \in Rewritable
    BY DEF Based
  <2>0. j \in Steps /\ k \in Steps /\ k < j /\ k # i
    BY <1>1, <1>8, Assumed
  <2>1. CASE j = i
    BY <2>0, <2>1, <1>1, <1>2, <1>4, <1>6, <1>7, <1>9, <1>10
  <2>2. CASE j # i
    <3>1. j \in 1..Len(m.res)
      BY <2>2, <1>1, <1>8
    <3>2. w.arts[j] = arts[j] /\ w.arts[k] = arts[k] /\ w.basis[j] = m.basis[j]
      BY <2>0, <2>2, <1>6, <1>7, <1>10
    <3>3. arts[j] # 0 /\ m.basis[j][k] # arts[k] => k \in Rewritable
      BY <1>1, <1>5, <3>1 DEF Sound, Based, Fields
    <3> QED BY <3>2, <3>3
  <2> QED BY <2>1, <2>2
<1>15. Waiting(w, 0)
  BY <1>7 DEF Working, Waiting
<1> QED BY <1>1, <1>7, <1>8, <1>11, <1>12, <1>13, <1>14, <1>15 DEF Judged, Sound, w

\* A step that raised leaves a result and no artifact.
LEMMA RaisedJudged ==
  ASSUME NEW m, Working(m), NEW r \in ResultType, r.exec
  PROVE  Judged([m EXCEPT !.res = Append(@, r)])
PROOF
<1> DEFINE w == [m EXCEPT !.res = Append(@, r)]
<1>1. /\ DOMAIN m = Fields /\ m.rev \in Int /\ m.rev >= -1 /\ m.contract \in Nat
      /\ m.res \in Seq(ResultType) /\ Len(m.res) \in Nat /\ Len(m.res) < N
      /\ m.arts \in Artifacts /\ m.cands \in Artifacts /\ m.basis \in [Steps -> Artifacts]
  BY Assumed DEF Working, Sound, StateOK
<1>2. /\ DOMAIN w = Fields /\ w.rev = m.rev /\ w.contract = m.contract
      /\ w.res = Append(m.res, r) /\ w.arts = m.arts /\ w.cands = m.cands
      /\ w.basis = m.basis
  BY <1>1 DEF Fields
<1> HIDE DEF w
<1>3. /\ w.res \in Seq(ResultType) /\ Len(w.res) = Len(m.res) + 1
      /\ \A j \in 1..Len(m.res) : w.res[j] = m.res[j]
      /\ w.res[Len(m.res) + 1] = r
  BY <1>1, <1>2, AppendedSeq
<1>4. StateOK(w)
  BY <1>1, <1>2, <1>3, Assumed DEF StateOK
<1>5. Passed(w, Len(m.res))
  BY <1>1, <1>3 DEF Passed, Working, Sound
<1>6. Prefix(w)
  <2> SUFFICES ASSUME NEW j \in Steps
               PROVE  /\ w.arts[j] # 0 => j <= Len(w.res)
                      /\ w.arts[j] = 0 /\ j <= Len(w.res) => w.res[j].exec
    BY DEF Prefix
  <2>1. j \in Nat /\ j >= 1
    BY Assumed
  <2>2. /\ m.arts[j] # 0 => j <= Len(m.res)
        /\ m.arts[j] = 0 /\ j <= Len(m.res) => m.res[j].exec
    BY DEF Working, Sound, Prefix
  <2> QED BY <2>1, <2>2, <1>1, <1>2, <1>3
<1>7. Based(w)
  <2> SUFFICES ASSUME NEW j \in 1..Len(w.res), NEW k \in 1..(j - 1),
                      w.arts[j] # 0, w.basis[j][k] # w.arts[k]
               PROVE  k \in Rewritable
    BY DEF Based
  <2>1. j \in Steps /\ j \in 1..Len(m.res)
    BY <1>1, <1>2, <1>3, Assumed DEF Working, Sound, Prefix
  <2> QED BY <2>1, <1>2 DEF Working, Sound, Based
<1>8. Waiting(w, 0)
  BY <1>2 DEF Working, Waiting
<1> QED BY <1>1, <1>3, <1>4, <1>5, <1>6, <1>7, <1>8 DEF Judged, Sound, w

-----------------------------------------------------------------------------
(* Rolling back                                                             *)

\* Dropping the last results leaves a sound state whose results all passed.
LEMMA CutSound ==
  ASSUME NEW m, NEW n \in Int, Sound(m, n), NEW k \in 0..Len(m.res), k <= n,
         NEW b, DOMAIN b = Fields, b.rev \in Int, b.rev >= -1, b.contract \in Nat,
         b.res = SubSeq(m.res, 1, k), b.arts = UpTo(m.arts, k),
         b.cands \in Artifacts, b.basis = m.basis
  PROVE  Sound(b, Len(b.res)) /\ Len(b.res) = k
PROOF
<1>1. /\ m.res \in Seq(ResultType) /\ Len(m.res) \in Nat /\ Len(m.res) <= N
      /\ m.arts \in Artifacts /\ m.basis \in [Steps -> Artifacts] /\ N \in Nat
  BY Assumed DEF Sound, StateOK
<1>2. /\ b.res \in Seq(ResultType) /\ Len(b.res) = k /\ \A i \in 1..k : b.res[i] = m.res[i]
  BY <1>1, CutSeq
<1>3. b.arts \in Artifacts /\ \A i \in Steps : b.arts[i] = IF i <= k THEN m.arts[i] ELSE 0
  <2>1. b.arts \in Artifacts
    BY <1>1, UpToType
  <2>2. \A i \in Steps : b.arts[i] = IF i <= k THEN m.arts[i] ELSE 0
    BY DEF UpTo
  <2> QED BY <2>1, <2>2
<1>4. StateOK(b)
  BY <1>1, <1>2, <1>3 DEF StateOK
<1>5. Passed(b, k)
  BY <1>1, <1>2 DEF Sound, Passed
<1>6. Prefix(b)
  <2> SUFFICES ASSUME NEW j \in Steps
               PROVE  /\ b.arts[j] # 0 => j <= Len(b.res)
                      /\ b.arts[j] = 0 /\ j <= Len(b.res) => b.res[j].exec
    BY DEF Prefix
  <2>1. j \in Nat /\ j >= 1
    BY Assumed
  <2>2. m.arts[j] = 0 /\ j <= Len(m.res) => m.res[j].exec
    BY DEF Sound, Prefix
  <2> QED BY <2>1, <2>2, <1>1, <1>2, <1>3
<1>7. Based(b)
  <2> SUFFICES ASSUME NEW j \in 1..Len(b.res), NEW i \in 1..(j - 1),
                      b.arts[j] # 0, b.basis[j][i] # b.arts[i]
               PROVE  i \in Rewritable
    BY DEF Based
  <2>1. j \in Steps /\ i \in Steps /\ j <= k /\ i <= k /\ j \in 1..Len(m.res)
    BY <1>1, <1>2, Assumed
  <2>2. b.arts[j] = m.arts[j] /\ b.arts[i] = m.arts[i]
    BY <2>1, <1>3
  <2> QED BY <2>1, <2>2 DEF Sound, Based
<1> QED BY <1>2, <1>4, <1>5, <1>6, <1>7 DEF Sound

\* A local repair, a retry and an investigation take the failed step back.
LEMMA LocallyReady ==
  ASSUME NEW m, Judged(m), Len(m.res) = Here, NEW d
  PROVE  /\ Ready(ActedLocally(m, d))
         /\ ActedLocally(m, d).rev = m.rev + 1
PROOF
<1> DEFINE w == ActedLocally(m, d)
<1>1. /\ DOMAIN m = Fields /\ m.rev \in Int /\ m.rev >= -1 /\ m.contract \in Nat
      /\ m.res \in Seq(ResultType) /\ Len(m.res) \in Nat /\ Len(m.res) <= N
      /\ m.arts \in Artifacts /\ m.cands \in Artifacts /\ m.basis \in [Steps -> Artifacts]
      /\ Here \in Nat /\ Here >= 1 /\ Here \in Steps
  BY Assumed DEF Judged, Sound, StateOK
<1>2. /\ DOMAIN w = Fields /\ w.rev = m.rev + 1 /\ w.contract = m.contract
      /\ w.res = SubSeq(m.res, 1, Here - 1) /\ w.arts = [m.arts EXCEPT ![Here] = 0]
      /\ w.cands = [m.cands EXCEPT ![Here] = IF d.act = "local" THEN m.arts[Here] ELSE @]
      /\ w.basis = m.basis
  BY <1>1 DEF ActedLocally, Fields
<1> HIDE DEF w
<1>3. w.arts = UpTo(m.arts, Here - 1)
  <2>1. \A i \in Steps : i > Here => m.arts[i] = 0
    BY <1>1, Assumed DEF Judged, Sound, Prefix
  <2>2. \A i \in Steps : w.arts[i] = IF i <= Here - 1 THEN m.arts[i] ELSE 0
    BY <2>1, <1>1, <1>2, Assumed DEF Artifacts
  <2>3. UpTo(m.arts, Here - 1) \in Artifacts
        /\ \A i \in Steps : UpTo(m.arts, Here - 1)[i] = IF i <= Here - 1 THEN m.arts[i] ELSE 0
    <3>1. UpTo(m.arts, Here - 1) \in Artifacts
      BY <1>1, UpToType
    <3>2. \A i \in Steps : UpTo(m.arts, Here - 1)[i] = IF i <= Here - 1 THEN m.arts[i] ELSE 0
      BY DEF UpTo
    <3> QED BY <3>1, <3>2
  <2>4. w.arts \in Artifacts
    BY <1>1, <1>2, Assumed DEF Artifacts
  <2>5. \A i \in Steps : w.arts[i] = UpTo(m.arts, Here - 1)[i]
    BY <2>2, <2>3
  <2> QED BY <2>3, <2>4, <2>5 DEF Artifacts
<1>4. w.cands \in Artifacts /\ \A i \in Steps : w.cands[i] # 0 => i = Here
  BY <1>1, <1>2, Assumed DEF Artifacts, Judged, Waiting
<1>5. Sound(w, Len(w.res)) /\ Len(w.res) = Here - 1
  <2> DEFINE k == Here - 1
  <2>1. Sound(m, k) /\ k \in 0..Len(m.res) /\ k \in Int /\ k <= k
    BY <1>1 DEF Judged
  <2>2. /\ DOMAIN w = Fields /\ w.rev \in Int /\ w.rev >= -1 /\ w.contract \in Nat
        /\ w.res = SubSeq(m.res, 1, k) /\ w.arts = UpTo(m.arts, k)
        /\ w.cands \in Artifacts /\ w.basis = m.basis
    BY <1>1, <1>2, <1>3, <1>4
  <2> HIDE DEF k
  <2>3. Sound(w, Len(w.res)) /\ Len(w.res) = k
    BY <2>1, <2>2, CutSound
  <2> QED BY <2>3 DEF k
<1>6. Waiting(w, Len(w.res) + 1)
  BY <1>1, <1>4, <1>5 DEF Waiting
<1> QED BY <1>2, <1>5, <1>6 DEF Ready, w

\* A replan takes back everything from its target on and keeps the target's
\* artifact to be edited.
LEMMA ReplannedReady ==
  ASSUME NEW m, Judged(m), Len(m.res) = Here, NEW to \in 1..(Here - 1)
  PROVE  /\ Ready(Replanned(m, to))
         /\ Replanned(m, to).rev = m.rev + 1
PROOF
<1> DEFINE w == Replanned(m, to)
<1>1. /\ DOMAIN m = Fields /\ m.rev \in Int /\ m.rev >= -1 /\ m.contract \in Nat
      /\ m.res \in Seq(ResultType) /\ Len(m.res) \in Nat /\ Len(m.res) <= N
      /\ m.arts \in Artifacts /\ m.cands \in Artifacts /\ m.basis \in [Steps -> Artifacts]
      /\ Here \in Nat /\ Here >= 1 /\ to \in Steps
  BY Assumed DEF Judged, Sound, StateOK
<1>2. /\ DOMAIN Cut(m, to) = Fields /\ Cut(m, to).rev = m.rev
      /\ Cut(m, to).contract = m.contract
      /\ Cut(m, to).res = SubSeq(m.res, 1, to - 1) /\ Cut(m, to).arts = UpTo(m.arts, to - 1)
      /\ Cut(m, to).cands = [i \in Steps |-> IF i = to /\ m.arts[to] # 0 THEN m.arts[to]
                                             ELSE IF i <= to THEN m.cands[i] ELSE 0]
      /\ Cut(m, to).basis = m.basis
  BY <1>1 DEF Cut, Fields
<1>3. /\ DOMAIN w = Fields /\ w.rev = m.rev + 1 /\ w.contract = m.contract
      /\ w.res = SubSeq(m.res, 1, to - 1) /\ w.arts = UpTo(m.arts, to - 1)
      /\ w.cands = Cut(m, to).cands /\ w.basis = m.basis
  BY <1>2 DEF Replanned, Fields
<1> HIDE DEF w
<1>4. w.cands \in Artifacts /\ \A i \in Steps : w.cands[i] # 0 => i = to
  BY <1>1, <1>2, <1>3, Assumed DEF Artifacts, Judged, Waiting
<1>5. Sound(w, Len(w.res)) /\ Len(w.res) = to - 1
  <2> DEFINE k == to - 1
             n == Here - 1
  <2>1. Sound(m, n) /\ n \in Int /\ k \in 0..Len(m.res) /\ k <= n
    BY <1>1 DEF Judged
  <2>2. /\ DOMAIN w = Fields /\ w.rev \in Int /\ w.rev >= -1 /\ w.contract \in Nat
        /\ w.res = SubSeq(m.res, 1, k) /\ w.arts = UpTo(m.arts, k)
        /\ w.cands \in Artifacts /\ w.basis = m.basis
    BY <1>1, <1>3, <1>4
  <2> HIDE DEF k, n
  <2>3. Sound(w, Len(w.res)) /\ Len(w.res) = k
    BY <2>1, <2>2, CutSound
  <2> QED BY <2>3 DEF k
<1>6. Waiting(w, Len(w.res) + 1)
  BY <1>1, <1>4, <1>5 DEF Waiting
<1> QED BY <1>3, <1>5, <1>6 DEF Ready, w

\* What restore accepts is checked anew against the artifacts it comes back with.
LEMMA RestoredReady ==
  ASSUME Saved(disk), disk.rev \in Int,
         NEW k \in 0..Len(disk.res), \A i \in 1..k : ~Unacceptable(disk, i),
         NEW kept, NEW from, NEW forced, NEW w, w = Restored(disk, k, kept, from, forced)
  PROVE  /\ Ready(w) /\ DOMAIN w = Fields /\ Len(w.res) = k
         /\ w.contract = disk.contract
         /\ w.rev >= disk.rev /\ (w.rev = disk.rev => k = Len(disk.res))
PROOF
<1>1. /\ DOMAIN disk = Fields /\ disk.rev \in Int /\ disk.rev >= -1 /\ disk.contract \in Nat
      /\ disk.res \in Seq(ResultType) /\ Len(disk.res) \in Nat /\ Len(disk.res) <= N
      /\ disk.arts \in Artifacts /\ disk.cands \in Artifacts
      /\ N \in Nat
  BY Assumed DEF Saved, Sound, StateOK
<1>2. /\ DOMAIN w = Fields /\ w.contract = disk.contract
      /\ w.res = SubSeq(disk.res, 1, k) /\ w.arts = UpTo(disk.arts, k)
      /\ w.cands = NextCandidate(disk, k, kept, from)
      /\ w.basis = [i \in Steps |-> IF i <= k THEN UpTo(disk.arts, i - 1) ELSE NoArtifacts]
      /\ w.rev = IF forced \/ k < Len(disk.res) THEN disk.rev + 1 ELSE disk.rev
  BY <1>1 DEF Restored, Fields
<1>2a. w.rev \in {disk.rev, disk.rev + 1} /\ (k < Len(disk.res) => w.rev = disk.rev + 1)
  BY <1>1, <1>2
<1>3. /\ w.res \in Seq(ResultType) /\ Len(w.res) = k
      /\ \A i \in 1..k : w.res[i] = disk.res[i]
  BY <1>1, <1>2, CutSeq
<1>4. w.arts \in Artifacts /\ \A i \in Steps : w.arts[i] = IF i <= k THEN disk.arts[i] ELSE 0
  <2>1. UpTo(disk.arts, k) \in Artifacts
    BY <1>1, UpToType
  <2>2. \A i \in Steps : UpTo(disk.arts, k)[i] = IF i <= k THEN disk.arts[i] ELSE 0
    BY DEF UpTo
  <2> QED BY <2>1, <2>2, <1>2
<1>5. w.cands \in Artifacts /\ \A i \in Steps : w.cands[i] # 0 => i = k + 1
  <2>1. CASE k = N
    BY <2>1, <1>2, Assumed DEF NextCandidate, NoArtifacts
  <2>2. CASE k # N
    <3>1. k + 1 \in Steps
      BY <2>2, <1>1, Assumed
    <3>2. disk.arts[k + 1] \in AnyPrint /\ disk.cands[k + 1] \in AnyPrint /\ 0 \in AnyPrint
      BY <3>1, <1>1, Assumed DEF Artifacts
    <3>3. \/ w.cands = NoArtifacts
          \/ w.cands = [NoArtifacts EXCEPT ![k + 1] = disk.arts[k + 1]]
          \/ w.cands = [NoArtifacts EXCEPT ![k + 1] = 0]
          \/ w.cands = [NoArtifacts EXCEPT ![k + 1] = disk.cands[k + 1]]
      BY <2>2, <1>2 DEF NextCandidate
    <3>4. \A p \in AnyPrint : LET f == [NoArtifacts EXCEPT ![k + 1] = p] IN
            f \in Artifacts /\ \A i \in Steps : f[i] # 0 => i = k + 1
      BY <3>1, Assumed DEF Artifacts, NoArtifacts
    <3>5. NoArtifacts \in Artifacts /\ \A i \in Steps : NoArtifacts[i] = 0
      BY Assumed DEF NoArtifacts
    <3>6. CASE w.cands = NoArtifacts
      BY <3>5, <3>6
    <3>7. ASSUME NEW p \in AnyPrint, w.cands = [NoArtifacts EXCEPT ![k + 1] = p]
          PROVE  w.cands \in Artifacts /\ \A i \in Steps : w.cands[i] # 0 => i = k + 1
      BY <3>4, <3>7
    <3>8. \A p \in AnyPrint : w.cands = [NoArtifacts EXCEPT ![k + 1] = p]
            => w.cands \in Artifacts /\ \A i \in Steps : w.cands[i] # 0 => i = k + 1
      BY <3>7
    <3> QED BY <3>2, <3>3, <3>6, <3>8, Zenon
  <2> QED BY <2>1, <2>2
<1>6. w.basis \in [Steps -> Artifacts]
  <2>1. \A i \in Steps : UpTo(disk.arts, i - 1) \in Artifacts
    BY <1>1, UpToType
  <2> QED BY <2>1, <1>2, Assumed
<1>7. StateOK(w)
  BY <1>1, <1>2, <1>2a, <1>3, <1>4, <1>5, <1>6 DEF StateOK
<1>8. Passed(w, k)
  BY <1>1, <1>3 DEF Unacceptable, Passed
<1>9. Prefix(w)
  <2> SUFFICES ASSUME NEW j \in Steps
               PROVE  /\ w.arts[j] # 0 => j <= Len(w.res)
                      /\ w.arts[j] = 0 /\ j <= Len(w.res) => w.res[j].exec
    BY DEF Prefix
  <2>1. j \in Nat /\ j >= 1
    BY Assumed
  <2>2. disk.arts[j] = 0 /\ j <= Len(disk.res) => disk.res[j].exec
    BY DEF Saved, Sound, Prefix
  <2> QED BY <2>1, <2>2, <1>1, <1>3, <1>4
<1>10. Based(w)
  <2> SUFFICES ASSUME NEW j \in 1..Len(w.res), NEW i \in 1..(j - 1)
               PROVE  w.basis[j][i] = w.arts[i]
    BY DEF Based
  <2>1. j \in Steps /\ i \in Steps /\ j <= k /\ i <= k /\ i <= j - 1 /\ j - 1 \in Int
    BY <1>1, <1>3, Assumed
  <2>2. w.basis[j] = UpTo(disk.arts, j - 1) /\ w.arts[i] = disk.arts[i]
    BY <2>1, <1>2, <1>4
  <2>3. UpTo(disk.arts, j - 1)[i] = IF i <= j - 1 THEN disk.arts[i] ELSE 0
    BY <2>1 DEF UpTo
  <2> QED BY <2>1, <2>2, <2>3
<1>11. Waiting(w, k + 1)
  BY <1>5 DEF Waiting
<1> QED BY <1>1, <1>2, <1>2a, <1>3, <1>7, <1>8, <1>9, <1>10, <1>11 DEF Ready, Sound

-----------------------------------------------------------------------------
(* The forms of a state, and the operators that leave its core alone         *)

LEMMA Forms ==
  ASSUME NEW m
  PROVE  /\ Saved(m) => StateOK(m)
         /\ Ready(m) => StateOK(m) /\ Saved(m)
         /\ Working(m) => StateOK(m)
         /\ Judged(m) => StateOK(m)
         /\ StateOK(m) => DOMAIN m = Fields /\ m.rev \in Int /\ m.rev >= -1 /\ Len(m.res) \in Nat
PROOF
<1>1. StateOK(m) => DOMAIN m = Fields /\ m.rev \in Int /\ m.rev >= -1 /\ Len(m.res) \in Nat
  BY DEF StateOK
<1>2. Ready(m) => Sound(m, Len(m.res) - 1)
  BY <1>1 DEF Ready, Sound, Passed
<1> QED BY <1>1, <1>2 DEF Saved, Ready, Working, Judged, Sound

LEMMA BlankForms ==
  /\ Ready(Blank) /\ DOMAIN Blank = Fields /\ Blank.rev = 0 /\ Len(Blank.res) = 0
  /\ Saved(NoFile) /\ NoFile.rev = -1 /\ Blank.contract = NoFile.contract
PROOF
<1>1. /\ DOMAIN Blank = Fields /\ Blank.rev = 0 /\ Blank.contract = 0 /\ Blank.res = <<>>
      /\ Blank.arts = NoArtifacts /\ Blank.cands = NoArtifacts
      /\ Blank.basis = [i \in Steps |-> NoArtifacts]
  BY DEF Blank, Fields
<1>2. /\ DOMAIN NoFile = Fields /\ NoFile.rev = -1 /\ NoFile.contract = 0 /\ NoFile.res = <<>>
      /\ NoFile.arts = NoArtifacts /\ NoFile.cands = NoArtifacts
      /\ NoFile.basis = [i \in Steps |-> NoArtifacts]
  BY <1>1 DEF NoFile, Fields
<1>3. <<>> \in Seq(ResultType) /\ Len(<<>>) = 0
  OBVIOUS
<1>4. \A m : /\ DOMAIN m = Fields /\ m.rev \in Int /\ m.rev >= -1 /\ m.contract = 0
             /\ m.res = <<>> /\ m.arts = NoArtifacts /\ m.cands = NoArtifacts
             /\ m.basis = [i \in Steps |-> NoArtifacts]
             => /\ StateOK(m) /\ Prefix(m) /\ Based(m) /\ Waiting(m, 1)
                /\ Passed(m, 0) /\ Passed(m, -1)
  <2> SUFFICES ASSUME NEW m, DOMAIN m = Fields, m.rev \in Int, m.rev >= -1, m.contract = 0,
                      m.res = <<>>, m.arts = NoArtifacts, m.cands = NoArtifacts,
                      m.basis = [i \in Steps |-> NoArtifacts]
               PROVE  /\ StateOK(m) /\ Prefix(m) /\ Based(m) /\ Waiting(m, 1)
                      /\ Passed(m, 0) /\ Passed(m, -1)
    OBVIOUS
  <2>1. StateOK(m)
    BY <1>3, Assumed DEF StateOK
  <2>2. Prefix(m)
    BY <1>3, Assumed DEF Prefix, NoArtifacts
  <2>3. Based(m) /\ Passed(m, 0) /\ Passed(m, -1)
    BY <1>3 DEF Based, Passed
  <2>4. Waiting(m, 1)
    BY DEF Waiting, NoArtifacts
  <2> QED BY <2>1, <2>2, <2>3, <2>4
<1> QED BY <1>1, <1>2, <1>3, <1>4 DEF Ready, Saved, Sound

LEMMA CoreKept ==
  ASSUME NEW m, DOMAIN m = Fields
  PROVE  /\ SameCore(m, Observed(m)) /\ Observed(m).rev = m.rev
         /\ \A d : SameCore(m, Planned(m, d)) /\ Planned(m, d).rev = m.rev
         /\ \A to, limit : SameCore(m, Stopped(m, to, limit)) /\ Stopped(m, to, limit).rev = m.rev
         /\ \A k : LET w == [m EXCEPT !.replans[k].status = "recovered"] IN
                   SameCore(m, w) /\ w.rev = m.rev
PROOF
<1>1. SameCore(m, Observed(m)) /\ Observed(m).rev = m.rev
  BY DEF Observed, SameCore, Fields
<1>2. \A d : SameCore(m, Planned(m, d)) /\ Planned(m, d).rev = m.rev
  BY DEF Planned, SameCore, Fields
<1>3. \A to, limit : SameCore(m, Stopped(m, to, limit)) /\ Stopped(m, to, limit).rev = m.rev
  BY DEF Stopped, SameCore, Fields
<1>4. \A k : LET w == [m EXCEPT !.replans[k].status = "recovered"] IN
             SameCore(m, w) /\ w.rev = m.rev
  BY DEF SameCore, Fields
<1> QED BY <1>1, <1>2, <1>3, <1>4

LEMMA RepairedCore ==
  ASSUME NEW m, StateOK(m), NEW status
  PROVE  /\ SameCore(m, Repaired(m, status))
         /\ Repaired(m, status).rev \in {m.rev, m.rev + 1}
PROOF BY DEF StateOK, Repaired, SameCore, Fields

\* A candidate is taken when its step begins.
LEMMA TakenWorking ==
  ASSUME NEW m, Ready(m), Len(m.res) < N
  PROVE  LET w == [m EXCEPT !.cands[Len(m.res) + 1] = 0] IN
         /\ Working(w) /\ Ready(w) /\ w.rev = m.rev /\ w.contract = m.contract /\ w.res = m.res
PROOF
<1> DEFINE w == [m EXCEPT !.cands[Len(m.res) + 1] = 0]
<1>1. /\ DOMAIN m = Fields /\ m.cands \in Artifacts /\ Len(m.res) \in Nat /\ StateOK(m)
  BY DEF Ready, Sound, StateOK
<1>2. /\ DOMAIN w = Fields /\ w.rev = m.rev /\ w.contract = m.contract /\ w.res = m.res
      /\ w.arts = m.arts /\ w.basis = m.basis
      /\ w.cands = [m.cands EXCEPT ![Len(m.res) + 1] = 0]
  BY <1>1 DEF Fields
<1> HIDE DEF w
<1>3. w.cands \in Artifacts /\ \A i \in Steps : w.cands[i] = 0
  BY <1>1, <1>2, Assumed DEF Artifacts, Ready, Waiting
<1>4. Sound(w, Len(w.res))
  BY <1>1, <1>2, <1>3 DEF Ready, Sound, StateOK, Prefix, Passed, Based
<1> QED BY <1>2, <1>3, <1>4 DEF Working, Ready, Waiting, w

-----------------------------------------------------------------------------
(* Writing the checkpoint                                                    *)

LEMMA InvMem ==
  ASSUME PipelineInv
  PROVE  StateOK(mem) /\ StateOK(disk) /\ pc \in {"idle", "loop", "repair", "judge", "end"}
PROOF BY Forms, BlankForms DEF PipelineInv

LEMMA FirstState ==
  ASSUME Init
  PROVE  PipelineInv
PROOF
<1>1. disk = NoFile /\ mem = Blank /\ pc = "idle" /\ ~refused /\ until = 0
  BY DEF Init
<1>2. trouble \subseteq Kinds
  BY PipelineAssumption DEF PipelineAssumption, Init
<1> QED BY <1>1, <1>2, BlankForms DEF PipelineInv

LEMMA SaveKeeps ==
  ASSUME PipelineInv, pc # "idle", NEW m, NEW next \in {"loop", "end"}, Save(m, next),
         Saved(m), next = "loop" => Ready(m), Follows(mem, m),
         until' \in {0} \union Steps, trouble' \subseteq Kinds
  PROVE  PipelineInv'
PROOF
<1>1. ~Regresses(m)
  BY InvMem, Forms, FollowsWritable DEF PipelineInv
<1>2. disk' = m /\ mem' = m /\ pc' = next /\ refused' = refused
  BY <1>1 DEF Save
<1>3. ~Regresses(mem)'
  BY <1>2, Forms DEF Regresses
<1> QED BY <1>2, <1>3 DEF PipelineInv

LEMMA CloseKeeps ==
  ASSUME PipelineInv, NEW m, Working(m), NEW e, EvalOK(e), ~Regresses(m), Close(m, e),
         UNCHANGED <<disk, until, refused, trouble>>
  PROVE  PipelineInv'
PROOF
<1>1. PICK arts \in Rewrites(m.arts, IF e.fails = {} THEN Merges[At(m)] ELSE {}) :
        mem' = Record(m, e, arts) /\ pc' = "judge"
  BY DEF Close
<1> DEFINE w == Record(m, e, arts)
<1>2. Judged(w) /\ w.rev = m.rev /\ w.contract = m.contract /\ Len(w.res) = Len(m.res) + 1
  BY RecordJudged
<1> HIDE DEF w
<1>3. StateOK(m) /\ StateOK(w) /\ StateOK(disk)
  BY <1>2, Forms, InvMem
<1>4. Follows(m, w)
  BY <1>2, <1>3, Forms DEF Follows
<1>5. ~Regresses(w)
  BY <1>3, <1>4, FollowsWritable
<1>6. mem' = w
  BY <1>1 DEF w
<1>7. ~Regresses(mem)'
  BY <1>5, <1>6 DEF Regresses
<1> QED BY <1>1, <1>2, <1>6, <1>7 DEF PipelineInv

LEMMA ProceedKeeps ==
  ASSUME PipelineInv, NEW m, Working(m), NEW e, EvalOK(e), ~Regresses(m),
         NEW loop, Proceed(m, e, loop), UNCHANGED <<disk, until, refused, trouble>>
  PROVE  PipelineInv'
PROOF
<1>1. CASE Close(m, e)
  BY <1>1, CloseKeeps
<1>2. CASE pc' = "repair" /\ mem' = m /\ ev' = e
  <2>1. ~Regresses(mem)'
    BY <1>2 DEF Regresses
  <2> QED BY <1>2, <2>1 DEF PipelineInv
<1> QED BY <1>1, <1>2 DEF Proceed

\* An evaluation of something a producer may yield is one the loop may judge.
LEMMA EvalsOK ==
  ASSUME NEW i \in Steps, NEW arts \in SUBSET (AnyPrint \ {0}), NEW e \in Evals(i, arts)
  PROVE  EvalOK(e)
PROOF
<1>1. PICK a, f, x : a \in arts /\ e = Evaluation(a, f, x)
  BY DEF Evals
<1>2. /\ e.art = a /\ e.fails = f /\ e.exec \in BOOLEAN
      /\ e.exec => f \intersect Blocking # {}
  BY <1>1 DEF Evaluation
<1>3. f \intersect Blocking # {} => f # {}
  OBVIOUS
<1> QED BY <1>1, <1>2, <1>3 DEF EvalOK

LEMMA BaselinesProduced ==
  ASSUME NEW m, StateOK(m), NEW i \in Steps
  PROVE  Baselines(m, i) \subseteq AnyPrint \ {0}
PROOF
<1>1. m.cands[i] \in AnyPrint /\ Prints[i] \subseteq AnyPrint \ {0}
  BY Assumed DEF StateOK, Artifacts
<1>2. \/ Baselines(m, i) = {m.cands[i]} /\ m.cands[i] # 0
      \/ Baselines(m, i) = Prints[i]
  BY DEF Baselines
<1> QED BY <1>1, <1>2

\* A running process has a step to take.
LEMMA StepToTake ==
  ASSUME PipelineInv, Running
  PROVE  /\ Ready(mem) /\ Len(mem.res) < N /\ At(mem) \in Steps /\ pc = "loop"
         /\ Len(mem.res) \in Nat /\ At(mem) = Len(mem.res) + 1
PROOF
<1>1. Ready(mem) /\ pc = "loop" /\ At(mem) <= until /\ until \in {0} \union Steps
  BY DEF PipelineInv, Running
<1>2. Len(mem.res) \in Nat /\ At(mem) = Len(mem.res) + 1
  BY InvMem, Forms DEF At
<1> QED BY <1>1, <1>2, Assumed

LEMMA RunStepKeeps ==
  ASSUME PipelineInv, RunStep
  PROVE  PipelineInv'
PROOF
<1> DEFINE i == At(mem)
           m == [mem EXCEPT !.cands[i] = 0]
<1>1. /\ Ready(mem) /\ i \in Steps /\ i = Len(mem.res) + 1 /\ Len(mem.res) < N
  BY StepToTake DEF RunStep
<1>2. PICK e, loop : e \in Evals(i, Baselines(mem, i)) /\ Proceed(m, e, loop)
  BY DEF RunStep
<1>3. EvalOK(e)
  BY <1>1, <1>2, InvMem, BaselinesProduced, EvalsOK
<1>4. Working(m) /\ m.rev = mem.rev /\ m.contract = mem.contract /\ m.res = mem.res
  BY <1>1, TakenWorking
<1>5. Follows(mem, m) /\ StateOK(m)
  BY <1>4, Forms, InvMem DEF Follows
<1>6. ~Regresses(m)
  BY <1>1, <1>5, InvMem, FollowsWritable DEF PipelineInv, RunStep, Running
<1>7. UNCHANGED <<disk, until, refused, trouble>>
  BY DEF RunStep, ledger
<1> HIDE DEF m, i
<1> QED BY <1>2, <1>3, <1>4, <1>6, <1>7, ProceedKeeps

LEMMA RepairedWorking ==
  ASSUME PipelineInv, pc = "repair", NEW status
  PROVE  LET m == Repaired(mem, status) IN
         /\ Working(m) /\ ~Regresses(m) /\ StateOK(m) /\ m.res = mem.res /\ m.arts = mem.arts
         /\ Follows(mem, m)
PROOF
<1> DEFINE m == Repaired(mem, status)
<1>1. Working(mem) /\ StateOK(mem) /\ ~Regresses(mem)
  BY InvMem DEF PipelineInv
<1>2. SameCore(mem, m) /\ m.rev \in {mem.rev, mem.rev + 1}
  BY <1>1, RepairedCore
<1> HIDE DEF m
<1>3. Working(m)
  BY <1>1, <1>2, CoreForms, Forms
<1>4. Follows(mem, m)
  BY <1>1, <1>2, Forms DEF Follows, SameCore
<1> QED BY <1>1, <1>2, <1>3, <1>4, Forms, InvMem, FollowsWritable DEF SameCore, m

LEMMA RepairErrorKeeps ==
  ASSUME PipelineInv, RepairError
  PROVE  PipelineInv'
PROOF
<1>1. /\ pc = "repair" /\ EvalOK(ev) /\ Close(Repaired(mem, "error"), ev)
      /\ UNCHANGED <<disk, until, refused, trouble>>
  BY DEF RepairError, ledger, PipelineInv
<1>2. Working(Repaired(mem, "error")) /\ ~Regresses(Repaired(mem, "error"))
  BY <1>1, RepairedWorking
<1> QED BY <1>1, <1>2, CloseKeeps

LEMMA RepairOutOfTimeKeeps ==
  ASSUME PipelineInv, RepairOutOfTime
  PROVE  PipelineInv'
PROOF
<1>1. /\ Working(mem) /\ EvalOK(ev) /\ ~Regresses(mem) /\ Close(mem, ev)
      /\ UNCHANGED <<disk, until, refused, trouble>>
  BY DEF RepairOutOfTime, ledger, PipelineInv
<1> QED BY <1>1, CloseKeeps

LEMMA RepairAttemptKeeps ==
  ASSUME PipelineInv, RepairAttempt
  PROVE  PipelineInv'
PROOF
<1>1. PICK e, arts, status, f, loop :
        /\ e \in Evals(At(mem), Prints[At(mem)]) /\ arts \in Rewrites(mem.arts, Swaps[At(mem)])
        /\ f = e \/ f = ev
        /\ Proceed([Repaired(mem, status) EXCEPT !.arts = arts], f, loop)
  BY DEF RepairAttempt
<1> DEFINE r == Repaired(mem, status)
           m == [r EXCEPT !.arts = arts]
<1>2. /\ Working(mem) /\ EvalOK(ev) /\ pc = "repair"
      /\ UNCHANGED <<disk, until, refused, trouble>>
  BY DEF RepairAttempt, ledger, PipelineInv
<1>3. At(mem) \in Steps /\ At(mem) = Len(mem.res) + 1 /\ Len(mem.res) \in Nat
  BY <1>2, Forms, Assumed DEF Working, At
<1>4. EvalOK(f)
  <2>1. Prints[At(mem)] \in SUBSET (AnyPrint \ {0})
    BY <1>3, Assumed
  <2>2. EvalOK(e)
    BY <1>1, <1>3, <2>1, EvalsOK
  <2> QED BY <1>1, <1>2, <2>2
<1>5. /\ Working(r) /\ ~Regresses(r) /\ StateOK(r) /\ r.res = mem.res /\ r.arts = mem.arts
  BY <1>2, RepairedWorking
<1> HIDE DEF r
<1>6. /\ DOMAIN r = Fields /\ m.arts = arts /\ m.res = r.res /\ m.rev = r.rev
      /\ m.contract = r.contract /\ m.cands = r.cands
  BY <1>5, Forms DEF Fields
<1>7. Sound(m, Len(r.res))
  <2>1. Swaps[At(mem)] \in SUBSET Steps
        /\ \A j \in Swaps[At(mem)] : j \in Rewritable /\ j <= Len(r.res)
    BY <1>3, <1>5, Assumed
  <2>2. Sound(r, Len(r.res)) /\ Len(r.res) \in Int /\ arts \in Rewrites(r.arts, Swaps[At(mem)])
    BY <1>1, <1>3, <1>5 DEF Working
  <2> QED BY <2>1, <2>2, RewriteSound
<1> HIDE DEF m
<1>8. Working(m) /\ ~Regresses(m)
  BY <1>5, <1>6, <1>7 DEF Working, Waiting, Regresses
<1> QED BY <1>1, <1>2, <1>4, <1>8, ProceedKeeps DEF m, r

LEMMA StepRaisesKeeps ==
  ASSUME PipelineInv, StepRaises
  PROVE  PipelineInv'
PROOF
<1> DEFINE i == At(mem)
           m == [mem EXCEPT !.cands[i] = 0]
<1>1. /\ i \in Steps /\ i = Len(mem.res) + 1 /\ Len(mem.res) \in Nat
      /\ Len(mem.res) < N /\ pc # "idle" /\ Ready(mem)
  <2>1. CASE Running
    BY <2>1, StepToTake
  <2>2. CASE pc = "repair"
    <3>1. Working(mem) /\ Len(mem.res) \in Nat
      BY <2>2, InvMem, Forms DEF PipelineInv
    <3>2. Waiting(mem, Len(mem.res) + 1)
      BY <3>1, Assumed DEF Working, Waiting
    <3>3. i = Len(mem.res) + 1 /\ Len(mem.res) < N
      BY <3>1 DEF At, Working
    <3> QED BY <2>2, <3>1, <3>2, <3>3, Assumed DEF Working, Ready
  <2> QED BY <2>1, <2>2 DEF StepRaises
<1>2. ~Regresses(mem) /\ UNCHANGED <<disk, refused, trouble>>
  BY <1>1 DEF StepRaises, PipelineInv
<1>4. Working(m) /\ Ready(m) /\ m.rev = mem.rev /\ m.contract = mem.contract /\ m.res = mem.res
  BY <1>1, TakenWorking
<1> DEFINE Escapes == pc' = "idle" /\ mem' = Blank /\ until' = 0
           Again == pc' = "loop" /\ mem' = m /\ until' = until
           Fails(r) == pc' = "judge" /\ mem' = [m EXCEPT !.res = Append(@, r)] /\ until' = until
<1>5. Escapes \/ Again \/ \E r \in ResultType : r.exec /\ Fails(r)
  <2>1. \A k : LET r == Result([art |-> 0, fails |-> {k}, exec |-> TRUE, detail |-> 0]) IN
               r \in ResultType /\ r.exec
    BY DEF Result, ResultType
  <2> QED BY <2>1 DEF StepRaises, Leave
<1> HIDE DEF m
<1>6. CASE Escapes
  BY <1>2, <1>6 DEF PipelineInv
<1>7. CASE Again
  <2>1. ~Regresses(mem)'
    BY <1>2, <1>4, <1>7 DEF Regresses
  <2> QED BY <1>2, <1>4, <1>7, <2>1 DEF PipelineInv
<1>8. ASSUME NEW r \in ResultType, r.exec, Fails(r)
      PROVE  PipelineInv'
  <2> DEFINE w == [m EXCEPT !.res = Append(@, r)]
  <2>1. Judged(w)
    BY <1>4, <1>8, RaisedJudged
  <2>2. StateOK(m) /\ StateOK(w) /\ w.rev = m.rev /\ w.contract = m.contract /\ w.res = Append(m.res, r)
    BY <2>1, <1>4, Forms DEF Fields
  <2>3. m.res \in Seq(ResultType) /\ Len(w.res) = Len(m.res) + 1
    BY <2>2, <1>8 DEF StateOK
  <2>4. mem' = w
    BY <1>8
  <2> HIDE DEF w
  <2>5. Follows(mem, w)
    BY <2>2, <2>3, <1>1, <1>4, Forms DEF Follows
  <2>6. ~Regresses(w)
    BY <2>2, <2>5, <1>2, InvMem, FollowsWritable
  <2>7. ~Regresses(mem)'
    BY <2>4, <2>6, <1>2 DEF Regresses
  <2> QED BY <2>1, <2>4, <2>7, <1>2, <1>8 DEF PipelineInv
<1> QED BY <1>5, <1>6, <1>7, <1>8

LEMMA SaveProgressKeeps ==
  ASSUME PipelineInv, SaveProgress
  PROVE  PipelineInv'
PROOF
<1> DEFINE i == At(mem)
           m == [mem EXCEPT !.cands[i] = 0]
<1>1. Ready(mem) /\ i = Len(mem.res) + 1 /\ Len(mem.res) < N /\ pc = "loop"
  BY StepToTake DEF SaveProgress
<1>2. Ready(m) /\ m.rev = mem.rev /\ m.contract = mem.contract /\ m.res = mem.res
  BY <1>1, TakenWorking
<1>3. Save(m, "loop") /\ until' = until /\ trouble' = trouble
  BY DEF SaveProgress, ledger
<1> HIDE DEF m
<1>4. Follows(mem, m)
  BY <1>2, InvMem, Forms DEF Follows
<1>5. until' \in {0} \union Steps /\ trouble' \subseteq Kinds
  BY <1>3 DEF PipelineInv
<1> QED BY <1>1, <1>2, <1>3, <1>4, <1>5, Forms, SaveKeeps

-----------------------------------------------------------------------------
(* After a step's result                                                     *)

LEMMA JudgedHere ==
  ASSUME PipelineInv, pc = "judge"
  PROVE  /\ Judged(mem) /\ ~Regresses(mem) /\ Here \in Steps /\ Here = Len(mem.res)
         /\ Here \in Nat /\ StateOK(mem)
         /\ Judged(Observed(mem)) /\ SameCore(mem, Observed(mem)) /\ Observed(mem).rev = mem.rev
         /\ StateOK(Observed(mem))
PROOF
<1>1. Judged(mem) /\ ~Regresses(mem) /\ StateOK(mem)
  BY InvMem DEF PipelineInv
<1>2. Here \in Steps /\ Here = Len(mem.res) /\ Here \in Nat
  BY <1>1, Assumed DEF Here, Judged, StateOK
<1>3. SameCore(mem, Observed(mem)) /\ Observed(mem).rev = mem.rev
  BY <1>1, Forms, CoreKept
<1>4. Judged(Observed(mem))
  BY <1>1, <1>3, CoreForms, Forms
<1> QED BY <1>1, <1>2, <1>3, <1>4, Forms

LEMMA ContinueKeeps ==
  ASSUME PipelineInv, Continue
  PROVE  PipelineInv'
PROOF
<1>1. PICK k, m : /\ m = Observed(mem) \/ m = [Observed(mem) EXCEPT !.replans[k].status = "recovered"]
                  /\ Save(m, "loop")
  BY DEF Continue
<1>2. /\ pc = "judge" /\ CanContinue /\ until' = until /\ trouble' = trouble
  BY DEF Continue, ledger
<1>3. /\ SameCore(Observed(mem), m) /\ m.rev = mem.rev /\ SameCore(mem, m)
  <2> DEFINE o == Observed(mem)
  <2>1. DOMAIN o = Fields /\ SameCore(mem, o) /\ o.rev = mem.rev
    BY <1>2, JudgedHere, Forms
  <2>2. m = o \/ m = [o EXCEPT !.replans[k].status = "recovered"]
    BY <1>1
  <2> HIDE DEF o
  <2>3. m = o => SameCore(o, m) /\ m.rev = o.rev
    BY DEF SameCore
  <2>4. m = [o EXCEPT !.replans[k].status = "recovered"] => SameCore(o, m) /\ m.rev = o.rev
    BY <2>1 DEF SameCore, Fields
  <2>5. SameCore(o, m) /\ m.rev = o.rev
    BY <2>2, <2>3, <2>4
  <2> QED BY <2>1, <2>5 DEF SameCore, o
<1>4. Judged(m) /\ StateOK(m)
  BY <1>2, <1>3, JudgedHere, CoreForms, Forms
<1>5. ~m.res[Len(m.res)].exec
  <2>1. /\ mem.res \in Seq(ResultType) /\ Len(mem.res) \in 1..Len(mem.res)
    BY <1>2, JudgedHere DEF Judged, StateOK
  <2>2. mem.res[Len(mem.res)] \in ResultType
    BY <2>1
  <2> QED BY <1>2, <1>3, <2>2 DEF CanContinue, Last, ResultType, SameCore
<1>6. Ready(m)
  <2>1. Passed(m, Len(m.res))
    BY <1>4, <1>5, Forms DEF Judged, Sound, Passed
  <2>2. Waiting(m, Len(m.res) + 1)
    BY <1>4, Assumed DEF Judged, Waiting
  <2> QED BY <1>4, <2>1, <2>2 DEF Judged, Sound, Ready
<1>7. Follows(mem, m)
  BY <1>3, <1>4, Forms DEF Follows, SameCore
<1>8. until' \in {0} \union Steps /\ trouble' \subseteq Kinds
  BY <1>2 DEF PipelineInv
<1> QED BY <1>1, <1>2, <1>6, <1>7, <1>8, Forms, SaveKeeps

\* A replan asked for goes back to an earlier step.
LEMMA DecisionTarget ==
  ASSUME NEW m, NEW suggested, NEW d \in Decisions(m, suggested), d.act = "replan"
  PROVE  d.to \in 2..(Here - 1)
PROOF
<1>1. Allowed(m) \subseteq 2..(Here - 1)
  BY DEF Allowed
<1>2. CASE d \in Fallback(m, suggested)
  BY <1>1, <1>2 DEF Fallback, Decision
<1>3. CASE d \notin Fallback(m, suggested)
  BY <1>1, <1>3 DEF Decisions
<1> QED BY <1>2, <1>3

\* What asking for the owner rewrites stays judged.
LEMMA SuggestedJudged ==
  ASSUME PipelineInv, pc = "judge", NEW s \in Suggestions(mem)
  PROVE  LET m == [Observed(mem) EXCEPT !.arts = s[2]] IN
         /\ Judged(m) /\ StateOK(m) /\ m.rev = mem.rev /\ m.contract = mem.contract
         /\ m.res = mem.res
         /\ s[1] \in 0..(Here - 1)
PROOF
<1> DEFINE o == Observed(mem)
           m == [o EXCEPT !.arts = s[2]]
<1>1. /\ Judged(o) /\ SameCore(mem, o) /\ o.rev = mem.rev /\ StateOK(o)
      /\ Here \in Steps /\ Here = Len(mem.res) /\ Here \in Nat
  BY JudgedHere
<1>2. /\ s[1] \in {0, Owner[Here]}
      /\ s[2] = mem.arts \/ s[2] \in Rewrites(mem.arts, Substitutes[Here])
  <2>1. CASE s = <<0, mem.arts>>
    BY <2>1
  <2>2. CASE \E a \in Rewrites(mem.arts, Substitutes[Here]) : s = <<Owner[Here], a>>
    BY <2>2
  <2> QED BY <2>1, <2>2 DEF Suggestions
<1>3. s[1] \in 0..(Here - 1)
  BY <1>1, <1>2, Assumed
<1>4. mem.arts \in Rewrites(mem.arts, Substitutes[Here])
  BY DEF Rewrites
<1>5. s[2] \in Rewrites(o.arts, Substitutes[Here]) /\ o.res = mem.res
  BY <1>1, <1>2, <1>4 DEF SameCore
<1> HIDE DEF o
<1>6. /\ DOMAIN o = Fields /\ m.arts = s[2] /\ m.res = o.res /\ m.rev = o.rev
      /\ m.contract = o.contract /\ m.cands = o.cands
  BY <1>1, Forms DEF Fields
<1>7. Sound(m, Here - 1)
  <2>1. /\ Substitutes[Here] \in SUBSET Steps
        /\ \A j \in Substitutes[Here] : j \in Rewritable /\ j <= Here - 1 /\ j <= Len(o.res)
    BY <1>1, <1>5, Assumed
  <2>2. Sound(o, Here - 1) /\ Here - 1 \in Int
    BY <1>1, <1>5 DEF Judged
  <2> QED BY <2>1, <2>2, <1>5, RewriteSound
<1> HIDE DEF m
<1>8. Judged(m)
  BY <1>1, <1>5, <1>6, <1>7 DEF Judged, Waiting
<1> QED BY <1>1, <1>3, <1>5, <1>6, <1>8, Forms DEF SameCore, m, o

LEMMA FallKeeps ==
  ASSUME PipelineInv, pc = "judge", NEW m, Judged(m), m.rev = mem.rev,
         m.contract = mem.contract, m.res = mem.res,
         NEW to \in 0..(Here - 1), Fall(m, to),
         until' \in {0} \union Steps, trouble' \subseteq Kinds
  PROVE  PipelineInv'
PROOF
<1>1. Len(m.res) = Here /\ StateOK(m) /\ StateOK(mem)
  BY JudgedHere, Forms
<1>2. ASSUME NEW limit, to # 0, Save(Replanned(m, to), "loop")
      PROVE  PipelineInv'
  <2>1. Ready(Replanned(m, to)) /\ Replanned(m, to).rev = m.rev + 1
    BY <1>1, <1>2, ReplannedReady
  <2>2. Follows(mem, Replanned(m, to))
    BY <2>1, <1>1, Forms DEF Follows
  <2> QED BY <1>2, <2>1, <2>2, Forms, SaveKeeps
<1>3. ASSUME NEW limit, Save(Stopped(m, to, limit), "end")
      PROVE  PipelineInv'
  <2> DEFINE w == Stopped(m, to, limit)
  <2>1. SameCore(m, w) /\ w.rev = m.rev
    BY <1>1, Forms, CoreKept
  <2> HIDE DEF w
  <2>2. Judged(w)
    BY <2>1, <1>1, CoreForms, Forms
  <2>3. Saved(w)
    BY <2>2, Assumed DEF Judged, Saved, Waiting
  <2>4. Follows(mem, w)
    BY <2>1, <1>1, Forms DEF Follows, SameCore
  <2> QED BY <1>3, <2>3, <2>4, SaveKeeps DEF w
<1> QED BY <1>2, <1>3 DEF Fall

LEMMA RecoverKeeps ==
  ASSUME PipelineInv, Recover
  PROVE  PipelineInv'
PROOF
<1>1. pc = "judge" /\ until' \in {0} \union Steps /\ trouble' \subseteq Kinds
  BY DEF Recover, ledger, PipelineInv
<1>2. PICK s \in Suggestions(mem) :
        LET m == [Observed(mem) EXCEPT !.arts = s[2]] IN
        \/ \E d \in Decisions(m, s[1]) :
             \/ Save(ActedLocally(Planned(m, d), d), "loop")
             \/ Fall(Planned(m, d), 0) \/ Fall(Planned(m, d), s[1])
             \/ d.act = "replan" /\ Fall(Planned(m, d), d.to)
        \/ Fall(m, s[1])
  BY DEF Recover
<1> DEFINE m == [Observed(mem) EXCEPT !.arts = s[2]]
<1>3. /\ Judged(m) /\ StateOK(m) /\ m.rev = mem.rev /\ m.contract = mem.contract
      /\ m.res = mem.res /\ s[1] \in 0..(Here - 1) /\ 0 \in 0..(Here - 1)
  BY <1>1, SuggestedJudged, JudgedHere, Assumed
<1> HIDE DEF m
<1>4. CASE Fall(m, s[1])
  BY <1>1, <1>3, <1>4, FallKeeps
<1>5. ASSUME NEW d \in Decisions(m, s[1])
      PROVE  LET p == Planned(m, d) IN
             /\ Judged(p) /\ StateOK(p) /\ p.rev = mem.rev /\ p.contract = mem.contract
             /\ p.res = mem.res
  <2> DEFINE p == Planned(m, d)
  <2>1. SameCore(m, p) /\ p.rev = m.rev
    BY <1>3, Forms, CoreKept
  <2> HIDE DEF p
  <2>2. Judged(p)
    BY <2>1, <1>3, CoreForms, Forms
  <2> QED BY <2>1, <2>2, <1>3, Forms DEF SameCore, p
<1>6. ASSUME NEW d \in Decisions(m, s[1]), Save(ActedLocally(Planned(m, d), d), "loop")
      PROVE  PipelineInv'
  <2> DEFINE p == Planned(m, d)
             w == ActedLocally(p, d)
  <2>1. /\ Judged(p) /\ StateOK(p) /\ p.rev = mem.rev /\ p.contract = mem.contract
        /\ p.res = mem.res
    BY <1>5
  <2> HIDE DEF p
  <2>2. Len(p.res) = Here
    BY <2>1, <1>1, JudgedHere
  <2>3. Ready(w) /\ w.rev = p.rev + 1
    BY <2>1, <2>2, LocallyReady
  <2> HIDE DEF w
  <2>4. Follows(mem, w)
    BY <2>1, <2>3, InvMem, Forms DEF Follows
  <2>5. Save(w, "loop")
    BY <1>6 DEF w, p
  <2> QED BY <2>3, <2>4, <2>5, <1>1, Forms, SaveKeeps
<1>7. ASSUME NEW d \in Decisions(m, s[1]), NEW to \in 0..(Here - 1), Fall(Planned(m, d), to)
      PROVE  PipelineInv'
  BY <1>1, <1>5, <1>7, FallKeeps
<1>8. \A d \in Decisions(m, s[1]) : d.act = "replan" => d.to \in 0..(Here - 1)
  BY DecisionTarget
<1> QED BY <1>2, <1>3, <1>4, <1>6, <1>7, <1>8 DEF m

-----------------------------------------------------------------------------
(* The last write, the end of a process, and its start                       *)

LEMMA FinishKeeps ==
  ASSUME PipelineInv, Finish
  PROVE  PipelineInv'
PROOF
<1>1. pc # "idle" /\ ~Regresses(mem) /\ Saved(mem)
  BY Forms DEF Finish, PipelineInv
<1>2. /\ disk' = mem /\ refused' = refused /\ pc' = "idle" /\ mem' = Blank
      /\ until' = 0 /\ trouble' = trouble
  BY <1>1 DEF Finish, Leave, ledger
<1> QED BY <1>1, <1>2 DEF PipelineInv

\* A process that starts on what restore returns may write it.
LEMMA BegunKeeps ==
  ASSUME PipelineInv, NEW u \in Steps, until' = u,
         UNCHANGED <<disk, refused, trouble>>, pc' = "loop",
         Ready(mem'), mem'.rev >= disk.rev,
         mem'.rev = disk.rev /\ mem'.contract = disk.contract => Len(mem'.res) >= Len(disk.res)
  PROVE  PipelineInv'
PROOF
<1>1. StateOK(mem') /\ StateOK(disk)
  BY InvMem, Forms
<1>2. ~Regresses(mem)'
  BY <1>1, Forms DEF Regresses
<1> QED BY <1>2 DEF PipelineInv

LEMMA StartKeeps ==
  ASSUME PipelineInv, Start
  PROVE  PipelineInv'
PROOF
<1>1. PICK drift \in BOOLEAN, from \in {0} \union 2..N, u \in Ends :
        /\ Begin(u, drift, from # 0)
        /\ from # 0 => disk # NoFile
        /\ pc' = "loop"
        /\ IF disk = NoFile THEN mem' = Blank
           ELSE \E k \in Prefixes(disk, drift), kept \in BOOLEAN :
                  /\ kept \/ drift \/ Draft(k)
                  /\ LET j == IF from # 0 THEN Least(k, from - 1) ELSE k IN
                     mem' = [Restored(disk, j, kept, from, FALSE)
                               EXCEPT !.contract = IF from # 0 THEN @ + 1 ELSE @]
  BY Zenon DEF Start
<1>2. u \in Steps /\ until' = u /\ UNCHANGED <<disk, refused, trouble>>
  BY <1>1, Assumed DEF Ends, Begin
<1>3. CASE disk = NoFile
  <2>1. mem' = Blank
    BY <1>1, <1>3
  <2> QED BY <1>1, <1>2, <1>3, <2>1, BlankForms, BegunKeeps
<1>4. CASE disk # NoFile
  <2>1. PICK k \in Prefixes(disk, drift), kept \in BOOLEAN :
          LET j == IF from # 0 THEN Least(k, from - 1) ELSE k IN
          mem' = [Restored(disk, j, kept, from, FALSE)
                    EXCEPT !.contract = IF from # 0 THEN @ + 1 ELSE @]
    BY <1>1, <1>4
  <2> DEFINE j == IF from # 0 THEN Least(k, from - 1) ELSE k
  <2>0. PICK forced : mem' = [Restored(disk, j, kept, from, forced)
                                EXCEPT !.contract = IF from # 0 THEN @ + 1 ELSE @]
    BY <2>1, Zenon
  <2> DEFINE r == Restored(disk, j, kept, from, forced)
  <2>2. /\ k \in 0..Len(disk.res) /\ \A i \in 1..k : ~Unacceptable(disk, i)
        /\ Len(disk.res) \in Nat /\ disk.rev \in Int /\ Saved(disk) /\ disk.contract \in Nat
    BY InvMem, Forms DEF Prefixes, PipelineInv, StateOK
  <2>3. j \in 0..Len(disk.res) /\ \A i \in 1..j : ~Unacceptable(disk, i)
    BY <2>2, Assumed DEF Least
  <2> HIDE DEF j
  <2>4. /\ Ready(r) /\ DOMAIN r = Fields /\ Len(r.res) = j /\ r.contract = disk.contract
        /\ r.rev >= disk.rev /\ (r.rev = disk.rev => j = Len(disk.res))
    BY <2>2, <2>3, RestoredReady
  <2> HIDE DEF r
  <2> DEFINE w == [r EXCEPT !.contract = IF from # 0 THEN @ + 1 ELSE @]
  <2>5. /\ SameButContract(r, w) /\ w.rev = r.rev /\ w.contract \in {disk.contract, disk.contract + 1}
    BY <2>4 DEF SameButContract, Fields
  <2>6. mem' = w
    BY <2>0 DEF r
  <2> HIDE DEF w
  <2>7. Ready(w) /\ Len(w.res) = j
    BY <2>2, <2>4, <2>5 DEF SameButContract, Ready, Sound, StateOK, Prefix, Passed, Based, Waiting
  <2> QED BY <1>1, <1>2, <2>2, <2>3, <2>4, <2>5, <2>6, <2>7, BegunKeeps
<1> QED BY <1>3, <1>4

LEMMA StartResumeKeeps ==
  ASSUME PipelineInv, NEW rs \in Steps, NEW t \in Tokens, StartResume(rs, t)
  PROVE  PipelineInv'
PROOF
<1>1. PICK drift, u, k, kept :
        /\ drift \in BOOLEAN /\ u \in Ends /\ k \in Prefixes(disk, drift) /\ kept \in BOOLEAN
        /\ Begin(u, drift, FALSE)
        /\ \/ /\ mem' = [Restored(disk, k, kept, 0, FALSE) EXCEPT !.token = <<rs, t>>]
              /\ pc' = "loop"
           \/ UNCHANGED <<pc, mem>>
           \/ /\ k >= rs - 1
              /\ mem' = [Restored(disk, rs - 1, kept, rs, TRUE) EXCEPT !.token = <<rs, t>>]
              /\ pc' = "loop"
  BY DEF StartResume
<1>2. /\ u \in Steps /\ until' = u /\ UNCHANGED <<disk, refused, trouble>>
      /\ pc = "idle"
  BY <1>1, Assumed DEF Ends, Begin
<1>3. /\ k \in 0..Len(disk.res) /\ \A i \in 1..k : ~Unacceptable(disk, i)
      /\ Len(disk.res) \in Nat /\ disk.rev \in Int /\ Saved(disk)
  BY <1>1, InvMem, Forms DEF Prefixes, PipelineInv
<1>4. CASE UNCHANGED <<pc, mem>>
  BY <1>2, <1>4 DEF PipelineInv
<1>5. ASSUME NEW j \in 0..k, NEW from, NEW forced \in BOOLEAN, pc' = "loop",
             mem' = [Restored(disk, j, kept, from, forced) EXCEPT !.token = <<rs, t>>]
      PROVE  PipelineInv'
  <2> DEFINE r == Restored(disk, j, kept, from, forced)
             w == [r EXCEPT !.token = <<rs, t>>]
  <2>1. j \in 0..Len(disk.res) /\ \A i \in 1..j : ~Unacceptable(disk, i)
    BY <1>3
  <2>2. /\ Ready(r) /\ DOMAIN r = Fields /\ Len(r.res) = j /\ r.contract = disk.contract
        /\ r.rev >= disk.rev /\ (r.rev = disk.rev => j = Len(disk.res))
    BY <2>1, <1>3, RestoredReady
  <2> HIDE DEF r
  <2>3. SameCore(r, w) /\ w.rev = r.rev
    BY <2>2 DEF SameCore, Fields
  <2>4. mem' = w
    BY <1>5 DEF r
  <2> HIDE DEF w
  <2>5. Ready(w)
    BY <2>2, <2>3, CoreForms, Forms
  <2>6. Len(w.res) = j /\ w.rev >= disk.rev /\ (w.rev = disk.rev => j >= Len(disk.res))
    BY <2>1, <2>2, <2>3, <1>3 DEF SameCore
  <2> QED BY <1>2, <1>3, <1>5, <2>1, <2>4, <2>5, <2>6, BegunKeeps
<1>6. k \in 0..k /\ (k >= rs - 1 => rs - 1 \in 0..k)
  BY <1>3, Assumed
<1> QED BY <1>1, <1>4, <1>5, <1>6

-----------------------------------------------------------------------------
(* The invariant                                                             *)

LEMMA CrashKeeps ==
  ASSUME PipelineInv, Crash
  PROVE  PipelineInv'
PROOF BY DEF Crash, Leave, ledger, PipelineInv

LEMMA DeadlineKeeps ==
  ASSUME PipelineInv, DeadlinePasses
  PROVE  PipelineInv'
PROOF BY DEF DeadlinePasses, ledger, PipelineInv, Regresses

LEMMA StutterKeeps ==
  ASSUME PipelineInv, UNCHANGED vars
  PROVE  PipelineInv'
PROOF BY DEF vars, PipelineInv, Regresses

LEMMA StepKeeps ==
  ASSUME PipelineInv, [Next]_vars
  PROVE  PipelineInv'
PROOF
<1>1. ASSUME Work PROVE PipelineInv'
  BY <1>1, RunStepKeeps, RepairAttemptKeeps, RepairErrorKeeps, RepairOutOfTimeKeeps,
     StepRaisesKeeps, SaveProgressKeeps, ContinueKeeps, RecoverKeeps, FinishKeeps DEF Work
<1>2. ASSUME NEW r \in Steps, NEW t \in Tokens, StartResume(r, t) PROVE PipelineInv'
  BY <1>2, StartResumeKeeps
<1> QED BY <1>1, <1>2, StartKeeps, CrashKeeps, DeadlineKeeps, StutterKeeps DEF Next

LEMMA PipelineInvariant == Spec => []PipelineInv
PROOF
<1>1. Init => PipelineInv
  BY FirstState
<1>2. PipelineInv /\ [Next]_vars => PipelineInv'
  BY StepKeeps
<1> QED BY <1>1, <1>2, PTL DEF Spec

\* SavedState: whatever step fails, is repaired, is taken back or raises, and
\* wherever a process dies, the checkpoint _write_pipeline_state leaves is a
\* prefix of the steps with an artifact for each, no artifact or candidate
\* from before a rollback, and no result after one that blocked execution.
THEOREM SavedStateCorrect == Spec => []SavedState
PROOF
<1>1. PipelineInv => TypeOK
  BY InvMem DEF TypeOK, StateOK, Artifacts
<1>2. PipelineInv => SavedPrefix
  BY DEF PipelineInv, Saved, Sound, Prefix, Waiting, SavedPrefix, At
<1>3. PipelineInv => ExecutionFailureIsLast
  <2> SUFFICES ASSUME PipelineInv, NEW i \in 1..(Len(disk.res) - 1)
               PROVE  ~disk.res[i].exec
    BY DEF ExecutionFailureIsLast
  <2>1. Len(disk.res) \in Nat /\ Passed(disk, Len(disk.res) - 1)
    BY InvMem, Forms DEF PipelineInv, Saved, Sound
  <2> QED BY <2>1 DEF Passed
<1> QED BY <1>1, <1>2, <1>3, PipelineInvariant, PTL DEF SavedState

\* CheckedOnWhatIsSaved: an artifact of the checkpoint was checked against the
\* upstream artifacts it is saved with, except those a downstream step rewrites
\* on purpose, through every repair, rollback_target, replan, restore and resume.
THEOREM CheckedCorrect == Spec => []CheckedOnWhatIsSaved
PROOF
<1>1. PipelineInv => CheckedOnWhatIsSaved
  BY DEF PipelineInv, Saved, Sound, Based, CheckedOnWhatIsSaved
<1> QED BY <1>1, PipelineInvariant, PTL

\* NeverRefused: a process never meets _reject_same_revision_checkpoint_regression
\* on its own checkpoint: every path that shortens the results raises the revision.
THEOREM NeverRefusedCorrect == Spec => []NeverRefused
PROOF
<1>1. PipelineInv => NeverRefused
  BY DEF PipelineInv, NeverRefused
<1> QED BY <1>1, PipelineInvariant, PTL

-----------------------------------------------------------------------------
(* Ledgers: what an entry added, kept or rewritten does to a count          *)

\* The entries of a ledger a budget counts.
Repairs == [kind : {"design", "harness"}, step : Steps, ids : SUBSET Kinds]
OfHarness(s) == {k \in DOMAIN s : s[k].kind = "harness"}
OfDesign(s) == {k \in DOMAIN s : s[k].kind # "harness"}
DesignAt(s, i) == {k \in DOMAIN s : s[k].kind # "harness" /\ s[k].step = i}
OfFailure(s, i, f) == {k \in DOMAIN s : s[k].kind = "harness" /\ s[k].step = i /\ f \in s[k].ids}
Alike(s, i, b, f) == {k \in DOMAIN s : s[k].trig = i /\ s[k].base = b /\ f \in s[k].ids}

LEMMA Positions ==
  ASSUME NEW L \in Nat
  PROVE  IsFiniteSet(1..L) /\ Cardinality(1..L) = L
PROOF BY FS_Interval

\* The n-th position of a set is one of it, and no two numbers have the same.
LEMMA NthIsIn ==
  ASSUME NEW L \in Nat, NEW K \in SUBSET (1..L)
  PROVE  /\ IsFiniteSet(K) /\ Cardinality(K) \in Nat /\ Cardinality(K) <= L
         /\ \A n \in 1..Cardinality(K) :
              Nth(K, n) \in K /\ Cardinality({j \in K : j <= Nth(K, n)}) = n
PROOF
<1> DEFINE c == Cardinality(K)
           upto(k) == {j \in K : j <= k}
           rank == [k \in K |-> Cardinality(upto(k))]
<1>1. IsFiniteSet(1..L) /\ Cardinality(1..L) = L
  BY FS_Interval
<1>2. IsFiniteSet(K) /\ c <= L /\ c \in Nat
  BY <1>1, FS_Subset, FS_CardinalityType
<1>3. \A k \in K : /\ IsFiniteSet(upto(k)) /\ Cardinality(upto(k)) \in 1..c
  <2> TAKE k \in K
  <2>1. upto(k) \in SUBSET K /\ k \in upto(k)
    OBVIOUS
  <2>2. IsFiniteSet(upto(k)) /\ Cardinality(upto(k)) <= c /\ Cardinality(upto(k)) \in Nat
    BY <1>2, <2>1, FS_Subset, FS_CardinalityType
  <2>3. Cardinality(upto(k)) # 0
    BY <2>1, <2>2, FS_EmptySet
  <2> QED BY <1>2, <2>2, <2>3
<1>4. ASSUME NEW k \in K, NEW l \in K, k < l
      PROVE  Cardinality(upto(k)) # Cardinality(upto(l))
  <2>0. \A j \in K : j \in Nat
    OBVIOUS
  <2>1. upto(k) \subseteq upto(l)
    <3> SUFFICES ASSUME NEW j \in K, j <= k PROVE j <= l
      OBVIOUS
    <3> QED BY <2>0, <1>4
  <2>2. l \in upto(l) /\ l \notin upto(k)
    BY <2>0, <1>4
  <2> QED BY <1>3, <2>1, <2>2, FS_Subset
<1>5. rank \in Injection(K, 1..c)
  <2>1. rank \in [K -> 1..c]
    BY <1>3
  <2>2. \A k, l \in K : rank[k] = rank[l] => k = l
    <3> SUFFICES ASSUME NEW k \in K, NEW l \in K, k # l PROVE rank[k] # rank[l]
      OBVIOUS
    <3>1. rank[k] = Cardinality(upto(k)) /\ rank[l] = Cardinality(upto(l))
      OBVIOUS
    <3>2. k < l \/ l < k
      OBVIOUS
    <3> QED BY <3>1, <3>2, <1>4
  <2> QED BY <2>1, <2>2 DEF Injection, IsInjective
<1>6. rank \in Surjection(K, 1..c)
  <2>1. IsFiniteSet(1..c) /\ Cardinality(1..c) = c
    BY <1>2, FS_Interval
  <2> QED BY <1>5, <2>1, FS_Injection
<1>7. ASSUME NEW n \in 1..c
      PROVE  Nth(K, n) \in K /\ Cardinality(upto(Nth(K, n))) = n
  <2>1. PICK k \in K : rank[k] = n
    BY <1>6, <1>7 DEF Surjection
  <2>2. Cardinality({j \in K : j <= k}) = n
    BY <2>1
  <2>3. Nth(K, n) = CHOOSE k0 \in K : Cardinality({j \in K : j <= k0}) = n
    BY DEF Nth
  <2> QED BY <2>2, <2>3
<1> QED BY <1>2, <1>7

\* What is kept of a ledger is a ledger, and counts no more of anything.
LEMMA KeptCounts ==
  ASSUME NEW T, NEW s \in Seq(T), NEW K \in SUBSET DOMAIN s
  PROVE  /\ Keep(s, K) \in Seq(T) /\ Len(Keep(s, K)) <= Len(s)
         /\ \A A \in SUBSET DOMAIN Keep(s, K), B \in SUBSET DOMAIN s :
              (\A n \in A : \A k \in DOMAIN s : Keep(s, K)[n] = s[k] => k \in B)
                => Cardinality(A) <= Cardinality(B)
PROOF
<1> DEFINE L == Len(s)  c == Cardinality(K)
<1>1. L \in Nat /\ DOMAIN s = 1..L /\ \A k \in 1..L : s[k] \in T
  OBVIOUS
<1>2. /\ c \in Nat /\ c <= L
      /\ \A n \in 1..c : Nth(K, n) \in K /\ Cardinality({j \in K : j <= Nth(K, n)}) = n
  BY <1>1, NthIsIn
<1>3. \A n \in 1..c : Keep(s, K)[n] = s[Nth(K, n)] /\ s[Nth(K, n)] \in T
  BY <1>1, <1>2 DEF Keep
<1>4. Keep(s, K) \in [1..c -> T]
  BY <1>3 DEF Keep
<1>5. Keep(s, K) \in Seq(T) /\ Len(Keep(s, K)) = c /\ DOMAIN Keep(s, K) = 1..c
  BY <1>2, <1>4
<1>6. ASSUME NEW A \in SUBSET DOMAIN Keep(s, K), NEW B \in SUBSET DOMAIN s,
             \A n \in A : \A k \in DOMAIN s : Keep(s, K)[n] = s[k] => k \in B
      PROVE  Cardinality(A) <= Cardinality(B)
  <2> DEFINE place == [n \in A |-> Nth(K, n)]
  <2>1. \A n \in A : n \in 1..c /\ Nth(K, n) \in B
    BY <1>1, <1>2, <1>3, <1>5, <1>6
  <2>2. \A m, n \in A : place[m] = place[n] => m = n
    BY <2>1, <1>2
  <2>3. place \in Injection(A, B)
    BY <2>1, <2>2 DEF Injection, IsInjective
  <2>4. IsFiniteSet(B)
    BY <1>1, Positions, FS_Subset
  <2> QED BY <2>3, <2>4, FS_Injection
<1> QED BY <1>2, <1>5, <1>6

LEMMA PositionsFinite ==
  ASSUME NEW T, NEW s \in Seq(T), NEW A \in SUBSET DOMAIN s
  PROVE  IsFiniteSet(A) /\ Cardinality(A) \in Nat /\ Cardinality(A) <= Len(s)
PROOF
<1>1. DOMAIN s = 1..Len(s) /\ Len(s) \in Nat
  OBVIOUS
<1>2. IsFiniteSet(1..Len(s)) /\ Cardinality(1..Len(s)) = Len(s)
  BY <1>1, Positions
<1> QED BY <1>1, <1>2, FS_Subset, FS_CardinalityType

\* One more entry counts for one at most, and for none it does not belong to.
LEMMA AppendedCounts ==
  ASSUME NEW T, NEW s \in Seq(T), NEW x,
         NEW A \in SUBSET DOMAIN Append(s, x), NEW B \in SUBSET DOMAIN s,
         \A k \in DOMAIN s : k \in A => k \in B
  PROVE  /\ Cardinality(A) \in Nat /\ Cardinality(A) <= Cardinality(B) + 1
         /\ Len(s) + 1 \notin A => Cardinality(A) <= Cardinality(B)
PROOF
<1>1. DOMAIN s = 1..Len(s) /\ Len(s) \in Nat /\ DOMAIN Append(s, x) = 1..(Len(s) + 1)
  OBVIOUS
<1>2. IsFiniteSet(B) /\ Cardinality(B) \in Nat
  BY PositionsFinite
<1> DEFINE C == B \union {Len(s) + 1}
<1>3. IsFiniteSet(C) /\ Cardinality(C) = Cardinality(B) + 1
  <2>1. Len(s) + 1 \notin B
    BY <1>1
  <2> QED BY <2>1, <1>2, FS_AddElement
<1>4. A \in SUBSET C /\ (Len(s) + 1 \notin A => A \in SUBSET B)
  BY <1>1
<1> HIDE DEF C
<1>5. IsFiniteSet(A) /\ Cardinality(A) <= Cardinality(C)
  BY <1>3, <1>4, FS_Subset
<1>6. Len(s) + 1 \notin A => Cardinality(A) <= Cardinality(B)
  BY <1>2, <1>4, FS_Subset
<1> QED BY <1>3, <1>5, <1>6, FS_CardinalityType

\* One of the counts of a failed attempt's failures is the greatest.
LEMMA OneMoreCount ==
  ASSUME NEW S, NEW x, NEW g, g[x] \in Nat, \A f \in S : g[f] \in Nat,
         S # {} => \E f \in S : \A h \in S : g[h] <= g[f]
  PROVE  \E f \in S \union {x} : \A h \in S \union {x} : g[h] <= g[f]
PROOF
<1>1. CASE S = {}
  BY <1>1
<1>2. CASE S # {}
  <2>1. PICK f \in S : \A h \in S : g[h] <= g[f]
    BY <1>2
  <2>2. CASE g[x] <= g[f]
    BY <2>1, <2>2
  <2>3. CASE g[f] < g[x]
    BY <2>1, <2>3
  <2> QED BY <2>1, <2>2, <2>3
<1> QED BY <1>1, <1>2

LEMMA GreatestCount ==
  ASSUME NEW S \in SUBSET Kinds, S # {}, NEW g, \A f \in S : g[f] \in Nat
  PROVE  \E f \in S : \A h \in S : g[h] <= g[f]
PROOF
<1> DEFINE Max(R) == R # {} => \E f \in R : \A h \in R : g[h] <= g[f]
<1>1. ASSUME NEW R, NEW x, Max(S \intersect R)
      PROVE  Max(S \intersect (R \union {x}))
  <2>1. CASE x \in S
    <3>1. S \intersect (R \union {x}) = (S \intersect R) \union {x}
      BY <2>1
    <3> DEFINE Q == S \intersect R
    <3>2. /\ g[x] \in Nat /\ \A f \in Q : g[f] \in Nat
          /\ Q # {} => \E f \in Q : \A h \in Q : g[h] <= g[f]
      BY <1>1, <2>1
    <3> HIDE DEF Q
    <3>3. \E f \in Q \union {x} : \A h \in Q \union {x} : g[h] <= g[f]
      BY <3>2, OneMoreCount
    <3> QED BY <3>1, <3>3 DEF Q
  <2>2. CASE x \notin S
    <3>1. S \intersect (R \union {x}) = S \intersect R
      BY <2>2
    <3> QED BY <1>1, <3>1
  <2> QED BY <2>1, <2>2
<1>2. Max(S \intersect {})
  OBVIOUS
<1> HIDE DEF Max
<1>3. Max(S \intersect (((({} \union {"design"}) \union {"evidence"}) \union {"hard"}) \union {"harness"}))
  BY <1>1, <1>2
<1>4. Max(S \intersect ((((({} \union {"design"}) \union {"evidence"}) \union {"hard"})
                           \union {"harness"}) \union {"infra"}))
  BY <1>1, <1>3
<1>5. S = S \intersect ((((({} \union {"design"}) \union {"evidence"}) \union {"hard"})
                           \union {"harness"}) \union {"infra"})
  BY DEF Kinds
<1> QED BY <1>4, <1>5 DEF Max

-----------------------------------------------------------------------------
(* The ledgers: what they hold and how much of it                            *)

RepairsOK(s) ==
  /\ s \in Seq(Repairs)
  /\ Cardinality(OfHarness(s)) <= MaxRepairs
  /\ Cardinality(OfDesign(s)) <= MaxDesignTotal
  /\ \A i \in Steps : Cardinality(DesignAt(s, i)) <= MaxDesignStep
TurnsOK(s) == s \in Seq(TurnRecords) /\ Len(s) <= MaxTurnsTotal
ReplansOK(s) ==
  /\ s \in Seq(ReplanRecords)
  /\ \A i \in Steps, b \in AnyPrint, f \in Kinds :
       \E limit \in Limits : Cardinality(Alike(s, i, b, f)) <= limit
LedgerOK(m) == RepairsOK(m.repairs) /\ ReplansOK(m.replans) /\ TurnsOK(m.turns)

\* The attempts a repair loop has left are within what its step's budget left.
Room(s, loop, i) ==
  loop.att < loop.hard =>
    /\ loop.kind = "harness" =>
         Cardinality(OfHarness(s)) + (loop.hard - loop.att) <= MaxRepairs
    /\ loop.kind = "design" =>
         /\ Cardinality(OfDesign(s)) + (loop.hard - loop.att) <= MaxDesignTotal
         /\ Cardinality(DesignAt(s, i)) + (loop.hard - loop.att) <= MaxDesignStep
LoopType == [kind : {"design", "harness"}, hard : Nat, stag : Int, att : Nat, stuck : Int]
LoopOK(s, loop, i) ==
  loop.kind \in {"design", "harness"} /\ loop.hard \in Nat /\ loop.att \in Nat /\ Room(s, loop, i)

EvalTyped(e) == e.fails \subseteq Kinds /\ e.detail \in Nat

LedgerInv ==
  /\ LedgerOK(disk) /\ LedgerOK(mem) /\ EvalTyped(ev)
  /\ pc = "repair" => LoopOK(mem.repairs, rp, At(mem))

SameLedgers(a, b) == b.repairs = a.repairs /\ b.replans = a.replans /\ b.turns = a.turns

LEMMA BudgetsAssumed ==
  /\ Details \subseteq Nat /\ MaxRepairs \in Nat /\ MaxSame \in Nat /\ MaxDesignStep \in Nat
  /\ MaxDesignTotal \in Nat /\ MaxReplan \in Nat /\ MaxTurnsTotal \in Nat
  /\ Limits # {} /\ Limits \subseteq Nat
PROOF BY PipelineAssumption DEF PipelineAssumption, Limits, Least

\* The counts of a ledger are naturals.
LEMMA CountsNatural ==
  /\ \A s \in Seq(Repairs) :
       /\ Cardinality(OfHarness(s)) \in Nat /\ Cardinality(OfDesign(s)) \in Nat
       /\ \A i : Cardinality(DesignAt(s, i)) \in Nat
       /\ \A i, f : Cardinality(OfFailure(s, i, f)) \in Nat
  /\ \A s \in Seq(ReplanRecords) : \A i, b, f : Cardinality(Alike(s, i, b, f)) \in Nat
PROOF
<1>1. ASSUME NEW s \in Seq(Repairs)
      PROVE  /\ OfHarness(s) \in SUBSET DOMAIN s /\ OfDesign(s) \in SUBSET DOMAIN s
             /\ \A i : DesignAt(s, i) \in SUBSET DOMAIN s
             /\ \A i, f : OfFailure(s, i, f) \in SUBSET DOMAIN s
  BY DEF OfHarness, OfDesign, DesignAt, OfFailure
<1>2. ASSUME NEW s \in Seq(ReplanRecords), NEW i, NEW b, NEW f
      PROVE  Alike(s, i, b, f) \in SUBSET DOMAIN s
  BY DEF Alike
<1> QED BY <1>1, <1>2, PositionsFinite

LEMMA EmptyLedgers ==
  ASSUME NEW s, s = <<>>
  PROVE  RepairsOK(s) /\ ReplansOK(s) /\ TurnsOK(s)
PROOF
<1>1. DOMAIN s = {} /\ Len(s) = 0 /\ \A T : s \in Seq(T)
  OBVIOUS
<1>2. /\ OfHarness(s) = {} /\ OfDesign(s) = {} /\ \A i : DesignAt(s, i) = {}
      /\ \A i, b, f : Alike(s, i, b, f) = {}
  BY <1>1 DEF OfHarness, OfDesign, DesignAt, Alike
<1>3. /\ Cardinality(OfHarness(s)) = 0 /\ Cardinality(OfDesign(s)) = 0
      /\ \A i : Cardinality(DesignAt(s, i)) = 0
      /\ \A i, b, f : Cardinality(Alike(s, i, b, f)) = 0
  BY <1>2, FS_EmptySet
<1>4. RepairsOK(s)
  BY <1>1, <1>3, BudgetsAssumed DEF RepairsOK
<1>5. ReplansOK(s)
  <2>1. \E limit \in Limits : 0 <= limit
    <3>1. PICK limit : limit \in Limits
      BY BudgetsAssumed
    <3>2. limit \in Nat
      BY <3>1, BudgetsAssumed
    <3> QED BY <3>1, <3>2
  <2>2. \A i, b, f : \E limit \in Limits : Cardinality(Alike(s, i, b, f)) <= limit
    <3> SUFFICES ASSUME NEW i, NEW b, NEW f
                 PROVE  \E limit \in Limits : Cardinality(Alike(s, i, b, f)) <= limit
      OBVIOUS
    <3>1. Cardinality(Alike(s, i, b, f)) = 0
      BY <1>3
    <3> QED BY <2>1, <3>1
  <2>3. s \in Seq(ReplanRecords)
    BY <1>1
  <2> QED BY <2>2, <2>3 DEF ReplansOK
<1>6. TurnsOK(s)
  BY <1>1, BudgetsAssumed DEF TurnsOK
<1> QED BY <1>4, <1>5, <1>6

LEMMA BlankLedgers == LedgerOK(Blank) /\ LedgerOK(NoFile)
PROOF
<1>1. /\ Blank.repairs = <<>> /\ Blank.replans = <<>> /\ Blank.turns = <<>>
      /\ NoFile.repairs = <<>> /\ NoFile.replans = <<>> /\ NoFile.turns = <<>>
  BY DEF Blank, NoFile
<1> QED BY <1>1, EmptyLedgers DEF LedgerOK

LEMMA SameLedgersOK ==
  ASSUME NEW a, NEW b, LedgerOK(a), SameLedgers(a, b)
  PROVE  LedgerOK(b)
PROOF BY DEF LedgerOK, SameLedgers

LEMMA RepairAppended ==
  ASSUME NEW s, RepairsOK(s), NEW x \in Repairs,
         x.kind = "harness" => Cardinality(OfHarness(s)) < MaxRepairs,
         x.kind = "design" => /\ Cardinality(OfDesign(s)) < MaxDesignTotal
                              /\ Cardinality(DesignAt(s, x.step)) < MaxDesignStep
  PROVE  LET w == Append(s, x) IN
         /\ RepairsOK(w)
         /\ Cardinality(OfHarness(w)) <= Cardinality(OfHarness(s)) + 1
         /\ Cardinality(OfDesign(w)) <= Cardinality(OfDesign(s)) + 1
         /\ \A i \in Steps : Cardinality(DesignAt(w, i)) <= Cardinality(DesignAt(s, i)) + 1
PROOF
<1> DEFINE w == Append(s, x)
<1>1. /\ s \in Seq(Repairs) /\ Len(s) \in Nat /\ DOMAIN s = 1..Len(s)
      /\ w \in Seq(Repairs) /\ DOMAIN w = 1..(Len(s) + 1)
      /\ \A k \in DOMAIN s : w[k] = s[k]
      /\ w[Len(s) + 1] = x /\ x.kind \in {"design", "harness"}
  BY DEF RepairsOK, Repairs
<1> HIDE DEF w
<1>2. /\ Cardinality(OfHarness(w)) <= Cardinality(OfHarness(s)) + 1
      /\ x.kind # "harness" => Cardinality(OfHarness(w)) <= Cardinality(OfHarness(s))
      /\ Cardinality(OfHarness(w)) \in Nat
  <2>1. /\ OfHarness(w) \in SUBSET DOMAIN w /\ OfHarness(s) \in SUBSET DOMAIN s
        /\ \A k \in DOMAIN s : k \in OfHarness(w) => k \in OfHarness(s)
        /\ x.kind # "harness" => Len(s) + 1 \notin OfHarness(w)
    BY <1>1 DEF OfHarness
  <2> QED BY <1>1, <2>1, AppendedCounts DEF w
<1>3. /\ Cardinality(OfDesign(w)) <= Cardinality(OfDesign(s)) + 1
      /\ x.kind = "harness" => Cardinality(OfDesign(w)) <= Cardinality(OfDesign(s))
      /\ Cardinality(OfDesign(w)) \in Nat
  <2>1. /\ OfDesign(w) \in SUBSET DOMAIN w /\ OfDesign(s) \in SUBSET DOMAIN s
        /\ \A k \in DOMAIN s : k \in OfDesign(w) => k \in OfDesign(s)
        /\ x.kind = "harness" => Len(s) + 1 \notin OfDesign(w)
    BY <1>1 DEF OfDesign
  <2> QED BY <1>1, <2>1, AppendedCounts DEF w
<1>4. ASSUME NEW i \in Steps
      PROVE  /\ Cardinality(DesignAt(w, i)) <= Cardinality(DesignAt(s, i)) + 1
             /\ x.kind = "harness" \/ x.step # i =>
                  Cardinality(DesignAt(w, i)) <= Cardinality(DesignAt(s, i))
             /\ Cardinality(DesignAt(w, i)) \in Nat
  <2>1. /\ DesignAt(w, i) \in SUBSET DOMAIN w /\ DesignAt(s, i) \in SUBSET DOMAIN s
        /\ \A k \in DOMAIN s : k \in DesignAt(w, i) => k \in DesignAt(s, i)
        /\ x.kind = "harness" \/ x.step # i => Len(s) + 1 \notin DesignAt(w, i)
    BY <1>1 DEF DesignAt
  <2> QED BY <1>1, <2>1, AppendedCounts DEF w
<1>5. /\ Cardinality(OfHarness(s)) \in Nat /\ Cardinality(OfDesign(s)) \in Nat
      /\ \A i : Cardinality(DesignAt(s, i)) \in Nat
  BY <1>1, CountsNatural
<1>6. /\ Cardinality(OfHarness(w)) <= MaxRepairs /\ Cardinality(OfDesign(w)) <= MaxDesignTotal
  BY <1>1, <1>2, <1>3, <1>5, BudgetsAssumed DEF RepairsOK
<1>7. \A i \in Steps : Cardinality(DesignAt(w, i)) <= MaxDesignStep
  BY <1>1, <1>4, <1>5, BudgetsAssumed DEF RepairsOK
<1> QED BY <1>1, <1>2, <1>3, <1>4, <1>6, <1>7 DEF RepairsOK, w

\* A status written over another changes no count.
LEMMA EntryRewritten ==
  ASSUME NEW T, NEW s \in Seq(T), NEW k, NEW v, k \in DOMAIN s => v \in T
  PROVE  LET w == [s EXCEPT ![k] = v] IN
         /\ w \in Seq(T) /\ DOMAIN w = DOMAIN s /\ Len(w) = Len(s)
         /\ \A j \in DOMAIN s : w[j] = IF j = k THEN v ELSE s[j]
PROOF
<1> DEFINE w == [s EXCEPT ![k] = v]
<1>1. s \in [1..Len(s) -> T] /\ Len(s) \in Nat /\ DOMAIN s = 1..Len(s)
  OBVIOUS
<1>2. DOMAIN w = DOMAIN s /\ \A j \in DOMAIN s : w[j] = IF j = k THEN v ELSE s[j]
  OBVIOUS
<1>3. w \in [1..Len(s) -> T]
  BY <1>1, <1>2
<1> HIDE DEF w
<1>4. w \in Seq(T) /\ Len(w) = Len(s)
  BY <1>1, <1>3
<1> QED BY <1>2, <1>4 DEF w

TurnStatus == {"planned", "acted", "verified", "improved", "rejected", "exhausted"}
ReplanStatus == {"scheduled", "recovered", "exhausted", "stagnated", "deferred"}

LEMMA TurnRewritten ==
  ASSUME NEW s, TurnsOK(s), NEW k
  PROVE  /\ \A x \in TurnStatus : TurnsOK([s EXCEPT ![k].status = x])
         /\ \A x \in Nat \X Nat : TurnsOK([s EXCEPT ![k].after = x])
PROOF
<1>1. s \in Seq(TurnRecords) /\ Len(s) <= MaxTurnsTotal
  BY DEF TurnsOK
<1>2. k \in DOMAIN s => s[k] \in TurnRecords
  BY <1>1
<1>3. ASSUME NEW x \in TurnStatus
      PROVE  TurnsOK([s EXCEPT ![k].status = x])
  <2>1. k \in DOMAIN s => [s[k] EXCEPT !.status = x] \in TurnRecords
    BY <1>2 DEF TurnRecords, TurnStatus
  <2>2. [s EXCEPT ![k].status = x] = [s EXCEPT ![k] = [s[k] EXCEPT !.status = x]]
    OBVIOUS
  <2> QED BY <1>1, <2>1, <2>2, EntryRewritten DEF TurnsOK
<1>4. ASSUME NEW x \in Nat \X Nat
      PROVE  TurnsOK([s EXCEPT ![k].after = x])
  <2>1. k \in DOMAIN s => [s[k] EXCEPT !.after = x] \in TurnRecords
    BY <1>2 DEF TurnRecords
  <2>2. [s EXCEPT ![k].after = x] = [s EXCEPT ![k] = [s[k] EXCEPT !.after = x]]
    OBVIOUS
  <2> QED BY <1>1, <2>1, <2>2, EntryRewritten DEF TurnsOK
<1> QED BY <1>3, <1>4

LEMMA AlikeSame ==
  ASSUME NEW s, ReplansOK(s), NEW w \in Seq(ReplanRecords), DOMAIN w = DOMAIN s,
         \A j \in DOMAIN s :
           w[j].trig = s[j].trig /\ w[j].base = s[j].base /\ w[j].ids = s[j].ids
  PROVE  ReplansOK(w)
PROOF
<1>1. \A i, b, f : Alike(w, i, b, f) = Alike(s, i, b, f)
  BY DEF Alike
<1> QED BY <1>1 DEF ReplansOK

LEMMA ReplanRewritten ==
  ASSUME NEW s, ReplansOK(s), NEW k, NEW x \in ReplanStatus
  PROVE  ReplansOK([s EXCEPT ![k].status = x])
PROOF
<1> DEFINE v == [s[k] EXCEPT !.status = x]
           w == [s EXCEPT ![k] = v]
<1>1. s \in Seq(ReplanRecords)
  BY DEF ReplansOK
<1>2. k \in DOMAIN s => s[k] \in ReplanRecords
  BY <1>1
<1>3. k \in DOMAIN s => /\ v \in ReplanRecords
                        /\ v.trig = s[k].trig /\ v.base = s[k].base /\ v.ids = s[k].ids
  BY <1>2 DEF ReplanRecords, ReplanStatus
<1>4. [s EXCEPT ![k].status = x] = w
  OBVIOUS
<1> HIDE DEF v
<1>5. /\ w \in Seq(ReplanRecords) /\ DOMAIN w = DOMAIN s
      /\ \A j \in DOMAIN s : w[j] = IF j = k THEN v ELSE s[j]
  BY <1>1, <1>3, EntryRewritten
<1> HIDE DEF w
<1>6. \A j \in DOMAIN s :
        w[j].trig = s[j].trig /\ w[j].base = s[j].base /\ w[j].ids = s[j].ids
  BY <1>3, <1>5
<1> QED BY <1>4, <1>5, <1>6, AlikeSame

LEMMA TurnAppended ==
  ASSUME NEW s, TurnsOK(s), Len(s) < MaxTurnsTotal, NEW x \in TurnRecords
  PROVE  TurnsOK(Append(s, x)) /\ Len(Append(s, x)) = Len(s) + 1
PROOF BY BudgetsAssumed, AppendedSeq DEF TurnsOK

\* A replan of a baseline is recorded only below the limit of those recorded for
\* any of its failures.
LEMMA ReplanAppended ==
  ASSUME NEW s, ReplansOK(s), NEW x \in ReplanRecords, NEW limit \in Limits,
         NEW P \in SUBSET DOMAIN s, Cardinality(P) < limit,
         \A f \in x.ids : Alike(s, x.trig, x.base, f) \subseteq P
  PROVE  ReplansOK(Append(s, x))
PROOF
<1> DEFINE w == Append(s, x)
<1>1. /\ s \in Seq(ReplanRecords) /\ Len(s) \in Nat /\ DOMAIN s = 1..Len(s)
      /\ w \in Seq(ReplanRecords) /\ DOMAIN w = 1..(Len(s) + 1)
      /\ \A k \in DOMAIN s : w[k] = s[k]
      /\ w[Len(s) + 1] = x
  BY DEF ReplansOK
<1> HIDE DEF w
<1>2. ASSUME NEW i \in Steps, NEW b \in AnyPrint, NEW f \in Kinds
      PROVE  \E l \in Limits : Cardinality(Alike(w, i, b, f)) <= l
  <2>1. PICK l : l \in Limits /\ Cardinality(Alike(s, i, b, f)) <= l
    BY DEF ReplansOK
  <2>2. l \in Nat /\ limit \in Nat
    BY <2>1, BudgetsAssumed
  <2>3. /\ Alike(w, i, b, f) \in SUBSET DOMAIN w /\ Alike(s, i, b, f) \in SUBSET DOMAIN s
        /\ \A k \in DOMAIN s : k \in Alike(w, i, b, f) => k \in Alike(s, i, b, f)
        /\ Len(s) + 1 \in Alike(w, i, b, f) => x.trig = i /\ x.base = b /\ f \in x.ids
    BY <1>1 DEF Alike
  <2>4. /\ Cardinality(Alike(w, i, b, f)) \in Nat
        /\ Cardinality(Alike(w, i, b, f)) <= Cardinality(Alike(s, i, b, f)) + 1
        /\ Len(s) + 1 \notin Alike(w, i, b, f) =>
             Cardinality(Alike(w, i, b, f)) <= Cardinality(Alike(s, i, b, f))
    BY <1>1, <2>3, AppendedCounts DEF w
  <2>5. Cardinality(Alike(s, i, b, f)) \in Nat
    BY <1>1, CountsNatural
  <2>6. CASE Len(s) + 1 \notin Alike(w, i, b, f)
    BY <2>1, <2>2, <2>4, <2>5, <2>6
  <2>7. CASE Len(s) + 1 \in Alike(w, i, b, f)
    <3>1. Alike(s, i, b, f) \subseteq P
      BY <2>3, <2>7
    <3>2. IsFiniteSet(P) /\ Cardinality(P) \in Nat
      BY <1>1, PositionsFinite
    <3>3. Cardinality(Alike(s, i, b, f)) <= Cardinality(P)
      BY <3>1, <3>2, FS_Subset
    <3>4. Cardinality(Alike(w, i, b, f)) <= limit
      BY <2>2, <2>4, <2>5, <3>2, <3>3
    <3> QED BY <3>4
  <2> QED BY <2>6, <2>7
<1> QED BY <1>1, <1>2 DEF ReplansOK, w

\* What a restart forgets lowers counts only.
LEMMA KeptLedgers ==
  /\ \A s : \A K \in SUBSET DOMAIN s : RepairsOK(s) => RepairsOK(Keep(s, K))
  /\ \A s : \A K \in SUBSET DOMAIN s : TurnsOK(s) => TurnsOK(Keep(s, K))
  /\ \A s : \A K \in SUBSET DOMAIN s : ReplansOK(s) => ReplansOK(Keep(s, K))
PROOF
<1>1. ASSUME NEW s, NEW K \in SUBSET DOMAIN s, RepairsOK(s)
      PROVE  RepairsOK(Keep(s, K))
  <2> DEFINE w == Keep(s, K)
  <2>1. s \in Seq(Repairs)
    BY <1>1 DEF RepairsOK
  <2>2. /\ w \in Seq(Repairs)
        /\ \A A \in SUBSET DOMAIN w, B \in SUBSET DOMAIN s :
             (\A n \in A : \A k \in DOMAIN s : w[n] = s[k] => k \in B)
               => Cardinality(A) <= Cardinality(B)
    BY <2>1, KeptCounts
  <2> HIDE DEF w
  <2>3. Cardinality(OfHarness(w)) <= Cardinality(OfHarness(s))
    BY <2>2 DEF OfHarness
  <2>4. Cardinality(OfDesign(w)) <= Cardinality(OfDesign(s))
    BY <2>2 DEF OfDesign
  <2>5. ASSUME NEW i PROVE Cardinality(DesignAt(w, i)) <= Cardinality(DesignAt(s, i))
    BY <2>2 DEF DesignAt
  <2>6. /\ Cardinality(OfHarness(s)) \in Nat /\ Cardinality(OfDesign(s)) \in Nat
        /\ \A i : Cardinality(DesignAt(s, i)) \in Nat
        /\ Cardinality(OfHarness(w)) \in Nat /\ Cardinality(OfDesign(w)) \in Nat
        /\ \A i : Cardinality(DesignAt(w, i)) \in Nat
    BY <2>1, <2>2, CountsNatural
  <2> QED BY <1>1, <2>2, <2>3, <2>4, <2>5, <2>6, BudgetsAssumed DEF RepairsOK, w
<1>2. ASSUME NEW s, NEW K \in SUBSET DOMAIN s, TurnsOK(s)
      PROVE  TurnsOK(Keep(s, K))
  <2>1. s \in Seq(TurnRecords) /\ Len(s) <= MaxTurnsTotal
    BY <1>2 DEF TurnsOK
  <2>2. Keep(s, K) \in Seq(TurnRecords) /\ Len(Keep(s, K)) <= Len(s)
    BY <2>1, KeptCounts
  <2>3. Len(Keep(s, K)) \in Nat /\ Len(s) \in Nat
    BY <2>1, <2>2
  <2> QED BY <2>1, <2>2, <2>3, BudgetsAssumed DEF TurnsOK
<1>3. ASSUME NEW s, NEW K \in SUBSET DOMAIN s, ReplansOK(s)
      PROVE  ReplansOK(Keep(s, K))
  <2> DEFINE w == Keep(s, K)
  <2>1. s \in Seq(ReplanRecords)
    BY <1>3 DEF ReplansOK
  <2>2. /\ w \in Seq(ReplanRecords)
        /\ \A A \in SUBSET DOMAIN w, B \in SUBSET DOMAIN s :
             (\A n \in A : \A k \in DOMAIN s : w[n] = s[k] => k \in B)
               => Cardinality(A) <= Cardinality(B)
    BY <2>1, KeptCounts
  <2> HIDE DEF w
  <2>3. ASSUME NEW i \in Steps, NEW b \in AnyPrint, NEW f \in Kinds
        PROVE  \E limit \in Limits : Cardinality(Alike(w, i, b, f)) <= limit
    <3>1. Cardinality(Alike(w, i, b, f)) <= Cardinality(Alike(s, i, b, f))
      BY <2>2 DEF Alike
    <3>2. Cardinality(Alike(w, i, b, f)) \in Nat /\ Cardinality(Alike(s, i, b, f)) \in Nat
      BY <2>1, <2>2, CountsNatural
    <3>3. PICK limit : limit \in Limits /\ Cardinality(Alike(s, i, b, f)) <= limit
      BY <1>3 DEF ReplansOK
    <3>4. limit \in Nat
      BY <3>3, BudgetsAssumed
    <3>5. Cardinality(Alike(w, i, b, f)) <= limit
      BY <3>1, <3>2, <3>3, <3>4
    <3> QED BY <3>3, <3>5
  <2> QED BY <2>2, <2>3 DEF ReplansOK, w
<1> QED BY <1>1, <1>2, <1>3

LEMMA RetiredOK ==
  ASSUME NEW s, ReplansOK(s)
  PROVE  ReplansOK(Retired(s))
PROOF
<1> DEFINE w == [k \in DOMAIN s |-> IF s[k].status = "scheduled"
                                     THEN [s[k] EXCEPT !.status = "deferred"] ELSE s[k]]
<1>1. /\ s \in Seq(ReplanRecords) /\ Len(s) \in Nat /\ DOMAIN s = 1..Len(s)
      /\ \A k \in DOMAIN s : s[k] \in ReplanRecords
  BY DEF ReplansOK
<1>2. \A k \in DOMAIN s : /\ w[k] \in ReplanRecords /\ w[k].trig = s[k].trig
                          /\ w[k].base = s[k].base /\ w[k].ids = s[k].ids
  BY <1>1 DEF ReplanRecords
<1>3. w \in [1..Len(s) -> ReplanRecords] /\ DOMAIN w = DOMAIN s
  BY <1>1, <1>2
<1> HIDE DEF w
<1>4. w \in Seq(ReplanRecords)
  BY <1>1, <1>3
<1>5. ReplansOK(w)
  BY <1>2, <1>3, <1>4, AlikeSame
<1> QED BY <1>5 DEF Retired, w

LEMMA RestoredLedgers ==
  ASSUME NEW d, StateOK(d), LedgerOK(d), NEW k, NEW kept, NEW from, NEW forced
  PROVE  LedgerOK(Restored(d, k, kept, from, forced))
PROOF
<1> DEFINE w == Restored(d, k, kept, from, forced)
<1>1. /\ w.repairs = RepairsBefore(d, from) /\ w.replans = Retired(ReplansBefore(d, from))
      /\ w.turns = TurnsBefore(d, from)
  BY DEF Restored, StateOK, Fields
<1>2. RepairsOK(RepairsBefore(d, from))
  <2> DEFINE K == {j \in DOMAIN d.repairs : Before(d.repairs[j].step, from)}
  <2>1. K \in SUBSET DOMAIN d.repairs
    OBVIOUS
  <2> HIDE DEF K
  <2>2. RepairsOK(Keep(d.repairs, K))
    BY <2>1, KeptLedgers DEF LedgerOK
  <2> QED BY <2>2 DEF RepairsBefore, K
<1>3. ReplansOK(ReplansBefore(d, from))
  <2> DEFINE K == {j \in DOMAIN d.replans : /\ Before(d.replans[j].trig, from)
                                            /\ Before(d.replans[j].to, from)}
  <2>1. K \in SUBSET DOMAIN d.replans
    OBVIOUS
  <2> HIDE DEF K
  <2>2. ReplansOK(Keep(d.replans, K))
    BY <2>1, KeptLedgers DEF LedgerOK
  <2> QED BY <2>2 DEF ReplansBefore, K
<1>4. TurnsOK(TurnsBefore(d, from))
  <2> DEFINE K == {j \in DOMAIN d.turns : /\ Before(d.turns[j].step, from)
                                          /\ Before(d.turns[j].to, from)}
  <2>1. K \in SUBSET DOMAIN d.turns
    OBVIOUS
  <2> HIDE DEF K
  <2>2. TurnsOK(Keep(d.turns, K))
    BY <2>1, KeptLedgers DEF LedgerOK
  <2> QED BY <2>2 DEF TurnsBefore, K
<1> HIDE DEF w
<1>5. ReplansOK(w.replans)
  BY <1>1, <1>3, RetiredOK
<1> QED BY <1>1, <1>2, <1>4, <1>5 DEF LedgerOK, w

-----------------------------------------------------------------------------
(* The repair loop                                                           *)

LEMMA CountsAreBudgets ==
  ASSUME NEW m
  PROVE  /\ CountIf(m.repairs, Harness) = Cardinality(OfHarness(m.repairs))
         /\ CountIf(m.repairs, LAMBDA r : ~Harness(r)) = Cardinality(OfDesign(m.repairs))
         /\ \A i : CountIf(m.repairs, LAMBDA r : ~Harness(r) /\ r.step = i)
                     = Cardinality(DesignAt(m.repairs, i))
         /\ \A i, f : TimesRepaired(m, i, f) = Cardinality(OfFailure(m.repairs, i, f))
PROOF
<1>1. CountIf(m.repairs, Harness) = Cardinality(OfHarness(m.repairs))
  BY DEF CountIf, Harness, OfHarness
<1>2. CountIf(m.repairs, LAMBDA r : ~Harness(r)) = Cardinality(OfDesign(m.repairs))
  BY DEF CountIf, Harness, OfDesign
<1>3. ASSUME NEW i
      PROVE  CountIf(m.repairs, LAMBDA r : ~Harness(r) /\ r.step = i)
               = Cardinality(DesignAt(m.repairs, i))
  BY DEF CountIf, Harness, DesignAt
<1>4. ASSUME NEW i, NEW f
      PROVE  TimesRepaired(m, i, f) = Cardinality(OfFailure(m.repairs, i, f))
  <2>1. {k \in DOMAIN m.repairs :
           Harness(m.repairs[k]) /\ m.repairs[k].step = i /\ f \in m.repairs[k].ids}
          = OfFailure(m.repairs, i, f)
    BY DEF Harness, OfFailure
  <2> QED BY <2>1 DEF TimesRepaired, CountIf
<1> QED BY <1>1, <1>2, <1>3, <1>4

\* remaining_task_budget is no more than what the budgets leave.
LEMMA RemainingWithin ==
  ASSUME NEW m, RepairsOK(m.repairs), NEW i, NEW fails \in SUBSET Kinds, fails # {}
  PROVE  /\ Remaining(m, i, fails) \in Int
         /\ ~DesignScope(i, fails) =>
              Cardinality(OfHarness(m.repairs)) + Remaining(m, i, fails) <= MaxRepairs
         /\ DesignScope(i, fails) =>
              /\ Cardinality(OfDesign(m.repairs)) + Remaining(m, i, fails) <= MaxDesignTotal
              /\ Cardinality(DesignAt(m.repairs, i)) + Remaining(m, i, fails) <= MaxDesignStep
PROOF
<1> DEFINE h == Cardinality(OfHarness(m.repairs))
           d == Cardinality(OfDesign(m.repairs))
           a == Cardinality(DesignAt(m.repairs, i))
<1>1. /\ h \in Nat /\ d \in Nat /\ a \in Nat
      /\ \A f : Cardinality(OfFailure(m.repairs, i, f)) \in Nat
  BY CountsNatural DEF RepairsOK
<1>2. CASE DesignScope(i, fails)
  <2>1. Remaining(m, i, fails) = Least(MaxDesignTotal - d, MaxDesignStep - a)
    BY <1>2, CountsAreBudgets DEF Remaining
  <2> HIDE DEF h, d, a
  <2>2. /\ Remaining(m, i, fails) \in Int
        /\ d + Remaining(m, i, fails) <= MaxDesignTotal /\ a + Remaining(m, i, fails) <= MaxDesignStep
    BY <1>1, <2>1, BudgetsAssumed DEF Least
  <2> QED BY <1>2, <2>2 DEF d, a
<1>3. CASE ~DesignScope(i, fails)
  <2> DEFINE g == [f \in Kinds |-> Cardinality(OfFailure(m.repairs, i, f))]
             same == CHOOSE n \in {TimesRepaired(m, i, f) : f \in fails} :
                       \A f \in fails : TimesRepaired(m, i, f) <= n
  <2>1. \A f \in fails : g[f] \in Nat /\ g[f] = TimesRepaired(m, i, f)
    BY <1>1, CountsAreBudgets
  <2>2. Remaining(m, i, fails) = Least(MaxRepairs - h, MaxSame - same)
    BY <1>3, CountsAreBudgets DEF Remaining
  <2> HIDE DEF g, h
  <2>3. \E f \in fails : \A l \in fails : g[l] <= g[f]
    BY <2>1, GreatestCount
  <2>4. \E n \in {TimesRepaired(m, i, f) : f \in fails} : \A f \in fails : TimesRepaired(m, i, f) <= n
    BY <2>1, <2>3
  <2>5. same \in {TimesRepaired(m, i, f) : f \in fails}
    BY <2>4
  <2>6. same \in Nat
    BY <2>1, <2>5
  <2> HIDE DEF same
  <2>7. Remaining(m, i, fails) \in Int /\ h + Remaining(m, i, fails) <= MaxRepairs
    BY <1>1, <2>2, <2>6, BudgetsAssumed DEF Least
  <2> QED BY <1>3, <2>7 DEF h
<1> QED BY <1>2, <1>3

LEMMA LoopBegins ==
  ASSUME NEW m, RepairsOK(m.repairs), NEW i, NEW fails \in SUBSET Kinds, fails # {}, NEW learned
  PROVE  LoopOK(m.repairs, RepairLoop(m, i, fails, learned), i)
PROOF
<1> DEFINE loop == RepairLoop(m, i, fails, learned)
           rem == Remaining(m, i, fails)
<1>1. /\ loop.kind = IF DesignScope(i, fails) THEN "design" ELSE "harness"
      /\ loop.hard = Least(12, IF rem > 0 THEN rem ELSE 0) /\ loop.att = 0
  BY DEF RepairLoop
<1>2. /\ rem \in Int
      /\ ~DesignScope(i, fails) => Cardinality(OfHarness(m.repairs)) + rem <= MaxRepairs
      /\ DesignScope(i, fails) => /\ Cardinality(OfDesign(m.repairs)) + rem <= MaxDesignTotal
                                  /\ Cardinality(DesignAt(m.repairs, i)) + rem <= MaxDesignStep
  BY RemainingWithin
<1>3. /\ Cardinality(OfHarness(m.repairs)) \in Nat /\ Cardinality(OfDesign(m.repairs)) \in Nat
      /\ Cardinality(DesignAt(m.repairs, i)) \in Nat
  BY CountsNatural DEF RepairsOK
<1> HIDE DEF loop, rem
<1>4. loop.hard \in Nat /\ (0 < loop.hard => loop.hard <= rem)
  BY <1>1, <1>2 DEF Least
<1>5. Room(m.repairs, loop, i)
  BY <1>1, <1>2, <1>3, <1>4, BudgetsAssumed DEF Room
<1> QED BY <1>1, <1>4, <1>5 DEF LoopOK, loop

LEMMA NoLoop ==
  ASSUME NEW s, NEW i PROVE LoopOK(s, NoRepair, i)
PROOF BY DEF LoopOK, Room, NoRepair

\* An attempt is one more entry, for one attempt less.
LEMMA RepairedLedgers ==
  ASSUME NEW m, StateOK(m), LedgerOK(m), NEW i \in Steps, At(m) = i, ev.fails \subseteq Kinds,
         LoopOK(m.repairs, rp, i), rp.att < rp.hard, NEW status
  PROVE  LET w == Repaired(m, status) IN
         /\ LedgerOK(w)
         /\ \A loop : loop.kind = rp.kind /\ loop.att = rp.att + 1 /\ loop.hard \in {0, rp.hard}
                        => LoopOK(w.repairs, loop, i)
PROOF
<1> DEFINE w == Repaired(m, status)
           x == [kind |-> rp.kind, step |-> i, ids |-> ev.fails]
<1>1. w.repairs = Append(m.repairs, x) /\ w.replans = m.replans /\ w.turns = m.turns
  BY DEF Repaired, StateOK, Fields
<1>2. x \in Repairs /\ x.kind = rp.kind /\ x.step = i
  BY DEF Repairs, LoopOK
<1> DEFINE s == m.repairs
           v == Append(m.repairs, x)
<1>3. /\ RepairsOK(s) /\ rp.hard \in Nat /\ rp.att \in Nat /\ Room(s, rp, i)
      /\ rp.kind \in {"design", "harness"}
  BY DEF LedgerOK, LoopOK
<1>4. /\ Cardinality(OfHarness(s)) \in Nat /\ Cardinality(OfDesign(s)) \in Nat
      /\ Cardinality(DesignAt(s, i)) \in Nat
  BY <1>3, CountsNatural DEF RepairsOK
<1> HIDE DEF s, x
<1>5. /\ rp.kind = "harness" =>
           Cardinality(OfHarness(s)) + (rp.hard - rp.att) <= MaxRepairs
      /\ rp.kind = "design" =>
           /\ Cardinality(OfDesign(s)) + (rp.hard - rp.att) <= MaxDesignTotal
           /\ Cardinality(DesignAt(s, i)) + (rp.hard - rp.att) <= MaxDesignStep
  BY <1>3 DEF Room
<1>6. /\ x.kind = "harness" => Cardinality(OfHarness(s)) < MaxRepairs
      /\ x.kind = "design" => /\ Cardinality(OfDesign(s)) < MaxDesignTotal
                              /\ Cardinality(DesignAt(s, x.step)) < MaxDesignStep
  BY <1>2, <1>3, <1>4, <1>5, BudgetsAssumed
<1>7. /\ RepairsOK(v)
      /\ Cardinality(OfHarness(v)) <= Cardinality(OfHarness(s)) + 1
      /\ Cardinality(OfDesign(v)) <= Cardinality(OfDesign(s)) + 1
      /\ Cardinality(DesignAt(v, i)) <= Cardinality(DesignAt(s, i)) + 1
  BY <1>2, <1>3, <1>6, RepairAppended DEF s
<1>8. /\ Cardinality(OfHarness(v)) \in Nat /\ Cardinality(OfDesign(v)) \in Nat
      /\ Cardinality(DesignAt(v, i)) \in Nat
  BY <1>7, CountsNatural DEF RepairsOK
<1> HIDE DEF v
<1>9. ASSUME NEW loop, loop.kind = rp.kind, loop.att = rp.att + 1, loop.hard \in {0, rp.hard}
      PROVE  LoopOK(v, loop, i)
  <2>1. Room(v, loop, i)
    BY <1>3, <1>4, <1>5, <1>7, <1>8, <1>9, BudgetsAssumed DEF Room
  <2> QED BY <1>3, <1>9, <2>1 DEF LoopOK
<1> HIDE DEF w
<1>10. LedgerOK(w) /\ w.repairs = v
  BY <1>1, <1>7 DEF LedgerOK, v
<1> QED BY <1>9, <1>10 DEF w

-----------------------------------------------------------------------------
(* Recovery and replans                                                      *)

LEMMA ScoreTyped ==
  ASSUME NEW e, EvalTyped(e)
  PROVE  Score(e) \in Nat \X Nat
PROOF
<1>1. IsFiniteSet(Kinds)
  <2>1. IsFiniteSet({} \union {"design"})
    BY FS_EmptySet, FS_AddElement
  <2>2. IsFiniteSet(({} \union {"design"}) \union {"evidence"})
    BY <2>1, FS_AddElement
  <2>3. IsFiniteSet((({} \union {"design"}) \union {"evidence"}) \union {"hard"})
    BY <2>2, FS_AddElement
  <2>4. IsFiniteSet(((({} \union {"design"}) \union {"evidence"}) \union {"hard"})
                       \union {"harness"})
    BY <2>3, FS_AddElement
  <2>5. IsFiniteSet((((({} \union {"design"}) \union {"evidence"}) \union {"hard"})
                        \union {"harness"}) \union {"infra"})
    BY <2>4, FS_AddElement
  <2>6. Kinds = (((({} \union {"design"}) \union {"evidence"}) \union {"hard"})
                   \union {"harness"}) \union {"infra"}
    BY DEF Kinds
  <2> QED BY <2>5, <2>6
<1>2. Cardinality(e.fails) \in Nat
  BY <1>1, FS_Subset, FS_CardinalityType DEF EvalTyped
<1> QED BY <1>2 DEF Score, EvalTyped

LEMMA RecordLedgers ==
  ASSUME NEW m, StateOK(m), NEW e, NEW arts
  PROVE  SameLedgers(m, Record(m, e, arts))
PROOF BY DEF SameLedgers, Record, StateOK, Fields

LEMMA ObservedLedgers ==
  ASSUME NEW m, StateOK(m), LedgerOK(m), EvalTyped(ev)
  PROVE  LedgerOK(Observed(m))
PROOF
<1> DEFINE k == ActiveTurn(m, Here)
           o == Observed(m)
<1>1. CASE k = 0
  BY <1>1 DEF Observed
<1>2. CASE k # 0
  <2>1. PICK x \in TurnStatus :
          o = [m EXCEPT !.turns[k].after = Score(ev), !.turns[k].status = x]
    BY <1>2 DEF Observed, TurnStatus
  <2> DEFINE t == [m.turns EXCEPT ![k].after = Score(ev)]
  <2>2. /\ o.turns = [t EXCEPT ![k].status = x]
        /\ o.repairs = m.repairs /\ o.replans = m.replans
    BY <2>1 DEF StateOK, Fields
  <2>3. TurnsOK(t)
    BY ScoreTyped, TurnRewritten DEF LedgerOK
  <2> HIDE DEF t
  <2>4. TurnsOK([t EXCEPT ![k].status = x])
    BY <2>3, TurnRewritten
  <2> QED BY <2>2, <2>4 DEF LedgerOK
<1> QED BY <1>1, <1>2

LEMMA DecisionTyped ==
  ASSUME NEW m, NEW suggested, Here \in Steps, Here \in Nat, NEW d \in Decisions(m, suggested)
  PROVE  d.act \in Acts /\ d.to \in Steps
PROOF
<1>1. Allowed(m) \subseteq Steps
  <2>1. N \in Nat /\ Steps = 1..N
    BY Assumed
  <2>2. 2..(Here - 1) \subseteq Steps
    BY <2>1
  <2>3. Allowed(m) \subseteq 2..(Here - 1)
    BY DEF Allowed
  <2> QED BY <2>2, <2>3
<1>2. CASE d \in Fallback(m, suggested)
  <2>1. \/ \E a \in {"stop", "retry", "local", "ask", "investigate"} : d = Decision(a, Here)
        \/ \E t \in Allowed(m) : d = Decision("replan", t)
    <3>1. CASE "hard" \in ev.fails
      BY <1>2, <3>1 DEF Fallback
    <3>2. CASE "hard" \notin ev.fails /\ ("infra" \in ev.fails \/ ev.exec)
      BY <1>2, <3>2 DEF Fallback
    <3>3. CASE "hard" \notin ev.fails /\ ~("infra" \in ev.fails \/ ev.exec)
      BY <1>2, <3>3 DEF Fallback
    <3> QED BY <3>1, <3>2, <3>3
  <2> QED BY <1>1, <2>1 DEF Decision, Acts
<1>3. CASE d \notin Fallback(m, suggested)
  BY <1>3 DEF Decisions
<1> QED BY <1>2, <1>3

\* A turn is taken only while the run has one left.
LEMMA PlannedLedgers ==
  ASSUME NEW m, StateOK(m), LedgerOK(m), EvalTyped(ev), Here \in Steps, TurnAvailable(m),
         NEW d, d.act \in Acts, d.to \in Steps
  PROVE  LedgerOK(Planned(m, d)) /\ Len(Planned(m, d).turns) \in Nat \ {0}
PROOF
<1>1. PICK st \in {"exhausted", "planned"} :
        Planned(m, d) = [m EXCEPT !.turns = Append(@, Turn(m, d, st))]
  BY DEF Planned
<1>2. m.arts[Here] \in AnyPrint
  BY DEF StateOK, Artifacts
<1>3. Turn(m, d, st) \in TurnRecords
  BY <1>2, ScoreTyped DEF Turn, TurnRecords, EvalTyped
<1>4. Len(m.turns) < MaxTurnsTotal /\ TurnsOK(m.turns) /\ Len(m.turns) \in Nat
  BY DEF TurnAvailable, LedgerOK, TurnsOK
<1> DEFINE t == Append(m.turns, Turn(m, d, st))
<1>5. TurnsOK(t) /\ Len(t) = Len(m.turns) + 1
  BY <1>3, <1>4, TurnAppended
<1> HIDE DEF t
<1>6. /\ Planned(m, d).turns = t /\ Planned(m, d).repairs = m.repairs
      /\ Planned(m, d).replans = m.replans
  BY <1>1 DEF StateOK, Fields, t
<1> QED BY <1>4, <1>5, <1>6 DEF LedgerOK

LEMMA ActedLedgers ==
  ASSUME NEW m, StateOK(m), LedgerOK(m), NEW d
  PROVE  LedgerOK(ActedLocally(m, d))
PROOF
<1> DEFINE w == ActedLocally(m, d)
<1>1. /\ w.turns = [m.turns EXCEPT ![Len(m.turns)].status = "acted"]
      /\ w.repairs = m.repairs /\ w.replans = m.replans
  BY DEF ActedLocally, StateOK, Fields
<1> HIDE DEF w
<1>2. TurnsOK(w.turns)
  <2>1. TurnsOK(m.turns)
    BY DEF LedgerOK
  <2>2. TurnsOK([m.turns EXCEPT ![Len(m.turns)].status = "acted"])
    BY <2>1, TurnRewritten DEF TurnStatus
  <2> QED BY <1>1, <2>2
<1> QED BY <1>1, <1>2 DEF LedgerOK, w

LEMMA ReplannedLedgers ==
  ASSUME NEW m, StateOK(m), LedgerOK(m), EvalTyped(ev), Here \in Steps, NEW to \in Steps,
         NEW limit \in Limits, Prior(m, to) < limit
  PROVE  LedgerOK(Replanned(m, to))
PROOF
<1> DEFINE w == Replanned(m, to)
           x == [trig |-> Here, to |-> to, ids |-> ev.fails, status |-> "scheduled",
                 base |-> m.arts[to]]
           n == Len(m.turns)
           P == {k \in DOMAIN m.replans : Related(m.replans[k]) /\ m.replans[k].base = m.arts[to]}
<1>1. /\ w.replans = Append(m.replans, x) /\ w.repairs = m.repairs
      /\ w.turns \in {m.turns, [m.turns EXCEPT ![n].status = "acted"]}
  BY DEF Replanned, Cut, StateOK, Fields
<1>2. TurnsOK(w.turns)
  <2>1. TurnsOK(m.turns)
    BY DEF LedgerOK
  <2>2. TurnsOK([m.turns EXCEPT ![n].status = "acted"])
    BY <2>1, TurnRewritten DEF TurnStatus
  <2> QED BY <1>1, <2>1, <2>2
<1>3. x \in ReplanRecords /\ x.trig = Here /\ x.base = m.arts[to] /\ x.ids = ev.fails
  <2>1. m.arts[to] \in AnyPrint
    BY DEF StateOK, Artifacts
  <2> QED BY <2>1 DEF ReplanRecords, EvalTyped
<1>4. Cardinality(P) < limit
  <2>1. to # 0
    BY Assumed
  <2>2. Prior(m, to) = Cardinality(P)
    BY <2>1 DEF Prior, CountIf
  <2> QED BY <2>2
<1>5. \A f \in ev.fails : Alike(m.replans, Here, m.arts[to], f) \subseteq P
  BY DEF Alike, Related
<1>6. P \in SUBSET DOMAIN m.replans
  OBVIOUS
<1> HIDE DEF x, P, w
<1>7. ReplansOK(Append(m.replans, x))
  BY <1>3, <1>4, <1>5, <1>6, ReplanAppended DEF LedgerOK
<1> QED BY <1>1, <1>2, <1>7 DEF LedgerOK, w

LEMMA StoppedLedgers ==
  ASSUME NEW m, StateOK(m), LedgerOK(m), NEW to, NEW limit
  PROVE  LedgerOK(Stopped(m, to, limit))
PROOF
<1> DEFINE w == Stopped(m, to, limit)
           k == Scheduled(m, Here)
           n == Len(m.turns)
<1>1. /\ w.repairs = m.repairs
      /\ \/ w.replans = m.replans
         \/ \E x \in ReplanStatus : w.replans = [m.replans EXCEPT ![k].status = x]
      /\ w.turns \in {m.turns, [m.turns EXCEPT ![n].status = "exhausted"]}
  <2>1. w.repairs = m.repairs
    BY DEF Stopped, StateOK, Fields
  <2>2. w.turns \in {m.turns, [m.turns EXCEPT ![n].status = "exhausted"]}
    BY DEF Stopped, StateOK, Fields
  <2>3. w.replans = IF k = 0 THEN m.replans
          ELSE [m.replans EXCEPT ![k].status =
                  IF Prior(m, to) >= limit THEN "exhausted" ELSE "stagnated"]
    BY DEF Stopped, StateOK, Fields
  <2> QED BY <2>1, <2>2, <2>3 DEF ReplanStatus
<1> HIDE DEF w
<1>2. TurnsOK(w.turns)
  <2>1. TurnsOK(m.turns)
    BY DEF LedgerOK
  <2>2. TurnsOK([m.turns EXCEPT ![n].status = "exhausted"])
    BY <2>1, TurnRewritten DEF TurnStatus
  <2> QED BY <1>1, <2>1, <2>2
<1>3. ReplansOK(w.replans)
  <2>1. ReplansOK(m.replans)
    BY DEF LedgerOK
  <2>2. ASSUME NEW x \in ReplanStatus
        PROVE  ReplansOK([m.replans EXCEPT ![k].status = x])
    BY <2>1, ReplanRewritten
  <2> QED BY <1>1, <2>1, <2>2
<1> QED BY <1>1, <1>2, <1>3 DEF LedgerOK, w

-----------------------------------------------------------------------------
(* Every step keeps the ledgers                                              *)

LEMMA EvalsTyped ==
  ASSUME trouble \subseteq Kinds, NEW i, NEW arts, NEW e \in Evals(i, arts)
  PROVE  EvalTyped(e)
PROOF
<1>1. PICK a, f, x : f \subseteq Kinds /\ x \in Details /\ e = Evaluation(a, f, x)
  BY DEF Evals
<1>2. x \in Nat
  BY <1>1, BudgetsAssumed
<1> QED BY <1>1, <1>2 DEF Evaluation, EvalTyped

LEMMA NoEvalTyped == EvalTyped(NoEval)
PROOF BY DEF NoEval, EvalTyped

LEMMA SettledTyped ==
  ASSUME Settled PROVE EvalTyped(ev')
PROOF BY NoEvalTyped DEF Settled, EvalTyped

LEMMA SaveLedgers ==
  ASSUME LedgerInv, NEW m, LedgerOK(m), NEW next \in {"loop", "end"}, Save(m, next), EvalTyped(ev')
  PROVE  LedgerInv'
PROOF
<1>1. pc' # "repair" /\ disk' \in {disk, m} /\ mem' \in {Blank, m}
  BY DEF Save
<1>2. LedgerOK(disk') /\ LedgerOK(mem')
  BY <1>1, BlankLedgers DEF LedgerInv
<1> QED BY <1>1, <1>2 DEF LedgerInv, LedgerOK, EvalTyped

LEMMA CloseLedgers ==
  ASSUME LedgerInv, NEW m, StateOK(m), LedgerOK(m), NEW e, Close(m, e), UNCHANGED disk,
         EvalTyped(ev')
  PROVE  LedgerInv'
PROOF
<1>1. PICK arts : mem' = Record(m, e, arts) /\ pc' = "judge"
  BY DEF Close
<1>2. LedgerOK(mem')
  BY <1>1, RecordLedgers, SameLedgersOK
<1> QED BY <1>1, <1>2 DEF LedgerInv, LedgerOK, EvalTyped

LEMMA ProceedLedgers ==
  ASSUME LedgerInv, NEW m, StateOK(m), LedgerOK(m), NEW e, EvalTyped(e), NEW loop,
         LoopOK(m.repairs, loop, At(m)), Proceed(m, e, loop), UNCHANGED disk
  PROVE  LedgerInv'
PROOF
<1>1. ev' = e /\ rp' = loop
  BY DEF Proceed
<1>2. CASE Close(m, e)
  BY <1>1, <1>2, CloseLedgers DEF EvalTyped
<1>3. CASE pc' = "repair" /\ mem' = m
  <2>1. LedgerOK(disk')
    BY DEF LedgerInv
  <2>2. LedgerOK(mem') /\ EvalTyped(ev') /\ LoopOK(mem'.repairs, rp', At(mem'))
    BY <1>1, <1>3
  <2> QED BY <2>1, <2>2 DEF LedgerInv, LedgerOK, EvalTyped, LoopOK, Room, At
<1> QED BY <1>2, <1>3 DEF Proceed

LEMMA TakenLedgers ==
  ASSUME NEW m, StateOK(m), NEW i
  PROVE  LET w == [m EXCEPT !.cands[i] = 0] IN
         SameLedgers(m, w) /\ At(w) = At(m) /\ w.repairs = m.repairs
PROOF BY DEF StateOK, Fields, SameLedgers, At

LEMMA RunStepLedgers ==
  ASSUME PipelineInv, LedgerInv, RunStep
  PROVE  LedgerInv'
PROOF
<1> DEFINE i == At(mem)
           m == [mem EXCEPT !.cands[i] = 0]
<1>1. PICK e, learned, applicable :
        /\ e \in Evals(i, Baselines(mem, i))
        /\ Proceed(m, e, IF CanRepair(i, e) /\ applicable
                           THEN RepairLoop(mem, i, e.fails, learned) ELSE NoRepair)
  BY DEF RunStep
<1> DEFINE loop == IF CanRepair(i, e) /\ applicable
                     THEN RepairLoop(mem, i, e.fails, learned) ELSE NoRepair
<1>2. EvalTyped(e)
  BY <1>1, EvalsTyped DEF PipelineInv
<1>3. StateOK(mem) /\ Ready(mem) /\ Len(mem.res) < N /\ i = Len(mem.res) + 1
  BY InvMem, StepToTake DEF RunStep
<1>4. StateOK(m)
  BY <1>3, TakenWorking, Forms
<1>5. SameLedgers(mem, m) /\ At(m) = i /\ m.repairs = mem.repairs /\ LedgerOK(m)
  BY <1>3, TakenLedgers, SameLedgersOK DEF LedgerInv
<1>6. LoopOK(mem.repairs, loop, i)
  <2>1. CASE CanRepair(i, e) /\ applicable
    <3>1. RepairsOK(mem.repairs) /\ e.fails \subseteq Kinds /\ e.fails # {}
      BY <2>1, <1>2 DEF LedgerInv, LedgerOK, EvalTyped, CanRepair
    <3> QED BY <2>1, <3>1, LoopBegins
  <2>2. CASE ~(CanRepair(i, e) /\ applicable)
    BY <2>2, NoLoop
  <2> QED BY <2>1, <2>2
<1>7. UNCHANGED disk /\ Proceed(m, e, loop)
  BY <1>1 DEF RunStep
<1> HIDE DEF m, loop, i
<1> QED BY <1>2, <1>4, <1>5, <1>6, <1>7, ProceedLedgers

LEMMA InRepair ==
  ASSUME PipelineInv, LedgerInv, pc = "repair"
  PROVE  /\ StateOK(mem) /\ LedgerOK(mem) /\ At(mem) \in Steps /\ EvalTyped(ev)
         /\ ev.fails \subseteq Kinds /\ LoopOK(mem.repairs, rp, At(mem))
PROOF
<1>1. StateOK(mem) /\ Working(mem)
  BY InvMem DEF PipelineInv
<1>2. At(mem) \in Steps
  BY <1>1, Forms, Assumed DEF Working, At
<1> QED BY <1>1, <1>2 DEF LedgerInv, EvalTyped

LEMMA RepairErrorLedgers ==
  ASSUME PipelineInv, LedgerInv, RepairError
  PROVE  LedgerInv'
PROOF
<1>1. /\ pc = "repair" /\ rp.att < rp.hard /\ Close(Repaired(mem, "error"), ev)
      /\ UNCHANGED disk /\ ev' = ev
  BY DEF RepairError, GoesOn
<1>2. LedgerOK(Repaired(mem, "error"))
  BY <1>1, InRepair, RepairedLedgers
<1>3. StateOK(Repaired(mem, "error"))
  BY <1>1, RepairedWorking
<1>4. EvalTyped(ev')
  BY <1>1 DEF LedgerInv, EvalTyped
<1> QED BY <1>1, <1>2, <1>3, <1>4, CloseLedgers

LEMMA RepairAttemptLedgers ==
  ASSUME PipelineInv, LedgerInv, RepairAttempt
  PROVE  LedgerInv'
PROOF
<1>1. PICK e, arts, status, f, loop :
        /\ e \in Evals(At(mem), Prints[At(mem)]) /\ arts \in Rewrites(mem.arts, Swaps[At(mem)])
        /\ f = e \/ f = ev
        /\ loop.kind = rp.kind /\ loop.att = rp.att + 1 /\ loop.hard \in {0, rp.hard}
        /\ Proceed([Repaired(mem, status) EXCEPT !.arts = arts], f, loop)
  <2>1. PICK e \in Evals(At(mem), Prints[At(mem)]), arts \in Rewrites(mem.arts, Swaps[At(mem)]) :
          LET improved == Better(Score(e), Score(ev))
              gives == ~improved /\ At(mem) \in Deterministic IN
          Proceed([Repaired(mem, IF improved THEN "improved" ELSE "rejected")
                     EXCEPT !.arts = arts], IF improved THEN e ELSE ev,
                  [rp EXCEPT !.att = @ + 1, !.stuck = IF improved THEN 0 ELSE @ + 1,
                             !.hard = IF gives THEN 0 ELSE @])
    BY DEF RepairAttempt
  <2> DEFINE improved == Better(Score(e), Score(ev))
             gives == ~improved /\ At(mem) \in Deterministic
             loop == [rp EXCEPT !.att = @ + 1, !.stuck = IF improved THEN 0 ELSE @ + 1,
                                !.hard = IF gives THEN 0 ELSE @]
  <2>2. loop.kind = rp.kind /\ loop.att = rp.att + 1 /\ loop.hard \in {0, rp.hard}
    OBVIOUS
  <2>3. Proceed([Repaired(mem, IF improved THEN "improved" ELSE "rejected")
                   EXCEPT !.arts = arts], IF improved THEN e ELSE ev, loop)
    BY <2>1
  <2> HIDE DEF loop
  <2> QED BY <2>2, <2>3
<1> DEFINE r == Repaired(mem, status)
           m == [r EXCEPT !.arts = arts]
<1>2. /\ pc = "repair" /\ rp.att < rp.hard /\ UNCHANGED disk
  BY DEF RepairAttempt, GoesOn
<1>3. LedgerOK(r) /\ LoopOK(r.repairs, loop, At(mem))
  BY <1>1, <1>2, InRepair, RepairedLedgers
<1>4. StateOK(r) /\ r.res = mem.res /\ r.arts = mem.arts
  BY <1>2, RepairedWorking
<1>5. arts \in Artifacts
  <2>1. Swaps[At(mem)] \in SUBSET Steps /\ mem.arts \in Artifacts
    BY <1>2, InRepair, Assumed DEF StateOK
  <2> QED BY <1>1, <2>1, RewritesType
<1> HIDE DEF r
<1>6. SameLedgers(r, m) /\ m.repairs = r.repairs /\ At(m) = At(mem) /\ StateOK(m)
  BY <1>4, <1>5 DEF StateOK, Fields, SameLedgers, At
<1>7. LedgerOK(m)
  BY <1>3, <1>6, SameLedgersOK
<1>8. EvalTyped(f)
  <2>1. EvalTyped(e) /\ EvalTyped(ev)
    BY <1>1, EvalsTyped DEF PipelineInv, LedgerInv
  <2> QED BY <1>1, <2>1
<1>9. Proceed(m, f, loop)
  BY <1>1 DEF r
<1> HIDE DEF m
<1> QED BY <1>2, <1>3, <1>6, <1>7, <1>8, <1>9, ProceedLedgers

LEMMA RepairOutOfTimeLedgers ==
  ASSUME PipelineInv, LedgerInv, RepairOutOfTime
  PROVE  LedgerInv'
PROOF
<1>1. Close(mem, ev) /\ UNCHANGED disk /\ ev' = ev
  BY DEF RepairOutOfTime
<1>2. StateOK(mem) /\ LedgerOK(mem) /\ EvalTyped(ev')
  BY <1>1, InvMem DEF LedgerInv, EvalTyped
<1> QED BY <1>1, <1>2, CloseLedgers

LEMMA StepRaisesLedgers ==
  ASSUME PipelineInv, LedgerInv, StepRaises
  PROVE  LedgerInv'
PROOF
<1> DEFINE m == [mem EXCEPT !.cands[At(mem)] = 0]
<1>1. StateOK(mem) /\ SameLedgers(mem, m)
  BY InvMem, TakenLedgers
<1>2. /\ disk' = disk /\ pc' # "repair"
      /\ mem' = Blank \/ mem' = m \/ \E r : mem' = [m EXCEPT !.res = Append(@, r)]
      /\ ev' = NoEval \/ \E k \in {"infra", "design"} :
                           ev' = [art |-> 0, fails |-> {k}, exec |-> TRUE, detail |-> 0]
  BY DEF StepRaises, Leave, Settled
<1>3. DOMAIN m = Fields
  BY <1>1 DEF StateOK
<1> HIDE DEF m
<1>4. \A r : SameLedgers(m, [m EXCEPT !.res = Append(@, r)])
  BY <1>3 DEF SameLedgers, Fields
<1>5. LedgerOK(mem')
  <2>1. LedgerOK(m)
    BY <1>1, SameLedgersOK DEF LedgerInv
  <2>2. \A r : LedgerOK([m EXCEPT !.res = Append(@, r)])
    BY <2>1, <1>4, SameLedgersOK
  <2> QED BY <2>1, <2>2, <1>2, BlankLedgers
<1>6. EvalTyped(ev')
  BY <1>2, NoEvalTyped DEF EvalTyped, Kinds
<1> QED BY <1>2, <1>5, <1>6 DEF LedgerInv, LedgerOK, EvalTyped

LEMMA SaveProgressLedgers ==
  ASSUME PipelineInv, LedgerInv, SaveProgress
  PROVE  LedgerInv'
PROOF
<1> DEFINE m == [mem EXCEPT !.cands[At(mem)] = 0]
<1>1. SameLedgers(mem, m)
  BY InvMem, TakenLedgers
<1>2. LedgerOK(m)
  BY <1>1, SameLedgersOK DEF LedgerInv
<1>3. Save(m, "loop") /\ ev' = ev
  BY DEF SaveProgress
<1>4. EvalTyped(ev')
  BY <1>3 DEF LedgerInv, EvalTyped
<1> HIDE DEF m
<1> QED BY <1>2, <1>3, <1>4, SaveLedgers

LEMMA ContinueLedgers ==
  ASSUME PipelineInv, LedgerInv, Continue
  PROVE  LedgerInv'
PROOF
<1> DEFINE o == Observed(mem)
<1>1. PICK k, m : /\ m = o \/ m = [o EXCEPT !.replans[k].status = "recovered"]
                  /\ Save(m, "loop")
  BY DEF Continue
<1>2. pc = "judge" /\ Settled
  BY DEF Continue
<1>3. StateOK(o) /\ LedgerOK(o)
  BY <1>2, JudgedHere, ObservedLedgers DEF LedgerInv
<1> HIDE DEF o
<1>4. LedgerOK(m)
  <2>1. CASE m = [o EXCEPT !.replans[k].status = "recovered"]
    <3>1. /\ m.replans = [o.replans EXCEPT ![k].status = "recovered"]
          /\ m.repairs = o.repairs /\ m.turns = o.turns
      BY <2>1, <1>3 DEF StateOK, Fields
    <3>2. ReplansOK([o.replans EXCEPT ![k].status = "recovered"])
      BY <1>3, ReplanRewritten DEF LedgerOK, ReplanStatus
    <3> QED BY <1>3, <3>1, <3>2 DEF LedgerOK
  <2> QED BY <1>1, <1>3, <2>1
<1> QED BY <1>1, <1>2, <1>4, SettledTyped, SaveLedgers

LEMMA FallLedgers ==
  ASSUME LedgerInv, NEW m, StateOK(m), LedgerOK(m), Here \in Steps, Here \in Nat,
         NEW to \in 0..(Here - 1), Fall(m, to), EvalTyped(ev')
  PROVE  LedgerInv'
PROOF
<1>1. PICK limit \in Limits :
        IF to # 0 /\ Prior(m, to) < limit THEN Save(Replanned(m, to), "loop")
                                          ELSE Save(Stopped(m, to, limit), "end")
  BY DEF Fall
<1>2. CASE to # 0 /\ Prior(m, to) < limit
  <2>1. to \in Steps
    <3>1. N \in Nat /\ Steps = 1..N
      BY Assumed
    <3> QED BY <3>1, <1>2
  <2>2. LedgerOK(Replanned(m, to))
    BY <1>2, <2>1, ReplannedLedgers DEF LedgerInv
  <2> QED BY <1>1, <1>2, <2>2, SaveLedgers
<1>3. CASE ~(to # 0 /\ Prior(m, to) < limit)
  <2>1. LedgerOK(Stopped(m, to, limit))
    BY StoppedLedgers
  <2> QED BY <1>1, <1>3, <2>1, SaveLedgers
<1> QED BY <1>2, <1>3

LEMMA RecoverLedgers ==
  ASSUME PipelineInv, LedgerInv, Recover
  PROVE  LedgerInv'
PROOF
<1>1. pc = "judge" /\ Settled
  BY DEF Recover
<1>2. PICK s \in Suggestions(mem) :
        LET m == [Observed(mem) EXCEPT !.arts = s[2]] IN
        \/ TurnAvailable(m) /\ \E d \in Decisions(m, s[1]) :
             \/ Save(ActedLocally(Planned(m, d), d), "loop")
             \/ Fall(Planned(m, d), 0) \/ Fall(Planned(m, d), s[1])
             \/ d.act = "replan" /\ Fall(Planned(m, d), d.to)
        \/ Fall(m, s[1])
  BY DEF Recover
<1> DEFINE o == Observed(mem)
           m == [o EXCEPT !.arts = s[2]]
<1>3. /\ StateOK(m) /\ s[1] \in 0..(Here - 1) /\ StateOK(o) /\ LedgerOK(o)
      /\ Here \in Steps /\ Here \in Nat /\ 0 \in 0..(Here - 1) /\ EvalTyped(ev)
  BY <1>1, SuggestedJudged, JudgedHere, ObservedLedgers, Assumed DEF LedgerInv
<1> HIDE DEF o
<1>4. SameLedgers(o, m)
  BY <1>3 DEF SameLedgers, StateOK, Fields
<1>5. LedgerOK(m) /\ EvalTyped(ev')
  BY <1>1, <1>3, <1>4, SameLedgersOK, SettledTyped
<1>6. CASE Fall(m, s[1])
  BY <1>3, <1>5, <1>6, FallLedgers
<1>7. ASSUME TurnAvailable(m), NEW d \in Decisions(m, s[1])
      PROVE  /\ LedgerOK(Planned(m, d)) /\ StateOK(Planned(m, d))
             /\ d.act = "replan" => d.to \in 0..(Here - 1)
  <2> HIDE DEF m
  <2>1. d.act \in Acts /\ d.to \in Steps
    BY <1>3, DecisionTyped
  <2>2. LedgerOK(Planned(m, d))
    BY <1>3, <1>5, <1>7, <2>1, PlannedLedgers
  <2>3. SameCore(m, Planned(m, d)) /\ Planned(m, d).rev = m.rev
    BY <1>3, Forms, CoreKept
  <2>4. StateOK(Planned(m, d))
    BY <1>3, <2>3, Forms DEF SameCore, StateOK
  <2>5. d.act = "replan" => d.to \in 2..(Here - 1)
    BY DecisionTarget
  <2> QED BY <1>3, <2>2, <2>4, <2>5
<1>8. ASSUME TurnAvailable(m), NEW d \in Decisions(m, s[1]),
             Save(ActedLocally(Planned(m, d), d), "loop")
      PROVE  LedgerInv'
  <2> HIDE DEF m
  <2>1. LedgerOK(ActedLocally(Planned(m, d), d))
    BY <1>7, <1>8, ActedLedgers
  <2> QED BY <1>5, <1>8, <2>1, SaveLedgers
<1>9. ASSUME TurnAvailable(m), NEW d \in Decisions(m, s[1]), NEW to \in 0..(Here - 1),
             Fall(Planned(m, d), to)
      PROVE  LedgerInv'
  <2> HIDE DEF m
  <2> QED BY <1>3, <1>5, <1>7, <1>9, FallLedgers
<1>10. \/ TurnAvailable(m) /\ \E d \in Decisions(m, s[1]) :
            \/ Save(ActedLocally(Planned(m, d), d), "loop")
            \/ Fall(Planned(m, d), 0) \/ Fall(Planned(m, d), s[1])
            \/ d.act = "replan" /\ Fall(Planned(m, d), d.to)
       \/ Fall(m, s[1])
  BY <1>2 DEF o
<1> HIDE DEF m
<1> QED BY <1>3, <1>6, <1>7, <1>8, <1>9, <1>10

LEMMA FinishLedgers ==
  ASSUME LedgerInv, Finish
  PROVE  LedgerInv'
PROOF
<1>1. disk' \in {disk, mem} /\ mem' = Blank /\ pc' = "idle" /\ Settled
  BY DEF Finish, Leave
<1>2. LedgerOK(disk') /\ LedgerOK(mem') /\ EvalTyped(ev')
  BY <1>1, BlankLedgers, SettledTyped DEF LedgerInv
<1> QED BY <1>1, <1>2 DEF LedgerInv, LedgerOK, EvalTyped

LEMMA BegunLedgers ==
  ASSUME LedgerInv, UNCHANGED disk, Settled, pc' # "repair", LedgerOK(mem')
  PROVE  LedgerInv'
PROOF
<1>1. LedgerOK(disk') /\ EvalTyped(ev')
  BY SettledTyped DEF LedgerInv
<1> QED BY <1>1 DEF LedgerInv, LedgerOK, EvalTyped

LEMMA StartLedgers ==
  ASSUME PipelineInv, LedgerInv, Start
  PROVE  LedgerInv'
PROOF
<1>0. PICK drift \in BOOLEAN, from0 \in {0} \union 2..N, u \in Ends :
        /\ Begin(u, drift, from0 # 0)
        /\ from0 # 0 => disk # NoFile
        /\ pc' = "loop"
        /\ IF disk = NoFile THEN mem' = Blank
           ELSE \E k \in Prefixes(disk, drift), kept \in BOOLEAN :
                  /\ kept \/ drift \/ Draft(k)
                  /\ LET j == IF from0 # 0 THEN Least(k, from0 - 1) ELSE k IN
                     mem' = [Restored(disk, j, kept, from0, FALSE)
                               EXCEPT !.contract = IF from0 # 0 THEN @ + 1 ELSE @]
  BY Zenon DEF Start
<1>1. /\ disk' = disk /\ Settled /\ pc' = "loop"
      /\ \/ mem' = Blank
         \/ \E j, kept, from, c : mem' = [Restored(disk, j, kept, from, FALSE) EXCEPT !.contract = c]
  <2>1. disk' = disk /\ Settled /\ pc' = "loop"
    BY <1>0 DEF Begin
  <2>2. CASE disk = NoFile
    BY <1>0, <2>1, <2>2
  <2>3. CASE disk # NoFile
    <3>1. PICK k \in Prefixes(disk, drift), kept \in BOOLEAN :
            LET j == IF from0 # 0 THEN Least(k, from0 - 1) ELSE k IN
            mem' = [Restored(disk, j, kept, from0, FALSE)
                      EXCEPT !.contract = IF from0 # 0 THEN @ + 1 ELSE @]
      BY <1>0, <2>3
    <3> DEFINE j == IF from0 # 0 THEN Least(k, from0 - 1) ELSE k
               old == Restored(disk, j, kept, from0, FALSE).contract
               c == IF from0 # 0 THEN old + 1 ELSE old
    <3>2. mem' = [Restored(disk, j, kept, from0, FALSE) EXCEPT !.contract = c]
      BY <3>1, Zenon
    <3> HIDE DEF c, j
    <3>3. \E l, same, from, d : mem' = [Restored(disk, l, same, from, FALSE) EXCEPT !.contract = d]
      BY <3>2, Zenon
    <3> QED BY <2>1, <3>3, Zenon
  <2> QED BY <2>2, <2>3
<1>2. StateOK(disk) /\ LedgerOK(disk)
  BY InvMem DEF LedgerInv
<1>3. ASSUME NEW j, NEW kept, NEW from, NEW c,
             mem' = [Restored(disk, j, kept, from, FALSE) EXCEPT !.contract = c]
      PROVE  LedgerOK(mem')
  <2> DEFINE r == Restored(disk, j, kept, from, FALSE)
  <2>1. LedgerOK(r)
    BY <1>2, RestoredLedgers
  <2>2. DOMAIN r = Fields
    BY <1>2 DEF Restored, StateOK, Fields
  <2>3. mem' = [r EXCEPT !.contract = c]
    BY <1>3
  <2> HIDE DEF r
  <2>4. SameLedgers(r, mem')
    BY <2>2, <2>3 DEF SameLedgers, Fields
  <2> QED BY <2>1, <2>4, SameLedgersOK
<1>4. LedgerOK(mem')
  BY <1>1, <1>3, BlankLedgers
<1> QED BY <1>1, <1>4, BegunLedgers

LEMMA StartResumeLedgers ==
  ASSUME PipelineInv, LedgerInv, NEW rs \in Steps, NEW t \in Tokens, StartResume(rs, t)
  PROVE  LedgerInv'
PROOF
<1>1. /\ disk' = disk /\ Settled /\ pc = "idle"
      /\ \/ UNCHANGED <<pc, mem>>
         \/ \E j, kept, from, forced :
              /\ pc' = "loop"
              /\ mem' = [Restored(disk, j, kept, from, forced) EXCEPT !.token = <<rs, t>>]
  <2>1. PICK drift \in BOOLEAN, u \in Ends :
          /\ Begin(u, drift, FALSE)
          /\ \E k \in Prefixes(disk, drift), kept \in BOOLEAN :
               IF Consumed(disk, rs, t) \/ Preinvalidated(disk, rs)
                 THEN IF Preinvalidated(disk, rs) \/ k >= rs - 1
                        THEN /\ mem' = [Restored(disk, k, kept, 0, FALSE)
                                          EXCEPT !.token = <<rs, t>>]
                             /\ pc' = "loop"
                        ELSE UNCHANGED <<pc, mem>>
                 ELSE /\ rs \in ResumeSteps(disk) /\ k >= rs - 1
                      /\ mem' = [Restored(disk, rs - 1, kept, rs, TRUE)
                                   EXCEPT !.token = <<rs, t>>]
                      /\ pc' = "loop"
    BY Zenon DEF StartResume
  <2>2. disk' = disk /\ Settled /\ pc = "idle"
    BY <2>1 DEF Begin
  <2>3. \/ UNCHANGED <<pc, mem>>
        \/ \E j, kept, from, forced :
             /\ pc' = "loop"
             /\ mem' = [Restored(disk, j, kept, from, forced) EXCEPT !.token = <<rs, t>>]
    BY <2>1, Zenon
  <2> QED BY <2>2, <2>3
<1>2. StateOK(disk) /\ LedgerOK(disk) /\ LedgerOK(mem)
  BY InvMem DEF LedgerInv
<1>3. ASSUME NEW j, NEW kept, NEW from, NEW forced,
             mem' = [Restored(disk, j, kept, from, forced) EXCEPT !.token = <<rs, t>>]
      PROVE  LedgerOK(mem')
  <2> DEFINE r == Restored(disk, j, kept, from, forced)
  <2>1. LedgerOK(r)
    BY <1>2, RestoredLedgers
  <2>2. DOMAIN r = Fields
    BY <1>2 DEF Restored, StateOK, Fields
  <2>3. mem' = [r EXCEPT !.token = <<rs, t>>]
    BY <1>3
  <2> HIDE DEF r
  <2>4. SameLedgers(r, mem')
    BY <2>2, <2>3 DEF SameLedgers, Fields
  <2> QED BY <2>1, <2>4, SameLedgersOK
<1>4. LedgerOK(mem') /\ pc' # "repair"
  BY <1>1, <1>2, <1>3
<1> QED BY <1>1, <1>4, BegunLedgers

LEMMA LedgersKept ==
  ASSUME PipelineInv, LedgerInv, [Next]_vars
  PROVE  LedgerInv'
PROOF
<1>1. ASSUME Work PROVE LedgerInv'
  BY <1>1, RunStepLedgers, RepairAttemptLedgers, RepairErrorLedgers, RepairOutOfTimeLedgers,
     StepRaisesLedgers, SaveProgressLedgers, ContinueLedgers, RecoverLedgers, FinishLedgers DEF Work
<1>2. ASSUME NEW r \in Steps, NEW t \in Tokens, StartResume(r, t) PROVE LedgerInv'
  BY <1>2, StartResumeLedgers
<1>3. ASSUME Crash PROVE LedgerInv'
  <2>1. disk' = disk /\ mem' = Blank /\ pc' = "idle" /\ Settled
    BY <1>3 DEF Crash, Leave
  <2>2. LedgerOK(mem')
    BY <2>1, BlankLedgers
  <2> QED BY <2>1, <2>2, BegunLedgers
<1>4. ASSUME DeadlinePasses \/ UNCHANGED vars PROVE LedgerInv'
  <2>1. UNCHANGED <<disk, mem, pc, ev, rp>>
    BY <1>4 DEF DeadlinePasses, vars
  <2> QED BY <2>1 DEF LedgerInv, LedgerOK, EvalTyped, LoopOK, Room, At
<1> QED BY <1>1, <1>2, <1>3, <1>4, StartLedgers DEF Next

LEMMA LedgersInvariant == Spec => []LedgerInv
PROOF
<1>1. Init => LedgerInv
  <2> SUFFICES ASSUME Init PROVE LedgerInv
    OBVIOUS
  <2>1. disk = NoFile /\ mem = Blank /\ pc = "idle" /\ ev = NoEval
    BY DEF Init
  <2> QED BY <2>1, BlankLedgers, NoEvalTyped DEF LedgerInv
<1>2. PipelineInv /\ LedgerInv /\ [Next]_vars => LedgerInv'
  BY LedgersKept
<1> QED BY <1>1, <1>2, PipelineInvariant, PTL DEF Spec

\* BudgetsKept: however often a run is repaired, recovered, replanned, restarted
\* or amended, its ledgers are well formed and stay within the budgets of
\* repairs, design repairs, recovery turns and replans of one baseline.
THEOREM BudgetsCorrect == Spec => []BudgetsKept
PROOF
<1>1. LedgerInv => Ledgers
  <2>1. \A m : LedgerOK(m) => LedgersOf(m)
    <3> SUFFICES ASSUME NEW m, LedgerOK(m) PROVE LedgersOf(m)
      OBVIOUS
    <3>1. /\ m.repairs \in Seq(Repairs) /\ m.replans \in Seq(ReplanRecords)
          /\ m.turns \in Seq(TurnRecords)
      BY DEF LedgerOK, RepairsOK, ReplansOK, TurnsOK
    <3>2. /\ \A k \in DOMAIN m.repairs : m.repairs[k] \in Repairs
          /\ \A k \in DOMAIN m.replans : m.replans[k] \in ReplanRecords
          /\ \A k \in DOMAIN m.turns : m.turns[k] \in TurnRecords
      BY <3>1
    <3> QED BY <3>2 DEF LedgersOf, Repairs
  <2> QED BY <2>1 DEF LedgerInv, Ledgers
<1>2. LedgerInv => BudgetsHold
  <2> SUFFICES ASSUME LedgerInv PROVE BudgetsHold
    OBVIOUS
  <2>1. RepairsOK(disk.repairs) /\ TurnsOK(disk.turns)
    BY DEF LedgerInv, LedgerOK
  <2>2. /\ CountIf(disk.repairs, Harness) <= MaxRepairs
        /\ CountIf(disk.repairs, LAMBDA r : ~Harness(r)) <= MaxDesignTotal
    BY <2>1 DEF RepairsOK, CountIf, Harness, OfHarness, OfDesign
  <2>3. ASSUME NEW i \in Steps
        PROVE  CountIf(disk.repairs, LAMBDA r : ~Harness(r) /\ r.step = i) <= MaxDesignStep
    BY <2>1 DEF RepairsOK, CountIf, Harness, DesignAt
  <2>4. \A i \in Steps :
          CountIf(disk.repairs, LAMBDA r : ~Harness(r) /\ r.step = i) <= MaxDesignStep
    <3> SUFFICES ASSUME NEW i \in Steps
                 PROVE  CountIf(disk.repairs, LAMBDA r : ~Harness(r) /\ r.step = i) <= MaxDesignStep
      BY DEF CountIf
    <3> QED BY <2>3 DEF CountIf
  <2> QED BY <2>1, <2>2, <2>4 DEF BudgetsHold, TurnsOK, CountIf
<1>3. LedgerInv => ReplansPerBaseline
  <2> SUFFICES ASSUME LedgerInv, NEW k \in DOMAIN disk.replans, NEW f \in disk.replans[k].ids
               PROVE  \E limit \in Limits :
                        Cardinality(Alike(disk.replans, disk.replans[k].trig, disk.replans[k].base, f))
                          <= limit
    BY DEF ReplansPerBaseline, CountIf, Alike
  <2> DEFINE r == disk.replans[k]
  <2>1. ReplansOK(disk.replans)
    BY DEF LedgerInv, LedgerOK
  <2>2. r \in ReplanRecords
    BY <2>1 DEF ReplansOK
  <2>3. r.trig \in Steps /\ r.base \in AnyPrint /\ f \in Kinds
    BY <2>2 DEF ReplanRecords
  <2> QED BY <2>1, <2>3 DEF ReplansOK
<1> QED BY <1>1, <1>2, <1>3, LedgersInvariant, PTL DEF BudgetsKept

=============================================================================
