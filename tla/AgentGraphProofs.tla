--------------------------- MODULE AgentGraphProofs ---------------------------
(***************************************************************************)
(* The three invariants of AgentGraph hold for every number of requests,   *)
(* boards, answers and crashes, whatever the texts state and whatever the  *)
(* workflows produce.                                                      *)
(*                                                                         *)
(* A release is published by final_report from a verdict the checkpoint    *)
(* keeps, so what has to be carried through every node, crash, takeover    *)
(* and late workflow is where each part of that verdict came from: the     *)
(* workspace names one requirement (Turn, Files), the workflow a request   *)
(* waits for was started for the requirement it still has (Dispatched), a  *)
(* review that passed was written against the hardware of its time and is  *)
(* cleared with it (Verdict, Stands).  The conversation needs the runs the *)
(* registry holds (Runs), the message on its way to the intake (Held) and  *)
(* what the requirement still owes to the answers given (AnswersKept).     *)
(***************************************************************************)
EXTENDS AgentGraph, TLAPS

\* The channels of the checkpoint and the fields of the records it holds.
Fields ==
    {"node", "rid", "mode", "req", "latest", "ws", "perr", "incr", "resumeAfter", "open",
     "settled", "ver", "arch", "parts", "hw", "dispatch", "sub", "attempts", "review"}

Shape ==
    /\ DOMAIN ckpt = Fields
    /\ DOMAIN ckpt.sub = {"status", "rid", "ws"}
    /\ DOMAIN given = {"texts", "slots"} /\ given.slots \subseteq Respects
    /\ DOMAIN lost = {"texts", "slots"}
    /\ ckpt.ver \in 0 .. MaxAnswers /\ sent \in 0 .. MaxRequests
    /\ boards \in Seq(Boards)

\* The request the thread works on: a question is out only at the intake, the
\* requirement moves away from the workspace only until the next initialize,
\* and a DECISION line fills a slot it may fill.
Turn ==
    /\ ckpt.node # "end" => ckpt.rid >= 1
    /\ asked => ckpt.node = "intake"
    /\ ckpt.resumeAfter \in BOOLEAN
    /\ ckpt.resumeAfter => ckpt.node = "supervisor"
    /\ ~ckpt.resumeAfter => ckpt.ws = ckpt.req
    /\ ckpt.open \subseteq Decidable \cup {"task_kind", "free"}
    /\ \A f \in Respects \ Decidable : ckpt.req.decided[f] = 0 /\ ckpt.latest.decided[f] = 0

\* The text on its way to the intake.
InFlight == IF mid.at = "reply" THEN mid.told ELSE {}

\* What the requirement owes to the user: every answer given but for what is
\* lost, what is on its way, and the slots of the question that is out.
Due ==
    [texts |-> given.texts \ (lost.texts \cup InFlight),
     slots |-> given.slots \ (lost.slots \cup IF asked THEN ckpt.open ELSE {})]

\* An answer is in the latest request from the moment the intake took it, and
\* in the requirement once initialize has run.
AnswersKept == Carries(IF ckpt.resumeAfter THEN ckpt.latest ELSE ckpt.req, Due)

\* The state version has passed every interaction settled.
AnsweredEarlier ==
    \A a \in answered : /\ a.question.ver \in 1 .. ckpt.ver
                        /\ Free(a.question.open) \/ a.to = a.question

\* A run that is paused, or at the intake, has not dispatched anything yet.
Unused(r) == r \in 1 .. sent /\ r \notin DOMAIN wf /\ ckpt.dispatch.rid # r

\* The runs the registry holds: the one that executes, or waits to be taken
\* over, and those paused on an interaction, one for each at most.  While a
\* question with options is out, no other question of that kind is pending.
Runs ==
    /\ run \in 0 .. sent
    /\ live => run # 0
    /\ run # 0 => IF asked THEN Unused(run) ELSE ckpt.rid = run
    /\ \A i \in pending :
         /\ Unused(i.rid) /\ i.rid # run /\ (~asked => i.rid # ckpt.rid)
         /\ i.ver \in 1 .. ckpt.ver + 1
         /\ ~Free(i.open) => asked /\ i = Interaction(ckpt)
    /\ \A i, j \in pending : i.rid = j.rid => i = j

\* What the running node holds.
Held ==
    /\ mid.at = "reply" =>
         /\ asked /\ live /\ ckpt.ver < MaxAnswers
         /\ mid.rid = run /\ mid.told \subseteq mid.text
         /\ mid.text \subseteq -MaxAnswers .. MaxRequests
         /\ mid.slots # {} => mid.to = Interaction(ckpt) /\ mid.to \notin pending
    /\ mid.at \in {"receipt", "verdict"} =>
         live /\ ckpt.node = "reviewer" /\ ckpt.mode = "build"
    /\ mid.at = "digest" => live /\ ckpt.node = "report" /\ ckpt.mode = "build"

\* Before it dispatches, a request has no workflow; from then on it has the
\* one started for its requirement, in its workspace.
Dispatched ==
    /\ DOMAIN wf \subseteq 1 .. sent
    /\ ckpt.dispatch.rid \in 0 .. sent
    /\ ckpt.node \notin {"reviewer", "report", "end"} => ckpt.dispatch.rid # ckpt.rid
    /\ ckpt.node \in {"supervisor", "intake", "architect", "specialists", "parts"} =>
         ckpt.rid \notin DOMAIN wf
    /\ ckpt.node \in {"dispatch", "wait"} =>
         /\ ckpt.mode = "build"
         /\ ckpt.rid \in DOMAIN wf => wf[ckpt.rid].ws = ckpt.ws /\ wf[ckpt.rid].req = ckpt.req
    /\ ckpt.node = "wait" =>
         /\ ckpt.sub.rid = ckpt.rid
         /\ ckpt.sub.status # "dispatch_error" => ckpt.rid \in DOMAIN wf

\* What a payload attests was made for the requirement r.
Attests(payload, r) == payload.ok => payload.identity.req = r

\* A workspace holds the boards of one requirement, and the board there is one
\* that was written.
Files ==
    /\ \A r \in DOMAIN wf :
         /\ DOMAIN wf[r] = {"ws", "req", "running", "payload"}
         /\ wf[r].ws = wf[r].req /\ Attests(wf[r].payload, wf[r].req)
    /\ \A k \in DOMAIN disk :
         /\ DOMAIN disk[k] = DOMAIN NoFiles
         /\ disk[k].req = k /\ Attests(disk[k].payload, k)
         /\ disk[k].pcb \in 1 .. Len(boards) /\ boards[disk[k].pcb] = disk[k].board

\* p names a board that was made for its requirement and meets it.
Sound(p) ==
    /\ p.pcb.req = p.req
    /\ p.pcb.pcb \in 1 .. Len(boards)
    /\ Audit(Extract(p.req), boards[p.pcb.pcb]) = {}
    /\ \A f \in Respects \ Decidable : p.req.decided[f] = 0

\* The board the hardware attests, under the requirement of the thread.
Attested == [req |-> ckpt.req, pcb |-> ckpt.hw.identity]

\* The directory holds that board, and nothing writes there any more.
Still ==
    /\ Idle(ckpt.ws) /\ ckpt.ws \in DOMAIN disk
    /\ disk[ckpt.ws].pcb = ckpt.hw.identity.pcb

\* A verdict v of the review, once passed, stands on what it was given for.
Passed(v) ==
    v.status = "ok" =>
        /\ v.id = ckpt.hw.identity /\ v.attempt = ckpt.hw.attempt
        /\ Sound(Attested) /\ (v.alone => Still)

\* Where the parts of the verdict come from.
Verdict ==
    /\ ckpt.review.status = "ok" =>
         ckpt.review.id = ckpt.hw.identity /\ ckpt.review.attempt = ckpt.hw.attempt
    /\ ckpt.node = "reviewer" =>
         IF ckpt.mode = "build"
         THEN ckpt.ws \in DOMAIN disk /\ (ckpt.hw.ready => ckpt.hw.identity.req = ckpt.req)
         ELSE ckpt.hw.identity = NoIdentity /\ ckpt.hw.attempt = 0

\* final_report releases.
Releases == ckpt.mode = "build" /\ ckpt.arch = "ok" /\ ckpt.hw.ready /\ ckpt.review.status = "ok"

Stands ==
    /\ mid.at = "receipt" =>
         /\ ~mid.blocked => /\ mid.id = ckpt.hw.identity /\ Sound(Attested)
                            /\ mid.alone => Still
         /\ Passed(mid.first)
    /\ mid.at = "verdict" => Passed(mid.review)
    /\ ckpt.node = "report" /\ Releases => Passed(ckpt.review)
    /\ mid.at = "digest" /\ Releases /\ ckpt.review.alone => mid.pcb = ckpt.hw.identity.pcb

Released ==
    \A p \in published :
        /\ Sound([req |-> p.req, pcb |-> p.reviewed])
        /\ p.alone => p.digest = p.reviewed.pcb /\ p.bytes = p.reviewed.pcb

\* The conversation, and the hardware.
Talk == Shape /\ TypeOK /\ Turn /\ AnswersKept /\ AnsweredEarlier /\ Runs /\ Held
Made == Dispatched /\ Files /\ Verdict /\ Stands /\ Released

IInv == Talk /\ Made

-----------------------------------------------------------------------------
\* The operators on the checkpoint, channel by channel.

\* The text an answer is written into.
Old(c) == IF Free(c.open) THEN c.latest ELSE c.req

LEMMA SettleFields ==
    ASSUME NEW c, DOMAIN c = Fields, NEW extra, NEW s, s = Settle(c, extra)
    PROVE  /\ DOMAIN s = Fields
           /\ s.rid = c.rid /\ s.mode = c.mode /\ s.ws = c.ws /\ s.hw = c.hw
           /\ s.dispatch = c.dispatch /\ s.sub = c.sub /\ s.review = c.review
           /\ s.arch = c.arch
           /\ s.req = IF Free(c.open) THEN c.req ELSE s.latest
  BY DEF Settle, Fields, Free

LEMMA SettleLatest ==
    ASSUME NEW c, DOMAIN c = Fields, NEW extra, c.req \in Text, c.latest \in Text,
           NEW s, s = Settle(c, extra)
    PROVE  /\ s.latest.changes = Old(c).changes \cup extra
           /\ s.latest.decided = [f \in Respects |->
                                    IF f \in c.open THEN 1 ELSE Old(c).decided[f]]
  BY DEF Settle, Fields, Text, Old, Free

\* The text an answer leaves is one.
LEMMA SettleText ==
    ASSUME NEW c, DOMAIN c = Fields, c.req \in Text, c.latest \in Text,
           NEW extra, extra \subseteq -MaxAnswers .. MaxRequests
    PROVE  Settle(c, extra).latest \in Text
  <1> DEFINE t == Settle(c, extra).latest
             decided == [f \in Respects |-> IF f \in c.open THEN 1 ELSE Old(c).decided[f]]
             changes == Old(c).changes \cup extra
  <1>1. Old(c) \in Text
    BY DEF Old, Free
  <1>2. t = [Old(c) EXCEPT !.decided = decided, !.changes = changes]
    BY DEF Settle, Fields, Old, Free
  <1>3. decided \in [Respects -> 0 .. 1] /\ changes \subseteq -MaxAnswers .. MaxRequests
    <2>1. /\ Old(c).decided \in [Respects -> 0 .. 1]
          /\ Old(c).changes \subseteq -MaxAnswers .. MaxRequests
      BY <1>1 DEF Text
    <2>2. 1 \in 0 .. 1
      OBVIOUS
    <2> QED BY <2>1, <2>2
  <1> HIDE DEF t, decided, changes
  <1>4. t \in Text
    BY <1>1, <1>2, <1>3 DEF Text
  <1> QED BY <1>4 DEF t

LEMMA BeginFields ==
    ASSUME DOMAIN ckpt = Fields, NEW r, NEW text, NEW s, s = Begin(r, text)
    PROVE  /\ DOMAIN s = Fields
           /\ s.node = "supervisor" /\ s.rid = r /\ s.sub = NoDispatch /\ s.latest = text
           /\ s.mode = ckpt.mode /\ s.req = ckpt.req /\ s.ws = ckpt.ws
           /\ s.resumeAfter = ckpt.resumeAfter /\ s.open = ckpt.open /\ s.ver = ckpt.ver
           /\ s.arch = ckpt.arch /\ s.hw = ckpt.hw /\ s.dispatch = ckpt.dispatch
           /\ s.review = ckpt.review
  BY DEF Begin, Fields

\* Questions are put only about slots a DECISION line may fill.
LEMMA OfferedDecidable == \A req, settled : Offered(req, settled) \subseteq Decidable
  <1>1. \A i \in 1 .. Len(Gaps) : Gaps[i] \in Decidable
    <2>1. Len(Gaps) = 3 /\ Gaps[1] = "outline" /\ Gaps[2] = "layers" /\ Gaps[3] = "holes"
      BY DEF Gaps
    <2>2. \A i \in 1 .. 3 : i = 1 \/ i = 2 \/ i = 3
      OBVIOUS
    <2> QED BY <2>1, <2>2 DEF Decidable
  <1> QED BY <1>1 DEF Offered, Gap

LEMMA KeepFields ==
    ASSUME NEW c, DOMAIN c = Fields, NEW kept, NEW s, s = Keep(c, kept)
    PROVE  /\ DOMAIN s = Fields
           /\ s.rid = c.rid /\ s.latest = c.latest /\ s.ver = c.ver /\ s.sub = c.sub
           /\ s.attempts = c.attempts
           /\ kept => s = c
           /\ ~kept => s.hw = NoHardware /\ s.dispatch = NoDispatch /\ s.review = NoReview
  <1>1. CASE kept
    BY <1>1 DEF Keep
  <1>2. CASE ~kept
    BY <1>2 DEF Keep, Fields
  <1> QED BY <1>1, <1>2

\* Where initialize goes.
LEMMA InitializedNext ==
    ASSUME NEW c
    PROVE  /\ AfterInitialize(c) \in {"intake", "dispatch", "architect", "parts", "reviewer"}
           /\ AfterInitialize(c) = "dispatch" => c.mode = "build"
           /\ AfterInitialize(c) = "reviewer" => c.mode = "review"
  BY DEF AfterInitialize

\* What initialize leaves in s of the checkpoint c.
Initializes(c, route, s) ==
    /\ DOMAIN s = Fields
    /\ s.rid = c.rid /\ s.latest = c.latest /\ s.ver = c.ver /\ s.sub = c.sub
    /\ s.resumeAfter = FALSE
    /\ s.req = Requirement(c, route.relation)
    /\ s.mode \in {"clarify", route.intent}
    /\ s.ws = Workspace(c, s.mode, Relation(c, route.relation), s.req)
    /\ s.open \subseteq Decidable \cup {"task_kind"}
    /\ \/ s.hw = c.hw /\ s.dispatch = c.dispatch /\ s.review = c.review
       \/ s.hw = NoHardware /\ s.dispatch = NoDispatch /\ s.review = NoReview
    /\ s.mode = "review" =>
         s.hw = NoHardware /\ s.dispatch = NoDispatch /\ s.review = NoReview
    /\ s.node \in {"intake", "dispatch", "architect", "parts", "reviewer"}
    /\ s.node = "dispatch" => s.mode = "build"
    /\ s.node = "reviewer" => s.mode = "review"

\* The supervisor's commit, for the route taken.
Turns(route) ==
    /\ Initializes(ckpt, route, ckpt')
    /\ live' = TRUE /\ run' = run /\ mid' = Nothing
    /\ given' = IF Anew(ckpt, route.relation) THEN NoAnswers ELSE given
    /\ lost' = IF Anew(ckpt, route.relation) THEN NoAnswers ELSE lost

LEMMA SupervisorInitializes ==
    ASSUME Supervisor, DOMAIN ckpt = Fields
    PROVE  \/ Dies /\ UNCHANGED given
           \/ \E route \in Routes(ckpt.req # Blank) : Turns(route)
  <1>1. PICK route \in Routes(ckpt.req # Blank), refused \in BOOLEAN, free \in BOOLEAN :
          /\ free => route.intent = "clarify"
          /\ refused => route.intent = "build"
          /\ \/ /\ Commits(Initialized(ckpt, route, refused, free),
                           IF Anew(ckpt, route.relation) THEN NoAnswers ELSE lost)
                /\ given' = IF Anew(ckpt, route.relation) THEN NoAnswers ELSE given
             \/ Dies /\ UNCHANGED given
    BY DEF Supervisor
  <1>2. CASE /\ Commits(Initialized(ckpt, route, refused, free),
                     IF Anew(ckpt, route.relation) THEN NoAnswers ELSE lost)
             /\ given' = IF Anew(ckpt, route.relation) THEN NoAnswers ELSE given
    <2> DEFINE relation == Relation(ckpt, route.relation)
               req == Requirement(ckpt, route.relation)
               perr == refused /\ route.intent = "build"
               mode == IF perr THEN "clarify" ELSE route.intent
               settled == IF ckpt.resumeAfter \/ relation # "new" THEN ckpt.settled ELSE {}
               open == CASE perr -> {}
                         [] mode = "clarify" -> IF free THEN {} ELSE {"task_kind"}
                         [] mode = "build" -> Offered(req, settled)
                         [] OTHER -> {}
               kept == Preserves(ckpt, mode, relation)
               k == Keep(ckpt, kept)
               new == [k EXCEPT
                    !.mode = mode, !.req = req, !.perr = perr, !.settled = settled, !.open = open,
                    !.incr = Incremental(ckpt, mode, relation),
                    !.ws = Workspace(ckpt, mode, relation, req),
                    !.attempts = IF relation = "new" THEN 0 ELSE k.attempts,
                    !.resumeAfter = FALSE]
    <2>1. ckpt' = [new EXCEPT !.node = AfterInitialize(new)]
      BY <1>2 DEF Initialized, Commits
    <2>2. open \subseteq Decidable \cup {"task_kind"}
      <3>1. Offered(req, settled) \subseteq Decidable
        BY OfferedDecidable
      <3> HIDE DEF req, settled, perr, mode
      <3> QED BY <3>1
    <2>3. mode \in {"clarify", route.intent}
      OBVIOUS
    <2>4. mode = "review" => ~kept
      BY DEF Preserves, Incremental
    <2> HIDE DEF mode, open, kept, req, settled, perr, relation
    <2>5. /\ DOMAIN k = Fields
          /\ k.rid = ckpt.rid /\ k.latest = ckpt.latest /\ k.ver = ckpt.ver /\ k.sub = ckpt.sub
          /\ kept => k = ckpt
          /\ ~kept => k.hw = NoHardware /\ k.dispatch = NoDispatch /\ k.review = NoReview
      BY KeepFields
    <2> HIDE DEF k
    <2>6. /\ DOMAIN new = Fields
          /\ new.rid = k.rid /\ new.latest = k.latest /\ new.ver = k.ver /\ new.sub = k.sub
          /\ new.hw = k.hw /\ new.dispatch = k.dispatch /\ new.review = k.review
          /\ new.resumeAfter = FALSE /\ new.req = req /\ new.mode = mode /\ new.open = open
          /\ new.ws = Workspace(ckpt, mode, relation, req)
      BY <2>5 DEF Fields
    <2> HIDE DEF new
    <2>7. /\ DOMAIN ckpt' = Fields
          /\ ckpt'.rid = new.rid /\ ckpt'.latest = new.latest /\ ckpt'.ver = new.ver /\ ckpt'.sub = new.sub
          /\ ckpt'.hw = new.hw /\ ckpt'.dispatch = new.dispatch /\ ckpt'.review = new.review
          /\ ckpt'.resumeAfter = new.resumeAfter /\ ckpt'.req = new.req /\ ckpt'.mode = new.mode
          /\ ckpt'.open = new.open /\ ckpt'.ws = new.ws /\ ckpt'.node = AfterInitialize(new)
      BY <2>1, <2>6 DEF Fields
    <2>8. /\ ckpt'.node \in {"intake", "dispatch", "architect", "parts", "reviewer"}
          /\ ckpt'.node = "dispatch" => new.mode = "build"
          /\ ckpt'.node = "reviewer" => new.mode = "review"
      BY <2>7, InitializedNext
    <2>9. Initializes(ckpt, route, ckpt')
      BY <2>2, <2>3, <2>4, <2>5, <2>6, <2>7, <2>8 DEF Initializes, relation, req
    <2>10. ckpt'.node # "end"
      BY <2>8
    <2>11. /\ live' = TRUE /\ run' = run /\ mid' = Nothing
           /\ lost' = IF Anew(ckpt, route.relation) THEN NoAnswers ELSE lost
      BY <1>2, <2>10 DEF Commits
    <2> QED BY <1>1, <1>2, <2>9, <2>11 DEF Turns
  <1> QED BY <1>1, <1>2

\* The checkpoint hardware_wait_phase leaves.
LEMMA UpdatedFields ==
    ASSUME NEW c, DOMAIN c = Fields, DOMAIN c.sub = {"status", "rid", "ws"},
           NEW p, NEW status
    PROVE  LET s == Updated(c, p, status)
           IN
           /\ DOMAIN s = Fields
           /\ s.rid = c.rid /\ s.mode = c.mode /\ s.req = c.req /\ s.latest = c.latest
           /\ s.ws = c.ws /\ s.resumeAfter = c.resumeAfter /\ s.open = c.open /\ s.ver = c.ver
           /\ s.arch = c.arch /\ s.sub = NoDispatch
           /\ s.dispatch.rid = c.sub.rid /\ s.review = NoReview
           /\ s.hw.ready => p.ok
           /\ s.hw.identity = p.identity
           /\ s.node \in {"reviewer", "report"}
           /\ s.node = "reviewer" => c.ws \in DOMAIN disk
  <1> DEFINE s == Updated(c, p, status)
  <1>1. DOMAIN s = Fields
    BY DEF Updated, Fields
  <1>2. /\ s.rid = c.rid /\ s.mode = c.mode /\ s.req = c.req /\ s.latest = c.latest
        /\ s.ws = c.ws /\ s.resumeAfter = c.resumeAfter /\ s.open = c.open /\ s.ver = c.ver
        /\ s.arch = c.arch /\ s.sub = NoDispatch /\ s.review = NoReview
    BY DEF Updated, Fields
  <1>3. s.dispatch.rid = c.sub.rid
    BY DEF Updated, Fields
  <1> DEFINE v == Validated(p, Present(c.ws))
  <1>4. /\ s.hw.ready = v.ready /\ s.hw.identity = v.identity
        /\ s.node = IF v.candidate THEN "reviewer" ELSE "report"
    BY DEF Updated, Fields
  <1>5. (v.ready => p.ok) /\ v.identity = p.identity
    BY DEF Validated
  <1>6. v.candidate => c.ws \in DOMAIN disk
    BY DEF Validated, Present
  <1> HIDE DEF v
  <1> QED BY <1>1, <1>2, <1>3, <1>4, <1>5, <1>6

-----------------------------------------------------------------------------
\* The steps that only move a request along, or stop it.

\* d is c as far as the request and its requirement go ...
SameTurn(c, d) ==
    /\ DOMAIN d = Fields
    /\ d.rid = c.rid /\ d.mode = c.mode /\ d.req = c.req /\ d.latest = c.latest /\ d.ws = c.ws
    /\ d.resumeAfter = c.resumeAfter /\ d.ver = c.ver

\* ... and its hardware.
SameHardware(c, d) == d.hw = c.hw /\ d.dispatch = c.dispatch

\* No message is on its way to the intake.
LEMMA NoReply == Talk /\ ~asked => InFlight = {} /\ mid.at # "reply"
  BY DEF Talk, Held, InFlight

\* A node after the intake leaves the conversation as it is; only its own
\* request may get a workflow.
LEMMA TalkKept ==
    ASSUME Talk, ~asked, DOMAIN wf' \subseteq DOMAIN wf \cup {ckpt.rid},
           DOMAIN wf' \subseteq 1 .. sent,
           UNCHANGED <<asked, sent, pending, answered, given, boards, lost>>,
           SameTurn(ckpt, ckpt'), ckpt'.open = ckpt.open,
           DOMAIN ckpt'.sub = {"status", "rid", "ws"},
           ckpt'.dispatch.rid \in {ckpt.dispatch.rid, ckpt.rid},
           ckpt.node \notin {"supervisor", "end"},
           ckpt'.node \in {"specialists", "parts", "dispatch", "wait", "reviewer", "report", "end"},
           live' \in BOOLEAN, run' \in {run, 0}, live' => run' # 0,
           mid'.at # "reply", Held'
    PROVE  Talk'
  <1>1. Shape'
    BY DEF Talk, Shape, SameTurn
  <1>2. TypeOK'
    BY DEF Talk, TypeOK, SameTurn
  <1>3. Turn'
    BY DEF Talk, Turn, SameTurn
  <1>4. AnswersKept'
    <2>1. InFlight = {} /\ InFlight' = {}
      BY NoReply DEF InFlight
    <2> QED BY <2>1 DEF Talk, AnswersKept, Due, SameTurn
  <1>5. AnsweredEarlier'
    BY DEF Talk, AnsweredEarlier, SameTurn
  <1>6. Runs'
    <2>1. run' \in 0 .. sent /\ (live' => run' # 0) /\ (run' # 0 => ckpt'.rid = run')
      BY DEF Talk, Runs, SameTurn, Shape
    <2>2. ASSUME NEW i \in pending
          PROVE  /\ Unused(i.rid)' /\ i.rid # run' /\ i.rid # ckpt'.rid
                 /\ i.ver \in 1 .. ckpt'.ver + 1 /\ Free(i.open)
      <3>1. /\ i.rid \in 1 .. sent /\ i.rid \notin DOMAIN wf /\ ckpt.dispatch.rid # i.rid
            /\ i.rid # run /\ i.rid # ckpt.rid /\ i.ver \in 1 .. ckpt.ver + 1 /\ Free(i.open)
        BY DEF Talk, Runs, Unused
      <3>2. i.rid # 0 /\ i.rid \notin DOMAIN wf'
        BY <3>1
      <3> QED BY <3>1, <3>2 DEF Unused, SameTurn
    <2>3. \A i, j \in pending : i.rid = j.rid => i = j
      BY DEF Talk, Runs
    <2> QED BY <2>1, <2>2, <2>3 DEF Runs
  <1> QED BY <1>1, <1>2, <1>3, <1>4, <1>5, <1>6 DEF Talk

\* The process dies: an answer on its way is lost, the conversation is not.
LEMMA TalkDied ==
    ASSUME Talk, Dies, UNCHANGED <<asked, sent, pending, answered, given, boards>>,
           DOMAIN wf' \subseteq DOMAIN wf \cup IF asked THEN {} ELSE {ckpt.rid},
           DOMAIN wf' \subseteq 1 .. sent
    PROVE  Talk'
  <1>1. /\ live' = FALSE /\ mid' = Nothing /\ UNCHANGED <<ckpt, run>>
        /\ DOMAIN lost' = {"texts", "slots"}
        /\ lost'.texts = lost.texts \cup InFlight /\ lost'.slots = lost.slots
    BY DEF Dies, Talk, Shape, InFlight
  <1>2. mid'.at = "nothing"
    BY <1>1 DEF Nothing
  <1>3. Shape' /\ Turn'
    BY <1>1 DEF Talk, Shape, Turn
  <1>4. TypeOK'
    BY <1>1, <1>2 DEF Talk, TypeOK
  <1>5. AnswersKept'
    <2>1. Due' = Due
      BY <1>1, <1>2 DEF Due, InFlight
    <2> QED BY <1>1, <2>1 DEF Talk, AnswersKept
  <1>6. AnsweredEarlier'
    BY <1>1 DEF Talk, AnsweredEarlier
  <1>7. Runs'
    <2>1. run # 0 /\ asked => Unused(run)'
      BY <1>1 DEF Talk, Runs, Unused
    <2>2. ASSUME NEW i \in pending PROVE Unused(i.rid)'
      <3>1. i.rid \in 1 .. sent /\ i.rid \notin DOMAIN wf /\ ckpt.dispatch.rid # i.rid
            /\ (~asked => i.rid # ckpt.rid)
        BY DEF Talk, Runs, Unused
      <3>2. i.rid \notin DOMAIN wf'
        BY <3>1
      <3> QED BY <1>1, <3>1, <3>2 DEF Unused
    <2> QED BY <1>1, <2>1, <2>2 DEF Talk, Runs, Interaction
  <1>8. Held'
    BY <1>1, <1>2 DEF Held
  <1> QED BY <1>3, <1>4, <1>5, <1>6, <1>7, <1>8 DEF Talk

\* The verdict stays what it is where nothing it is about changes.
LEMMA PassedKept ==
    ASSUME ckpt'.hw = ckpt.hw, ckpt'.req = ckpt.req, ckpt'.ws = ckpt.ws,
           UNCHANGED <<wf, disk, boards>>
    PROVE  /\ \A v : Passed(v) => Passed(v)'
           /\ \A p : Sound(p) => Sound(p)'
           /\ Sound(Attested) => Sound(Attested)'
           /\ Still => Still'
  BY DEF Passed, Sound, Attested, Still, Idle

\* The process dies without having done anything.
LEMMA Died ==
    ASSUME IInv, Dies, UNCHANGED <<talk, world, published>> PROVE IInv'
  <1>1. /\ UNCHANGED <<ckpt, wf, disk, boards, published>> /\ mid' = Nothing
        /\ UNCHANGED <<asked, sent, pending, answered, given>>
    BY DEF Dies, talk, world
  <1>2. mid'.at = "nothing"
    BY <1>1 DEF Nothing
  <1>3. Talk'
    BY <1>1, TalkDied DEF IInv, Made, Dispatched
  <1>4. Dispatched' /\ Files'
    BY <1>1 DEF IInv, Made, Dispatched, Files, Talk, Shape
  <1>5. Verdict'
    BY <1>1 DEF IInv, Made, Verdict
  <1>6. Stands' /\ Released'
    BY <1>1, <1>2, PassedKept DEF IInv, Made, Stands, Released, Releases, Sound
  <1> QED BY <1>3, <1>4, <1>5, <1>6 DEF IInv, Made

\* A node before the dispatch commits, and the next one is not the hardware's
\* unless the turn is a build's.
LEMMA Advances ==
    ASSUME IInv, ~asked, UNCHANGED <<talk, world, published, lost>>,
           SameTurn(ckpt, ckpt'), SameHardware(ckpt, ckpt'), ckpt'.open = ckpt.open,
           ckpt'.sub = ckpt.sub, ckpt'.review = ckpt.review,
           ckpt.node \in {"intake", "architect", "specialists", "parts"},
           ckpt'.node \in {"specialists", "parts", "dispatch", "report", "end"},
           ckpt'.node = "dispatch" => ckpt.mode = "build",
           ckpt'.node = "report" /\ ckpt.mode = "build" => ckpt'.arch # "ok",
           live' \in BOOLEAN, run' \in {run, 0}, live' => run' # 0, mid' = Nothing
    PROVE  IInv'
  <1>1. /\ UNCHANGED <<wf, disk, boards, published>>
        /\ UNCHANGED <<asked, sent, pending, answered, given>>
    BY DEF talk, world
  <1>2. mid'.at = "nothing"
    BY DEF Nothing
  <1>3. Held'
    BY <1>2 DEF Held
  <1>4. Talk'
    BY <1>1, <1>2, <1>3, TalkKept DEF IInv, Made, Dispatched, Talk, Shape, SameHardware
  <1>5. Dispatched' /\ Files'
    BY <1>1 DEF IInv, Made, Dispatched, Files, SameTurn, SameHardware
  <1>6. Verdict'
    BY <1>1 DEF IInv, Made, Verdict, SameTurn, SameHardware
  <1>7. Stands' /\ Released'
    BY <1>1, <1>2 DEF IInv, Made, Stands, Released, Releases, Sound, SameTurn
  <1> QED BY <1>4, <1>5, <1>6, <1>7 DEF IInv, Made

\* What a commit does if the process lives.
LEMMA Committed ==
    ASSUME IInv, live, NEW new, Commit(new)
    PROVE  \/ Dies
           \/ /\ ckpt' = new /\ live' \in BOOLEAN /\ run' \in {run, 0} /\ (live' => run' # 0)
              /\ mid' = Nothing /\ UNCHANGED lost
  BY DEF IInv, Talk, Runs, Commit, Commits

LEMMA IntakeRepliesKeeps == IInv /\ IntakeReplies => IInv'
  <1> SUFFICES ASSUME IInv, IntakeReplies PROVE IInv'
    OBVIOUS
  <1> DEFINE new == [ckpt EXCEPT !.node = AfterIntake(ckpt), !.resumeAfter = FALSE]
  <1>1. /\ live /\ ~asked /\ ckpt.node = "intake" /\ ckpt.resumeAfter = FALSE
        /\ DOMAIN ckpt = Fields /\ Commit(new) /\ UNCHANGED <<talk, world, published>>
    BY DEF IInv, Talk, Shape, Turn, IntakeReplies, At
  <1>2. /\ SameTurn(ckpt, new) /\ SameHardware(ckpt, new) /\ new.open = ckpt.open
        /\ new.sub = ckpt.sub /\ new.review = ckpt.review /\ new.node = "end"
    BY <1>1 DEF SameTurn, SameHardware, Fields, AfterIntake
  <1> HIDE DEF new
  <1> QED BY <1>1, <1>2, Committed, Died, Advances

LEMMA ArchitectKeeps == IInv /\ Architect => IInv'
  <1> SUFFICES ASSUME IInv, Architect PROVE IInv'
    OBVIOUS
  <1>1. PICK status \in {ArchitectStatus(e) : e \in Research}, specialists \in BOOLEAN :
          LET new == [ckpt EXCEPT !.arch = status]
          IN Commit([new EXCEPT !.node = AfterArchitect(new, specialists)])
    BY DEF Architect
  <1> DEFINE found == [ckpt EXCEPT !.arch = status]
             new == [found EXCEPT !.node = AfterArchitect(found, specialists)]
  <1>2. /\ live /\ ~asked /\ ckpt.node = "architect" /\ DOMAIN ckpt = Fields
        /\ Commit(new) /\ UNCHANGED <<talk, world, published>>
    BY <1>1 DEF IInv, Talk, Shape, Turn, Architect, At
  <1>3. /\ SameTurn(ckpt, new) /\ SameHardware(ckpt, new) /\ new.open = ckpt.open
        /\ new.sub = ckpt.sub /\ new.review = ckpt.review
        /\ new.arch = found.arch /\ found.mode = ckpt.mode
        /\ new.node = AfterArchitect(found, specialists)
    BY <1>2 DEF SameTurn, SameHardware, Fields
  <1> HIDE DEF new, found
  <1>4. /\ new.node \in {"specialists", "parts", "report"}
        /\ new.node = "report" /\ ckpt.mode = "build" => new.arch # "ok"
    BY <1>3 DEF AfterArchitect
  <1> QED BY <1>2, <1>3, <1>4, Committed, Died, Advances

LEMMA SpecialistsKeeps == IInv /\ Specialists => IInv'
  <1> SUFFICES ASSUME IInv, Specialists PROVE IInv'
    OBVIOUS
  <1> DEFINE new == [ckpt EXCEPT !.node = "parts"]
  <1>1. /\ live /\ ~asked /\ ckpt.node = "specialists" /\ DOMAIN ckpt = Fields
        /\ Commit(new) /\ UNCHANGED <<talk, world, published>>
    BY DEF IInv, Talk, Shape, Turn, Specialists, At
  <1>2. /\ SameTurn(ckpt, new) /\ SameHardware(ckpt, new) /\ new.open = ckpt.open
        /\ new.sub = ckpt.sub /\ new.review = ckpt.review /\ new.node = "parts"
    BY <1>1 DEF SameTurn, SameHardware, Fields
  <1> HIDE DEF new
  <1> QED BY <1>1, <1>2, Committed, Died, Advances

LEMMA PartsKeeps == IInv /\ Parts => IInv'
  <1> SUFFICES ASSUME IInv, Parts PROVE IInv'
    OBVIOUS
  <1>1. PICK status : Commit([ckpt EXCEPT !.parts = status, !.node = AfterParts(ckpt)])
    BY DEF Parts
  <1> DEFINE new == [ckpt EXCEPT !.parts = status, !.node = AfterParts(ckpt)]
  <1>2. /\ live /\ ~asked /\ ckpt.node = "parts" /\ DOMAIN ckpt = Fields
        /\ Commit(new) /\ UNCHANGED <<talk, world, published>>
    BY <1>1 DEF IInv, Talk, Shape, Turn, Parts, At
  <1>3. /\ SameTurn(ckpt, new) /\ SameHardware(ckpt, new) /\ new.open = ckpt.open
        /\ new.sub = ckpt.sub /\ new.review = ckpt.review
        /\ new.node = IF ckpt.mode = "build" THEN "dispatch" ELSE "report"
    BY <1>2 DEF SameTurn, SameHardware, Fields, AfterParts
  <1> HIDE DEF new
  <1> QED BY <1>2, <1>3, Committed, Died, Advances

LEMMA CrashKeeps == IInv /\ Crash => IInv'
  BY Died DEF Crash

-----------------------------------------------------------------------------
\* The supervisor.

\* The requirement initialize settles on is a text, whose decisions are those
\* of the requirement before or of the latest request.
LEMMA RequirementText ==
    ASSUME NEW c, c.req \in Text, c.latest \in Text, NEW relation
    PROVE  LET req == Requirement(c, relation)
           IN /\ req \in Text
              /\ req.decided \in {c.req.decided, c.latest.decided}
              /\ c.resumeAfter => req = c.latest
              /\ relation \in Relations \ {"new"} /\ ~c.resumeAfter /\ c.req # Blank =>
                   req.decided = c.req.decided /\ c.req.changes \subseteq req.changes
              /\ relation = "resume" /\ ~c.resumeAfter /\ c.req # Blank => req = c.req
  <1> DEFINE amended ==
               [c.req EXCEPT !.changes = @ \cup {c.latest.base} \cup c.latest.changes,
                             !.asks = [f \in Respects |->
                                         IF c.latest.asks[f] # 0 THEN c.latest.asks[f] ELSE @[f]]]
             req == Requirement(c, relation)
  <1>1. req \in {c.req, c.latest, amended}
    BY DEF Requirement
  <1>2. /\ amended \in Text /\ amended.decided = c.req.decided
        /\ c.req.changes \subseteq amended.changes
    <2>1. /\ c.latest.base \in 0 .. MaxRequests /\ c.req.changes \subseteq -MaxAnswers .. MaxRequests
          /\ c.latest.changes \subseteq -MaxAnswers .. MaxRequests
          /\ c.req.asks \in [Respects -> Nat] /\ c.latest.asks \in [Respects -> Nat]
      BY DEF Text
    <2>2. c.req.changes \cup {c.latest.base} \cup c.latest.changes \subseteq -MaxAnswers .. MaxRequests
      BY <2>1, GraphAssumption
    <2>3. [f \in Respects |-> IF c.latest.asks[f] # 0 THEN c.latest.asks[f] ELSE c.req.asks[f]]
            \in [Respects -> Nat]
      BY <2>1
    <2> QED BY <2>2, <2>3 DEF Text
  <1>3. relation \in Relations \ {"new"} /\ ~c.resumeAfter /\ c.req # Blank => req \in {c.req, amended}
    BY DEF Requirement, Relations
  <1> HIDE DEF amended
  <1>4. /\ c.resumeAfter => req = c.latest
        /\ relation = "resume" /\ ~c.resumeAfter /\ c.req # Blank => req = c.req
    BY DEF Requirement
  <1> HIDE DEF req
  <1>5. /\ req \in Text /\ req.decided \in {c.req.decided, c.latest.decided}
        /\ relation \in Relations \ {"new"} /\ ~c.resumeAfter /\ c.req # Blank =>
             req.decided = c.req.decided /\ c.req.changes \subseteq req.changes
    BY <1>1, <1>2, <1>3
  <1> QED BY <1>4, <1>5 DEF req

\* A request that has not dispatched yet: nothing of its own is made, and what
\* it keeps of the last one it keeps whole.
LEMMA MadePlanned ==
    ASSUME IInv, UNCHANGED <<wf, disk, boards, published>>,
           DOMAIN wf \subseteq 1 .. sent',
           ckpt'.rid \notin DOMAIN wf, ckpt'.dispatch.rid \in 0 .. sent',
           ckpt'.node \in {"supervisor", "intake", "dispatch", "architect", "parts", "reviewer"},
           ckpt'.node # "reviewer" => ckpt'.dispatch.rid # ckpt'.rid,
           ckpt'.node = "dispatch" => ckpt'.mode = "build",
           ckpt'.node = "reviewer" => ckpt'.mode = "review" /\ ckpt'.hw = NoHardware,
           \/ ckpt'.hw = ckpt.hw /\ ckpt'.review = ckpt.review
           \/ ckpt'.review = NoReview,
           mid'.at \notin {"receipt", "verdict", "digest"}
    PROVE  Made'
  <1>1. Dispatched'
    BY DEF Dispatched
  <1>2. Files'
    BY DEF IInv, Made, Files
  <1>3. Verdict'
    BY DEF IInv, Made, Verdict, NoHardware, NoReview
  <1>4. Stands'
    BY DEF Stands
  <1>5. Released'
    BY DEF IInv, Made, Released, Sound
  <1> QED BY <1>1, <1>2, <1>3, <1>4, <1>5 DEF Made

LEMMA SupervisorKeeps == IInv /\ Supervisor => IInv'
  <1> SUFFICES ASSUME IInv, Supervisor PROVE IInv'
    OBVIOUS
  <1>1. /\ UNCHANGED <<asked, sent, pending, answered, wf, disk, boards, published>>
        /\ DOMAIN ckpt = Fields /\ ckpt.node = "supervisor" /\ ~asked /\ live
        /\ ckpt.req \in Text /\ ckpt.latest \in Text
    BY DEF IInv, Talk, Shape, Turn, TypeOK, Supervisor, At, world
  <1>2. CASE Dies /\ UNCHANGED given
    BY <1>1, <1>2, Died DEF talk, world
  <1>3. ASSUME NEW route \in Routes(ckpt.req # Blank), Turns(route)
        PROVE  IInv'
    <2>1. /\ DOMAIN ckpt' = Fields
          /\ ckpt'.rid = ckpt.rid /\ ckpt'.latest = ckpt.latest /\ ckpt'.ver = ckpt.ver
          /\ ckpt'.sub = ckpt.sub /\ ckpt'.resumeAfter = FALSE
          /\ ckpt'.req = Requirement(ckpt, route.relation)
          /\ ckpt'.mode \in {"clarify", route.intent}
          /\ ckpt'.ws = Workspace(ckpt, ckpt'.mode, Relation(ckpt, route.relation), ckpt'.req)
          /\ ckpt'.open \subseteq Decidable \cup {"task_kind"}
          /\ \/ ckpt'.hw = ckpt.hw /\ ckpt'.dispatch = ckpt.dispatch /\ ckpt'.review = ckpt.review
             \/ ckpt'.hw = NoHardware /\ ckpt'.dispatch = NoDispatch /\ ckpt'.review = NoReview
          /\ ckpt'.mode = "review" => ckpt'.hw = NoHardware
          /\ ckpt'.node \in {"intake", "dispatch", "architect", "parts", "reviewer"}
          /\ ckpt'.node = "dispatch" => ckpt'.mode = "build"
          /\ ckpt'.node = "reviewer" => ckpt'.mode = "review"
      BY <1>3 DEF Turns, Initializes
    <2>2. /\ live' = TRUE /\ run' = run /\ mid' = Nothing
          /\ given' = IF Anew(ckpt, route.relation) THEN NoAnswers ELSE given
          /\ lost' = IF Anew(ckpt, route.relation) THEN NoAnswers ELSE lost
      BY <1>3 DEF Turns
    <2>3. mid'.at = "nothing"
      BY <2>2 DEF Nothing
    <2>4. /\ route.intent \in Intents
          /\ route.relation \in Relations
          /\ route.relation # "new" => ckpt.req # Blank
      BY DEF Routes, Relations
    <2>5. /\ ckpt'.req \in Text
          /\ ckpt'.req.decided \in {ckpt.req.decided, ckpt.latest.decided}
          /\ ckpt.resumeAfter => ckpt'.req = ckpt.latest
          /\ route.relation \in Relations \ {"new"} /\ ~ckpt.resumeAfter /\ ckpt.req # Blank =>
               ckpt'.req.decided = ckpt.req.decided /\ ckpt.req.changes \subseteq ckpt'.req.changes
          /\ route.relation = "resume" /\ ~ckpt.resumeAfter /\ ckpt.req # Blank =>
               ckpt'.req = ckpt.req
      BY <1>1, <2>1, RequirementText
    <2>6. ckpt'.ws = ckpt'.req
      <3> DEFINE relation == Relation(ckpt, route.relation)
      <3>1. CASE Incremental(ckpt, ckpt'.mode, relation)
        BY <2>1, <2>5, <3>1 DEF IInv, Talk, Turn, Incremental, Workspace, Relation
      <3>2. CASE ~Incremental(ckpt, ckpt'.mode, relation)
        BY <2>1, <3>2 DEF Workspace
      <3> QED BY <3>1, <3>2
    <2>7. Shape'
      BY <1>1, <2>1, <2>2 DEF IInv, Talk, Shape, NoAnswers
    <2>8. TypeOK'
      <3>1. Decidable \subseteq Respects
        BY DEF Decidable, Respects
      <3> QED BY <1>1, <2>1, <2>2, <2>4, <2>5, <2>6, <3>1 DEF IInv, Talk, TypeOK
    <2>9. Turn'
      BY <1>1, <2>1, <2>5, <2>6 DEF IInv, Talk, Turn
    <2>10. AnswersKept'
      <3>1. InFlight = {} /\ InFlight' = {}
        BY <1>1, <2>3, NoReply DEF IInv, InFlight
      <3>2. CASE Anew(ckpt, route.relation)
        BY <2>1, <2>2, <3>2 DEF AnswersKept, Carries, Due, NoAnswers
      <3>3. CASE ~Anew(ckpt, route.relation)
        <4>1. Due' = Due
          BY <1>1, <2>2, <3>1, <3>3 DEF Due
        <4>2. CASE ckpt.resumeAfter
          BY <2>1, <2>5, <4>1, <4>2 DEF IInv, Talk, AnswersKept
        <4>3. CASE ~ckpt.resumeAfter
          <5>1. /\ ckpt'.req.decided = ckpt.req.decided
                /\ ckpt.req.changes \subseteq ckpt'.req.changes
            BY <2>4, <2>5, <3>3, <4>3 DEF Anew
          <5> QED BY <2>1, <4>1, <4>3, <5>1 DEF IInv, Talk, AnswersKept, Carries
        <4> QED BY <4>2, <4>3
      <3> QED BY <3>2, <3>3
    <2>11. AnsweredEarlier'
      BY <1>1, <2>1 DEF IInv, Talk, AnsweredEarlier
    <2>12. ckpt'.dispatch.rid \in {ckpt.dispatch.rid, 0}
      BY <2>1 DEF NoDispatch
    <2>13. Runs'
      <3>1. ASSUME NEW i \in pending
            PROVE  Unused(i.rid)' /\ Free(i.open)
        <4>1. i.rid \in 1 .. sent
          BY DEF IInv, Talk, Runs, Unused
        <4>2. i.rid # 0
          BY <4>1
        <4> QED BY <1>1, <2>12, <4>1, <4>2 DEF IInv, Talk, Runs, Unused
      <3> QED BY <1>1, <2>1, <2>2, <3>1 DEF IInv, Talk, Runs
    <2>14. Held'
      BY <2>3 DEF Held
    <2>15. Made'
      <3>1. /\ ckpt.rid \notin DOMAIN wf /\ ckpt.dispatch.rid \in 0 .. sent /\ 0 \in 0 .. sent
            /\ ckpt.dispatch.rid # ckpt.rid /\ ckpt.rid # 0 /\ DOMAIN wf \subseteq 1 .. sent
        BY <1>1 DEF IInv, Made, Dispatched, Talk, Shape, Turn
      <3> QED BY <1>1, <2>1, <2>3, <2>12, <3>1, MadePlanned
    <2> QED BY <2>7, <2>8, <2>9, <2>10, <2>11, <2>13, <2>14, <2>15 DEF IInv, Talk
  <1> QED BY <1>1, <1>2, <1>3, SupervisorInitializes

-----------------------------------------------------------------------------
\* The intake.

LEMMA IntakeAsksKeeps == IInv /\ IntakeAsks => IInv'
  <1> SUFFICES ASSUME IInv, IntakeAsks PROVE IInv'
    OBVIOUS
  <1>1. /\ SameTurn(ckpt, ckpt') /\ SameHardware(ckpt, ckpt') /\ ckpt'.sub = ckpt.sub
        /\ ckpt'.node = "intake" /\ ckpt.node = "intake"
        /\ ckpt'.open = IF ckpt.open = {} THEN {"free"} ELSE ckpt.open
        /\ ckpt'.review = ckpt.review
    BY DEF IInv, Talk, Shape, IntakeAsks, At, SameTurn, SameHardware, Fields
  <1>2. /\ ~asked /\ live /\ asked' = TRUE /\ live' = FALSE /\ mid' = mid
        /\ \/ pending' = pending \cup {Interaction(ckpt')} /\ run' = 0
           \/ pending' = pending /\ run' = run
        /\ UNCHANGED <<sent, wf, disk, boards, published, answered, given, lost>>
    BY DEF IntakeAsks, At, world
  <1>3. mid.at \notin {"reply", "receipt", "verdict", "digest"}
    BY <1>1, <1>2 DEF IInv, Talk, Held
  <1>4. ckpt'.open # {} /\ ckpt'.open \subseteq Decidable \cup {"task_kind", "free"}
    <2>1. CASE ckpt.open = {}
      BY <1>1, <2>1
    <2>2. CASE ckpt.open # {}
      BY <1>1, <2>2 DEF IInv, Talk, Turn
    <2> QED BY <2>1, <2>2
  <1>5. Shape'
    BY <1>1, <1>2 DEF IInv, Talk, Shape, SameTurn
  <1>6. TypeOK'
    <2>1. Decidable \subseteq Respects
      BY DEF Decidable, Respects
    <2> QED BY <1>1, <1>2, <1>3, <1>4, <2>1 DEF IInv, Talk, TypeOK, SameTurn
  <1>7. Turn'
    BY <1>1, <1>2, <1>4 DEF IInv, Talk, Turn, SameTurn
  <1>8. AnswersKept'
    BY <1>1, <1>2, <1>3 DEF IInv, Talk, AnswersKept, Carries, Due, InFlight, SameTurn
  <1>9. AnsweredEarlier'
    BY <1>1, <1>2 DEF IInv, Talk, AnsweredEarlier, SameTurn
  <1>10. Unused(ckpt.rid)
    BY <1>1 DEF IInv, Talk, Made, Dispatched, Turn, TypeOK, Unused
  <1>11. Runs'
    <2> DEFINE new == Interaction(ckpt')
    <2>1. new.rid = ckpt.rid /\ new.ver = ckpt.ver + 1 /\ new = Interaction(ckpt')
      BY <1>1 DEF Interaction, SameTurn
    <2>2. ckpt.ver \in Nat /\ 0 \in 0 .. sent /\ ckpt.rid # 0
      BY <1>1, GraphAssumption DEF IInv, Talk, Shape, Turn
    <2>3. \A r : Unused(r) => Unused(r)'
      BY <1>1, <1>2 DEF Unused, SameHardware
    <2>4. \A i \in pending : /\ Unused(i.rid) /\ i.rid # run /\ i.rid # ckpt.rid /\ i.rid # 0
                             /\ i.ver \in 1 .. ckpt.ver + 1 /\ Free(i.open)
      BY <1>2 DEF IInv, Talk, Runs, Unused
    <2>5. \A i, j \in pending : i.rid = j.rid => i = j
      BY DEF IInv, Talk, Runs
    <2> HIDE DEF new
    <2>6. ckpt.ver + 1 \in 1 .. ckpt.ver + 1
      BY <2>2
    <2>7. /\ run \in 0 .. sent /\ run = ckpt.rid
      BY <1>2 DEF IInv, Talk, Runs
    <2>8. CASE pending' = pending \cup {new} /\ run' = 0
      BY <1>1, <1>2, <1>10, <2>1, <2>2, <2>3, <2>4, <2>5, <2>6, <2>8 DEF Runs, SameTurn
    <2>9. CASE pending' = pending /\ run' = run
      BY <1>1, <1>2, <1>10, <2>2, <2>3, <2>4, <2>5, <2>7, <2>9 DEF Runs, SameTurn
    <2> QED BY <1>2, <2>8, <2>9 DEF new
  <1>12. Held'
    BY <1>2, <1>3 DEF Held
  <1>13. Made'
    <2>1. /\ ckpt.rid \notin DOMAIN wf /\ ckpt.dispatch.rid \in 0 .. sent
          /\ ckpt.dispatch.rid # ckpt.rid /\ DOMAIN wf \subseteq 1 .. sent
      BY <1>1 DEF IInv, Made, Dispatched
    <2> QED BY <1>1, <1>2, <1>3, <2>1, MadePlanned DEF SameTurn, SameHardware
  <1> QED BY <1>5, <1>6, <1>7, <1>8, <1>9, <1>11, <1>12, <1>13 DEF IInv, Talk

\* The intake takes an answer it can parse.
LEMMA AnswerTaken ==
    ASSUME IInv, IntakeTakes, Accepts(ckpt, mid) PROVE IInv'
  <1> DEFINE s == Settle(ckpt, mid.text)
             new == [s EXCEPT !.rid = mid.rid]
  <1>1. /\ live /\ asked /\ mid.at = "reply" /\ ckpt' = new /\ asked' = FALSE
        /\ answered' = answered \cup {[question |-> Interaction(ckpt), to |-> mid.to]}
        /\ lost' = IF Free(ckpt.open)
                   THEN [texts |-> given.texts \ new.latest.changes,
                         slots |-> {f \in given.slots : new.latest.decided[f] = 0}]
                   ELSE lost
        /\ mid' = Nothing
        /\ UNCHANGED <<live, run, sent, pending, wf, disk, boards, published, given>>
    BY DEF IntakeTakes, world
  <1>2. /\ DOMAIN ckpt = Fields /\ ckpt.node = "intake" /\ ckpt.resumeAfter = FALSE
        /\ ckpt.req \in Text /\ ckpt.latest \in Text /\ ckpt.ver \in Nat /\ ckpt.ver < MaxAnswers
        /\ ckpt.ws = ckpt.req /\ ckpt.open # {}
        /\ ckpt.open \subseteq Decidable \cup {"task_kind", "free"}
    BY <1>1, GraphAssumption DEF IInv, Talk, Shape, TypeOK, Turn, Held
  <1>3. /\ mid.rid = run /\ mid.told \subseteq mid.text
        /\ mid.text \subseteq -MaxAnswers .. MaxRequests
        /\ mid.slots # {} => mid.to = Interaction(ckpt) /\ mid.to \notin pending
        /\ run \in 1 .. sent /\ Unused(run)
    BY <1>1 DEF IInv, Talk, Held, Runs, Unused
  <1>4. /\ DOMAIN s = Fields
        /\ s.mode = ckpt.mode /\ s.ws = ckpt.ws /\ s.hw = ckpt.hw
        /\ s.dispatch = ckpt.dispatch /\ s.sub = ckpt.sub /\ s.review = ckpt.review
        /\ s.req = IF Free(ckpt.open) THEN ckpt.req ELSE s.latest
    BY <1>2, SettleFields
  <1>5. s.node = "supervisor" /\ s.open = {} /\ s.ver = ckpt.ver + 1 /\ s.resumeAfter = TRUE
    BY <1>2 DEF Settle, Fields, Free
  <1>6. s.latest \in Text
    BY <1>2, <1>3, SettleText
  <1>7. /\ s.latest.changes = Old(ckpt).changes \cup mid.text
        /\ s.latest.decided = [f \in Respects |->
                                 IF f \in ckpt.open THEN 1 ELSE Old(ckpt).decided[f]]
    BY <1>2, SettleLatest
  <1> HIDE DEF s
  <1>8. /\ DOMAIN ckpt' = Fields /\ ckpt'.node = "supervisor" /\ ckpt'.open = {}
        /\ ckpt'.ver = ckpt.ver + 1 /\ ckpt'.resumeAfter = TRUE /\ ckpt'.mode = ckpt.mode
        /\ ckpt'.ws = ckpt.ws /\ ckpt'.hw = ckpt.hw /\ ckpt'.dispatch = ckpt.dispatch
        /\ ckpt'.sub = ckpt.sub /\ ckpt'.review = ckpt.review
        /\ ckpt'.req = s.req /\ ckpt'.latest = s.latest /\ ckpt'.rid = run
        /\ new.latest = s.latest
    BY <1>1, <1>3, <1>4, <1>5 DEF Fields
  <1> HIDE DEF new
  <1>9. mid'.at = "nothing"
    BY <1>1 DEF Nothing
  <1>10. Shape'
    <2>1. ckpt'.ver \in 0 .. MaxAnswers
      BY <1>2, <1>8, GraphAssumption
    <2>2. DOMAIN lost' = {"texts", "slots"}
      BY <1>1 DEF IInv, Talk, Shape
    <2> QED BY <1>1, <1>8, <2>1, <2>2 DEF IInv, Talk, Shape
  <1>11. TypeOK'
    <2>1. ckpt'.req \in Text /\ run \in 0 .. sent
      BY <1>2, <1>3, <1>4, <1>6, <1>8
    <2> QED BY <1>1, <1>6, <1>8, <2>1 DEF IInv, Talk, TypeOK
  <1>12. Turn'
    <2>1. \A f \in Respects \ Decidable : f \notin ckpt.open
      BY <1>2 DEF Respects, Decidable
    <2>2. \A f \in Respects \ Decidable : s.latest.decided[f] = 0
      BY <1>7, <2>1 DEF IInv, Talk, Turn, Old
    <2>3. ckpt'.req \in {ckpt.req, s.latest} /\ ckpt'.latest = s.latest
      BY <1>4, <1>8
    <2>4. \A f \in Respects \ Decidable : ckpt'.req.decided[f] = 0 /\ ckpt'.latest.decided[f] = 0
      BY <2>2, <2>3 DEF IInv, Talk, Turn
    <2>5. ckpt'.rid >= 1
      BY <1>3, <1>8
    <2> QED BY <1>1, <1>8, <2>4, <2>5 DEF Turn
  <1>13. AnswersKept'
    <2>1. InFlight' = {}
      BY <1>9 DEF InFlight
    <2>2. CASE Free(ckpt.open)
      <3>1. Carries(s.latest, Due')
        BY <1>1, <1>8, <2>1, <2>2 DEF Carries, Due
      <3> QED BY <1>8, <3>1 DEF AnswersKept
    <2>3. CASE ~Free(ckpt.open)
      <3>1. Carries(ckpt.req, Due) /\ Old(ckpt) = ckpt.req /\ InFlight = mid.told
        BY <1>1, <1>2, <2>3 DEF IInv, Talk, AnswersKept, Old, InFlight
      <3>2. Due'.texts \subseteq s.latest.changes
        BY <1>1, <1>3, <1>7, <2>1, <2>3, <3>1 DEF Due, Carries
      <3>3. ASSUME NEW f \in Due'.slots PROVE s.latest.decided[f] # 0
        <4>1. f \in Respects /\ f \in given.slots /\ f \notin lost.slots
          BY <1>1, <2>3 DEF IInv, Talk, Shape, Due
        <4>2. CASE f \in ckpt.open
          BY <1>7, <4>1, <4>2
        <4>3. CASE f \notin ckpt.open
          <5>1. f \in Due.slots
            BY <1>1, <4>1, <4>3 DEF Due
          <5> QED BY <1>7, <3>1, <4>1, <4>3, <5>1 DEF Carries
        <4> QED BY <4>2, <4>3
      <3> QED BY <1>8, <3>2, <3>3 DEF AnswersKept, Carries
    <2> QED BY <2>2, <2>3
  <1>14. Free(ckpt.open) \/ mid.slots = ckpt.open
    BY DEF Accepts
  <1>15. AnsweredEarlier'
    <2> DEFINE a == [question |-> Interaction(ckpt), to |-> mid.to]
    <2>1. /\ a.question = Interaction(ckpt) /\ a.to = mid.to
          /\ a.question.ver = ckpt.ver + 1 /\ a.question.open = ckpt.open
      BY DEF Interaction
    <2>2. answered' = answered \cup {a}
      BY <1>1
    <2> HIDE DEF a
    <2>3. Free(a.question.open) \/ a.to = a.question
      BY <1>2, <1>3, <1>14, <2>1
    <2>4. ckpt.ver + 1 \in 1 .. ckpt.ver + 1 /\ \A n \in 1 .. ckpt.ver : n \in 1 .. ckpt.ver + 1
      BY <1>2
    <2>5. ASSUME NEW b \in answered'
          PROVE  b.question.ver \in 1 .. ckpt.ver + 1 /\ (Free(b.question.open) \/ b.to = b.question)
      <3>1. CASE b = a
        BY <2>1, <2>3, <2>4, <3>1
      <3>2. CASE b \in answered
        BY <2>4, <3>2 DEF IInv, Talk, AnsweredEarlier
      <3> QED BY <2>2, <3>1, <3>2
    <2> QED BY <1>8, <2>5 DEF AnsweredEarlier
  <1>16. Runs'
    <2>1. ASSUME NEW i \in pending
          PROVE  /\ Unused(i.rid)' /\ i.rid # run /\ i.ver \in 1 .. ckpt'.ver + 1 /\ Free(i.open)
      <3>1. /\ Unused(i.rid) /\ i.rid # run /\ i.ver \in 1 .. ckpt.ver + 1
            /\ ~Free(i.open) => i = Interaction(ckpt)
        BY DEF IInv, Talk, Runs
      <3>2. Unused(i.rid)'
        BY <1>1, <1>8, <3>1 DEF Unused
      <3>3. i.ver \in 1 .. ckpt'.ver + 1
        BY <1>2, <1>8, <3>1
      <3>4. Free(i.open)
        <4>1. i = Interaction(ckpt) => i.open = ckpt.open
          BY DEF Interaction
        <4> QED BY <1>2, <1>3, <1>14, <3>1, <4>1
      <3> QED BY <3>1, <3>2, <3>3, <3>4
    <2>2. run \in 0 .. sent /\ run # 0
      BY <1>3
    <2> QED BY <1>1, <1>8, <2>1, <2>2 DEF IInv, Talk, Runs
  <1>17. Held'
    BY <1>9 DEF Held
  <1>18. Made'
    <2>1. /\ ckpt.dispatch.rid \in 0 .. sent /\ DOMAIN wf \subseteq 1 .. sent
          /\ run \notin DOMAIN wf /\ ckpt.dispatch.rid # run
      BY <1>3 DEF IInv, Made, Dispatched, Unused
    <2> QED BY <1>1, <1>8, <1>9, <2>1, MadePlanned
  <1> QED BY <1>10, <1>11, <1>12, <1>13, <1>15, <1>16, <1>17, <1>18 DEF IInv, Talk

\* The intake refuses a message: the run fails, and the question stays out.
LEMMA AnswerRefused ==
    ASSUME IInv, IntakeTakes, ~Accepts(ckpt, mid) PROVE IInv'
  <1>1. /\ live /\ asked /\ mid.at = "reply" /\ live' = FALSE /\ run' = 0 /\ mid' = Nothing
        /\ lost' = [lost EXCEPT !.texts = @ \cup mid.told]
        /\ UNCHANGED <<ckpt, asked, answered, sent, pending, wf, disk, boards, published, given>>
    BY DEF IntakeTakes, world
  <1>2. mid'.at = "nothing" /\ ckpt.node = "intake"
    BY <1>1 DEF IInv, Talk, Turn, Nothing
  <1>3. /\ DOMAIN lost' = {"texts", "slots"} /\ lost'.texts = lost.texts \cup InFlight
        /\ lost'.slots = lost.slots
    BY <1>1 DEF IInv, Talk, Shape, InFlight
  <1>4. Shape' /\ Turn' /\ AnsweredEarlier'
    BY <1>1, <1>3 DEF IInv, Talk, Shape, Turn, AnsweredEarlier
  <1>5. TypeOK'
    BY <1>1, <1>2 DEF IInv, Talk, TypeOK
  <1>6. AnswersKept'
    <2>1. Due' = Due
      BY <1>1, <1>2, <1>3 DEF Due, InFlight
    <2> QED BY <1>1, <2>1 DEF IInv, Talk, AnswersKept
  <1>7. Runs'
    <2>1. \A i \in pending : Unused(i.rid)' /\ i.rid # 0
      BY <1>1 DEF IInv, Talk, Runs, Unused
    <2>2. 0 \in 0 .. sent
      BY DEF IInv, Talk, Shape
    <2> QED BY <1>1, <2>1, <2>2 DEF IInv, Talk, Runs, Interaction
  <1>8. Held'
    BY <1>2 DEF Held
  <1>9. Made'
    <2>1. /\ ckpt.rid \notin DOMAIN wf /\ ckpt.dispatch.rid \in 0 .. sent
          /\ ckpt.dispatch.rid # ckpt.rid /\ DOMAIN wf \subseteq 1 .. sent
      BY <1>2 DEF IInv, Made, Dispatched
    <2> QED BY <1>1, <1>2, <2>1, MadePlanned
  <1> QED BY <1>4, <1>5, <1>6, <1>7, <1>8, <1>9 DEF IInv, Talk

LEMMA IntakeTakesKeeps == IInv /\ IntakeTakes => IInv'
  BY AnswerTaken, AnswerRefused

-----------------------------------------------------------------------------
\* Requests and answers.

\* A text one may send, and the request ids that go with it.
LEMMA RequestIds ==
    Talk => /\ sent \in Nat /\ ckpt.ver \in Nat
            /\ sent < MaxRequests => sent + 1 \in 0 .. MaxRequests /\ sent + 1 \in -MaxAnswers .. MaxRequests
            /\ \A r \in 0 .. sent : r \in 0 .. sent + 1 /\ r # sent + 1
            /\ \A r \in 1 .. sent : r \in 1 .. sent + 1 /\ r \in -MaxAnswers .. MaxRequests
            /\ sent + 1 \in 1 .. sent + 1 /\ sent + 1 \in 0 .. sent + 1
            /\ ckpt.ver < MaxAnswers => \A v \in 1 .. ckpt.ver + 1 : -v \in -MaxAnswers .. MaxRequests
  BY GraphAssumption DEF Talk, Shape

\* A run starts with a message for the question that is out.
LEMMA MessageSent ==
    ASSUME IInv, asked, ~live, ckpt.ver < MaxAnswers,
           UNCHANGED <<ckpt, asked, answered, lost, wf, disk, boards, published>>,
           pending' \subseteq pending, live' = TRUE,
           sent' \in {sent, sent + 1}, sent' \in 0 .. MaxRequests,
           NEW r \in 1 .. sent', r \notin DOMAIN wf, ckpt.dispatch.rid # r, run' = r,
           \A i \in pending' : i.rid # r,
           NEW slots, NEW text, NEW told, NEW to, mid' = Reply(r, slots, text, told, to),
           told \subseteq text, text \subseteq -MaxAnswers .. MaxRequests,
           slots # {} => to = Interaction(ckpt) /\ to \notin pending',
           DOMAIN given' = {"texts", "slots"}, given'.slots \subseteq Respects,
           given'.texts \subseteq given.texts \cup told,
           given'.slots \subseteq given.slots \cup ckpt.open
    PROVE  IInv'
  <1>1. /\ mid'.at = "reply" /\ mid'.rid = r /\ mid'.slots = slots /\ mid'.text = text
        /\ mid'.told = told /\ mid'.to = to
    BY DEF Reply
  <1>2. mid.at # "reply" /\ ckpt.node = "intake" /\ InFlight = {} /\ InFlight' = told
    BY <1>1 DEF IInv, Talk, Held, Turn, InFlight
  <1>3. /\ \A q \in 0 .. sent : q \in 0 .. sent'
        /\ \A q \in 1 .. sent : q \in 1 .. sent'
        /\ r \in 0 .. sent' /\ r # 0
    BY RequestIds DEF IInv
  <1>4. Shape' /\ Turn' /\ AnsweredEarlier'
    BY DEF IInv, Talk, Shape, Turn, AnsweredEarlier
  <1>5. TypeOK'
    <2>1. ckpt.rid \in 0 .. sent' /\ DOMAIN wf \subseteq 1 .. sent'
      BY <1>3 DEF IInv, Talk, TypeOK
    <2> QED BY <1>1, <2>1 DEF IInv, Talk, TypeOK
  <1>6. AnswersKept'
    <2>1. Due'.texts \subseteq Due.texts /\ Due'.slots \subseteq Due.slots
      BY <1>2 DEF Due
    <2> QED BY <2>1 DEF IInv, Talk, AnswersKept, Carries
  <1>7. Runs'
    <2>1. \A i \in pending : Unused(i.rid)'
      BY <1>3 DEF IInv, Talk, Runs, Unused
    <2>2. Unused(r)'
      BY DEF Unused
    <2> QED BY <1>3, <2>1, <2>2 DEF IInv, Talk, Runs, Interaction
  <1>8. Held'
    BY <1>1 DEF Held, Interaction
  <1>9. Made'
    <2>1. /\ ckpt.rid \notin DOMAIN wf /\ ckpt.dispatch.rid \in 0 .. sent'
          /\ ckpt.dispatch.rid # ckpt.rid /\ DOMAIN wf \subseteq 1 .. sent'
      BY <1>2, <1>3 DEF IInv, Made, Dispatched
    <2> QED BY <1>1, <1>2, <2>1, MadePlanned
  <1> QED BY <1>4, <1>5, <1>6, <1>7, <1>8, <1>9 DEF IInv, Talk

\* A run starts with a message that answers nothing.
LEMMA RequestBegun ==
    ASSUME IInv, ~asked, ~live,
           UNCHANGED <<asked, answered, wf, disk, boards, published>>,
           pending' \subseteq pending, live' = TRUE, mid' = Nothing,
           sent' \in {sent, sent + 1}, sent' \in 0 .. MaxRequests,
           NEW r \in 1 .. sent', r \notin DOMAIN wf, ckpt.dispatch.rid # r, run' = r,
           \A i \in pending' : i.rid # r,
           NEW text \in Text, \A f \in Respects : text.decided[f] = 0,
           ckpt' = Begin(r, text),
           DOMAIN given' = {"texts", "slots"}, given'.slots \subseteq Respects,
           DOMAIN lost' = {"texts", "slots"},
           ckpt.resumeAfter => lost' = given',
           ~ckpt.resumeAfter =>
             /\ given'.texts \ lost'.texts \subseteq given.texts \ lost.texts
             /\ given'.slots \ lost'.slots \subseteq given.slots \ lost.slots
    PROVE  IInv'
  <1>1. mid'.at = "nothing" /\ InFlight' = {} /\ InFlight = {}
    BY NoReply DEF IInv, Nothing, InFlight
  <1>2. /\ DOMAIN ckpt' = Fields
        /\ ckpt'.node = "supervisor" /\ ckpt'.rid = r /\ ckpt'.sub = NoDispatch
        /\ ckpt'.latest = text
        /\ ckpt'.mode = ckpt.mode /\ ckpt'.req = ckpt.req /\ ckpt'.ws = ckpt.ws
        /\ ckpt'.resumeAfter = ckpt.resumeAfter /\ ckpt'.open = ckpt.open
        /\ ckpt'.ver = ckpt.ver /\ ckpt'.hw = ckpt.hw /\ ckpt'.dispatch = ckpt.dispatch
        /\ ckpt'.review = ckpt.review
    BY BeginFields DEF IInv, Talk, Shape
  <1>3. /\ \A q \in 0 .. sent : q \in 0 .. sent'
        /\ \A q \in 1 .. sent : q \in 1 .. sent'
        /\ r \in 0 .. sent' /\ r # 0 /\ r >= 1
    BY RequestIds DEF IInv
  <1>4. Shape'
    BY <1>2 DEF IInv, Talk, Shape, NoDispatch
  <1>5. TypeOK'
    <2>1. DOMAIN wf \subseteq 1 .. sent'
      BY <1>3 DEF IInv, Talk, TypeOK
    <2> QED BY <1>2, <1>3, <2>1 DEF IInv, Talk, TypeOK
  <1>6. Turn'
    BY <1>2, <1>3 DEF IInv, Talk, Turn
  <1>7. AnswersKept'
    <2>1. CASE ckpt.resumeAfter
      <3>1. Due'.texts = {} /\ Due'.slots = {}
        BY <2>1 DEF Due
      <3> QED BY <3>1 DEF AnswersKept, Carries
    <2>2. CASE ~ckpt.resumeAfter
      <3>1. Due'.texts \subseteq Due.texts /\ Due'.slots \subseteq Due.slots
        BY <1>1, <2>2 DEF Due
      <3> QED BY <1>2, <2>2, <3>1 DEF IInv, Talk, AnswersKept, Carries
    <2> QED BY <2>1, <2>2
  <1>8. AnsweredEarlier'
    BY <1>2 DEF IInv, Talk, AnsweredEarlier
  <1>9. Runs'
    <2>1. \A i \in pending : Unused(i.rid)' /\ Free(i.open)
      BY <1>2, <1>3 DEF IInv, Talk, Runs, Unused
    <2> QED BY <1>2, <1>3, <2>1 DEF IInv, Talk, Runs
  <1>10. Held'
    BY <1>1 DEF Held
  <1>11. Made'
    <2>1. ckpt.dispatch.rid \in 0 .. sent' /\ DOMAIN wf \subseteq 1 .. sent'
      BY <1>3 DEF IInv, Made, Dispatched
    <2> QED BY <1>1, <1>2, <2>1, MadePlanned
  <1> QED BY <1>4, <1>5, <1>6, <1>7, <1>8, <1>9, <1>10, <1>11 DEF IInv, Talk

LEMMA SendKeeps == ASSUME IInv, NEW asks \in Asks, Send(asks) PROVE IInv'
  <1>1. /\ ~live /\ sent < MaxRequests /\ (asked => ckpt.ver < MaxAnswers) /\ sent' = sent + 1
        /\ UNCHANGED <<asked, pending, answered, wf, disk, boards, published>>
    BY DEF Send, world
  <1>2. /\ sent' \in 0 .. MaxRequests /\ sent + 1 \in 1 .. sent'
        /\ sent + 1 \in -MaxAnswers .. MaxRequests /\ sent + 1 \in 0 .. MaxRequests
    BY <1>1, RequestIds DEF IInv
  <1>3. /\ sent + 1 \notin DOMAIN wf /\ ckpt.dispatch.rid # sent + 1
        /\ \A i \in pending' : i.rid # sent + 1
    <2>1. \A q \in 0 .. sent : q # sent + 1
      BY RequestIds DEF IInv
    <2>2. \A q \in 1 .. sent : q # sent + 1
      BY RequestIds DEF IInv, Talk, Shape
    <2> QED BY <1>1, <2>1, <2>2 DEF IInv, Talk, Runs, Unused, Made, Dispatched
  <1>4. /\ DOMAIN given = {"texts", "slots"} /\ given.slots \subseteq Respects
        /\ DOMAIN lost = {"texts", "slots"}
    BY DEF IInv, Talk, Shape
  <1>5. CASE asked
    <2> DEFINE told == IF Free(ckpt.open) THEN {sent + 1} ELSE {}
    <2>1. /\ live' = TRUE /\ run' = sent + 1
          /\ mid' = Reply(sent + 1, {}, {sent + 1}, told, NoInteraction)
          /\ given' = [given EXCEPT !.texts = @ \cup told]
          /\ UNCHANGED <<ckpt, lost>>
      BY <1>5 DEF Send, Starts
    <2>2. told \subseteq {sent + 1} /\ {sent + 1} \subseteq -MaxAnswers .. MaxRequests
      BY <1>2
    <2>3. /\ DOMAIN given' = {"texts", "slots"} /\ given'.slots = given.slots
          /\ given'.texts = given.texts \cup told
      BY <1>4, <2>1
    <2> HIDE DEF told
    <2> QED BY <1>1, <1>2, <1>3, <1>4, <1>5, <2>1, <2>2, <2>3, MessageSent
  <1>6. CASE ~asked
    <2> DEFINE text == [Blank EXCEPT !.base = sent + 1, !.asks = asks]
    <2>1. /\ live' = TRUE /\ run' = sent + 1 /\ mid' = Nothing
          /\ ckpt' = Begin(sent + 1, text)
          /\ lost' = IF ckpt.resumeAfter THEN given ELSE lost
          /\ given' = given
      BY <1>6 DEF Send, Starts
    <2>2. text \in Text /\ \A f \in Respects : text.decided[f] = 0
      <3>1. asks \in [Respects -> Nat] /\ NoContract \in [Respects -> 0 .. 1]
        BY GraphAssumption DEF NoContract
      <3> DEFINE id == sent + 1
      <3>2. text = [Blank EXCEPT !.base = id, !.asks = asks] /\ id \in 0 .. MaxRequests
        BY <1>2
      <3> HIDE DEF text, id
      <3>3. /\ Blank \in [base : 0 .. MaxRequests, changes : SUBSET (-MaxAnswers .. MaxRequests),
                          asks : [Respects -> Nat], decided : [Respects -> 0 .. 1]]
            /\ Blank.decided = NoContract
        BY <3>1, <3>2, GraphAssumption DEF Blank, NoContract
      <3>4. text \in Text /\ text.decided = Blank.decided
        BY <3>1, <3>2, <3>3 DEF Text
      <3> QED BY <3>3, <3>4 DEF NoContract
    <2> HIDE DEF text
    <2> QED BY <1>1, <1>2, <1>3, <1>4, <1>6, <2>1, <2>2, RequestBegun
  <1> QED BY <1>5, <1>6

LEMMA RetryKeeps == IInv /\ Retry => IInv'
  <1> SUFFICES ASSUME IInv, Retry PROVE IInv'
    OBVIOUS
  <1>1. /\ ~live /\ run # 0 /\ (asked => ckpt.ver < MaxAnswers) /\ live' = TRUE /\ run' = run
        /\ mid' = IF asked THEN Reply(run, {}, {run}, {}, NoInteraction) ELSE Nothing
        /\ UNCHANGED <<ckpt, asked, sent, pending, answered, given, lost>>
        /\ UNCHANGED <<wf, disk, boards, published>>
    BY DEF Retry, Starts, talk, world
  <1>2. CASE asked
    <2>1. /\ run \in 1 .. sent /\ run \notin DOMAIN wf /\ ckpt.dispatch.rid # run
          /\ \A i \in pending : i.rid # run
      BY <1>1, <1>2 DEF IInv, Talk, Runs, Unused
    <2>2. run \in -MaxAnswers .. MaxRequests
      BY <2>1, RequestIds DEF IInv
    <2>3. {} \subseteq {run} /\ {run} \subseteq -MaxAnswers .. MaxRequests
      BY <2>2
    <2>4. mid' = Reply(run, {}, {run}, {}, NoInteraction)
      BY <1>1, <1>2
    <2>5. /\ sent' \in 0 .. MaxRequests /\ sent' = sent /\ DOMAIN given = {"texts", "slots"}
          /\ given.slots \subseteq Respects
      BY <1>1 DEF IInv, Talk, Shape
    <2> QED BY <1>1, <1>2, <2>1, <2>3, <2>4, <2>5, MessageSent
  <1>3. CASE ~asked
    <2>1. mid' = Nothing /\ mid'.at = "nothing" /\ InFlight' = {} /\ InFlight = {}
      BY <1>1, <1>3, NoReply DEF IInv, Nothing, InFlight
    <2>2. Shape' /\ Turn' /\ AnsweredEarlier'
      BY <1>1 DEF IInv, Talk, Shape, Turn, AnsweredEarlier
    <2>3. TypeOK'
      BY <1>1, <1>3 DEF IInv, Talk, TypeOK
    <2>4. AnswersKept'
      BY <1>1, <2>1 DEF IInv, Talk, AnswersKept, Due
    <2>5. Runs'
      BY <1>1, <1>3 DEF IInv, Talk, Runs, Unused
    <2>6. Held'
      BY <2>1 DEF Held
    <2>7. Dispatched' /\ Files' /\ Verdict'
      BY <1>1 DEF IInv, Made, Dispatched, Files, Verdict
    <2>8. Stands' /\ Released'
      BY <1>1, <2>1, PassedKept DEF IInv, Made, Stands, Released, Releases, Sound
    <2> QED BY <2>2, <2>3, <2>4, <2>5, <2>6, <2>7, <2>8 DEF IInv, Talk, Made
  <1> QED BY <1>2, <1>3

LEMMA AnswerKeeps == ASSUME IInv, NEW i \in pending, Answer(i) PROVE IInv'
  <1> DEFINE text == IF i.open \cap Respects = {} THEN {-i.ver} ELSE {}
             slots == i.open \cap Respects
  <1>1. /\ ~live /\ ckpt.ver < MaxAnswers /\ pending' = pending \ {i}
        /\ given' = [texts |-> given.texts \cup text, slots |-> given.slots \cup slots]
        /\ live' = TRUE /\ run' = i.rid
        /\ UNCHANGED <<asked, sent, answered, wf, disk, boards, published>>
    BY DEF Answer, Starts, world
  <1>2. /\ asked => /\ mid' = Reply(i.rid, i.open \ {"free"}, text, text, i)
                    /\ UNCHANGED <<ckpt, lost>>
        /\ ~asked => /\ mid' = Nothing
                     /\ ckpt' = Begin(i.rid, [Blank EXCEPT !.changes = text])
                     /\ lost' = IF ckpt.resumeAfter THEN given' ELSE [lost EXCEPT !.texts = @ \cup text]
    BY DEF Answer, Starts
  <1>3. /\ i.rid \in 1 .. sent' /\ i.rid \notin DOMAIN wf /\ ckpt.dispatch.rid # i.rid
        /\ \A j \in pending' : j.rid # i.rid
        /\ ~Free(i.open) => asked /\ i = Interaction(ckpt)
        /\ i.ver \in 1 .. ckpt.ver + 1
    BY <1>1 DEF IInv, Talk, Runs, Unused
  <1>4. text \subseteq -MaxAnswers .. MaxRequests
    <2>1. -i.ver \in -MaxAnswers .. MaxRequests
      BY <1>1, <1>3, RequestIds DEF IInv
    <2> QED BY <2>1
  <1>5. Free(i.open) => slots = {} /\ i.open \ {"free"} = {}
    BY DEF Free, Respects
  <1>6. /\ DOMAIN given = {"texts", "slots"} /\ given.slots \subseteq Respects
        /\ DOMAIN lost = {"texts", "slots"} /\ sent' \in 0 .. MaxRequests /\ sent' = sent
    BY <1>1 DEF IInv, Talk, Shape
  <1>7. /\ DOMAIN given' = {"texts", "slots"} /\ given'.texts = given.texts \cup text
        /\ given'.slots = given.slots \cup slots /\ given'.slots \subseteq Respects
    BY <1>1, <1>6
  <1>8. CASE asked
    <2>1. i = Interaction(ckpt) => i.open = ckpt.open
      BY DEF Interaction
    <2>2. slots \subseteq ckpt.open
      BY <1>3, <1>5, <2>1
    <2> DEFINE filled == i.open \ {"free"}
    <2>3. filled # {} => i = Interaction(ckpt) /\ i \notin pending'
      BY <1>1, <1>3, <1>5
    <2> HIDE DEF text, slots, filled
    <2>4. /\ mid' = Reply(i.rid, filled, text, text, i)
          /\ UNCHANGED <<ckpt, lost>>
      BY <1>2, <1>8 DEF text, filled
    <2> QED BY <1>1, <1>3, <1>4, <1>6, <1>7, <1>8, <2>2, <2>3, <2>4, MessageSent
  <1>9. CASE ~asked
    <2> DEFINE latest == [Blank EXCEPT !.changes = text]
    <2>1. slots = {}
      BY <1>3, <1>5, <1>9
    <2> HIDE DEF text, slots
    <2>2. latest \in Text /\ \A f \in Respects : latest.decided[f] = 0
      <3>1. NoContract \in [Respects -> 0 .. 1] /\ NoContract \in [Respects -> Nat]
        BY DEF NoContract
      <3>2. /\ Blank \in [base : 0 .. MaxRequests, changes : SUBSET (-MaxAnswers .. MaxRequests),
                          asks : [Respects -> Nat], decided : [Respects -> 0 .. 1]]
            /\ Blank.decided = NoContract
        BY <3>1, GraphAssumption DEF Blank
      <3> HIDE DEF latest
      <3>3. latest = [Blank EXCEPT !.changes = text]
        BY DEF latest
      <3>4. latest \in Text /\ latest.decided = Blank.decided
        BY <1>4, <3>2, <3>3 DEF Text
      <3> QED BY <3>2, <3>4 DEF NoContract
    <2>3. /\ mid' = Nothing /\ ckpt' = Begin(i.rid, latest)
          /\ lost' = IF ckpt.resumeAfter THEN given' ELSE [lost EXCEPT !.texts = @ \cup text]
      BY <1>2, <1>9 DEF text, latest
    <2> HIDE DEF latest
    <2>4. /\ DOMAIN lost' = {"texts", "slots"}
          /\ ckpt.resumeAfter => lost' = given'
          /\ ~ckpt.resumeAfter =>
               /\ given'.texts \ lost'.texts \subseteq given.texts \ lost.texts
               /\ given'.slots \ lost'.slots \subseteq given.slots \ lost.slots
      <3>1. CASE ckpt.resumeAfter
        BY <1>7, <2>3, <3>1
      <3>2. CASE ~ckpt.resumeAfter
        <4>1. /\ DOMAIN lost' = {"texts", "slots"} /\ lost'.texts = lost.texts \cup text
              /\ lost'.slots = lost.slots
          BY <1>6, <2>3, <3>2
        <4> QED BY <1>7, <2>1, <3>2, <4>1
      <3> QED BY <3>1, <3>2
    <2>5. pending' \subseteq pending
      BY <1>1
    <2> QED BY <1>1, <1>3, <1>6, <1>7, <1>9, <2>2, <2>3, <2>4, <2>5, RequestBegun
  <1> QED BY <1>8, <1>9

-----------------------------------------------------------------------------
\* The hardware.

LEMMA DispatchKeeps == IInv /\ Dispatch => IInv'
  <1> SUFFICES ASSUME IInv, Dispatch PROVE IInv'
    OBVIOUS
  <1>1. UNCHANGED <<asked, sent, pending, answered, given, disk, boards, published>>
    BY DEF Dispatch, talk
  <1>2. /\ live /\ ~asked /\ ckpt.node = "dispatch" /\ ckpt.mode = "build" /\ DOMAIN ckpt = Fields
        /\ ckpt.rid \in 1 .. sent /\ ckpt.ws = ckpt.req /\ ckpt.dispatch.rid # ckpt.rid
    BY DEF IInv, Talk, Made, TypeOK, Turn, Dispatched, Shape, Dispatch, At
  <1>3. ~Attachable(ckpt)
    BY <1>2 DEF Attachable
  <1>4. PICK status \in {"started", "dispatch_error"} :
          LET ref == [status |-> status, rid |-> ckpt.rid, ws |-> ckpt.ws]
          IN /\ Commit([ckpt EXCEPT !.sub = ref, !.node = "wait"])
             /\ IF ref.status = "started" /\ ckpt.rid \notin DOMAIN wf
                THEN wf' = [i \in DOMAIN wf \cup {ckpt.rid} |->
                              IF i \in DOMAIN wf THEN wf[i]
                              ELSE [ws |-> ckpt.ws, req |-> ckpt.req, running |-> TRUE,
                                    payload |-> NoPayload]]
                ELSE UNCHANGED wf
    BY <1>3 DEF Dispatch
  <1> DEFINE ref == [status |-> status, rid |-> ckpt.rid, ws |-> ckpt.ws]
             new == [ckpt EXCEPT !.sub = ref, !.node = "wait"]
  <1>5. /\ DOMAIN wf' \subseteq 1 .. sent /\ DOMAIN wf' \subseteq DOMAIN wf \cup {ckpt.rid}
        /\ status = "started" => ckpt.rid \in DOMAIN wf'
        /\ \A r \in DOMAIN wf' :
             \/ r \in DOMAIN wf /\ wf'[r] = wf[r]
             \/ r = ckpt.rid
                /\ wf'[r] = [ws |-> ckpt.ws, req |-> ckpt.req, running |-> TRUE,
                             payload |-> NoPayload]
    <2>1. DOMAIN wf \subseteq 1 .. sent
      BY DEF IInv, Made, Dispatched
    <2>2. CASE status = "started" /\ ckpt.rid \notin DOMAIN wf
      BY <1>2, <1>4, <2>1, <2>2
    <2>3. CASE ~(status = "started" /\ ckpt.rid \notin DOMAIN wf)
      BY <1>4, <2>1, <2>3
    <2> QED BY <2>2, <2>3
  <1>6. ckpt.rid \in DOMAIN wf' => wf'[ckpt.rid].ws = ckpt.ws /\ wf'[ckpt.rid].req = ckpt.req
    BY <1>2, <1>5 DEF IInv, Made, Dispatched
  <1>7. Files'
    <2>1. \A r \in DOMAIN wf' : /\ DOMAIN wf'[r] = {"ws", "req", "running", "payload"}
                                /\ wf'[r].ws = wf'[r].req /\ Attests(wf'[r].payload, wf'[r].req)
      <3>1. ~NoPayload.ok
        BY DEF NoPayload
      <3>2. TAKE r \in DOMAIN wf'
      <3>3. CASE r \in DOMAIN wf /\ wf'[r] = wf[r]
        BY <3>3 DEF IInv, Made, Files
      <3>4. CASE wf'[r] = [ws |-> ckpt.ws, req |-> ckpt.req, running |-> TRUE,
                           payload |-> NoPayload]
        BY <1>2, <3>1, <3>4 DEF Attests
      <3> QED BY <1>5, <3>2, <3>3, <3>4
    <2> QED BY <1>1, <2>1 DEF IInv, Made, Files
  <1>8. Released'
    BY <1>1 DEF IInv, Made, Released, Sound
  <1>9. CASE Dies
    <2>1. UNCHANGED ckpt /\ mid' = Nothing /\ mid'.at = "nothing"
      BY <1>9 DEF Dies, Nothing
    <2>2. Talk'
      BY <1>1, <1>2, <1>5, <1>9, TalkDied DEF IInv
    <2>3. Dispatched'
      BY <1>1, <1>2, <1>5, <1>6, <2>1 DEF IInv, Made, Dispatched
    <2>4. Verdict' /\ Stands'
      BY <1>1, <1>2, <2>1 DEF IInv, Made, Verdict, Stands
    <2> QED BY <1>7, <1>8, <2>2, <2>3, <2>4 DEF IInv, Made
  <1>10. CASE ~Dies
    <2>1. /\ ckpt' = new /\ live' \in BOOLEAN /\ run' \in {run, 0} /\ (live' => run' # 0)
          /\ mid' = Nothing /\ UNCHANGED lost
      BY <1>2, <1>4, <1>10, Committed
    <2>2. /\ SameTurn(ckpt, ckpt') /\ SameHardware(ckpt, ckpt') /\ ckpt'.node = "wait"
          /\ ckpt'.sub = ref /\ ckpt'.open = ckpt.open /\ ckpt'.review = ckpt.review
      BY <1>2, <2>1 DEF SameTurn, SameHardware, Fields
    <2>3. DOMAIN ref = {"status", "rid", "ws"} /\ ref.rid = ckpt.rid /\ ref.status = status
      OBVIOUS
    <2>4. ref.status # "dispatch_error" => ckpt.rid \in DOMAIN wf'
      BY <1>4, <1>5
    <2>5. mid'.at = "nothing"
      BY <2>1 DEF Nothing
    <2> HIDE DEF ref, new
    <2>6. Held'
      BY <2>5 DEF Held
    <2>7. Talk'
      BY <1>1, <1>2, <1>5, <2>1, <2>2, <2>3, <2>5, <2>6, TalkKept DEF IInv, SameHardware
    <2>8. Dispatched'
      BY <1>1, <1>2, <1>5, <1>6, <2>2, <2>3, <2>4 DEF IInv, Made, Dispatched, SameTurn, SameHardware
    <2>9. Verdict' /\ Stands'
      BY <1>1, <2>2, <2>5 DEF IInv, Made, Verdict, Stands, SameHardware
    <2> QED BY <1>7, <1>8, <2>7, <2>8, <2>9 DEF IInv, Made
  <1> QED BY <1>9, <1>10

LEMMA WaitKeeps == IInv /\ Wait => IInv'
  <1> SUFFICES ASSUME IInv, Wait PROVE IInv'
    OBVIOUS
  <1>1. /\ UNCHANGED <<asked, sent, pending, answered, given>>
        /\ UNCHANGED <<wf, disk, boards, published>> /\ UNCHANGED <<talk, world, published>>
    BY DEF Wait, talk, world
  <1>2. /\ live /\ ~asked /\ ckpt.node = "wait" /\ ckpt.mode = "build" /\ DOMAIN ckpt = Fields
        /\ DOMAIN ckpt.sub = {"status", "rid", "ws"} /\ ckpt.rid \in 1 .. sent
        /\ ckpt.sub.rid = ckpt.rid
    BY DEF IInv, Talk, Made, TypeOK, Turn, Dispatched, Shape, Wait, At
  <1>3. ASSUME NEW p, NEW status, p.ok => p.identity.req = ckpt.req,
               Commit(Updated(ckpt, p, status))
        PROVE  IInv'
    <2> DEFINE new == Updated(ckpt, p, status)
    <2>1. /\ DOMAIN new = Fields
          /\ new.rid = ckpt.rid /\ new.mode = ckpt.mode /\ new.req = ckpt.req
          /\ new.latest = ckpt.latest /\ new.ws = ckpt.ws
          /\ new.resumeAfter = ckpt.resumeAfter /\ new.open = ckpt.open
          /\ new.ver = ckpt.ver /\ new.arch = ckpt.arch /\ new.sub = NoDispatch
          /\ new.dispatch.rid = ckpt.sub.rid /\ new.review = NoReview
          /\ new.hw.ready => p.ok
          /\ new.hw.identity = p.identity
          /\ new.node \in {"reviewer", "report"}
          /\ new.node = "reviewer" => ckpt.ws \in DOMAIN disk
      BY <1>2, UpdatedFields
    <2> HIDE DEF new
    <2>2. CASE Dies
      BY <1>1, <2>2, Died
    <2>3. CASE ~Dies
      <3>1. /\ ckpt' = new /\ live' \in BOOLEAN /\ run' \in {run, 0} /\ (live' => run' # 0)
            /\ mid' = Nothing /\ UNCHANGED lost
        BY <1>2, <1>3, <2>3, Committed DEF new
      <3>2. mid'.at = "nothing" /\ SameTurn(ckpt, ckpt')
        BY <2>1, <3>1 DEF Nothing, SameTurn
      <3>3. Held'
        BY <3>2 DEF Held
      <3>4. DOMAIN NoDispatch = {"status", "rid", "ws"} /\ DOMAIN wf \subseteq 1 .. sent
        BY DEF NoDispatch, IInv, Made, Dispatched
      <3>5. Talk'
        BY <1>1, <1>2, <2>1, <3>1, <3>2, <3>3, <3>4, TalkKept DEF IInv
      <3>6. Dispatched' /\ Files'
        BY <1>1, <1>2, <2>1, <3>1 DEF IInv, Made, Dispatched, Files
      <3>7. Verdict'
        BY <1>1, <1>2, <1>3, <2>1, <3>1 DEF Verdict, NoReview
      <3>8. Stands' /\ Released'
        <4>1. NoReview.status = "none"
          BY DEF NoReview
        <4> QED BY <1>1, <2>1, <3>1, <3>2, <4>1 DEF IInv, Made, Stands, Releases, Released, Sound
      <3> QED BY <3>5, <3>6, <3>7, <3>8 DEF IInv, Made
    <2> QED BY <2>2, <2>3
  <1>4. CASE ckpt.sub.status # "dispatch_error"
             /\ Commit(Updated(ckpt, wf[ckpt.rid].payload, "completed"))
    <2>1. wf[ckpt.rid].payload.ok => wf[ckpt.rid].payload.identity.req = ckpt.req
      BY <1>2, <1>4 DEF IInv, Made, Dispatched, Files, Attests
    <2> QED BY <1>3, <1>4, <2>1
  <1>5. ASSUME NEW status, Commit(Updated(ckpt, NoPayload, status))
        PROVE  IInv'
    <2>1. NoPayload.ok = FALSE
      BY DEF NoPayload
    <2> QED BY <1>3, <1>5, <2>1
  <1> QED BY <1>4, <1>5 DEF Wait

-----------------------------------------------------------------------------
\* The review and the release.

\* A step of a node that only reads and remembers.
LEMMA Remembers ==
    ASSUME IInv, ~asked, live, ckpt.node \in {"reviewer", "report"},
           UNCHANGED <<ckpt, live, run, talk, world, lost>>, mid'.at # "reply", Held'
    PROVE  /\ Talk' /\ Dispatched' /\ Files' /\ Verdict'
           /\ \A v : Passed(v) => Passed(v)'
           /\ Sound(Attested) => Sound(Attested)'
           /\ Still => Still'
           /\ \A p : Sound(p) => Sound(p)'
  <1>1. /\ UNCHANGED <<asked, sent, pending, answered, given>> /\ UNCHANGED <<wf, disk, boards>>
    BY DEF talk, world
  <1>2. InFlight = {} /\ InFlight' = {}
    BY NoReply DEF IInv, InFlight
  <1>3. Shape' /\ Turn' /\ AnsweredEarlier'
    BY <1>1 DEF IInv, Talk, Shape, Turn, AnsweredEarlier
  <1>4. TypeOK' /\ AnswersKept'
    BY <1>1, <1>2 DEF IInv, Talk, TypeOK, AnswersKept, Due
  <1>5. Runs'
    BY <1>1 DEF IInv, Talk, Runs, Unused
  <1>6. Dispatched' /\ Files' /\ Verdict'
    BY <1>1 DEF IInv, Made, Dispatched, Files, Verdict
  <1>7. /\ \A v : Passed(v) => Passed(v)'
        /\ Sound(Attested) => Sound(Attested)'
        /\ Still => Still'
        /\ \A p : Sound(p) => Sound(p)'
    BY <1>1, PassedKept
  <1> QED BY <1>3, <1>4, <1>5, <1>6, <1>7 DEF IInv, Talk

\* What the receipt proves when the review does not block on it.
LEMMA ReceiptProves ==
    ASSUME IInv, ckpt.node = "reviewer", ckpt.mode = "build", ckpt.ws \in DOMAIN disk,
           ~ReceiptBlocked(disk[ckpt.ws], ckpt.hw)
    PROVE  /\ [disk[ckpt.ws].manifest.id EXCEPT !.pcb = disk[ckpt.ws].pcb] = ckpt.hw.identity
           /\ Sound(Attested) /\ disk[ckpt.ws].pcb = ckpt.hw.identity.pcb
  <1> DEFINE d == disk[ckpt.ws]
  <1>1. /\ d.req = ckpt.ws
        /\ d.pcb \in 1 .. Len(boards) /\ boards[d.pcb] = d.board
    BY DEF IInv, Made, Files
  <1>2. ~ReceiptBlocked(d, ckpt.hw)
    OBVIOUS
  <1> HIDE DEF d
  <1>3. /\ ckpt.hw.ready /\ d.manifest.id = ckpt.hw.identity
        /\ ManifestStatus(d.manifest, d.req, d.pcb, d.board) = "passed"
    BY <1>2 DEF ReceiptBlocked
  <1>4. /\ d.manifest.id = [req |-> d.req, pcb |-> d.pcb]
        /\ Audit(Extract(d.req), d.board) = {}
    BY <1>3 DEF ManifestStatus, Valid
  <1>5. [d.manifest.id EXCEPT !.pcb = d.pcb] = ckpt.hw.identity
    BY <1>3, <1>4
  <1>6. ckpt.hw.identity.req = ckpt.req
    BY <1>3 DEF IInv, Made, Verdict
  <1>7. d.req = ckpt.req /\ ckpt.hw.identity.pcb = d.pcb
    BY <1>3, <1>4, <1>6
  <1>8. \A f \in Respects \ Decidable : ckpt.req.decided[f] = 0
    BY DEF IInv, Talk, Turn
  <1>9. Attested.req = ckpt.req /\ Attested.pcb = ckpt.hw.identity
    BY DEF Attested
  <1>10. Sound(Attested)
    BY <1>1, <1>4, <1>6, <1>7, <1>8, <1>9 DEF Sound
  <1> QED BY <1>5, <1>7, <1>10 DEF d

LEMMA ReviewReadsKeeps == IInv /\ ReviewReads => IInv'
  <1> SUFFICES ASSUME IInv, ReviewReads PROVE IInv'
    OBVIOUS
  <1> DEFINE d == disk[ckpt.ws]
             first == IF mid.at = "verdict" THEN mid.review ELSE NoReview
             id == [d.manifest.id EXCEPT !.pcb = d.pcb]
             blocked == ReceiptBlocked(d, ckpt.hw)
             alone == Idle(ckpt.ws)
             new == [at |-> "receipt", first |-> first, id |-> id, blocked |-> blocked,
                     alone |-> alone]
  <1>1. /\ live /\ ~asked /\ ckpt.node = "reviewer" /\ ckpt.mode = "build"
        /\ ckpt.ws \in DOMAIN disk /\ mid.at \in {"nothing", "verdict"} /\ mid' = new
        /\ UNCHANGED <<ckpt, live, run, talk, world, published, lost>>
    BY DEF IInv, Talk, Turn, ReviewReads, At
  <1>2. /\ new.at = "receipt" /\ new.first = first /\ new.id = id
        /\ (new.blocked <=> blocked) /\ (new.alone <=> alone)
    OBVIOUS
  <1>3. ~blocked => id = ckpt.hw.identity /\ Sound(Attested) /\ (alone => Still)
    BY <1>1, ReceiptProves DEF Still
  <1>4. Passed(first)
    <2>1. NoReview.status = "none"
      BY DEF NoReview
    <2> QED BY <1>1, <2>1 DEF IInv, Made, Stands, Passed
  <1> HIDE DEF new, first, id, blocked, alone
  <1>5. Held' /\ mid'.at # "reply"
    BY <1>1, <1>2 DEF Held
  <1>6. PICK f : f = first
    OBVIOUS
  <1>7. /\ Talk' /\ Dispatched' /\ Files' /\ Verdict'
        /\ Passed(f)'
        /\ Sound(Attested) => Sound(Attested)'
        /\ Still => Still'
        /\ \A p : Sound(p) => Sound(p)'
    BY <1>1, <1>4, <1>5, <1>6, Remembers
  <1>8. Stands'
    <2>1. /\ mid'.at = "receipt" /\ mid'.first = f /\ (~mid'.blocked => ~blocked)
          /\ mid'.id = id /\ (mid'.alone => alone) /\ ckpt' = ckpt
      BY <1>1, <1>2, <1>6
    <2>2. Passed(mid.first)'
      BY <1>7, <2>1 DEF Passed
    <2>3. ckpt'.node # "report" /\ mid'.at # "verdict" /\ mid'.at # "digest"
      BY <1>1, <2>1
    <2>4. ~mid'.blocked => /\ mid'.id = ckpt'.hw.identity /\ Sound(Attested)'
                           /\ (mid'.alone => Still')
      BY <1>3, <1>7, <2>1
    <2> QED BY <2>2, <2>3, <2>4 DEF Stands
  <1>9. Released'
    BY <1>1, <1>7 DEF IInv, Made, Released
  <1> QED BY <1>7, <1>8, <1>9 DEF IInv, Made

\* The commit of a review, or of the report.
LEMMA Concludes ==
    ASSUME IInv, ~asked, ckpt.node \in {"reviewer", "report"}, UNCHANGED <<talk, world, lost>>,
           SameTurn(ckpt, ckpt'), SameHardware(ckpt, ckpt'), ckpt'.open = ckpt.open,
           ckpt'.sub = ckpt.sub, ckpt'.node \in {"report", "end"},
           live' \in BOOLEAN, run' \in {run, 0}, live' => run' # 0, mid' = Nothing
    PROVE  /\ Talk' /\ Dispatched' /\ Files'
           /\ \A v : Passed(v) => Passed(v)'
           /\ \A p : Sound(p) => Sound(p)'
  <1>1. /\ UNCHANGED <<asked, sent, pending, answered, given>> /\ UNCHANGED <<wf, disk, boards>>
        /\ mid'.at = "nothing"
    BY DEF talk, world, Nothing
  <1>2. Held'
    BY <1>1 DEF Held
  <1>3. DOMAIN wf \subseteq 1 .. sent /\ DOMAIN ckpt.sub = {"status", "rid", "ws"}
    BY DEF IInv, Talk, Made, Dispatched, Shape
  <1>4. Talk'
    BY <1>1, <1>2, <1>3, TalkKept DEF IInv, SameHardware
  <1>5. Dispatched' /\ Files'
    BY <1>1 DEF IInv, Made, Dispatched, Files, SameTurn, SameHardware
  <1>6. (\A v : Passed(v) => Passed(v)') /\ (\A p : Sound(p) => Sound(p)')
    BY <1>1, PassedKept DEF SameTurn, SameHardware
  <1> QED BY <1>4, <1>5, <1>6

\* A review that stands, committed.
LEMMA ReviewCommitted ==
    ASSUME IInv, ~asked, live, ckpt.node = "reviewer", UNCHANGED <<talk, world, published>>,
           NEW review, Commit([ckpt EXCEPT !.node = "report", !.review = review]),
           \/ Passed(review)
           \/ ckpt.mode # "build" /\ review.id = ckpt.hw.identity /\ review.attempt = ckpt.hw.attempt
    PROVE  IInv'
  <1> DEFINE new == [ckpt EXCEPT !.node = "report", !.review = review]
  <1>1. CASE Dies
    BY <1>1, Died
  <1>2. CASE ~Dies
    <2>1. /\ ckpt' = new /\ live' \in BOOLEAN /\ run' \in {run, 0} /\ (live' => run' # 0)
          /\ mid' = Nothing /\ mid'.at = "nothing" /\ UNCHANGED lost
      BY <1>2, Committed DEF Nothing
    <2>2. /\ SameTurn(ckpt, ckpt') /\ SameHardware(ckpt, ckpt') /\ ckpt'.open = ckpt.open
          /\ ckpt'.sub = ckpt.sub /\ ckpt'.node = "report" /\ ckpt'.review = review
      BY <2>1 DEF IInv, Talk, Shape, SameTurn, SameHardware, Fields
    <2> HIDE DEF new
    <2>3. /\ Talk' /\ Dispatched' /\ Files'
          /\ Passed(review) => Passed(review)'
          /\ \A p : Sound(p) => Sound(p)'
      BY <2>1, <2>2, Concludes
    <2>4. UNCHANGED disk /\ UNCHANGED published
      BY DEF world
    <2>5. Verdict'
      BY <2>2 DEF Verdict, Passed, SameHardware
    <2>6. Stands'
      <3>1. Releases' => ckpt.mode = "build"
        BY <2>2 DEF Releases, SameTurn
      <3>2. Releases' => Passed(review)'
        BY <2>3, <3>1
      <3>3. Passed(review)' => Passed(ckpt.review)'
        BY <2>2 DEF Passed
      <3> QED BY <2>1, <3>2, <3>3 DEF Stands
    <2>7. Released'
      BY <2>3, <2>4 DEF IInv, Made, Released
    <2> QED BY <2>3, <2>5, <2>6, <2>7 DEF IInv, Made
  <1> QED BY <1>1, <1>2

LEMMA ReviewChecksKeeps == IInv /\ ReviewChecks => IInv'
  <1> SUFFICES ASSUME IInv, ReviewChecks PROVE IInv'
    OBVIOUS
  <1>1. /\ live /\ ~asked /\ ckpt.node = "reviewer" /\ mid.at = "receipt"
        /\ UNCHANGED <<talk, world, published>> /\ ckpt.mode = "build"
    BY DEF IInv, Talk, Turn, Held, ReviewChecks, At
  <1>2. PICK cli \in {"ran", "absent"}, gates \in BOOLEAN, done \in BOOLEAN :
          LET blocked == mid.blocked \/ IndependentBlocked(disk[ckpt.ws], cli, gates)
              verdict == Stand(IF blocked \/ ~done THEN "blocked" ELSE "ok", mid.id, mid.alone)
              review == IF mid.first # NoReview /\ ~done THEN mid.first ELSE verdict
          IN \/ Commit([ckpt EXCEPT !.node = "report", !.review = review])
             \/ /\ mid.first = NoReview /\ done
                /\ mid' = [at |-> "verdict", review |-> verdict]
                /\ UNCHANGED <<ckpt, live, run, crashes, lost>>
    BY DEF ReviewChecks
  <1> DEFINE blocked == mid.blocked \/ IndependentBlocked(disk[ckpt.ws], cli, gates)
             status == IF blocked \/ ~done THEN "blocked" ELSE "ok"
             verdict == Stand(status, mid.id, mid.alone)
             review == IF mid.first # NoReview /\ ~done THEN mid.first ELSE verdict
  <1>3. /\ verdict.status = status /\ verdict.id = mid.id /\ (verdict.alone <=> mid.alone)
        /\ verdict.attempt = ckpt.hw.attempt
    BY DEF Stand
  <1>4. status = "ok" => ~mid.blocked
    OBVIOUS
  <1> HIDE DEF status, verdict
  <1>5. Passed(verdict) /\ Passed(mid.first)
    BY <1>1, <1>3, <1>4 DEF IInv, Made, Stands, Passed
  <1>6. PICK v : v = verdict
    OBVIOUS
  <1>7. PICK r : r = review
    OBVIOUS
  <1>8. Passed(v) /\ Passed(r)
    BY <1>5, <1>6, <1>7
  <1>9. CASE Commit([ckpt EXCEPT !.node = "report", !.review = r])
    BY <1>1, <1>8, <1>9, ReviewCommitted
  <1>10. CASE mid' = [at |-> "verdict", review |-> v] /\ UNCHANGED <<ckpt, live, run, crashes, lost>>
    <2>1. mid'.at = "verdict" /\ mid'.review = v /\ ckpt' = ckpt
      BY <1>10
    <2>2. Held'
      BY <1>1, <1>10, <2>1 DEF Held
    <2>3. /\ Talk' /\ Dispatched' /\ Files' /\ Verdict'
          /\ Passed(v)'
          /\ \A p : Sound(p) => Sound(p)'
      BY <1>1, <1>8, <1>10, <2>1, <2>2, Remembers
    <2>4. Passed(mid.review)'
      BY <2>1, <2>3 DEF Passed
    <2>5. Stands'
      BY <1>1, <2>1, <2>4 DEF Stands
    <2>6. Released'
      BY <1>1, <2>3 DEF IInv, Made, Released
    <2> QED BY <2>3, <2>5, <2>6 DEF IInv, Made
  <1> QED BY <1>2, <1>6, <1>7, <1>9, <1>10 DEF verdict, status

LEMMA ReviewerKeeps == IInv /\ Reviewer => IInv'
  <1> SUFFICES ASSUME IInv, Reviewer PROVE IInv'
    OBVIOUS
  <1>1. /\ live /\ ~asked /\ ckpt.node = "reviewer" /\ UNCHANGED <<talk, world, published>>
        /\ ~(ckpt.mode = "build" /\ ckpt.ws \in DOMAIN disk)
    BY DEF IInv, Talk, Turn, Reviewer, At
  <1>2. ckpt.mode # "build" /\ ckpt.hw.identity = NoIdentity
    BY <1>1 DEF IInv, Made, Verdict
  <1>3. PICK status \in {"ok", "blocked", "error"} :
          Commit([ckpt EXCEPT !.node = "report", !.review = Stand(status, NoIdentity, FALSE)])
    BY DEF Reviewer
  <1>4. PICK v : v = Stand(status, NoIdentity, FALSE)
    OBVIOUS
  <1>5. v.id = ckpt.hw.identity /\ v.attempt = ckpt.hw.attempt
    BY <1>2, <1>4 DEF Stand
  <1>6. Commit([ckpt EXCEPT !.node = "report", !.review = v])
    BY <1>3, <1>4
  <1> QED BY <1>1, <1>2, <1>5, <1>6, ReviewCommitted

LEMMA ReportHashesKeeps == IInv /\ ReportHashes => IInv'
  <1> SUFFICES ASSUME IInv, ReportHashes PROVE IInv'
    OBVIOUS
  <1>1. /\ live /\ ~asked /\ ckpt.node = "report" /\ ckpt.mode = "build"
        /\ mid' = [at |-> "digest", pcb |-> disk[ckpt.ws].pcb]
        /\ UNCHANGED <<ckpt, live, run, talk, world, published, lost>>
    BY DEF IInv, Talk, Turn, ReportHashes, Publishes, At
  <1>2. mid'.at = "digest" /\ mid'.pcb = disk[ckpt.ws].pcb
    BY <1>1
  <1>3. Held'
    BY <1>1, <1>2 DEF Held
  <1>4. PICK v : v = ckpt.review
    OBVIOUS
  <1>5. /\ Talk' /\ Dispatched' /\ Files' /\ Verdict'
        /\ Passed(v) => Passed(v)'
        /\ \A p : Sound(p) => Sound(p)'
    BY <1>1, <1>2, <1>3, Remembers
  <1>6. Releases => Passed(v)
    BY <1>1, <1>4 DEF IInv, Made, Stands
  <1>7. Stands'
    <2>1. Releases' <=> Releases
      BY <1>1 DEF Releases
    <2>2. Passed(v)' => Passed(ckpt.review)'
      BY <1>1, <1>4 DEF Passed
    <2>3. Releases /\ ckpt.review.alone => mid'.pcb = ckpt.hw.identity.pcb
      BY <1>2, <1>4, <1>6 DEF Passed, Still, Releases
    <2> QED BY <1>1, <1>2, <1>5, <1>6, <2>1, <2>2, <2>3 DEF Stands
  <1>8. Released'
    BY <1>1, <1>5 DEF IInv, Made, Released
  <1> QED BY <1>5, <1>7, <1>8 DEF IInv, Made

\* The turn ends, and with it what was released.
LEMMA TurnEnded ==
    ASSUME IInv, ~asked, live, ckpt.node = "report", UNCHANGED <<talk, world>>,
           Commit([ckpt EXCEPT !.node = "end"]),
           \A p \in published' :
             \/ p \in published
             \/ /\ Sound([req |-> p.req, pcb |-> p.reviewed])
                /\ p.alone => p.digest = p.reviewed.pcb /\ p.bytes = p.reviewed.pcb
    PROVE  IInv'
  <1>1. ASSUME \A p : Sound(p) => Sound(p)' PROVE Released'
    BY <1>1 DEF IInv, Made, Released
  <1>2. /\ UNCHANGED <<asked, sent, pending, answered, given>> /\ UNCHANGED <<wf, disk, boards>>
    BY DEF talk, world
  <1>3. CASE Dies
    <2>1. UNCHANGED ckpt /\ mid'.at = "nothing"
      BY <1>3 DEF Dies, Nothing
    <2>2. Talk'
      BY <1>2, <1>3, TalkDied DEF IInv, Made, Dispatched
    <2>3. Dispatched' /\ Files' /\ Verdict'
      BY <1>2, <2>1 DEF IInv, Made, Dispatched, Files, Verdict
    <2>4. (\A v : Passed(v) => Passed(v)') /\ (\A p : Sound(p) => Sound(p)')
      BY <1>2, <2>1, PassedKept
    <2>5. Stands'
      <3>1. PICK v : v = ckpt.review
        OBVIOUS
      <3>2. Passed(ckpt.review) => Passed(ckpt.review)'
        BY <2>1, <2>4, <3>1 DEF Passed
      <3> QED BY <2>1, <3>2 DEF IInv, Made, Stands, Releases
    <2> QED BY <1>1, <2>2, <2>3, <2>4, <2>5 DEF IInv, Made
  <1>4. CASE ~Dies
    <2> DEFINE new == [ckpt EXCEPT !.node = "end"]
    <2>1. /\ ckpt' = new /\ live' \in BOOLEAN /\ run' \in {run, 0} /\ (live' => run' # 0)
          /\ mid' = Nothing /\ mid'.at = "nothing" /\ UNCHANGED lost
      BY <1>4, Committed DEF Nothing
    <2>2. /\ SameTurn(ckpt, ckpt') /\ SameHardware(ckpt, ckpt') /\ ckpt'.open = ckpt.open
          /\ ckpt'.sub = ckpt.sub /\ ckpt'.node = "end" /\ ckpt'.review = ckpt.review
      BY <2>1 DEF IInv, Talk, Shape, SameTurn, SameHardware, Fields
    <2> HIDE DEF new
    <2>3. /\ Talk' /\ Dispatched' /\ Files'
          /\ \A p : Sound(p) => Sound(p)'
      BY <2>1, <2>2, Concludes
    <2>4. Verdict' /\ Stands'
      BY <2>1, <2>2 DEF IInv, Made, Verdict, Stands, SameHardware
    <2> QED BY <1>1, <2>3, <2>4 DEF IInv, Made
  <1> QED BY <1>3, <1>4

LEMMA ReportKeeps == IInv /\ Report => IInv'
  <1> SUFFICES ASSUME IInv, Report PROVE IInv'
    OBVIOUS
  <1>1. /\ live /\ ~asked /\ ckpt.node = "report" /\ UNCHANGED <<talk, world, published>>
        /\ Commit([ckpt EXCEPT !.node = "end"])
    BY DEF IInv, Talk, Turn, Report, At
  <1> QED BY <1>1, TurnEnded

LEMMA ReportCopiesKeeps == IInv /\ ReportCopies => IInv'
  <1> SUFFICES ASSUME IInv, ReportCopies PROVE IInv'
    OBVIOUS
  <1>1. /\ live /\ ~asked /\ ckpt.node = "report" /\ mid.at = "digest" /\ ckpt.mode = "build"
        /\ UNCHANGED <<talk, world>> /\ Commit([ckpt EXCEPT !.node = "end"])
    BY DEF IInv, Talk, Turn, Held, ReportCopies, At
  <1>2. PICK stored \in BOOLEAN :
          LET overall == Overall(ckpt.hw, ckpt.review.status, ckpt.parts, ckpt.arch)
          IN published' = IF Published(overall, TRUE, stored) = "release_ready"
                          THEN published \cup {Release(mid.pcb, disk[ckpt.ws].pcb)}
                          ELSE published
    BY DEF ReportCopies
  <1> DEFINE overall == Overall(ckpt.hw, ckpt.review.status, ckpt.parts, ckpt.arch)
             release == Release(mid.pcb, disk[ckpt.ws].pcb)
  <1>3. CASE Published(overall, TRUE, stored) = "release_ready"
    <2>1. overall = "release_ready"
      BY <1>3 DEF Published
    <2>2. Releases
      BY <1>1, <2>1 DEF Overall, Releases
    <2>3. Passed(ckpt.review) /\ ckpt.review.status = "ok"
      BY <1>1, <2>2 DEF IInv, Made, Stands, Releases
    <2>4. /\ release.req = ckpt.req /\ release.reviewed = ckpt.review.id
          /\ (release.alone <=> ckpt.review.alone)
          /\ release.digest = mid.pcb /\ release.bytes = disk[ckpt.ws].pcb
      BY DEF Release
    <2> HIDE DEF release, overall
    <2>5. Sound([req |-> release.req, pcb |-> release.reviewed])
      BY <2>3, <2>4 DEF Passed, Attested
    <2>6. release.alone => release.digest = release.reviewed.pcb /\ release.bytes = release.reviewed.pcb
      BY <1>1, <2>2, <2>3, <2>4 DEF IInv, Made, Stands, Passed, Still
    <2>7. published' = published \cup {release}
      BY <1>2, <1>3 DEF release, overall
    <2> QED BY <1>1, <2>5, <2>6, <2>7, TurnEnded
  <1>4. CASE ~(Published(overall, TRUE, stored) = "release_ready")
    BY <1>1, <1>2, <1>4, TurnEnded
  <1> QED BY <1>3, <1>4

-----------------------------------------------------------------------------
\* The workflows.

\* What a running workflow does leaves the conversation, the checkpoint and
\* the releases as they are; a directory nothing runs in is not its own.
LEMMA Elsewhere ==
    ASSUME IInv, UNCHANGED <<execution, talk, published>>,
           DOMAIN wf' = DOMAIN wf,
           \A r \in DOMAIN wf : /\ wf'[r].ws = wf[r].ws /\ wf'[r].req = wf[r].req
                                /\ wf'[r].running => wf[r].running,
           NEW w \in DOMAIN wf, wf[w].running,
           DOMAIN disk \subseteq DOMAIN disk',
           \A k \in DOMAIN disk : k # wf[w].ws => disk'[k] = disk[k],
           boards' \in Seq(Boards), Len(boards) <= Len(boards'),
           \A i \in 1 .. Len(boards) : boards'[i] = boards[i],
           Files'
    PROVE  IInv'
  <1>0. /\ UNCHANGED <<ckpt, live, run, mid, lost>>
        /\ UNCHANGED <<asked, sent, pending, answered, given, published>>
    BY DEF execution, talk
  <1>1. Shape' /\ Turn' /\ AnsweredEarlier'
    BY <1>0 DEF IInv, Talk, Shape, Turn, AnsweredEarlier
  <1>2. TypeOK' /\ AnswersKept'
    BY <1>0 DEF IInv, Talk, TypeOK, AnswersKept, Due, InFlight
  <1>3. Runs'
    BY <1>0 DEF IInv, Talk, Runs, Unused, Interaction
  <1>4. Held'
    BY <1>0 DEF IInv, Talk, Held, Interaction
  <1>5. Dispatched'
    BY <1>0 DEF IInv, Made, Dispatched
  <1>6. ASSUME NEW p, Sound(p) PROVE Sound(p)'
    <2>1. p.pcb.pcb \in 1 .. Len(boards) /\ Len(boards) \in Nat /\ Len(boards') \in Nat
      BY <1>6 DEF IInv, Talk, Shape, Sound
    <2>2. p.pcb.pcb \in 1 .. Len(boards') /\ boards'[p.pcb.pcb] = boards[p.pcb.pcb]
      BY <2>1
    <2> QED BY <1>6, <2>2 DEF Sound
  <1>7. Sound(Attested) => Sound(Attested)'
    <2>1. PICK p : p = Attested
      OBVIOUS
    <2>2. Sound(p) => Sound(p)'
      BY <1>6
    <2>3. Sound(p)' => Sound(Attested)'
      BY <1>0, <2>1 DEF Sound, Attested
    <2> QED BY <2>1, <2>2, <2>3
  <1>8. Still => Still'
    <2> SUFFICES ASSUME Still PROVE Still'
      OBVIOUS
    <2>1. wf[w].ws # ckpt.ws
      BY DEF Still, Idle
    <2>2. Idle(ckpt.ws)'
      BY <1>0 DEF Still, Idle
    <2> QED BY <1>0, <2>1, <2>2 DEF Still
  <1>9. Released'
    BY <1>0, <1>6 DEF IInv, Made, Released
  <1>10. Verdict'
    BY <1>0 DEF IInv, Made, Verdict
  <1>11. ASSUME NEW v, Passed(v) PROVE Passed(v)'
    BY <1>0, <1>7, <1>8, <1>11 DEF Passed
  <1>12. Stands'
    <2>1. PICK first, verdict, review :
            first = mid.first /\ verdict = mid.review /\ review = ckpt.review
      OBVIOUS
    <2>2. /\ Passed(mid.first) => Passed(mid.first)'
          /\ Passed(mid.review) => Passed(mid.review)'
          /\ Passed(ckpt.review) => Passed(ckpt.review)'
      <3>1. /\ Passed(first) => Passed(first)'
            /\ Passed(verdict) => Passed(verdict)'
            /\ Passed(review) => Passed(review)'
        BY <1>11
      <3> QED BY <1>0, <2>1, <3>1 DEF Passed
    <2>3. Releases' <=> Releases
      BY <1>0 DEF Releases
    <2> QED BY <1>0, <1>7, <1>8, <2>2, <2>3 DEF IInv, Made, Stands
  <1> QED BY <1>1, <1>2, <1>3, <1>4, <1>5, <1>9, <1>10, <1>12 DEF IInv, Talk, Made

\* A workspace is written with files of its requirement and a board that was
\* written.
LEMMA FilesWritten ==
    ASSUME IInv, NEW k, NEW d, Write(k, d), UNCHANGED wf,
           Len(boards) <= Len(boards'), boards' \in Seq(Boards),
           \A i \in 1 .. Len(boards) : boards'[i] = boards[i],
           DOMAIN d = DOMAIN NoFiles, d.req = k, Attests(d.payload, k),
           d.pcb \in 1 .. Len(boards'), boards'[d.pcb] = d.board
    PROVE  /\ Files' /\ DOMAIN disk \subseteq DOMAIN disk'
           /\ \A j \in DOMAIN disk : j # k => disk'[j] = disk[j]
  <1>1. /\ DOMAIN disk' = DOMAIN disk \cup {k} /\ disk'[k] = d
        /\ \A j \in DOMAIN disk : j # k => disk'[j] = disk[j]
    BY DEF Write
  <1>2. Len(boards) \in Nat /\ Len(boards') \in Nat
    BY DEF IInv, Talk, Shape
  <1>3. ASSUME NEW j \in DOMAIN disk'
        PROVE  /\ DOMAIN disk'[j] = DOMAIN NoFiles
               /\ disk'[j].req = j /\ Attests(disk'[j].payload, j)
               /\ disk'[j].pcb \in 1 .. Len(boards') /\ boards'[disk'[j].pcb] = disk'[j].board
    <2>1. CASE j = k
      BY <1>1, <2>1
    <2>2. CASE j # k
      <3>1. j \in DOMAIN disk /\ disk'[j] = disk[j]
        BY <1>1, <1>3, <2>2
      <3>2. /\ DOMAIN disk[j] = DOMAIN NoFiles
            /\ disk[j].req = j /\ Attests(disk[j].payload, j)
            /\ disk[j].pcb \in 1 .. Len(boards) /\ boards[disk[j].pcb] = disk[j].board
        BY <3>1 DEF IInv, Made, Files
      <3> QED BY <1>2, <3>1, <3>2
    <2> QED BY <2>1, <2>2
  <1>4. Files'
    BY <1>3 DEF IInv, Made, Files
  <1> QED BY <1>1, <1>4

LEMMA WorkflowWritesKeeps ==
    ASSUME IInv, NEW r, NEW board \in Boards, NEW errors, WorkflowWrites(r, board, errors)
    PROVE  IInv'
  <1>1. /\ r \in DOMAIN wf /\ boards' = Append(boards, board)
        /\ wf[r].running /\ UNCHANGED <<execution, talk, published>> /\ UNCHANGED wf
    BY DEF WorkflowWrites
  <1> DEFINE k == wf[r].ws
             old == OnDisk(k)
             d == [old EXCEPT !.req = wf[r].req, !.pcb = Len(boards) + 1, !.board = board,
                     !.files = {"sch", "pcb", "dsn", "ses"}, !.routed = TRUE, !.complete = FALSE,
                     !.errors = errors]
  <1>2. Write(k, d)
    BY DEF WorkflowWrites
  <1>3. /\ boards \in Seq(Boards) /\ boards' \in Seq(Boards)
        /\ Len(boards') = Len(boards) + 1 /\ boards'[Len(boards) + 1] = board
        /\ \A i \in 1 .. Len(boards) : boards'[i] = boards[i]
    BY <1>1 DEF IInv, Talk, Shape
  <1>4. k = wf[r].req
    BY <1>1 DEF IInv, Made, Files
  <1>5. DOMAIN old = DOMAIN NoFiles /\ Attests(old.payload, k)
    <2>1. CASE k \in DOMAIN disk
      <3>1. DOMAIN disk[k] = DOMAIN NoFiles /\ Attests(disk[k].payload, k)
        BY <2>1 DEF IInv, Made, Files
      <3> QED BY <2>1, <3>1 DEF OnDisk
    <2>2. CASE k \notin DOMAIN disk
      <3>1. old = NoFiles
        BY <2>2 DEF OnDisk
      <3>2. NoFiles.payload = NoPayload
        BY DEF NoFiles
      <3>3. ~NoPayload.ok
        BY DEF NoPayload
      <3> QED BY <3>1, <3>2, <3>3 DEF Attests
    <2> QED BY <2>1, <2>2
  <1> HIDE DEF old
  <1>6. /\ DOMAIN d = DOMAIN NoFiles /\ d.req = k /\ d.payload = old.payload
        /\ d.pcb = Len(boards) + 1 /\ d.board = board
    <2>1. /\ DOMAIN d = DOMAIN old /\ d.payload = old.payload
      BY <1>5 DEF NoFiles
    <2>2. /\ d.req = wf[r].req /\ d.pcb = Len(boards) + 1 /\ d.board = board
      BY <1>5 DEF NoFiles
    <2> QED BY <1>4, <1>5, <2>1, <2>2
  <1> HIDE DEF d, k
  <1>7. Len(boards) \in Nat /\ Len(boards) <= Len(boards') /\ d.pcb \in 1 .. Len(boards')
    BY <1>3, <1>6
  <1>8. /\ Files' /\ DOMAIN disk \subseteq DOMAIN disk'
        /\ \A j \in DOMAIN disk : j # k => disk'[j] = disk[j]
    BY <1>1, <1>2, <1>3, <1>5, <1>6, <1>7, FilesWritten
  <1>9. /\ \A i \in DOMAIN wf : wf'[i] = wf[i]
        /\ \A j \in DOMAIN disk : j # wf[r].ws => disk'[j] = disk[j]
    BY <1>1, <1>8 DEF k
  <1> QED BY <1>1, <1>3, <1>7, <1>8, <1>9, Elsewhere

LEMMA WorkflowManufacturesKeeps ==
    ASSUME IInv, NEW r, NEW cli, WorkflowManufactures(r, cli) PROVE IInv'
  <1> DEFINE k == wf[r].ws
             d == disk[k]
             m == Manifest(d.req, d.pcb, d.board)
             whole == [d EXCEPT !.complete = TRUE, !.manifest = m, !.issues = m.findings # {}]
             new == [whole EXCEPT !.payload = Payload(whole, cli, m.id)]
  <1>1. /\ r \in DOMAIN wf /\ k \in DOMAIN disk
        /\ wf[r].running /\ UNCHANGED <<execution, talk, published>>
        /\ UNCHANGED <<wf, boards>>
        /\ Write(k, new)
    BY DEF WorkflowManufactures
  <1>2. /\ boards \in Seq(Boards) /\ Len(boards) \in Nat
    BY DEF IInv, Talk, Shape
  <1>3. /\ DOMAIN d = DOMAIN NoFiles /\ d.req = k
        /\ d.pcb \in 1 .. Len(boards) /\ boards[d.pcb] = d.board
    BY <1>1 DEF IInv, Made, Files
  <1>4. m.id.req = d.req
    BY DEF Manifest
  <1> HIDE DEF d, m
  <1>5. /\ DOMAIN whole = DOMAIN NoFiles /\ whole.req = d.req /\ whole.pcb = d.pcb
        /\ whole.board = d.board
    BY <1>3 DEF NoFiles
  <1> HIDE DEF whole
  <1>6. Payload(whole, cli, m.id).identity = m.id
    BY DEF Payload
  <1>7. /\ DOMAIN new = DOMAIN NoFiles /\ new.req = d.req /\ new.pcb = d.pcb
        /\ new.board = d.board /\ new.payload = Payload(whole, cli, m.id)
    BY <1>5 DEF NoFiles
  <1> HIDE DEF new
  <1>8. Attests(new.payload, k)
    BY <1>3, <1>4, <1>6, <1>7 DEF Attests
  <1>9. /\ Files' /\ DOMAIN disk \subseteq DOMAIN disk'
        /\ \A j \in DOMAIN disk : j # k => disk'[j] = disk[j]
    BY <1>1, <1>2, <1>3, <1>7, <1>8, FilesWritten
  <1> QED BY <1>1, <1>2, <1>9, Elsewhere

LEMMA WorkflowEndsKeeps ==
    ASSUME IInv, NEW r, NEW failed \in BOOLEAN, WorkflowEnds(r, failed) PROVE IInv'
  <1>1. /\ r \in DOMAIN wf
        /\ wf[r].running /\ UNCHANGED <<execution, talk, published>>
        /\ UNCHANGED <<disk, boards>>
    BY DEF WorkflowEnds
  <1>2. PICK payload : /\ wf' = [wf EXCEPT ![r].running = FALSE, ![r].payload = payload]
                       /\ payload \in {NoPayload, OnDisk(wf[r].ws).payload}
    BY DEF WorkflowEnds
  <1>3. /\ boards \in Seq(Boards) /\ Len(boards) \in Nat
    BY DEF IInv, Talk, Shape
  <1>4. /\ DOMAIN wf[r] = {"ws", "req", "running", "payload"} /\ wf[r].ws = wf[r].req
    BY <1>1 DEF IInv, Made, Files
  <1>5. Attests(payload, wf[r].req)
    <2>1. Attests(NoPayload, wf[r].req)
      BY DEF NoPayload, Attests
    <2>2. CASE wf[r].ws \in DOMAIN disk
      BY <1>2, <1>4, <2>1, <2>2 DEF IInv, Made, Files, OnDisk
    <2>3. CASE wf[r].ws \notin DOMAIN disk
      <3>1. NoFiles.payload = NoPayload
        BY DEF NoFiles
      <3> QED BY <1>2, <2>1, <2>3, <3>1 DEF OnDisk
    <2> QED BY <2>2, <2>3
  <1>6. /\ DOMAIN wf' = DOMAIN wf
        /\ \A i \in DOMAIN wf : i # r => wf'[i] = wf[i]
        /\ DOMAIN wf'[r] = DOMAIN wf[r]
        /\ wf'[r].ws = wf[r].ws /\ wf'[r].req = wf[r].req /\ wf'[r].payload = payload
        /\ wf'[r].running = FALSE
    BY <1>1, <1>2, <1>4
  <1>7. Files'
    <2>1. ASSUME NEW i \in DOMAIN wf'
          PROVE  /\ DOMAIN wf'[i] = {"ws", "req", "running", "payload"}
                 /\ wf'[i].ws = wf'[i].req /\ Attests(wf'[i].payload, wf'[i].req)
      <3>1. CASE i = r
        BY <1>4, <1>5, <1>6, <3>1
      <3>2. CASE i # r
        BY <1>6, <2>1, <3>2 DEF IInv, Made, Files
      <3> QED BY <3>1, <3>2
    <2> QED BY <1>1, <2>1 DEF IInv, Made, Files
  <1>8. \A i \in DOMAIN wf : /\ wf'[i].ws = wf[i].ws /\ wf'[i].req = wf[i].req
                            /\ wf'[i].running => wf[i].running
    BY <1>6
  <1> QED BY <1>1, <1>3, <1>6, <1>7, <1>8, Elsewhere

-----------------------------------------------------------------------------

-----------------------------------------------------------------------------
LEMMA InitIInv == Init => IInv
  <1> SUFFICES ASSUME Init PROVE IInv
    OBVIOUS
  <1>1. /\ DOMAIN ckpt = Fields /\ ckpt.node = "end" /\ ckpt.rid = 0 /\ ckpt.mode = "none"
        /\ ckpt.req = Blank /\ ckpt.latest = Blank /\ ckpt.ws = Blank
        /\ ckpt.resumeAfter = FALSE /\ ckpt.open = {} /\ ckpt.ver = 0
        /\ ckpt.sub = NoDispatch /\ ckpt.dispatch = NoDispatch /\ ckpt.review = NoReview
    BY DEF Init, Fresh, Fields
  <1>2. /\ live = FALSE /\ asked = FALSE /\ sent = 0 /\ DOMAIN wf = {} /\ DOMAIN disk = {}
        /\ boards = <<>> /\ published = {} /\ answered = {} /\ given = NoAnswers
        /\ run = 0 /\ pending = {} /\ mid.at = "nothing" /\ lost = NoAnswers
    BY DEF Init, Nothing
  <1>3. Blank \in Text /\ (\A f \in Respects : Blank.decided[f] = 0)
    BY GraphAssumption DEF Blank, Text, NoContract
  <1>4. Shape
    BY <1>1, <1>2, GraphAssumption DEF Shape, NoDispatch, NoAnswers
  <1>5. TypeOK
    <2>1. ckpt.rid \in 0 .. sent /\ DOMAIN wf \subseteq 1 .. sent
      BY <1>1, <1>2
    <2>2. ckpt.req \in Text /\ ckpt.latest \in Text /\ ckpt.ws \in Text
      BY <1>1, <1>3
    <2>3. live \in BOOLEAN /\ asked \in BOOLEAN /\ ~asked
      BY <1>2
    <2> QED BY <1>1, <2>1, <2>2, <2>3 DEF TypeOK
  <1>6. Turn
    BY <1>1, <1>2, <1>3 DEF Turn
  <1>7. AnswersKept /\ AnsweredEarlier
    BY <1>1, <1>2 DEF AnswersKept, AnsweredEarlier, Carries, Due, NoAnswers
  <1>8. Runs /\ Held
    <2>1. run \in 0 .. sent
      BY <1>2
    <2> QED BY <1>1, <1>2, <2>1 DEF Runs, Held
  <1>9. Dispatched /\ Files
    BY <1>1, <1>2 DEF Dispatched, Files, NoDispatch
  <1>10. Verdict /\ Stands /\ Released
    BY <1>1, <1>2 DEF Verdict, Stands, Released, NoReview
  <1> QED BY <1>4, <1>5, <1>6, <1>7, <1>8, <1>9, <1>10 DEF IInv, Talk, Made

LEMMA NextIInv == IInv /\ [Next]_vars => IInv'
  <1> SUFFICES ASSUME IInv, [Next]_vars PROVE IInv'
    OBVIOUS
  <1>1. ASSUME NEW asks \in Asks, Send(asks) PROVE IInv'
    BY <1>1, SendKeeps
  <1>2. CASE Retry
    BY <1>2, RetryKeeps
  <1>3. ASSUME NEW i \in pending, Answer(i) PROVE IInv'
    BY <1>3, AnswerKeeps
  <1>4. CASE Node
    BY <1>4, SupervisorKeeps, IntakeTakesKeeps, IntakeAsksKeeps, IntakeRepliesKeeps,
       ArchitectKeeps, SpecialistsKeeps, PartsKeeps, DispatchKeeps, WaitKeeps, ReviewReadsKeeps,
       ReviewChecksKeeps, ReviewerKeeps, ReportHashesKeeps, ReportCopiesKeeps, ReportKeeps
       DEF Node
  <1>5. CASE Crash
    BY <1>5, CrashKeeps
  <1>6. ASSUME NEW r \in 1 .. MaxRequests, NEW board \in Boards, NEW errors \in Errors,
               WorkflowWrites(r, board, errors)
        PROVE  IInv'
    BY <1>6, WorkflowWritesKeeps
  <1>7. ASSUME NEW r \in 1 .. MaxRequests, NEW cli \in {"ran", "absent"},
               WorkflowManufactures(r, cli)
        PROVE  IInv'
    BY <1>7, WorkflowManufacturesKeeps
  <1>8. ASSUME NEW r \in 1 .. MaxRequests, NEW failed \in BOOLEAN, WorkflowEnds(r, failed)
        PROVE  IInv'
    BY <1>8, WorkflowEndsKeeps
  <1>9. CASE UNCHANGED vars
    <2>1. /\ UNCHANGED <<ckpt, live, asked, sent, run, pending, mid, wf, disk, boards>>
          /\ UNCHANGED <<published, answered, given, lost>>
      BY <1>9 DEF vars
    <2>2. Shape' /\ Turn' /\ TypeOK'
      BY <2>1 DEF IInv, Talk, Shape, Turn, TypeOK
    <2>3. AnswersKept' /\ AnsweredEarlier'
      BY <2>1 DEF IInv, Talk, AnswersKept, AnsweredEarlier, Due, InFlight
    <2>4. Runs' /\ Held'
      BY <2>1 DEF IInv, Talk, Runs, Held, Unused, Interaction
    <2>5. Dispatched' /\ Files' /\ Verdict'
      BY <2>1 DEF IInv, Made, Dispatched, Files, Verdict
    <2>6. Stands'
      <3>1. /\ \A v : Passed(v) => Passed(v)'
            /\ Sound(Attested) => Sound(Attested)' /\ (Still => Still')
        BY <2>1, PassedKept
      <3> QED BY <2>1, <3>1 DEF IInv, Made, Stands, Releases, Passed, Sound, Attested, Still, Idle
    <2>7. Released'
      BY <2>1 DEF IInv, Made, Released, Sound
    <2> QED BY <2>2, <2>3, <2>4, <2>5, <2>6, <2>7 DEF IInv, Talk, Made
  <1> QED BY <1>1, <1>2, <1>3, <1>4, <1>5, <1>6, <1>7, <1>8, <1>9 DEF Next

THEOREM IInvHolds == Spec => []IInv
  <1>1. Init => IInv
    BY InitIInv
  <1>2. IInv /\ [Next]_vars => IInv'
    BY NextIInv
  <1> QED BY <1>1, <1>2, PTL DEF Spec

\* A review that passed is about the board the hardware in the checkpoint
\* attests: a result replaces the hardware and clears the review in one
\* commit, and initialize keeps both or drops both (_hardware_result_update,
\* initialize_turn).
THEOREM ReviewCorrect == Spec => []ReviewOfThisHardware
  <1>1. IInv => ReviewOfThisHardware
    BY DEF IInv, Made, Verdict, ReviewOfThisHardware
  <1> QED BY <1>1, IInvHolds, PTL

\* An interaction that was settled is never put again, a question with options
\* is settled by its own answer only, and every answer the registry accepted
\* is in the requirement the hardware is dispatched with, unless the process
\* died with it, or a free question or an abandoned turn dropped it
\* (resume_interaction, intake_phase, initialize_turn,
\* hardware_dispatch_phase).
THEOREM ConversationKept == Spec => []Conversation
  <1>1. IInv => FreshInteraction
    <2> SUFFICES ASSUME IInv, asked, NEW a \in answered PROVE a.question # Interaction(ckpt)
      BY DEF FreshInteraction
    <2>1. Interaction(ckpt).ver = ckpt.ver + 1
      BY DEF Interaction
    <2>2. a.question.ver \in 1 .. ckpt.ver
      BY DEF IInv, Talk, AnsweredEarlier
    <2>3. ckpt.ver \in Nat
      BY GraphAssumption DEF IInv, Talk, Shape
    <2>4. ckpt.ver + 1 \notin 1 .. ckpt.ver
      BY <2>3
    <2> QED BY <2>1, <2>2, <2>4
  <1>2. IInv => OwnAnswer
    BY DEF IInv, Talk, AnsweredEarlier, OwnAnswer
  <1>3. IInv => AnswersReachHardware
    <2> SUFFICES ASSUME IInv, ckpt.node = "wait" PROVE Carries(ckpt.req, Without(given, lost))
      BY DEF AnswersReachHardware
    <2>1. ~asked /\ ~ckpt.resumeAfter
      BY DEF IInv, Talk, Turn
    <2>2. InFlight = {}
      BY <2>1, NoReply DEF IInv
    <2>3. Carries(ckpt.req, Due)
      BY <2>1 DEF IInv, Talk, AnswersKept
    <2> QED BY <2>1, <2>2, <2>3 DEF Carries, Due, Without
  <1>4. IInv => Conversation
    BY <1>1, <1>2, <1>3 DEF IInv, Talk, Conversation
  <1> QED BY <1>4, IInvHolds, PTL

\* The board behind a release was made for the requirement it names and meets
\* every constraint stated in the request or settled by an answer, whatever
\* workflows of other requests wrote since; and the bytes published are that
\* board's if the review found the directory at rest (final_report,
\* publish_artifact_manifest).
THEOREM ReleaseCorrect == Spec => []ReleaseIsWhole
  <1>1. ASSUME NEW p, Sound(p), NEW f \in Respects
        PROVE  LET wanted == IF p.req.asks[f] # 0 THEN p.req.asks[f] ELSE p.req.decided[f]
               IN wanted # 0 => Meets(f, boards[p.pcb.pcb][f], wanted)
    <2> DEFINE wanted == IF p.req.asks[f] # 0 THEN p.req.asks[f] ELSE p.req.decided[f]
    <2>1. wanted # 0 => Extract(p.req)[f] = wanted
      BY <1>1 DEF Sound, Extract
    <2>2. Extract(p.req)[f] # 0 => Meets(f, boards[p.pcb.pcb][f], Extract(p.req)[f])
      BY <1>1 DEF Sound, Audit
    <2> HIDE DEF wanted
    <2>3. wanted # 0 => Meets(f, boards[p.pcb.pcb][f], wanted)
      BY <2>1, <2>2
    <2> QED BY <2>3 DEF wanted
  <1>2. IInv => ReleaseIsWhole
    <2> SUFFICES ASSUME IInv, NEW p \in published
                 PROVE  /\ p.reviewed.req = p.req
                        /\ \A f \in Respects :
                             LET wanted == IF p.req.asks[f] # 0 THEN p.req.asks[f]
                                           ELSE p.req.decided[f]
                             IN wanted # 0 => Meets(f, boards[p.reviewed.pcb][f], wanted)
                        /\ p.alone => p.digest = p.reviewed.pcb /\ p.bytes = p.reviewed.pcb
      BY DEF ReleaseIsWhole
    <2> DEFINE q == [req |-> p.req, pcb |-> p.reviewed]
    <2>1. Sound(q) /\ (p.alone => p.digest = p.reviewed.pcb /\ p.bytes = p.reviewed.pcb)
      BY DEF IInv, Made, Released
    <2>2. q.req = p.req /\ q.pcb = p.reviewed
      OBVIOUS
    <2> HIDE DEF q
    <2>3. q.pcb.req = q.req
      BY <2>1 DEF Sound
    <2>4. ASSUME NEW f \in Respects
          PROVE  LET wanted == IF q.req.asks[f] # 0 THEN q.req.asks[f] ELSE q.req.decided[f]
                 IN wanted # 0 => Meets(f, boards[q.pcb.pcb][f], wanted)
      BY <1>1, <2>1
    <2> QED BY <2>1, <2>2, <2>3, <2>4
  <1> QED BY <1>2, IInvHolds, PTL

=============================================================================
