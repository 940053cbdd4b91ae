------------------------------ MODULE AgentGraph ------------------------------
(***************************************************************************)
(* One conversation thread of the RatsNestPro agent: the LangGraph nodes   *)
(* supervisor, intake, architect, specialists, parts, hardware (dispatch   *)
(* and wait), reviewer and final report, over the checkpoint they share.   *)
(*                                                                         *)
(* A node reads the checkpoint, has its effects on the world, and commits  *)
(* its update; a process may die between the two, and the registry, taking *)
(* the run over, executes the node once more with the message the run was  *)
(* started with.  What a node holds in between (an answer on its way to    *)
(* the intake, what a review has read, the digest of a file about to be    *)
(* copied) is lost with its process.  The dispatch result lives in the     *)
(* checkpoint of the hardware subgraph until the subgraph ends, so a new   *)
(* request drops it.  Hardware workflows run on their own: one whose wait  *)
(* failed goes on writing the directory it was given, and a later request  *)
(* may start another there.  The thread lock lets one execution of the     *)
(* thread run at a time.                                                   *)
(***************************************************************************)
EXTENDS ReleaseGate, Sequences

CONSTANTS
    MaxRequests,    \* bound: request ids sent on the thread
    MaxBoards,      \* bound: board files written by workflows
    MaxAnswers,     \* bound: answers a thread's questions get
    MaxCrashes,     \* bound: deaths of the process that runs the thread
    Asks,           \* the constraints a request's text may state
    Boards,         \* the boards a workflow may produce
    Errors,         \* the numbers of errors kicad-cli may find on one
    Research,       \* what the architect's tools may find
    Catalog,        \* what the queries of the parts specialist may find
    Intents,        \* the intents the router may return
    Limit           \* questions put in one interaction (6 in the code)

ASSUME GraphAssumption ==
    /\ MaxRequests \in Nat /\ MaxAnswers \in Nat
    /\ Asks \subseteq [Respects -> Nat]

VARIABLES
    ckpt,       \* the checkpoint of the thread
    live,       \* an execution of the graph is running
    asked,      \* the graph is interrupted, a question is out
    sent,       \* request ids used so far
    run,        \* the run being executed or to be taken over, 0 for none
    pending,    \* interactions of paused runs, which the registry accepts once
    mid,        \* what the running node holds in memory
    crashes,
    wf,         \* hardware workflow of each request id
    disk,       \* the run directories, by workspace key
    boards,     \* every board file ever written, in order
    published,  \* artifact manifests published as releases
    answered,   \* interactions settled, with the one the answer was given to
    given,      \* answers given since the thread turned to this project
    lost        \* those that cannot reach its requirement any more

vars == <<ckpt, live, asked, sent, run, pending, mid, crashes, wf, disk, boards, published,
          answered, given, lost>>

\* What belongs to the execution, to the conversation and to the world.
execution == <<ckpt, live, run, mid, crashes, lost>>
talk == <<asked, sent, pending, answered, given>>
world == <<wf, disk, boards>>

Relations == {"new", "resume", "amend", "diagnose"}

\* Ordered by consequence, as _GAPS lists them.
Gaps == <<"outline", "layers", "holes">>

NoEvidence == "none"
NoHardware ==
    [ready |-> FALSE, candidate |-> FALSE, artifacts |-> FALSE, outcome |-> "execution_blocked",
     identity |-> NoIdentity, attempt |-> 0]
NoAnswers == [texts |-> {}, slots |-> {}]
NoReview == [status |-> "none", id |-> NoIdentity, attempt |-> 0, alone |-> FALSE]
NoDispatch == [status |-> "none", rid |-> 0, ws |-> Blank]
Nothing == [at |-> "nothing"]

Fresh ==
    [node |-> "end", rid |-> 0, mode |-> "none", req |-> Blank, latest |-> Blank, ws |-> Blank,
     perr |-> FALSE, incr |-> FALSE, resumeAfter |-> FALSE, open |-> {}, settled |-> {},
     ver |-> 0, arch |-> NoEvidence, parts |-> NoEvidence, hw |-> NoHardware,
     dispatch |-> NoDispatch, sub |-> NoDispatch, attempts |-> 0, review |-> NoReview]

Init ==
    /\ ckpt = Fresh
    /\ live = FALSE /\ asked = FALSE /\ sent = 0 /\ crashes = 0
    /\ run = 0 /\ pending = {} /\ mid = Nothing
    /\ wf = <<>> /\ disk = <<>> /\ boards = <<>>
    /\ published = {} /\ answered = {} /\ given = NoAnswers /\ lost = NoAnswers

\* The process dies: what the node holds goes, an answer on its way included,
\* and the run waits to be taken over.
Dies ==
    /\ crashes < MaxCrashes /\ crashes' = crashes + 1
    /\ live' = FALSE /\ mid' = Nothing
    /\ lost' = [lost EXCEPT !.texts = @ \cup IF mid.at = "reply" THEN mid.told ELSE {}]
    /\ UNCHANGED <<ckpt, run>>

\* A node's commit, which may end the turn; the process may die before it,
\* with the effects done.
Commits(new, missing) ==
    /\ ckpt' = new /\ live' = (new.node # "end") /\ mid' = Nothing
    /\ run' = IF new.node = "end" THEN 0 ELSE run
    /\ lost' = missing
    /\ UNCHANGED crashes

Commit(new) == Commits(new, lost) \/ Dies

At(n) == live /\ ckpt.node = n

-----------------------------------------------------------------------------
\* The interaction the intake node puts out for the checkpoint c.
Interaction(c) == [rid |-> c.rid, ws |-> c.ws, ver |-> c.ver + 1, open |-> c.open]

Free(open) == open = {"free"}

\* A message on its way to the intake: the run that carries it, the slots it
\* fills, the text it adds, and the interaction it was given to.
Reply(r, slots, text, told, to) ==
    [at |-> "reply", rid |-> r, slots |-> slots, text |-> text, told |-> told, to |-> to]

NoInteraction == [rid |-> 0, ws |-> Blank, ver |-> 0, open |-> {}]

\* parse_resolutions: one option for every slot offered, and no other; a free
\* question takes any text.
Accepts(c, reply) == Free(c.open) \/ reply.slots = c.open

\* The answer of intake_phase merged into the checkpoint: a slot answer also
\* rewrites the requirement, a free one only the latest request.
Settle(c, extra) ==
    LET text == [(IF Free(c.open) THEN c.latest ELSE c.req) EXCEPT
                   !.decided = [f \in Respects |-> IF f \in c.open THEN 1 ELSE @[f]],
                   !.changes = @ \cup extra]
    IN [c EXCEPT !.latest = text,
                 !.req = IF Free(c.open) THEN @ ELSE text,
                 !.settled = @ \cup (c.open \ {"free"}),
                 !.open = {}, !.ver = @ + 1, !.resumeAfter = TRUE, !.node = "supervisor"]

\* _handle_input of a message that answers no question: the graph starts over
\* from the checkpoint it has, and the subgraph's own checkpoint is dropped.
Begin(r, text) ==
    [ckpt EXCEPT !.node = "supervisor", !.rid = r, !.sub = NoDispatch, !.latest = text]

\* An execution of run r starts, with the message it carries.
Starts(r, message) ==
    /\ live' = TRUE /\ run' = r /\ mid' = message

\* A request id not seen before.  On an interrupted thread whatever the user
\* writes is taken for the answer.
Send(asks) ==
    /\ ~live /\ sent < MaxRequests /\ (asked => ckpt.ver < MaxAnswers)
    /\ sent' = sent + 1
    /\ IF asked
       THEN LET told == IF Free(ckpt.open) THEN {sent + 1} ELSE {}
            IN /\ Starts(sent + 1, Reply(sent + 1, {}, {sent + 1}, told, NoInteraction))
               /\ given' = [given EXCEPT !.texts = @ \cup told]
               /\ UNCHANGED <<ckpt, lost>>
       ELSE /\ Starts(sent + 1, Nothing)
            /\ ckpt' = Begin(sent + 1, [Blank EXCEPT !.base = sent + 1, !.asks = asks])
            /\ lost' = IF ckpt.resumeAfter THEN given ELSE lost
            /\ UNCHANGED given
    /\ UNCHANGED <<asked, pending, crashes, world, published, answered>>

\* The registry takes over a run whose process died: the graph goes on from
\* the checkpoint, but if a question is out the message the run was started
\* with is taken for the answer.
Retry ==
    /\ ~live /\ run # 0 /\ (asked => ckpt.ver < MaxAnswers)
    /\ Starts(run, IF asked THEN Reply(run, {}, {run}, {}, NoInteraction) ELSE Nothing)
    /\ UNCHANGED <<ckpt, talk, crashes, world, published, lost>>

\* resume_interaction: the registry accepts one answer to an interaction of a
\* paused run, and the run goes on with it.  By then another message may have
\* answered that question, and this one meets the question out now, or none.
Answer(i) ==
    /\ ~live /\ i \in pending /\ ckpt.ver < MaxAnswers
    /\ pending' = pending \ {i}
    /\ LET text == IF i.open \cap Respects = {} THEN {-i.ver} ELSE {}
       IN /\ given' = [texts |-> given.texts \cup text,
                       slots |-> given.slots \cup (i.open \cap Respects)]
          /\ IF asked
             THEN /\ Starts(i.rid, Reply(i.rid, i.open \ {"free"}, text, text, i))
                  /\ UNCHANGED <<ckpt, lost>>
             ELSE /\ Starts(i.rid, Nothing)
                  /\ ckpt' = Begin(i.rid, [Blank EXCEPT !.changes = text])
                  /\ lost' = IF ckpt.resumeAfter THEN given' ELSE [lost EXCEPT !.texts = @ \cup text]
    /\ UNCHANGED <<asked, sent, crashes, world, published, answered>>

\* intake_phase gets the message, and commits what it settles; an answer it
\* cannot parse fails the run, and the question stays out.
IntakeTakes ==
    /\ live /\ asked /\ mid.at = "reply"
    /\ IF Accepts(ckpt, mid)
       THEN LET new == [Settle(ckpt, mid.text) EXCEPT !.rid = mid.rid]
            IN /\ ckpt' = new /\ asked' = FALSE
               /\ answered' = answered \cup {[question |-> Interaction(ckpt), to |-> mid.to]}
               /\ lost' = IF Free(ckpt.open)
                          THEN [texts |-> given.texts \ new.latest.changes,
                                slots |-> {f \in given.slots : new.latest.decided[f] = 0}]
                          ELSE lost
               /\ UNCHANGED <<live, run>>
       ELSE /\ live' = FALSE /\ run' = 0
            /\ lost' = [lost EXCEPT !.texts = @ \cup mid.told]
            /\ UNCHANGED <<ckpt, asked, answered>>
    /\ mid' = Nothing
    /\ UNCHANGED <<sent, pending, crashes, world, published, given>>

-----------------------------------------------------------------------------
\* What the hybrid router may return: classify_intent, or the model's answer
\* where that is not decisive.  Only a thread with context can be continued.
Routes(context) ==
    {[intent |-> i, relation |-> r] : i \in Intents, r \in IF context THEN Relations ELSE {"new"}}

\* The requirement and the relation initialize settles on.
Relation(c, relation) == IF c.resumeAfter THEN "new" ELSE relation

\* A bug to be caught: the relation counts even after an answer.
RequirementForgetsAnswer(c, relation) ==
    IF relation \in {"resume", "diagnose"} /\ c.req # Blank THEN c.req ELSE c.latest

Requirement(c, relation) ==
    IF c.resumeAfter THEN c.latest
    ELSE IF relation \in {"resume", "diagnose"} /\ c.req # Blank THEN c.req
    ELSE IF relation = "amend" /\ c.req # Blank
         THEN [c.req EXCEPT !.changes = @ \cup {c.latest.base} \cup c.latest.changes,
                            !.asks = [f \in Respects |->
                                        IF c.latest.asks[f] # 0 THEN c.latest.asks[f] ELSE @[f]]]
    ELSE c.latest

\* design_decisions: the first gaps that are neither stated nor settled.  A
\* DECISION line states its slot.
Gap(req, settled) ==
    {i \in 1 .. Len(Gaps) :
        /\ req.asks[Gaps[i]] = 0 /\ req.decided[Gaps[i]] = 0
        /\ Gaps[i] \notin settled}

Offered(req, settled) ==
    LET g == Gap(req, settled)
    IN {Gaps[i] : i \in {i \in g : Cardinality({j \in g : j < i}) < Limit}}

\* What survives of the last results: everything for a diagnosis and for a
\* build resumed on its own requirement, nothing otherwise.
Incremental(c, mode, relation) ==
    mode = "build" /\ relation = "resume" /\ c.req # Blank /\ c.ws # Blank

Preserves(c, mode, relation) == mode = "diagnose" \/ Incremental(c, mode, relation)

Keep(c, kept) ==
    IF kept THEN c
    ELSE [c EXCEPT !.arch = NoEvidence, !.parts = NoEvidence, !.hw = NoHardware,
                   !.dispatch = NoDispatch, !.review = NoReview]

\* The workspace key hashes the requirement (and the thread, and the name).
Workspace(c, mode, relation, req) == IF Incremental(c, mode, relation) THEN c.ws ELSE req

AfterInitialize(c) ==
    IF c.open # {} THEN "intake"
    ELSE IF /\ c.mode = "build" /\ c.incr
            /\ c.arch \in {"ok", "partial"}
            /\ c.parts \in {"ok", "partial", "unavailable"} THEN "dispatch"
    ELSE CASE c.mode \in {"build", "research"} -> "architect"
           [] c.mode = "parts" -> "parts"
           [] c.mode = "review" -> "reviewer"
           [] OTHER -> "intake"

\* The thread turns to another project: what it was told of the last one does
\* not concern it any more.
Anew(c, relation) == relation = "new" /\ ~c.resumeAfter

\* initialize.  A build whose capability profile is refused becomes a
\* clarification that no text answer can lift; a clarification asks for the
\* kind of task, or freely when the model gave no question to choose from.
Initialized(c, route, refused, free) ==
    LET relation == Relation(c, route.relation)
        req == Requirement(c, route.relation)
        perr == refused /\ route.intent = "build"
        mode == IF perr THEN "clarify" ELSE route.intent
        settled == IF c.resumeAfter \/ relation # "new" THEN c.settled ELSE {}
        open == CASE perr -> {}
                  [] mode = "clarify" -> IF free THEN {} ELSE {"task_kind"}
                  [] mode = "build" -> Offered(req, settled)
                  [] OTHER -> {}
        new == [Keep(c, Preserves(c, mode, relation)) EXCEPT
                  !.mode = mode, !.req = req, !.perr = perr, !.settled = settled, !.open = open,
                  !.incr = Incremental(c, mode, relation),
                  !.ws = Workspace(c, mode, relation, req),
                  !.attempts = IF relation = "new" THEN 0 ELSE @,
                  !.resumeAfter = FALSE]
    IN [new EXCEPT !.node = AfterInitialize(new)]

Supervisor ==
    /\ At("supervisor")
    /\ \E route \in Routes(ckpt.req # Blank), refused \in BOOLEAN, free \in BOOLEAN :
         /\ free => route.intent = "clarify"
         /\ refused => route.intent = "build"
         /\ \/ /\ Commits(Initialized(ckpt, route, refused, free),
                         IF Anew(ckpt, route.relation) THEN NoAnswers ELSE lost)
               /\ given' = IF Anew(ckpt, route.relation) THEN NoAnswers ELSE given
            \/ Dies /\ UNCHANGED given
    /\ UNCHANGED <<asked, sent, pending, answered, world, published>>

\* intake_phase up to its interrupt, or to the answer that ends the turn.  The
\* process may die before the registry has paused the run.
Puts(c) == c.open # {} \/ (c.mode = "clarify" /\ ~c.perr)

AfterIntake(c) == "end"

IntakeAsks ==
    /\ At("intake") /\ ~asked /\ Puts(ckpt)
    /\ ckpt' = [ckpt EXCEPT !.open = IF @ = {} THEN {"free"} ELSE @]
    /\ asked' = TRUE /\ live' = FALSE
    /\ \/ pending' = pending \cup {Interaction(ckpt')} /\ run' = 0 /\ UNCHANGED crashes
       \/ /\ crashes < MaxCrashes /\ crashes' = crashes + 1
          /\ UNCHANGED <<pending, run>>
    /\ UNCHANGED <<sent, mid, world, published, answered, given, lost>>

IntakeReplies ==
    /\ At("intake") /\ ~asked /\ ~Puts(ckpt)
    /\ Commit([ckpt EXCEPT !.node = AfterIntake(ckpt), !.resumeAfter = FALSE])
    /\ UNCHANGED <<talk, world, published>>

-----------------------------------------------------------------------------
\* The evidence the architect gathers; each field is the outcome of a bounded
\* retry of one tool.  Explicit bindings must all validate; otherwise the
\* symbol is looked up, then by its qualified base name, then generated from
\* the datasheet and looked up once more.
Evidence == [explicit : BOOLEAN, bindings : BOOLEAN, lookup : BOOLEAN, base : BOOLEAN,
             generated : BOOLEAN, knowledge : BOOLEAN, web : BOOLEAN, datasheet : BOOLEAN]

ASSUME Research \subseteq Evidence

Grounded(e) == IF e.explicit THEN e.bindings ELSE e.lookup \/ e.base \/ e.generated

\* Governed knowledge, when sufficient, stands in for the web search.
Sourced(e) == e.knowledge \/ e.web

ArchitectStatus(e) ==
    IF ~Grounded(e) THEN "blocked"
    ELSE IF e.explicit \/ (Sourced(e) /\ e.datasheet) THEN "ok" ELSE "partial"

AfterArchitect(c, specialists) ==
    IF c.mode = "build" /\ c.arch \in {"ok", "partial"}
    THEN IF specialists THEN "specialists" ELSE "parts"
    ELSE "report"

Architect ==
    /\ At("architect")
    /\ \E status \in {ArchitectStatus(e) : e \in Research}, specialists \in BOOLEAN :
         LET new == [ckpt EXCEPT !.arch = status]
         IN Commit([new EXCEPT !.node = AfterArchitect(new, specialists)])
    /\ UNCHANGED <<talk, world, published>>

\* The panel is advisory: whatever its members return, parts come next.
Specialists ==
    /\ At("specialists")
    /\ Commit([ckpt EXCEPT !.node = "parts"])
    /\ UNCHANGED <<talk, world, published>>

\* One query of the parts specialist: the catalog, governed knowledge, and the
\* manufacturer's pages where neither had anything.
Query == [catalog : {"hits", "none", "unavailable"}, knowledge : BOOLEAN, pages : BOOLEAN]

ASSUME Catalog \subseteq SUBSET Query

PartsStatus(results) ==
    IF \E q \in results : q.catalog = "hits" THEN "ok"
    ELSE IF \E q \in results : q.knowledge \/ q.pages THEN "partial"
    ELSE IF \E q \in results : q.catalog = "unavailable" THEN "unavailable"
    ELSE "partial"

AfterParts(c) == IF c.mode = "build" THEN "dispatch" ELSE "report"

Parts ==
    /\ At("parts")
    /\ \E status \in {PartsStatus(results) : results \in Catalog} :
         Commit([ckpt EXCEPT !.parts = status,
                             !.node = AfterParts(ckpt)])
    /\ UNCHANGED <<talk, world, published>>

-----------------------------------------------------------------------------
\* hardware_dispatch_phase: attach to the workflow this request has already
\* started, or start one.  A refused start is an error the wait reports.
Attachable(c) ==
    /\ c.dispatch.rid = c.rid /\ c.dispatch.ws = c.ws
    /\ c.dispatch.status \in {"started", "attached", "wait_error"}

Dispatch ==
    /\ At("dispatch")
    /\ \E status \in {"started", "dispatch_error"} :
         LET ref == IF Attachable(ckpt) THEN ckpt.dispatch
                    ELSE [status |-> status, rid |-> ckpt.rid, ws |-> ckpt.ws]
         IN /\ Attachable(ckpt) => status = "started"
            /\ Commit([ckpt EXCEPT !.sub = ref, !.node = "wait"])
            /\ IF ref.status = "started" /\ ckpt.rid \notin DOMAIN wf
               THEN wf' = [i \in DOMAIN wf \cup {ckpt.rid} |->
                             IF i \in DOMAIN wf THEN wf[i]
                             ELSE [ws |-> ckpt.ws, req |-> ckpt.req, running |-> TRUE,
                                   payload |-> NoPayload]]
               ELSE UNCHANGED wf
    /\ UNCHANGED <<talk, disk, boards, published>>

Present(ws) == IF ws \in DOMAIN disk THEN disk[ws].files ELSE {}

\* _hardware_result_update: the validated result replaces the hardware, and
\* clears the review of the one before.
Updated(c, payload, status) ==
    LET v == Validated(payload, Present(c.ws))
    IN [c EXCEPT !.hw = [ready |-> v.ready, candidate |-> v.candidate, artifacts |-> v.artifacts,
                         outcome |-> v.outcome, identity |-> v.identity,
                         attempt |-> c.attempts + 1],
                 !.attempts = @ + 1,
                 !.review = NoReview,
                 !.dispatch = [c.sub EXCEPT !.status = status],
                 !.sub = NoDispatch,
                 !.node = IF v.candidate THEN "reviewer" ELSE "report"]

\* hardware_wait_phase: the workflow's result, or an error while it goes on.
Wait ==
    /\ At("wait")
    /\ \/ /\ ckpt.sub.status # "dispatch_error" /\ ~wf[ckpt.rid].running
          /\ Commit(Updated(ckpt, wf[ckpt.rid].payload, "completed"))
       \/ Commit(Updated(ckpt, NoPayload,
                         IF ckpt.sub.status = "dispatch_error" THEN "dispatch_error"
                         ELSE "wait_error"))
    /\ UNCHANGED <<talk, world, published>>

-----------------------------------------------------------------------------
\* reviewer_phase.  One call of the review tool reads the receipt against the
\* board, then runs kicad-cli on the files as they are by then.  The advisory
\* call may replace the offline one only when it completes; without a report
\* the review is blocked.
Stand(status, id, alone) ==
    [status |-> status, id |-> id, attempt |-> ckpt.hw.attempt, alone |-> alone]

Idle(ws) == \A r \in DOMAIN wf : wf[r].ws = ws => ~wf[r].running

ReviewReads ==
    /\ At("reviewer") /\ mid.at \in {"nothing", "verdict"}
    /\ ckpt.mode = "build" /\ ckpt.ws \in DOMAIN disk
    /\ LET d == disk[ckpt.ws]
       IN mid' = [at |-> "receipt",
                  first |-> IF mid.at = "verdict" THEN mid.review ELSE NoReview,
                  id |-> [d.manifest.id EXCEPT !.pcb = d.pcb],
                  blocked |-> ReceiptBlocked(d, ckpt.hw),
                  alone |-> Idle(ckpt.ws)]
    /\ UNCHANGED <<ckpt, live, run, crashes, talk, world, published, lost>>

ReviewChecks ==
    /\ At("reviewer") /\ mid.at = "receipt"
    /\ \E cli \in {"ran", "absent"}, gates \in BOOLEAN, done \in BOOLEAN :
         LET blocked == mid.blocked \/ IndependentBlocked(disk[ckpt.ws], cli, gates)
             verdict == Stand(IF blocked \/ ~done THEN "blocked" ELSE "ok", mid.id, mid.alone)
             review == IF mid.first # NoReview /\ ~done THEN mid.first ELSE verdict
         IN \/ Commit([ckpt EXCEPT !.node = "report", !.review = review])
            \/ /\ mid.first = NoReview /\ done
               /\ mid' = [at |-> "verdict", review |-> verdict]
               /\ UNCHANGED <<ckpt, live, run, crashes, lost>>
    /\ UNCHANGED <<talk, world, published>>

\* A review of somebody's own project carries no attestation.
Reviewer ==
    /\ At("reviewer") /\ ~(ckpt.mode = "build" /\ ckpt.ws \in DOMAIN disk)
    /\ \E status \in {"ok", "blocked", "error"} :
         Commit([ckpt EXCEPT !.node = "report", !.review = Stand(status, NoIdentity, FALSE)])
    /\ UNCHANGED <<talk, world, published>>

\* final_report.  A build publishes its artifacts: each file is hashed and
\* then copied, as it is on disk at the time, and the manifest carries the
\* status of the verdict.  After a crash it does so again.
Publishes == ckpt.mode = "build" /\ ckpt.hw.artifacts

ReportHashes ==
    /\ At("report") /\ mid = Nothing /\ Publishes
    /\ mid' = [at |-> "digest", pcb |-> disk[ckpt.ws].pcb]
    /\ UNCHANGED <<ckpt, live, run, crashes, talk, world, published, lost>>

Release(digest, bytes) ==
    [req |-> ckpt.req, reviewed |-> ckpt.review.id, alone |-> ckpt.review.alone,
     digest |-> digest, bytes |-> bytes]

ReportCopies ==
    /\ At("report") /\ mid.at = "digest"
    /\ \E stored \in BOOLEAN :
         LET overall == Overall(ckpt.hw, ckpt.review.status, ckpt.parts, ckpt.arch)
         IN published' = IF Published(overall, TRUE, stored) = "release_ready"
                         THEN published \cup {Release(mid.pcb, disk[ckpt.ws].pcb)}
                         ELSE published
    /\ Commit([ckpt EXCEPT !.node = "end"])
    /\ UNCHANGED <<talk, world>>

Report ==
    /\ At("report") /\ ~Publishes
    /\ Commit([ckpt EXCEPT !.node = "end"])
    /\ UNCHANGED <<talk, world, published>>

Crash ==
    /\ live /\ Dies
    /\ UNCHANGED <<talk, world, published>>

-----------------------------------------------------------------------------
\* A running workflow writes its directory: a board (routed or rewritten by a
\* repair, with whatever receipt lies there), then the manufacturing receipt
\* and the report, which is what the workflow returns when it completes.
NoFiles == [req |-> Blank, pcb |-> 0, board |-> NoContract, files |-> {}, routed |-> FALSE,
            unconnected |-> 0, complete |-> FALSE, issues |-> FALSE, errors |-> 0,
            warnings |-> {}, manifest |-> NoManifest, payload |-> NoPayload]

OnDisk(ws) == IF ws \in DOMAIN disk THEN disk[ws] ELSE NoFiles

Write(ws, d) == disk' = [k \in DOMAIN disk \cup {ws} |-> IF k = ws THEN d ELSE disk[k]]

WorkflowWrites(r, board, errors) ==
    /\ r \in DOMAIN wf /\ wf[r].running
    /\ Len(boards) < MaxBoards
    /\ boards' = Append(boards, board)
    /\ Write(wf[r].ws,
             [OnDisk(wf[r].ws) EXCEPT !.req = wf[r].req, !.pcb = Len(boards) + 1, !.board = board,
                !.files = {"sch", "pcb", "dsn", "ses"}, !.routed = TRUE, !.complete = FALSE,
                !.errors = errors])
    /\ UNCHANGED <<execution, talk, wf, published>>

WorkflowManufactures(r, cli) ==
    /\ r \in DOMAIN wf /\ wf[r].running
    /\ wf[r].ws \in DOMAIN disk /\ ~disk[wf[r].ws].complete
    /\ LET d == disk[wf[r].ws]
           m == Manifest(d.req, d.pcb, d.board)
           whole == [d EXCEPT !.complete = TRUE, !.manifest = m, !.issues = m.findings # {}]
       IN Write(wf[r].ws, [whole EXCEPT !.payload = Payload(whole, cli, m.id)])
    /\ UNCHANGED <<execution, talk, wf, boards, published>>

\* The last activity returns the report of the directory; a failed workflow
\* returns an error.
WorkflowEnds(r, failed) ==
    /\ r \in DOMAIN wf /\ wf[r].running
    /\ failed \/ OnDisk(wf[r].ws).payload.ok
    /\ wf' = [wf EXCEPT ![r].running = FALSE,
                        ![r].payload = IF failed THEN NoPayload ELSE OnDisk(wf[r].ws).payload]
    /\ UNCHANGED <<execution, talk, disk, boards, published>>

Node == \/ Supervisor \/ IntakeTakes \/ IntakeAsks \/ IntakeReplies \/ Architect \/ Specialists \/ Parts
        \/ Dispatch \/ Wait \/ ReviewReads \/ ReviewChecks \/ Reviewer
        \/ ReportHashes \/ ReportCopies \/ Report

Next ==
    \/ \E asks \in Asks : Send(asks)
    \/ Retry
    \/ \E i \in pending : Answer(i)
    \/ Node
    \/ Crash
    \/ \E r \in 1 .. MaxRequests :
         \/ \E board \in Boards, errors \in Errors : WorkflowWrites(r, board, errors)
         \/ \E cli \in {"ran", "absent"} : WorkflowManufactures(r, cli)
         \/ \E failed \in BOOLEAN : WorkflowEnds(r, failed)

Spec == Init /\ [][Next]_vars

-----------------------------------------------------------------------------
Text == [base : 0 .. MaxRequests, changes : SUBSET (-MaxAnswers .. MaxRequests),
         asks : [Respects -> Nat], decided : [Respects -> 0 .. 1]]

TypeOK ==
    /\ ckpt.node \in {"supervisor", "intake", "architect", "specialists", "parts", "dispatch",
                      "wait", "reviewer", "report", "end"}
    /\ ckpt.rid \in 0 .. sent /\ ckpt.mode \in Intents \cup {"clarify", "none"}
    /\ ckpt.req \in Text /\ ckpt.latest \in Text /\ ckpt.ws \in Text
    /\ ckpt.open \subseteq Respects \cup {"task_kind", "free"}
    /\ live \in BOOLEAN /\ asked \in BOOLEAN /\ (asked => ckpt.open # {} /\ (live <=> mid.at = "reply"))
    /\ DOMAIN wf \subseteq 1 .. sent

\* A review that passed is about the board the hardware attested, and about
\* the result now in the checkpoint.
ReviewOfThisHardware ==
    (ckpt.mode = "build" /\ ckpt.review.status = "ok") =>
        /\ ckpt.review.id = ckpt.hw.identity
        /\ ckpt.review.attempt = ckpt.hw.attempt

\* What the review passed is of the requirement the thread has when
\* final_report publishes the release: that board was made for it, and meets
\* every constraint of it, the answered questions included.  The bytes that
\* go out under their own digest are those of that board, if no workflow of
\* the directory was still running when the review read the receipt.
ReleaseIsWhole ==
    \A p \in published :
        /\ p.reviewed.req = p.req
        /\ \A f \in Respects :
             LET wanted == IF p.req.asks[f] # 0 THEN p.req.asks[f] ELSE p.req.decided[f]
             IN wanted # 0 => Meets(f, boards[p.reviewed.pcb][f], wanted)
        /\ p.alone => p.digest = p.reviewed.pcb /\ p.bytes = p.reviewed.pcb

\* An interaction that was settled is never put again.
FreshInteraction == asked => \A a \in answered : a.question # Interaction(ckpt)

\* A question with options is settled by the answer that was given to it.
OwnAnswer == \A a \in answered : Free(a.question.open) \/ a.to = a.question

\* The answers g are part of the requirement r.
Carries(r, g) == g.texts \subseteq r.changes /\ \A f \in g.slots : r.decided[f] # 0

Without(g, gone) == [texts |-> g.texts \ gone.texts, slots |-> g.slots \ gone.slots]

\* What the user answered to the questions of this project is part of the
\* requirement the hardware is dispatched with, in whatever request that
\* happens, except for a text whose execution died or was refused before the
\* intake took it, and for what a free question or an abandoned turn dropped.
AnswersReachHardware == ckpt.node = "wait" => Carries(ckpt.req, Without(given, lost))

\* The questions of a thread and the user's answers to them match.
Conversation == TypeOK /\ FreshInteraction /\ OwnAnswer /\ AnswersReachHardware

-----------------------------------------------------------------------------
\* What one might expect and the code does not keep: every text the registry
\* accepted is in the requirement the hardware is built from, and ...
EveryAnswerReachesHardware == ckpt.node = "wait" => Carries(ckpt.req, given)

\* ... a free question, too, is settled by an answer that was given to it, ...
AnswerOfItsOwn == \A a \in answered : a.to \in {a.question, NoInteraction}

\* ... and what is released is the board that was reviewed.
ReleasedAsReviewed == \A p \in published : p.bytes = p.reviewed.pcb

=============================================================================
