----------------------------- MODULE ReleaseGate -----------------------------
(***************************************************************************)
(* The evidence that turns a generated board into a release: the physical  *)
(* constraints compiled from the requirement, the audit of the final board *)
(* against them, the receipt Manufacture writes, the kicad-cli checks, the *)
(* payload of the pipeline, its validation by the agent and the verdict of *)
(* the independent review.  Everything here is an operator over records;   *)
(* AgentGraph supplies the files and the order in which they are read.     *)
(*                                                                         *)
(* A requirement is [base, changes, asks, decided]: the request it began   *)
(* with, the requests appended to it, the constraints its text states, and *)
(* those its DECISION lines add.  The whole record is its digest.  A board *)
(* is the value it has in each constrained respect; 0 stands for absent.   *)
(***************************************************************************)
EXTENDS Integers, FiniteSets

Respects == {"layers", "outline", "ground", "holes", "track", "decoupling"}

\* The respects a DECISION line may fill; the others are taken from the
\* user's own text only.
Decidable == {"layers", "outline", "holes"}

NoContract == [f \in Respects |-> 0]

\* The requirement of a thread that has none.
Blank == [base |-> 0, changes |-> {}, asks |-> NoContract, decided |-> NoContract]

\* extract_requirement_invariants: the user's text first, a DECISION line
\* only for what the text leaves open.
Extract(r) ==
    [f \in Respects |->
        IF r.asks[f] # 0 \/ f \notin Decidable THEN r.asks[f] ELSE r.decided[f]]

\* How a board meets a constrained respect: exactly, at most, or at least.
Meets(f, has, wanted) ==
    \/ f \in {"layers", "holes"} /\ has = wanted
    \/ f \in {"outline", "decoupling"} /\ has \in 1 .. wanted
    \/ f \in {"ground", "track"} /\ has >= wanted

\* A bug to be caught: the hole constraint is never audited.
AuditSkipsHoles(inv, board) == {f \in Respects \ {"holes"} : inv[f] # 0 /\ ~Meets(f, board[f], inv[f])}

\* audit_pcb_invariants: one finding per constraint the board misses.
Audit(inv, board) == {f \in Respects : inv[f] # 0 /\ ~Meets(f, board[f], inv[f])}

-----------------------------------------------------------------------------
NoIdentity == [req |-> Blank, pcb |-> 0]

NoManifest == [ok |-> FALSE, id |-> NoIdentity, findings |-> {}]

\* build_release_invariant_manifest: the receipt of one audit.
Manifest(r, pcb, board) ==
    [ok |-> TRUE, id |-> [req |-> r, pcb |-> pcb], findings |-> Audit(Extract(r), board)]

\* A bug to be caught: the receipt is not bound to the bytes of the board.
ValidUnhashed(m, r, pcb, board) == m.ok /\ m.id.req = r

\* validate_release_invariant_manifest: the receipt is read against the bytes
\* and the requirement now on disk, and the audit is repeated.
Valid(m, r, pcb, board) ==
    m.ok /\ m.id = [req |-> r, pcb |-> pcb] /\ m.findings = Audit(Extract(r), board)

\* _release_invariant_manifest, as the review reads it.
ManifestStatus(m, r, pcb, board) ==
    IF ~m.ok THEN "missing"
    ELSE IF ~Valid(m, r, pcb, board) THEN "invalid"
    ELSE IF m.findings = {} THEN "passed" ELSE "blocked"

-----------------------------------------------------------------------------
\* One kicad-cli check of a file: skipped when there is none, otherwise
\* unavailable, failed to run, or run with its findings.
Checked(present, cli, errors, unconnected, warnings) ==
    [applicable |-> present,
     available |-> present /\ cli # "absent",
     ran |-> present /\ cli = "ran",
     errors |-> errors, unconnected |-> unconnected, warnings |-> warnings]

\* apply_warning_contract and _classify_eda_warnings: a warning blocks unless
\* a rule proves it equivalent or a waiver bound to this report covers it.
OpenWarnings(check) == {w \in check.warnings : w \notin {"auto_equivalent", "waived"}}

VerificationBlocked(erc, drc) ==
    \/ \E c \in {erc, drc} :
         c.applicable /\ (~c.available \/ ~c.ran \/ c.errors # 0 \/ OpenWarnings(c) # {})
    \/ drc.applicable /\ (~drc.ran \/ drc.unconnected # 0)

Erc(d, cli) == Checked("sch" \in d.files, cli, d.errors, 0, d.warnings)
Drc(d, cli) == Checked("pcb" \in d.files, cli, d.errors, d.unconnected, d.warnings)

\* The files and counts a whole run leaves: all of them are demanded twice,
\* by the pipeline and by the agent.
Whole(d) ==
    /\ {"sch", "pcb", "dsn", "ses"} \subseteq d.files
    /\ d.routed /\ d.unconnected = 0 /\ d.complete

\* The payload of _run_pcb_pipeline_unlocked.
Payload(d, cli, id) ==
    LET ready == ~VerificationBlocked(Erc(d, cli), Drc(d, cli)) /\ ~d.issues /\ Whole(d)
    IN [ok |-> TRUE, complete |-> d.complete,
        ready |-> ready, erc |-> Erc(d, cli), drc |-> Drc(d, cli),
        routed |-> d.routed, unconnected |-> d.unconnected,
        files |-> d.files, identity |-> id]

NoPayload ==
    [ok |-> FALSE, complete |-> FALSE, ready |-> FALSE,
     erc |-> Checked(FALSE, "absent", 0, 0, {}), drc |-> Checked(FALSE, "absent", 0, 0, {}),
     routed |-> FALSE, unconnected |-> 0, files |-> {}, identity |-> NoIdentity]

\* _validate_hardware_result: the attested files must be there now.
Validated(p, present) ==
    LET actual == p.files \cap present
        all == {"sch", "pcb", "dsn", "ses"} \subseteq actual
        ready == /\ p.ok /\ p.ready /\ all /\ p.routed /\ p.unconnected = 0 /\ p.complete
                 /\ \A c \in {p.erc, p.drc} : c.applicable /\ c.available /\ c.ran /\ c.errors = 0
                 /\ p.drc.unconnected = 0
    IN [candidate |-> {"sch", "pcb"} \subseteq actual,
        ready |-> ready,
        artifacts |-> actual # {},
        outcome |-> IF ready THEN "release_ready"
                    ELSE IF p.complete /\ {"sch", "pcb"} \cap actual # {}
                         THEN "delivered_with_issues" ELSE "execution_blocked",
        identity |-> p.identity]

-----------------------------------------------------------------------------
\* ratsnest_review_kicad_project on the files of a directory.  A build passes
\* the hardware's attestation along, and then the receipt must be that one.
IndependentBlocked(d, cli, gates) == gates \/ VerificationBlocked(Erc(d, cli), Drc(d, cli))

\* A bug to be caught: any receipt that passes is good enough.
ReceiptBlockedAny(d, hw) ==
    \/ ~hw.ready
    \/ ManifestStatus(d.manifest, d.req, d.pcb, d.board) # "passed"

ReceiptBlocked(d, hw) ==
    \/ ~hw.ready
    \/ hw.identity = NoIdentity
    \/ d.manifest.id # hw.identity
    \/ ManifestStatus(d.manifest, d.req, d.pcb, d.board) # "passed"

\* final_report and publish_artifact_manifest.
Overall(hw, review, parts, arch) ==
    IF /\ hw.ready /\ review = "ok" /\ arch = "ok"
       /\ parts \in {"ok", "partial", "unavailable"}
    THEN "release_ready"
    ELSE IF hw.artifacts /\ hw.outcome # "execution_blocked"
         THEN "delivered_with_issues" ELSE "execution_blocked"

Published(status, artifacts, stored) ==
    IF artifacts /\ stored THEN status ELSE "execution_blocked"
=============================================================================
