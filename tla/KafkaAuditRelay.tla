--------------------------- MODULE KafkaAuditRelay ---------------------------
(***************************************************************************)
(* The audit relay, src/src/service/kafka_relay.py: worker processes that  *)
(* share one Redis consumer group, move entries of the audit outbox to a   *)
(* Kafka topic, and acknowledge and delete an entry after Kafka has it.    *)
(*                                                                         *)
(* Redis and Kafka are external; XREADGROUP, XAUTOCLAIM, XACK/XDEL and     *)
(* send_and_wait are modelled by what the relay relies on.  Each is one    *)
(* step, and every await between them an interleaving point.               *)
(***************************************************************************)
EXTENDS Integers, Sequences, FiniteSets

CONSTANTS
  Runs,        \* request ids the audit entries are about
  Relays,      \* relay processes; each is a consumer of its own
  BatchSize,   \* batch_size
  MaxEntries,  \* bound: entries written to the outbox
  MaxFailures, \* bound: failed calls to Redis or Kafka
  Slow,        \* whether an entry may go idle while its relay works on it
  None         \* not pending

ASSUME RelayAssumption ==
  /\ BatchSize \in Nat \ {0}
  /\ MaxEntries \in Nat
  /\ MaxFailures \in Nat
  /\ Slow \in BOOLEAN
  /\ None \notin Relays

VARIABLES
  log,       \* every entry ever written to the outbox; ids are positions
  stream,    \* ids the Redis stream still holds
  last,      \* the group's last-delivered id
  pending,   \* the group's pending entries: id -> consumer, or None
  idle,      \* pending ids idle for at least claim_idle_ms
  topic,     \* ids in the order Kafka has them
  relay,     \* state of each relay process
  failures   \* failed calls so far

redis == <<log, stream, last, pending, idle>>
vars  == <<log, stream, last, pending, idle, topic, relay, failures>>

Ids == 1..MaxEntries
EntryType == [ run : Runs, wellFormed : BOOLEAN ]

\* batch: entries of the XAUTOCLAIM or XREADGROUP reply not yet handled;
\* fresh: whether it is the XREADGROUP one; published: processed so far in this
\* run_once; cursor: _claim_cursor; closing: _shutdown is set.
RelayType ==
  [ pc : {"round", "read", "publish", "ack", "down"}, batch : SUBSET Ids,
    fresh : BOOLEAN, published : Nat, cursor : 0..MaxEntries + 1,
    closing : BOOLEAN ]

\* A relay between two rounds, or gone.
Resting(pc, cursor, closing) ==
  [ pc |-> pc, batch |-> {}, fresh |-> FALSE, published |-> 0,
    cursor |-> cursor, closing |-> closing ]
Down == Resting("down", 0, FALSE)

TypeOK ==
  /\ log \in Seq(EntryType) /\ Len(log) <= MaxEntries
  /\ stream \subseteq 1..Len(log)
  /\ last \in 0..Len(log)
  /\ pending \in [Ids -> Relays \union {None}]
  /\ idle \subseteq 1..Len(log)
  /\ topic \in Seq(Ids)
  /\ relay \in [Relays -> RelayType]
  /\ failures \in 0..MaxFailures

Init ==
  /\ log = <<>> /\ stream = {} /\ last = 0
  /\ pending = [e \in Ids |-> None] /\ idle = {}
  /\ topic = <<>>
  /\ relay = [k \in Relays |-> Resting("round", 0, FALSE)]
  /\ failures = 0

-----------------------------------------------------------------------------
\* A reply lists the first n ids in stream order, and the batch is worked off in
\* that order.
FirstIds(ids, n) == {e \in ids : Cardinality({d \in ids : d <= e}) <= n}
Least(e, ids)    == e \in ids /\ \A d \in ids : e <= d
Greatest(e, ids) == e \in ids /\ \A d \in ids : d <= e

Now(k, s) == relay' = [relay EXCEPT ![k] = s]

\* An exception leaves run_once; run() waits and starts the next round.  The
\* rest of the batch stays pending under this consumer.
Raised(s) == Resting("round", s.cursor, s.closing)

\* A call to Redis or Kafka that took effect answers, or its answer is lost and
\* the call raises.
Answer(k, reply, s) ==
  /\ reply \/ failures < MaxFailures
  /\ failures' = IF reply THEN failures ELSE failures + 1
  /\ Now(k, IF reply THEN s ELSE Raised(relay[k]))

-----------------------------------------------------------------------------
\* A lifecycle script of the run registry writes one entry.
WriteOutbox(r, ok) ==
  /\ Len(log) < MaxEntries
  /\ log' = Append(log, [run |-> r, wellFormed |-> ok])
  /\ stream' = stream \union {Len(log) + 1}
  /\ UNCHANGED <<last, pending, idle, topic, relay, failures>>

\* XAUTOCLAIM from the cursor, for any consumer's idle entries, and XREADGROUP
\* with ">" for entries no consumer of the group was given.
Reclaimable(k) == {e \in idle : pending[e] # None /\ e >= relay[k].cursor}
Undelivered    == {e \in stream : e > last}

GiveTo(k, batch) ==
  pending' = [e \in Ids |-> IF e \in batch THEN k ELSE pending[e]]

NextCursorFirst(m, batch) == 0                               \* seeded fault

\* The cursor XAUTOCLAIM returns: past the last id claimed, or 0 at the end.
NextCursor(m, batch) ==
  IF Cardinality(batch) = BatchSize /\ \E e \in Ids : e > m /\ pending[e] # None
  THEN m + 1 ELSE 0

ReclaimPending(k, reply) ==
  LET batch == FirstIds(Reclaimable(k), BatchSize) IN
  /\ relay[k].pc = "round" /\ ~relay[k].closing
  /\ GiveTo(k, batch)
  /\ idle' = idle \ batch
  /\ \E m \in 0..MaxEntries :
       /\ Greatest(m, batch \union {0})
       /\ Answer(k, reply, [relay[k] EXCEPT !.pc = "publish", !.batch = batch,
                              !.fresh = FALSE, !.cursor = NextCursor(m, batch)])
  /\ UNCHANGED <<log, stream, last, topic>>

\* Before _next_claim_at a round only reads.
SkipReclaim(k) ==
  /\ relay[k].pc = "round" /\ ~relay[k].closing
  /\ Now(k, [relay[k] EXCEPT !.pc = "read"])
  /\ UNCHANGED <<redis, topic, failures>>

ReadGroup(k, reply) ==
  LET batch == FirstIds(Undelivered, BatchSize - relay[k].published) IN
  /\ relay[k].pc = "read"
  /\ last' \in 0..MaxEntries /\ Greatest(last', batch \union {last})
  /\ GiveTo(k, batch)
  /\ Answer(k, reply, [relay[k] EXCEPT !.pc = "publish", !.batch = batch, !.fresh = TRUE])
  /\ UNCHANGED <<log, stream, idle, topic>>

\* _publish_entries: the end of the batch, or a shutdown between two entries.
BatchEnds(k) ==
  LET s == relay[k] IN
  /\ s.pc = "publish"
  /\ s.batch = {} \/ s.closing
  /\ Now(k, IF s.fresh \/ s.closing \/ s.published >= BatchSize
            THEN Raised(s) ELSE [s EXCEPT !.pc = "read", !.batch = {}])
  /\ UNCHANGED <<redis, topic, failures>>

\* A malformed entry is neither published nor acknowledged.
SkipMalformed(k) ==
  LET s == relay[k] IN
  /\ s.pc = "publish" /\ ~s.closing
  /\ \E e \in s.batch :
       /\ Least(e, s.batch) /\ ~log[e].wellFormed
       /\ Now(k, [s EXCEPT !.batch = @ \ {e}])
  /\ UNCHANGED <<redis, topic, failures>>

SendUnawaited(e) == topic' \in {topic, Append(topic, e)}     \* seeded fault
NotDeleted(e)    == stream                                   \* seeded fault

\* send_and_wait, and the stream after the XDEL of an entry that was pending.
Send(e)    == topic' = Append(topic, e)
Deleted(e) == IF pending[e] # None THEN stream \ {e} ELSE stream

Publish(k, reply) ==
  LET s == relay[k] IN
  /\ s.pc = "publish" /\ ~s.closing
  /\ \E e \in s.batch :
       /\ Least(e, s.batch) /\ log[e].wellFormed
       /\ Send(e)
  /\ Answer(k, reply, [s EXCEPT !.pc = "ack"])
  /\ UNCHANGED redis

\* The XACK and XDEL script: it answers 1 if the entry was pending, for whichever
\* consumer, and any other answer raises.
Acknowledge(k, reply) ==
  LET s == relay[k] IN
  /\ s.pc = "ack"
  /\ \E e \in s.batch :
       /\ Least(e, s.batch)
       /\ pending' = [pending EXCEPT ![e] = None]
       /\ idle' = idle \ {e}
       /\ stream' = Deleted(e)
       /\ Answer(k, reply, IF pending[e] # None
                           THEN [s EXCEPT !.pc = "publish", !.batch = @ \ {e},
                                          !.published = @ + 1]
                           ELSE Raised(s))
  /\ UNCHANGED <<log, last, topic>>

\* A call that fails without having taken effect.
CallFails(k) ==
  LET s == relay[k] IN
  /\ failures < MaxFailures
  /\ failures' = failures + 1
  /\ \/ s.pc = "round" /\ ~s.closing
     \/ s.pc \in {"read", "ack"}
     \/ s.pc = "publish" /\ ~s.closing
        /\ \E e \in s.batch : Least(e, s.batch) /\ log[e].wellFormed
  /\ Now(k, Raised(s))
  /\ UNCHANGED <<redis, topic>>

-----------------------------------------------------------------------------
RequestShutdown(k) ==
  /\ relay[k].pc # "down" /\ ~relay[k].closing
  /\ Now(k, [relay[k] EXCEPT !.closing = TRUE])
  /\ UNCHANGED <<redis, topic, failures>>

\* run() returns at a round's end once shutdown is requested; a crash may come
\* at any point.
Stop(k) ==
  /\ relay[k].pc = "round" /\ relay[k].closing
  /\ Now(k, Down)
  /\ UNCHANGED <<redis, topic, failures>>

Crash(k) ==
  /\ relay[k].pc # "down"
  /\ Now(k, Down)
  /\ UNCHANGED <<redis, topic, failures>>

\* claim_idle_ms passes for a pending entry; unless Slow, never while a relay
\* still has it in hand.
GoesIdle(e) ==
  /\ pending[e] # None /\ e \notin idle
  /\ Slow \/ \A k \in Relays : e \notin relay[k].batch
  /\ idle' = idle \union {e}
  /\ UNCHANGED <<log, stream, last, pending, topic, relay, failures>>

-----------------------------------------------------------------------------
RunOnce(k, reply) ==
  \/ ReclaimPending(k, reply) \/ ReadGroup(k, reply)
  \/ Publish(k, reply) \/ Acknowledge(k, reply)

Local(k) == SkipReclaim(k) \/ BatchEnds(k) \/ SkipMalformed(k)

Next ==
  \/ \E r \in Runs, ok \in BOOLEAN : WriteOutbox(r, ok)
  \/ \E k \in Relays, reply \in BOOLEAN : RunOnce(k, reply)
  \/ \E k \in Relays : Local(k)
  \/ \E k \in Relays : CallFails(k)
  \/ \E k \in Relays : RequestShutdown(k)
  \/ \E k \in Relays : Stop(k)
  \/ \E k \in Relays : Crash(k)
  \/ \E e \in Ids : GoesIdle(e)

Spec == Init /\ [][Next]_vars

\* run()'s loop goes on, claims come due again and again, and time passes.
Fairness ==
  /\ \A k \in Relays : /\ WF_vars(RunOnce(k, TRUE) \/ Local(k))
                      /\ SF_vars(ReclaimPending(k, TRUE))
  /\ \A e \in Ids : WF_vars(GoesIdle(e))

FairSpec == Spec /\ Fairness

-----------------------------------------------------------------------------
(* Properties                                                               *)

Published == {topic[j] : j \in 1..Len(topic)}

\* Nothing leaves the outbox before Kafka has it, and a malformed entry never
\* does, whatever fails between send_and_wait and the acknowledgement.
NoAuditLoss ==
  \A e \in 1..Len(log) : e \notin stream => log[e].wellFormed /\ e \in Published

\* An entry the group has delivered and the stream still holds is pending, so
\* the next XAUTOCLAIM can reach it: none is stranded by an exception, a lost
\* reply or a crash in the middle of a batch.
NothingStranded ==
  \A e \in Ids : pending[e] # None <=> e \in stream /\ e <= last

\* What a relay has in hand was delivered to the group, and the entry it is about
\* to acknowledge is in Kafka already (makes the two above inductive).
InHand ==
  \A k \in Relays : \A e \in relay[k].batch :
    /\ e <= last
    /\ relay[k].pc = "ack" /\ Least(e, relay[k].batch)
         => log[e].wellFormed /\ e \in Published

\* While some relay stays up, every well-formed entry reaches Kafka and leaves
\* the outbox, malformed ones and other relays' failures notwithstanding.
Drains ==
  \A k \in Relays : \A e \in Ids :
    [](relay[k].pc # "down" /\ ~relay[k].closing)
      => (e \in stream /\ log[e].wellFormed ~> e \notin stream)

\* "one run's lifecycle keeps its order": the first copies of two entries of a
\* run are in Kafka in the order of the outbox.
RunOrderKept ==
  \A d, e \in Published :
    d < e /\ log[d].run = log[e].run =>
      \E j \in 1..Len(topic) : topic[j] = d /\ \A i \in 1..j : topic[i] # e

=============================================================================
