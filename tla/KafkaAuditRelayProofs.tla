------------------------ MODULE KafkaAuditRelayProofs ------------------------
(***************************************************************************)
(* Safety of the audit relay for any number of relays, entries and         *)
(* failures.                                                               *)
(***************************************************************************)
EXTENDS KafkaAuditRelay, FiniteSetTheorems, TLAPS

\* The invariant of the relay: InHand is what makes the two safety properties
\* inductive.
RelayInv == TypeOK /\ NoAuditLoss /\ NothingStranded /\ InHand

\* A reply is a part of what there was to give out, and leaves no gap: what
\* precedes an entry of the reply is in the reply (COUNT of XREADGROUP).
LEMMA FirstIdsClosed ==
  ASSUME NEW ids \in SUBSET Ids, NEW n \in Int
  PROVE  /\ FirstIds(ids, n) \subseteq ids
         /\ \A e \in FirstIds(ids, n) : \A d \in ids : d <= e => d \in FirstIds(ids, n)
<1>1. IsFiniteSet(Ids)
  BY FS_Interval, RelayAssumption DEF Ids
<1>2. SUFFICES ASSUME NEW e \in FirstIds(ids, n), NEW d \in ids, d <= e
               PROVE  Cardinality({c \in ids : c <= d}) <= n
  BY DEF FirstIds
<1> DEFINE upto(x) == {c \in ids : c <= x}
<1>3. ids \subseteq Int /\ d \in Int /\ e \in Int
  BY <1>2, RelayAssumption DEF Ids, FirstIds
<1>4. upto(d) \subseteq upto(e)
  <2> SUFFICES ASSUME NEW c \in ids, c <= d PROVE c <= e
    OBVIOUS
  <2> QED
    BY <1>2, <1>3
<1>5. IsFiniteSet(upto(e))
  BY <1>1, FS_Subset
<1>6. Cardinality(upto(d)) <= Cardinality(upto(e))
  BY <1>4, <1>5, FS_Subset
<1>7. Cardinality(upto(e)) <= n
  BY <1>2 DEF FirstIds
<1>8. Cardinality(upto(e)) \in Nat /\ Cardinality(upto(d)) \in Nat
  BY <1>4, <1>5, FS_Subset, FS_CardinalityType
<1> QED
  BY <1>6, <1>7, <1>8

\* Init: the empty outbox.
LEMMA RelayInit == Init => RelayInv
<1> SUFFICES ASSUME Init PROVE RelayInv
  OBVIOUS
<1>1. TypeOK
  BY RelayAssumption DEF Init, TypeOK, RelayType, Resting, EntryType, Ids
<1>2. NoAuditLoss /\ NothingStranded /\ InHand
  BY RelayAssumption DEF Init, NoAuditLoss, NothingStranded, InHand, Ids, Resting
<1> QED
  BY <1>1, <1>2 DEF RelayInv

\* What Kafka has stays there when the topic only grows.
LEMMA PublishedGrows ==
  ASSUME topic \in Seq(Ids), NEW e \in Ids, topic' = Append(topic, e)
  PROVE  Published' = Published \union {e}
BY DEF Published

\* A step that leaves Redis and Kafka alone and shrinks no relay's obligations:
\* the relay that moves keeps part of its batch and is not about to acknowledge.
LEMMA LocalStep ==
  ASSUME RelayInv, NEW k \in Relays, NEW s \in RelayType,
         Now(k, s), UNCHANGED <<redis, topic>>,
         failures' \in 0..MaxFailures,
         s.pc # "ack" \/ (s.pc = relay[k].pc /\ s.batch = relay[k].batch),
         s.batch \subseteq relay[k].batch
  PROVE  RelayInv'
<1> USE DEF RelayInv, redis
<1>1. TypeOK'
  BY DEF TypeOK, Now
<1>2. NoAuditLoss' /\ NothingStranded'
  BY DEF NoAuditLoss, NothingStranded, Published
<1>3. InHand'
  BY DEF TypeOK, InHand, Now, Published, Least
<1> QED
  BY <1>1, <1>2, <1>3

\* WriteOutbox: a new id is beyond what the group has delivered.
LEMMA WriteStep ==
  ASSUME RelayInv, NEW r \in Runs, NEW ok \in BOOLEAN, WriteOutbox(r, ok)
  PROVE  RelayInv'
<1> USE DEF RelayInv, WriteOutbox
<1> DEFINE n == Len(log) + 1
<1>1. /\ n \in Ids /\ Len(log') = n /\ log' \in Seq(EntryType)
      /\ \A e \in 1..Len(log) : log'[e] = log[e]
      /\ log'[n] = [run |-> r, wellFormed |-> ok]
  BY RelayAssumption DEF TypeOK, EntryType, Ids
<1>2. TypeOK'
  <2>1. Len(log) \in Nat /\ Len(log') <= MaxEntries
    BY <1>1, RelayAssumption DEF TypeOK, Ids
  <2>2. stream' \subseteq 1..Len(log') /\ last' \in 0..Len(log') /\ idle' \subseteq 1..Len(log')
    <3>1. 1..Len(log) \subseteq 1..Len(log') /\ n \in 1..Len(log')
      BY <1>1, <2>1
    <3>2. stream' = stream \union {n} /\ idle' = idle /\ last' = last
      OBVIOUS
    <3>3. last' \in 0..Len(log')
      BY <1>1, <2>1, <3>2 DEF TypeOK
    <3>4. stream \subseteq 1..Len(log) /\ idle \subseteq 1..Len(log)
      BY DEF TypeOK
    <3> HIDE DEF n
    <3> QED
      BY <3>1, <3>2, <3>3, <3>4
  <2> QED
    BY <1>1, <2>1, <2>2 DEF TypeOK
<1>3. NoAuditLoss'
  BY <1>1, RelayAssumption DEF TypeOK, NoAuditLoss, Published
<1>4. NothingStranded'
  BY <1>1, RelayAssumption DEF TypeOK, NothingStranded, Ids
<1>5. InHand'
  BY <1>1, RelayAssumption DEF TypeOK, InHand, Published, Least, RelayType, Ids
<1> QED
  BY <1>2, <1>3, <1>4, <1>5

\* An exception empties the relay's hands.
LEMMA RaisedShape ==
  ASSUME NEW s \in RelayType
  PROVE  Raised(s) \in RelayType /\ Raised(s).pc = "round" /\ Raised(s).batch = {}
<1>1. s.cursor \in 0..MaxEntries + 1 /\ s.closing \in BOOLEAN
  BY DEF RelayType
<1> QED
  BY <1>1 DEF Raised, Resting, RelayType

\* What a relay becomes when a call answers, or when the answer is lost.
LEMMA AnswerShape ==
  ASSUME TypeOK, NEW k \in Relays, NEW reply \in BOOLEAN, NEW s \in RelayType,
         Answer(k, reply, s)
  PROVE  /\ failures' \in 0..MaxFailures
         /\ relay' \in [Relays -> RelayType]
         /\ relay'[k] \in {s, Raised(relay[k])}
         /\ \A j \in Relays \ {k} : relay'[j] = relay[j]
<1>1. failures' \in 0..MaxFailures
  BY RelayAssumption DEF TypeOK, Answer
<1>2. relay[k] \in RelayType /\ relay \in [Relays -> RelayType]
  BY DEF TypeOK
<1>3. Raised(relay[k]) \in RelayType
  BY <1>2, RaisedShape
<1>4. PICK t \in {s, Raised(relay[k])} : relay' = [relay EXCEPT ![k] = t]
  BY DEF Answer, Now
<1> QED
  BY <1>1, <1>2, <1>3, <1>4

\* XAUTOCLAIM hands pending entries to another consumer: none leaves the pending
\* list, and the claimer holds only delivered ones.
LEMMA ReclaimStep ==
  ASSUME RelayInv, NEW k \in Relays, NEW reply \in BOOLEAN, ReclaimPending(k, reply)
  PROVE  RelayInv'
<1> USE DEF RelayInv
<1> DEFINE batch == FirstIds(Reclaimable(k), BatchSize)
           next(m) == [relay[k] EXCEPT !.pc = "publish", !.batch = batch,
                          !.fresh = FALSE, !.cursor = NextCursor(m, batch)]
<1>1. /\ batch \subseteq idle /\ batch \subseteq Ids
      /\ \A e \in batch : pending[e] # None
  <2>1. batch \subseteq Reclaimable(k)
    BY DEF FirstIds
  <2>2. idle \subseteq Ids
    BY RelayAssumption DEF TypeOK, Ids
  <2> QED
    BY <2>1, <2>2 DEF Reclaimable
<1>2. PICK m \in 0..MaxEntries : Answer(k, reply, next(m))
  BY DEF ReclaimPending
<1>3. NextCursor(m, batch) \in 0..MaxEntries + 1
  BY RelayAssumption DEF NextCursor
<1>4. next(m) \in RelayType /\ next(m).batch = batch /\ next(m).pc = "publish"
  BY <1>1, <1>3 DEF TypeOK, RelayType
<1>5. /\ failures' \in 0..MaxFailures
      /\ relay' \in [Relays -> RelayType]
      /\ relay'[k].pc # "ack" /\ relay'[k].batch \subseteq batch
      /\ \A j \in Relays \ {k} : relay'[j] = relay[j]
  <2>1. Raised(relay[k]).pc = "round" /\ Raised(relay[k]).batch = {}
    BY RaisedShape DEF TypeOK
  <2> QED
    BY <1>2, <1>4, <2>1, AnswerShape
<1>6. /\ UNCHANGED <<log, stream, last, topic>>
      /\ idle' \subseteq idle
      /\ pending' = [e \in Ids |-> IF e \in batch THEN k ELSE pending[e]]
  BY DEF ReclaimPending, GiveTo
<1>7. TypeOK'
  BY <1>5, <1>6 DEF TypeOK
<1>8. NoAuditLoss'
  BY <1>6 DEF NoAuditLoss, Published
<1>9. NothingStranded'
  BY <1>1, <1>6, RelayAssumption DEF NothingStranded, TypeOK
<1>10. InHand'
  BY <1>1, <1>5, <1>6 DEF InHand, NothingStranded, Published, Least
<1> QED
  BY <1>7, <1>8, <1>9, <1>10

\* XREADGROUP delivers a gapless prefix of what is new, so moving the group's
\* last-delivered id past it strands nothing, even when the reply is lost.
LEMMA ReadStep ==
  ASSUME RelayInv, NEW k \in Relays, NEW reply \in BOOLEAN, ReadGroup(k, reply)
  PROVE  RelayInv'
<1> USE DEF RelayInv
<1> DEFINE n == BatchSize - relay[k].published
           batch == FirstIds(Undelivered, n)
           next == [relay[k] EXCEPT !.pc = "publish", !.batch = batch, !.fresh = TRUE]
<1>0. relay[k] \in RelayType /\ stream \subseteq Ids
  BY RelayAssumption DEF TypeOK, Ids
<1>1. Undelivered \in SUBSET Ids /\ n \in Int
  <2>1. relay[k].published \in Nat
    BY <1>0 DEF RelayType
  <2> QED
    BY <1>0, <2>1, RelayAssumption DEF Undelivered
<1>2. /\ batch \subseteq Undelivered
      /\ \A e \in batch : \A d \in Undelivered : d <= e => d \in batch
  BY <1>1, FirstIdsClosed
<1>3. next \in RelayType /\ next.batch = batch /\ next.pc = "publish"
  BY <1>1, <1>2 DEF TypeOK, RelayType
<1>4. /\ failures' \in 0..MaxFailures
      /\ relay' \in [Relays -> RelayType]
      /\ relay'[k].pc # "ack" /\ relay'[k].batch \subseteq batch
      /\ \A j \in Relays \ {k} : relay'[j] = relay[j]
  <2>1. Raised(relay[k]).pc = "round" /\ Raised(relay[k]).batch = {}
    BY RaisedShape DEF TypeOK
  <2>2. Answer(k, reply, next)
    BY DEF ReadGroup
  <2> QED
    BY <1>3, <2>1, <2>2, AnswerShape
<1>5. /\ UNCHANGED <<log, stream, idle, topic>>
      /\ last' \in batch \union {last} /\ last <= last'
      /\ \A e \in batch : e <= last'
      /\ pending' = [e \in Ids |-> IF e \in batch THEN k ELSE pending[e]]
  BY DEF ReadGroup, GiveTo, Greatest
<1>6. batch \subseteq stream /\ \A e \in batch : e \in Int /\ e > last
  BY <1>1, <1>2, RelayAssumption DEF Undelivered, Ids
<1>7. TypeOK'
  BY <1>4, <1>5, <1>6 DEF TypeOK
<1>8. NoAuditLoss'
  BY <1>5 DEF NoAuditLoss, Published
<1>9. NothingStranded'
  <2> SUFFICES ASSUME NEW e \in Ids
               PROVE  pending'[e] # None <=> e \in stream' /\ e <= last'
    BY DEF NothingStranded
  <2>1. CASE e \in batch
    BY <2>1, <1>5, <1>6, RelayAssumption
  <2>2. CASE e \notin batch
    <3>1. e \in stream /\ e <= last' => e <= last
      <4>1. CASE last' = last
        BY <4>1
      <4>2. CASE last' \in batch
        BY <2>2, <4>2, <1>2, RelayAssumption DEF Undelivered, Ids, TypeOK
      <4> QED
        BY <4>1, <4>2, <1>5
    <3>2. e <= last => e <= last'
      BY <1>5, <1>7, RelayAssumption DEF TypeOK, Ids
    <3> QED
      BY <2>2, <3>1, <3>2, <1>5 DEF NothingStranded
  <2> QED
    BY <2>1, <2>2
<1>10. InHand'
  <2> SUFFICES ASSUME NEW j \in Relays, NEW e \in relay'[j].batch
               PROVE  /\ e <= last'
                      /\ relay'[j].pc = "ack" /\ Least(e, relay'[j].batch)
                           => log'[e].wellFormed /\ e \in Published'
    BY DEF InHand
  <2>1. CASE j = k
    BY <2>1, <1>4, <1>5
  <2>2. CASE j # k
    <3>1. e <= last /\ e \in Ids
      BY <2>2, <1>4 DEF InHand, TypeOK, RelayType
    <3>2. e <= last'
      BY <3>1, <1>5, <1>7, RelayAssumption DEF TypeOK, Ids
    <3> QED
      BY <2>2, <3>2, <1>4, <1>5 DEF InHand, Published
  <2> QED
    BY <2>1, <2>2
<1> QED
  BY <1>7, <1>8, <1>9, <1>10

\* send_and_wait puts the entry in Kafka before the relay may acknowledge it,
\* whether or not the answer arrives.
LEMMA PublishStep ==
  ASSUME RelayInv, NEW k \in Relays, NEW reply \in BOOLEAN, Publish(k, reply)
  PROVE  RelayInv'
<1> USE DEF RelayInv
<1> DEFINE next == [relay[k] EXCEPT !.pc = "ack"]
<1>1. next \in RelayType /\ next.batch = relay[k].batch
  BY DEF TypeOK, RelayType
<1>2. Answer(k, reply, next) /\ UNCHANGED <<log, stream, last, pending, idle>>
  BY DEF Publish, redis
<1>3. /\ failures' \in 0..MaxFailures
      /\ relay' \in [Relays -> RelayType]
      /\ relay'[k].batch \subseteq relay[k].batch
      /\ relay'[k].batch # {} => relay'[k].batch = relay[k].batch
      /\ \A j \in Relays \ {k} : relay'[j] = relay[j]
  <2>1. Raised(relay[k]).batch = {}
    BY RaisedShape DEF TypeOK
  <2> QED
    BY <1>1, <1>2, <2>1, AnswerShape
<1>4. PICK e \in relay[k].batch :
        Least(e, relay[k].batch) /\ log[e].wellFormed /\ topic' = Append(topic, e)
  BY DEF Publish, Send
<1>5. e \in Ids /\ Published' = Published \union {e} /\ topic' \in Seq(Ids)
  BY <1>4, PublishedGrows DEF TypeOK, RelayType
<1>6. TypeOK'
  BY <1>2, <1>3, <1>5 DEF TypeOK
<1>7. NoAuditLoss' /\ NothingStranded'
  BY <1>2, <1>5 DEF NoAuditLoss, NothingStranded
<1>8. \A d \in relay[k].batch : Least(d, relay[k].batch) => d = e
  BY <1>4, RelayAssumption DEF Least, TypeOK, RelayType, Ids
<1>9. InHand'
  <2> SUFFICES ASSUME NEW j \in Relays, NEW d \in relay'[j].batch
               PROVE  /\ d <= last'
                      /\ relay'[j].pc = "ack" /\ Least(d, relay'[j].batch)
                           => log'[d].wellFormed /\ d \in Published'
    BY DEF InHand
  <2>1. CASE j = k
    BY <2>1, <1>2, <1>3, <1>4, <1>5, <1>8 DEF InHand
  <2>2. CASE j # k
    BY <2>2, <1>2, <1>3, <1>5 DEF InHand
  <2> QED
    BY <2>1, <2>2
<1> QED
  BY <1>6, <1>7, <1>9

\* The XACK and XDEL script removes only the entry just published, from the
\* pending list and the stream together.
LEMMA AcknowledgeStep ==
  ASSUME RelayInv, NEW k \in Relays, NEW reply \in BOOLEAN, Acknowledge(k, reply)
  PROVE  RelayInv'
<1> USE DEF RelayInv
<1>1. PICK e \in relay[k].batch :
        /\ Least(e, relay[k].batch)
        /\ pending' = [pending EXCEPT ![e] = None]
        /\ idle' = idle \ {e}
        /\ stream' = IF pending[e] # None THEN stream \ {e} ELSE stream
        /\ Answer(k, reply, IF pending[e] # None
                            THEN [relay[k] EXCEPT !.pc = "publish", !.batch = @ \ {e},
                                                  !.published = @ + 1]
                            ELSE Raised(relay[k]))
  BY DEF Acknowledge, Deleted
<1>2. UNCHANGED <<log, last, topic>> /\ relay[k].pc = "ack"
  BY DEF Acknowledge
<1> DEFINE next == IF pending[e] # None
                   THEN [relay[k] EXCEPT !.pc = "publish", !.batch = @ \ {e},
                                         !.published = @ + 1]
                   ELSE Raised(relay[k])
<1>3. /\ next \in RelayType /\ next.pc # "ack" /\ next.batch \subseteq relay[k].batch
      /\ Raised(relay[k]).pc # "ack" /\ Raised(relay[k]).batch = {}
  <2>1. relay[k] \in RelayType
    BY DEF TypeOK
  <2>2. /\ Raised(relay[k]) \in RelayType
        /\ Raised(relay[k]).pc = "round" /\ Raised(relay[k]).batch = {}
    BY <2>1, RaisedShape
  <2>3. CASE pending[e] # None
    <3>1. relay[k].published + 1 \in Nat /\ relay[k].batch \ {e} \in SUBSET Ids
      BY <2>1 DEF RelayType
    <3>2. next = [relay[k] EXCEPT !.pc = "publish", !.batch = relay[k].batch \ {e},
                                  !.published = relay[k].published + 1]
      BY <2>3
    <3>3. next \in RelayType /\ next.pc = "publish" /\ next.batch = relay[k].batch \ {e}
      BY <2>1, <3>1, <3>2 DEF RelayType
    <3> QED
      BY <2>2, <3>3
  <2>4. CASE pending[e] = None
    BY <2>2, <2>4
  <2> QED
    BY <2>3, <2>4
<1>4. /\ failures' \in 0..MaxFailures
      /\ relay' \in [Relays -> RelayType]
      /\ relay'[k].pc # "ack" /\ relay'[k].batch \subseteq relay[k].batch
      /\ \A j \in Relays \ {k} : relay'[j] = relay[j]
  <2>1. Answer(k, reply, next)
    BY <1>1
  <2> HIDE DEF next
  <2> QED
    BY <1>3, <2>1, AnswerShape
<1>5. e \in Ids /\ log[e].wellFormed /\ e \in Published /\ Published' = Published
  BY <1>1, <1>2 DEF TypeOK, RelayType, InHand, Published
<1>6. TypeOK'
  BY <1>1, <1>2, <1>4, <1>5 DEF TypeOK
<1>7. NoAuditLoss'
  BY <1>1, <1>2, <1>5 DEF NoAuditLoss
<1>8. NothingStranded'
  BY <1>1, <1>2, <1>5 DEF NothingStranded, TypeOK
<1>9. InHand'
  BY <1>2, <1>4, <1>5 DEF InHand
<1> QED
  BY <1>6, <1>7, <1>8, <1>9

\* GoesIdle only makes an entry claimable.
LEMMA IdleStep ==
  ASSUME RelayInv, NEW e \in Ids, GoesIdle(e)
  PROVE  RelayInv'
<1> USE DEF RelayInv, GoesIdle
<1>1. e \in 1..Len(log)
  BY DEF NothingStranded, TypeOK
<1>2. TypeOK'
  BY <1>1 DEF TypeOK
<1>3. NoAuditLoss' /\ NothingStranded' /\ InHand'
  BY DEF NoAuditLoss, NothingStranded, InHand, Published
<1> QED
  BY <1>2, <1>3

\* The steps that touch the relay process only.
LEMMA ProcessStep ==
  ASSUME RelayInv, NEW k \in Relays,
         Local(k) \/ CallFails(k) \/ RequestShutdown(k) \/ Stop(k) \/ Crash(k)
  PROVE  RelayInv'
<1> USE DEF RelayInv
<1> DEFINE s == relay[k]
<1>1. s \in RelayType /\ failures \in 0..MaxFailures
  BY DEF TypeOK
<1>2. /\ Raised(s) \in RelayType /\ Raised(s).pc = "round" /\ Raised(s).batch = {}
      /\ Down \in RelayType /\ Down.pc = "down" /\ Down.batch = {}
  BY <1>1, RaisedShape, RelayAssumption DEF Down, Resting, RelayType
<1>3. CASE SkipReclaim(k)
  <2> DEFINE t == [s EXCEPT !.pc = "read"]
  <2>1. t \in RelayType /\ t.pc = "read" /\ t.batch = s.batch
    BY <1>1 DEF RelayType
  <2> QED
    BY <1>1, <1>3, <2>1, LocalStep DEF SkipReclaim
<1>4. CASE BatchEnds(k)
  <2> DEFINE t == [s EXCEPT !.pc = "read", !.batch = {}]
  <2>1. t \in RelayType /\ t.pc = "read" /\ t.batch = {}
    BY <1>1 DEF RelayType
  <2>2. Now(k, t) \/ Now(k, Raised(s))
    BY <1>4 DEF BatchEnds
  <2> QED
    BY <1>1, <1>2, <1>4, <2>1, <2>2, LocalStep DEF BatchEnds
<1>5. CASE SkipMalformed(k)
  <2>1. PICK e \in s.batch : Now(k, [s EXCEPT !.batch = @ \ {e}])
    BY <1>5 DEF SkipMalformed
  <2> DEFINE t == [s EXCEPT !.batch = @ \ {e}]
  <2>2. t \in RelayType /\ t.pc = "publish" /\ t.batch \subseteq s.batch
    BY <1>1, <1>5 DEF RelayType, SkipMalformed
  <2> QED
    BY <1>1, <1>5, <2>1, <2>2, LocalStep DEF SkipMalformed
<1>6. CASE CallFails(k)
  <2>1. failures' \in 0..MaxFailures
    BY <1>1, <1>6, RelayAssumption DEF CallFails
  <2> QED
    BY <1>2, <1>6, <2>1, LocalStep DEF CallFails
<1>7. CASE RequestShutdown(k)
  <2> DEFINE t == [s EXCEPT !.closing = TRUE]
  <2>1. t \in RelayType /\ t.pc = s.pc /\ t.batch = s.batch
    BY <1>1 DEF RelayType
  <2> QED
    BY <1>1, <1>7, <2>1, LocalStep DEF RequestShutdown
<1>8. CASE Stop(k) \/ Crash(k)
  BY <1>1, <1>2, <1>8, LocalStep DEF Stop, Crash
<1> QED
  BY <1>3, <1>4, <1>5, <1>6, <1>7, <1>8 DEF Local

\* Every step of every relay, of the outbox and of time keeps the invariant.
LEMMA RelayNext == RelayInv /\ [Next]_vars => RelayInv'
<1> SUFFICES ASSUME RelayInv, [Next]_vars PROVE RelayInv'
  OBVIOUS
<1>1. CASE UNCHANGED vars
  BY <1>1 DEF vars, RelayInv, TypeOK, NoAuditLoss, NothingStranded, InHand, Published
<1>2. CASE Next
  BY <1>2, WriteStep, ReclaimStep, ReadStep, PublishStep, AcknowledgeStep,
     IdleStep, ProcessStep DEF Next, RunOnce
<1> QED
  BY <1>1, <1>2

\* The invariant holds along every behaviour of the relay.
LEMMA RelayCorrect == Spec => []RelayInv
BY RelayInit, RelayNext, PTL DEF Spec

\* Nothing leaves the outbox before Kafka has it and no malformed entry ever does
\* (the acknowledgement after send_and_wait in _publish_entries), for any number
\* of relays, entries, batch sizes and failures.
THEOREM AuditLossFree == Spec => []NoAuditLoss
<1>1. RelayInv => NoAuditLoss
  BY DEF RelayInv
<1> QED
  BY <1>1, RelayCorrect, PTL

\* Every delivered entry that is still in the stream is pending, so
\* _reclaim_pending can find it after any exception, lost reply or crash.
THEOREM NoneStranded == Spec => []NothingStranded
<1>1. RelayInv => NothingStranded
  BY DEF RelayInv
<1> QED
  BY <1>1, RelayCorrect, PTL

=============================================================================
