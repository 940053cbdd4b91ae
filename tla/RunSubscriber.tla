---------------------------- MODULE RunSubscriber ----------------------------
(***************************************************************************)
(* RedisRunRegistry.subscribe: one client replays and follows the stream   *)
(* of one run while the registry's tasks write it.  The stream holds the   *)
(* last event_buffer_size entries (XTRIM MAXLEN runs inside the appending  *)
(* scripts), and each read of subscribe is a step of its own.              *)
(***************************************************************************)
EXTENDS RedisRunRegistry

CONSTANTS
  Watched,        \* the request the client follows
  BufferSize,     \* event_buffer_size
  MaxReconnects   \* bound: times the client drops the connection

ASSUME SubscriberAssumption ==
  /\ Watched \in StreamRequests
  /\ BufferSize \in Nat \ {0}
  /\ MaxReconnects \in Nat

VARIABLES
  pc,       \* open, gap, check, read, look, deliver, idle, ended, replay_gap
  cursor,   \* id of the last entry processed
  next,     \* the batch of XREAD still to process is next..last
  last,
  seen,     \* the state read after XREAD: over or not, fencing token, last id
  out,      \* ids sent to the client, over all its connections
  redials   \* reconnects so far

subVars == <<pc, cursor, next, last, seen, out, redials>>

Newest == Len(events[Watched])
Oldest == IF Newest > BufferSize THEN Newest - BufferSize + 1 ELSE 1

NothingSeen == [over |-> FALSE, fence |-> 0, newest |-> 0]

\* No batch in hand.
EmptyHanded == next' = 1 /\ last' = 0 /\ seen' = NothingSeen

SubInit ==
  /\ Init
  /\ pc = "open" /\ cursor = 0 /\ next = 1 /\ last = 0 /\ seen = NothingSeen
  /\ out = <<>> /\ redials = 0

-----------------------------------------------------------------------------
\* A last_event_id ahead of the run is refused.
Open ==
  /\ pc = "open" /\ run[Watched].status # "absent"
  /\ pc' = IF cursor > Newest THEN "replay_gap" ELSE "gap"
  /\ UNCHANGED <<cursor, next, last, seen, out, redials>>

\* _replay_gap, before the loop and after an empty read.
ReplayGap == Newest > 0 /\ cursor < Oldest - 1

CheckGap ==
  /\ pc \in {"gap", "idle"}
  /\ pc' = IF ReplayGap THEN "replay_gap" ELSE "check"
  /\ UNCHANGED <<cursor, next, last, seen, out, redials>>

\* The state read before and after every round.
CheckEnd ==
  /\ pc = "check"
  /\ pc' = IF run[Watched].status \in Terminal \union {"waiting_for_input"}
              /\ cursor >= Newest
           THEN "ended" ELSE "read"
  /\ UNCHANGED <<cursor, next, last, seen, out, redials>>

\* The first entry after the cursor that the trimmed stream still holds.
FirstUnread == IF cursor + 1 >= Oldest THEN cursor + 1 ELSE Oldest

\* XREAD returns what the stream holds after the cursor, in order and up to its
\* COUNT; a connection lost in the middle of a batch is a shorter batch.
Read ==
  /\ pc = "read"
  /\ \E n \in FirstUnread..Newest : next' = FirstUnread /\ last' = n
  /\ pc' = "look"
  /\ UNCHANGED <<cursor, seen, out, redials>>

\* No entry within the block time, or redis-py's socket timeout at that moment.
ReadIdle ==
  /\ pc = "read"
  /\ pc' = "idle"
  /\ UNCHANGED <<cursor, next, last, seen, out, redials>>

\* The state the whole batch is delivered against.
Look ==
  /\ pc = "look"
  /\ seen' = [over |-> run[Watched].status \in Terminal,
              fence |-> run[Watched].fence, newest |-> Newest]
  /\ pc' = "deliver"
  /\ UNCHANGED <<cursor, next, last, out, redials>>

\* Seeded faults: a DONE delivered before the run is terminal, and one that waits
\* for a fencing token that will never return.
DoneAtOnce(k) ==
  LET e == events[Watched][k] IN
  IF e.type = "done" /\ (e.fence # seen.fence \/ k # seen.newest) THEN "skip" ELSE "deliver"

DoneWaits(k) ==
  LET e == events[Watched][k] IN
  IF e.type # "done" THEN "deliver"
  ELSE IF e.fence # seen.fence \/ ~seen.over THEN "wait"
  ELSE IF k = seen.newest THEN "deliver" ELSE "skip"

\* _done_delivery_action for entry k against the state that was read.
DoneDeliveryAction(k) ==
  LET e == events[Watched][k] IN
  IF e.type # "done" THEN "deliver"
  ELSE IF e.fence # seen.fence THEN "skip"
  ELSE IF ~seen.over THEN "wait"
  ELSE IF k = seen.newest THEN "deliver" ELSE "skip"

\* A DONE that must wait ends the batch; it will be read again.
Wait ==
  /\ pc = "deliver" /\ DoneDeliveryAction(next) = "wait"
  /\ EmptyHanded /\ pc' = "check"
  /\ UNCHANGED <<cursor, out, redials>>

CursorAtOnce == last                                         \* seeded fault
CursorAfter == next

\* The next entry is sent or skipped, and the cursor moves to it.
Deliver ==
  /\ pc = "deliver" /\ DoneDeliveryAction(next) # "wait"
  /\ out' = IF DoneDeliveryAction(next) = "deliver" THEN Append(out, next) ELSE out
  /\ cursor' = CursorAfter
  /\ IF next = last THEN EmptyHanded /\ pc' = "check"
     ELSE next' = next + 1 /\ UNCHANGED <<last, seen, pc>>
  /\ UNCHANGED redials

\* The client dials again with the last id it was sent, unless it was told to
\* reload the thread history.
Reconnect ==
  /\ redials < MaxReconnects /\ pc # "replay_gap"
  /\ redials' = redials + 1
  /\ pc' = "open" /\ EmptyHanded
  /\ cursor' = IF out = <<>> THEN 0 ELSE out[Len(out)]
  /\ UNCHANGED out

Subscribe == Open \/ CheckGap \/ CheckEnd \/ Read \/ ReadIdle \/ Look \/ Wait \/ Deliver

SubNext ==
  \/ Next /\ UNCHANGED subVars
  \/ Subscribe /\ UNCHANGED vars
  \/ Reconnect /\ UNCHANGED vars

SubSpec == SubInit /\ [][SubNext]_<<vars, subVars>>

\* The server's loop runs; a read that finds entries is not starved by idle
\* polls, since XREAD returns at once when entries are there.
SubFairSpec ==
  /\ SubSpec
  /\ WF_subVars(Subscribe /\ UNCHANGED vars)
  /\ SF_subVars(Read /\ UNCHANGED vars)

-----------------------------------------------------------------------------
Sent == { out[k] : k \in 1..Len(out) }

\* A DONE that reached the client is the last event of a terminal run, under
\* its final fence: no takeover or late writer can continue a stream whose
\* client was told it is over.
DoneIsFinal ==
  \A k \in Sent :
    events[Watched][k].type = "done" =>
      /\ run[Watched].status \in Terminal
      /\ k = Newest /\ events[Watched][k].fence = run[Watched].fence

\* Over all connections the client sees ids in increasing order, none twice.
SentInOrder == \A j, k \in 1..Len(out) : j < k => out[j] < out[k]

\* Every event up to the cursor that the stream still holds, DONE markers aside,
\* has been sent: neither a skipped DONE, nor one that must wait, nor a new
\* connection makes the cursor jump over what could have been delivered.
NothingPassedOver ==
  \A k \in Oldest..Newest :
    k <= cursor /\ events[Watched][k].type # "done" => k \in Sent

\* What the client got is the stream up to its cursor, in its order.
DeliveredInOrder == SentInOrder /\ NothingPassedOver

\* "If a cursor is older than the bounded buffer, the server emits `replay_gap`":
\* a client that got no gap got every event up to the cursor.
GapReported ==
  \A k \in 1..Newest :
    k <= cursor /\ events[Watched][k].type # "done" => k \in Sent

\* The subscription of a run that is over ends: no DONE marker, fenced entry or
\* trimmed entry makes the loop wait for ever.
SubscriptionEnds ==
  run[Watched].status \in Terminal ~> pc \in {"ended", "replay_gap"}

=============================================================================
