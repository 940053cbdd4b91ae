---------------------------- MODULE ThreadRunLock ----------------------------
(***************************************************************************)
(* serialize_thread_run, src/src/service/run_coordination.py, for one      *)
(* (agent, user, thread) key: a slot with an asyncio.Lock in each process, *)
(* created on demand and dropped with its last user, around a PostgreSQL   *)
(* advisory lock held by a connection of its own.                          *)
(*                                                                         *)
(* _slots_guard is never held over an await, so the code under it is one   *)
(* step with what precedes it.  A slot is named for the call that created  *)
(* it: one created after the old one was dropped is a new asyncio.Lock,    *)
(* with users of its own.                                                  *)
(***************************************************************************)
EXTENDS Integers, FiniteSets

CONSTANTS
  Callers,       \* calls of serialize_thread_run
  Processes,     \* runtime processes
  Home,          \* the process of a call
  MaxEntries,    \* bound: times a call is made
  Fragile,       \* calls whose database session may be lost
  None           \* nobody

\* A caller's n-th call creates at most one slot.
SlotIds == Callers \X (1..MaxEntries)

ASSUME LockAssumption ==
  /\ Home \in [Callers -> Processes]
  /\ MaxEntries \in Nat
  /\ Fragile \subseteq Callers
  /\ None \notin Callers \union SlotIds

ASSUME FiniteAssumption == IsFiniteSet(Callers)

VARIABLES
  pc,       \* out, wait (local lock), connect, pgwait, in, unlocked
  slot,     \* the slot a caller uses, None when out
  slots,    \* _slots: the process's current slot for the key
  users,    \* users of a slot
  holder,   \* who holds the asyncio.Lock of a slot
  pg,       \* the caller whose session holds the advisory lock
  entries   \* calls made so far

local == <<slots, users, holder>>
vars  == <<pc, slot, slots, users, holder, pg, entries>>

Places == {"out", "wait", "connect", "pgwait", "in", "unlocked"}

TypeOK ==
  /\ pc \in [Callers -> Places]
  /\ slot \in [Callers -> SlotIds \union {None}]
  /\ slots \in [Processes -> SlotIds \union {None}]
  /\ users \in [SlotIds -> Nat]
  /\ holder \in [SlotIds -> Callers \union {None}]
  /\ pg \in Callers \union {None}
  /\ entries \in [Callers -> 0..MaxEntries]

Init ==
  /\ pc = [c \in Callers |-> "out"]
  /\ slot = [c \in Callers |-> None]
  /\ slots = [p \in Processes |-> None]
  /\ users = [l \in SlotIds |-> 0]
  /\ holder = [l \in SlotIds |-> None]
  /\ pg = None
  /\ entries = [c \in Callers |-> 0]

Goto(c, where) == pc' = [pc EXCEPT ![c] = where]

-----------------------------------------------------------------------------
\* The slot of the process, or a new one with a free lock and no users.
Enter(c) ==
  LET p   == Home[c]
      new == slots[p] = None
      s   == IF new THEN <<c, entries[c] + 1>> ELSE slots[p] IN
  /\ pc[c] = "out" /\ entries[c] < MaxEntries
  /\ entries' = [entries EXCEPT ![c] = @ + 1]
  /\ slots' = [slots EXCEPT ![p] = s]
  /\ users' = [users EXCEPT ![s] = (IF new THEN 0 ELSE @) + 1]
  /\ holder' = [holder EXCEPT ![s] = IF new THEN None ELSE @]
  /\ slot' = [slot EXCEPT ![c] = s]
  /\ Goto(c, "wait")
  /\ UNCHANGED pg

AcquireLocal(c) ==
  /\ pc[c] = "wait" /\ holder[slot[c]] = None
  /\ holder' = [holder EXCEPT ![slot[c]] = c]
  /\ Goto(c, "connect")
  /\ UNCHANGED <<slot, slots, users, pg, entries>>

Connect(c) ==
  /\ pc[c] = "connect"
  /\ Goto(c, "pgwait")
  /\ UNCHANGED <<slot, local, pg, entries>>

SharedFreeUnasked == TRUE                                    \* seeded fault
SharedFree == pg = None

\* pg_advisory_lock returns.
AcquireShared(c) ==
  /\ pc[c] = "pgwait" /\ SharedFree
  /\ pg' = c
  /\ Goto(c, "in")
  /\ UNCHANGED <<slot, local, entries>>

\* The body ends or raises: pg_advisory_unlock, shielded from cancellation, and
\* the connection is closed.
Unlock(c) ==
  /\ pc[c] = "in"
  /\ pg' = IF pg = c THEN None ELSE pg
  /\ Goto(c, "unlocked")
  /\ UNCHANGED <<slot, local, entries>>

DropAlways(c) ==                                             \* seeded fault
  /\ users' = [users EXCEPT ![slot[c]] = @ - 1]
  /\ slots' = [slots EXCEPT ![Home[c]] = None]

\* _drop_slot_user.
DropSlotUser(c) ==
  LET s == slot[c] IN
  /\ users' = [users EXCEPT ![s] = @ - 1]
  /\ slots' = [slots EXCEPT ![Home[c]] = IF users[s] = 1 /\ @ = s THEN None ELSE @]

Leave(c) ==
  /\ DropSlotUser(c)
  /\ slot' = [slot EXCEPT ![c] = None]
  /\ Goto(c, "out")
  /\ UNCHANGED entries

\* The finally clause of serialize_thread_run.
Release(c) ==
  /\ pc[c] = "unlocked"
  /\ holder' = [holder EXCEPT ![slot[c]] = None]
  /\ Leave(c)
  /\ UNCHANGED pg

\* A cancellation or a timeout while waiting for the asyncio.Lock.
CancelWait(c) ==
  /\ pc[c] = "wait"
  /\ Leave(c)
  /\ UNCHANGED <<holder, pg>>

SharedFailsLeaks(c) ==                                       \* seeded fault
  /\ pc[c] \in {"connect", "pgwait"}
  /\ Leave(c)
  /\ UNCHANGED <<holder, pg>>

\* The connection fails, or the call is cancelled before it has the advisory
\* lock: acquired is False, the connection is closed, the local lock released.
SharedFails(c) ==
  /\ pc[c] \in {"connect", "pgwait"}
  /\ Goto(c, "unlocked")
  /\ UNCHANGED <<slot, local, pg, entries>>

\* The server drops the session, and its lock with it; nothing in the process
\* looks at the connection before the body ends.
SessionLost ==
  /\ pg \in Fragile
  /\ pg' = None
  /\ UNCHANGED <<pc, slot, local, entries>>

\* The process ends with its slots; the server notices and frees its sessions.
Crash(p) ==
  LET gone == {c \in Callers : Home[c] = p} IN
  /\ \E c \in gone : pc[c] # "out"
  /\ pc' = [c \in Callers |-> IF c \in gone THEN "out" ELSE pc[c]]
  /\ slot' = [c \in Callers |-> IF c \in gone THEN None ELSE slot[c]]
  /\ slots' = [slots EXCEPT ![p] = None]
  /\ users' = [l \in SlotIds |-> IF Home[l[1]] = p THEN 0 ELSE users[l]]
  /\ holder' = [l \in SlotIds |-> IF Home[l[1]] = p THEN None ELSE holder[l]]
  /\ pg' = IF pg \in gone THEN None ELSE pg
  /\ UNCHANGED entries

-----------------------------------------------------------------------------
Proceed(c) ==
  AcquireLocal(c) \/ Connect(c) \/ AcquireShared(c) \/ Unlock(c) \/ Release(c)

Next ==
  \/ \E c \in Callers : Enter(c) \/ Proceed(c) \/ CancelWait(c) \/ SharedFails(c)
  \/ SessionLost
  \/ \E p \in Processes : Crash(p)

Spec == Init /\ [][Next]_vars

\* asyncio.Lock and pg_advisory_lock serve their waiters in order, and a body
\* ends (it runs under asyncio.timeout).
FairSpec ==
  /\ Spec
  /\ \A c \in Callers : /\ WF_vars(Connect(c) \/ Unlock(c) \/ Release(c))
                        /\ SF_vars(AcquireLocal(c)) /\ SF_vars(AcquireShared(c))

-----------------------------------------------------------------------------
\* Two calls for the same agent, user and thread whose sessions last never run
\* their bodies at once, in one process or in two ("serializes that key across
\* service processes").
MutualExclusion ==
  \A c, d \in Callers \ Fragile : pc[c] = "in" /\ pc[d] = "in" => c = d

\* Two calls of one process never do, even when the database loses a session.
ProcessExclusion ==
  \A c, d \in Callers :
    pc[c] = "in" /\ pc[d] = "in" /\ Home[c] = Home[d] => c = d

\* Whoever is in its body holds the advisory lock while its session lasts (makes
\* MutualExclusion inductive).
InsideHolds == \A c \in Callers \ Fragile : pc[c] = "in" => pg = c

\* All calls of a process that are under way share one slot, and the count that
\* decides when to drop it is the number of them: no call ever waits on the lock
\* of a slot that newcomers no longer see.
Here(p) == {c \in Callers : Home[c] = p /\ pc[c] # "out"}

OneSlot ==
  \A p \in Processes :
    /\ \A c \in Here(p) : slot[c] = slots[p] /\ users[slot[c]] = Cardinality(Here(p))
    /\ Here(p) = {} => slots[p] = None

\* The local slot and its lock are one per process, and their users are counted.
SlotsAgree == TypeOK /\ ProcessExclusion /\ OneSlot

\* A call gets its turn or gives up: neither lock is left held by a call that is
\* gone, whatever was cancelled or crashed.
TurnComes == \A c \in Callers : pc[c] = "wait" ~> pc[c] \in {"in", "out"}

=============================================================================
