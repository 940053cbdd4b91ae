------------------------- MODULE ThreadRunLockProofs -------------------------
(***************************************************************************)
(* Mutual exclusion of serialize_thread_run, for any number of processes   *)
(* and calls: by the advisory lock among the calls whose PostgreSQL        *)
(* session lasts, and by the slots among the calls of one process.         *)
(***************************************************************************)
EXTENDS ThreadRunLock, FiniteSetTheorems, TLAPS

LockInv == pc \in [Callers -> Places] /\ InsideHolds

\* Every step of a call, a cancellation, a failure, a crash and the loss of some
\* other session keeps the lock with the call that is inside.
LEMMA LockStep ==
  ASSUME LockInv, [Next]_vars
  PROVE  LockInv'
<1> USE DEF LockInv, InsideHolds, Places, Goto
<1>1. CASE UNCHANGED vars
  BY <1>1 DEF vars
<1>2. ASSUME NEW c \in Callers,
             Enter(c) \/ AcquireLocal(c) \/ Connect(c) \/ SharedFails(c)
      PROVE  LockInv'
  BY <1>2 DEF Enter, AcquireLocal, Connect, SharedFails
<1>3. ASSUME NEW c \in Callers, AcquireShared(c) PROVE LockInv'
  BY <1>3, LockAssumption DEF AcquireShared, SharedFree
<1>4. ASSUME NEW c \in Callers, Unlock(c) PROVE LockInv'
  BY <1>4 DEF Unlock
<1>5. ASSUME NEW c \in Callers, Release(c) \/ CancelWait(c) PROVE LockInv'
  BY <1>5 DEF Release, CancelWait, Leave
<1>6. ASSUME NEW p \in Processes, Crash(p) PROVE LockInv'
  BY <1>6 DEF Crash
<1>7. CASE SessionLost
  BY <1>7 DEF SessionLost
<1> QED
  BY <1>1, <1>2, <1>3, <1>4, <1>5, <1>6, <1>7 DEF Next, Proceed

\* No two bodies for the same agent, user and thread run at once, in whichever
\* processes, when neither loses the session that holds the advisory lock:
\* cancellations, failed connections, crashes and other calls' lost sessions at
\* any await keep it so.
THEOREM Exclusive == Spec => []MutualExclusion
<1>1. Init => LockInv
  BY DEF Init, LockInv, InsideHolds, Places
<1>2. LockInv /\ [Next]_vars => LockInv'
  BY LockStep
<1>3. LockInv => MutualExclusion
  BY DEF LockInv, InsideHolds, MutualExclusion
<1> QED
  BY <1>1, <1>2, <1>3, PTL DEF Spec

-----------------------------------------------------------------------------
(* The slots of a process                                                   *)

Locked == {"connect", "pgwait", "in", "unlocked"}

\* A call under way has a slot made in its process, and past the local lock it
\* holds it.
OwnSlots ==
  /\ \A c \in Callers : /\ pc[c] = "out" <=> slot[c] = None
                        /\ slot[c] # None => Home[slot[c][1]] = Home[c]
  /\ \A p \in Processes : slots[p] # None => Home[slots[p][1]] = p

LocalLock == \A c \in Callers : pc[c] \in Locked => holder[slot[c]] = c

SlotInv == TypeOK /\ OwnSlots /\ OneSlot /\ LocalLock

\* The calls under way in a process are counted by a natural number.
LEMMA HereFinite ==
  ASSUME NEW p
  PROVE  IsFiniteSet(Here(p)) /\ Cardinality(Here(p)) \in Nat
  BY FiniteAssumption, FS_Subset, FS_CardinalityType DEF Here

\* Entering: the process's slot, or a new one for the first call.
LEMMA EnterSlots ==
  ASSUME SlotInv, NEW c \in Callers, Enter(c)
  PROVE  SlotInv'
<1> DEFINE p == Home[c]
           new == slots[p] = None
           s == IF new THEN <<c, entries[c] + 1>> ELSE slots[p]
           n == IF new THEN 0 ELSE users[s]
<1>1. /\ p \in Processes /\ c \notin Here(p) /\ MaxEntries \in Nat
      /\ entries[c] \in 0..MaxEntries /\ entries[c] + 1 \in 1..MaxEntries
  <2>1. /\ p \in Processes /\ c \notin Here(p) /\ MaxEntries \in Nat
        /\ entries[c] \in 0..MaxEntries /\ entries[c] < MaxEntries
    BY LockAssumption DEF SlotInv, TypeOK, Enter, Here
  <2> QED BY <2>1
<1>2. s \in SlotIds /\ s # None /\ Home[s[1]] = p
  BY <1>1, LockAssumption DEF SlotInv, TypeOK, OwnSlots, SlotIds
<1> HIDE DEF s
<1>3. /\ pc' = [pc EXCEPT ![c] = "wait"] /\ slot' = [slot EXCEPT ![c] = s]
      /\ slots' = [slots EXCEPT ![p] = s]
      /\ users' = [users EXCEPT ![s] = n + 1]
      /\ holder' = [holder EXCEPT ![s] = IF new THEN None ELSE holder[s]]
      /\ entries' = [entries EXCEPT ![c] = entries[c] + 1] /\ pg' = pg /\ pc[c] = "out"
  BY DEF Enter, Goto, s
<1>4. n \in Nat /\ n = Cardinality(Here(p)) /\ (new => Here(p) = {})
  <2>1. CASE new
    <3>1. Here(p) = {} BY <2>1, <1>1 DEF SlotInv, OneSlot, OwnSlots, Here
    <3> QED BY <2>1, <3>1, FS_EmptySet
  <2>2. CASE ~new
    <3>1. Here(p) # {} BY <1>1, <2>2 DEF SlotInv, OneSlot
    <3>2. users[slots[p]] = Cardinality(Here(p)) BY <1>1, <3>1 DEF SlotInv, OneSlot
    <3> QED BY <2>2, <3>2, HereFinite DEF s
  <2> QED BY <2>1, <2>2
<1>5. TypeOK'
  BY <1>1, <1>2, <1>3, <1>4 DEF SlotInv, TypeOK, Places
<1>6. OwnSlots'
  BY <1>1, <1>2, <1>3 DEF SlotInv, TypeOK, OwnSlots
<1>7. Here(p)' = Here(p) \union {c} /\ \A q \in Processes \ {p} : Here(q)' = Here(q)
  BY <1>3 DEF Here, SlotInv, TypeOK
<1>8. Cardinality(Here(p)') = n + 1
  BY <1>1, <1>4, <1>7, HereFinite, FS_AddElement
<1>9. \A d \in Callers : Home[d] # p /\ slot[d] # None => slot[d] # s
  BY <1>2 DEF SlotInv, OwnSlots
<1>10. \A d \in Here(p) : slot[d] = s
  BY <1>1, <1>4 DEF SlotInv, OneSlot, s
<1>11. OneSlot'
  <2> SUFFICES ASSUME NEW q \in Processes
               PROVE  /\ \A d \in Here(q)' : /\ slot'[d] = slots'[q]
                                             /\ users'[slot'[d]] = Cardinality(Here(q)')
                      /\ Here(q)' = {} => slots'[q] = None
    BY DEF OneSlot, Here
  <2>1. CASE q = p
    <3>1. slots'[p] = s /\ users'[s] = n + 1
      BY <1>1, <1>2, <1>3 DEF SlotInv, TypeOK
    <3>2. \A d \in Here(p)' : slot'[d] = s
      BY <1>3, <1>7, <1>10 DEF SlotInv, TypeOK, Here
    <3> QED BY <1>7, <1>8, <2>1, <3>1, <3>2
  <2>2. CASE q # p
    <3>1. Here(q)' = Here(q) /\ slots'[q] = slots[q] BY <1>3, <1>7, <2>2 DEF SlotInv, TypeOK
    <3>2. \A d \in Here(q) : slot'[d] = slot[d] /\ users'[slot[d]] = users[slot[d]]
      BY <1>2, <1>3, <1>9, <2>2 DEF SlotInv, TypeOK, OwnSlots, Here
    <3> QED BY <3>1, <3>2 DEF SlotInv, OneSlot
  <2> QED BY <2>1, <2>2
<1>12. LocalLock'
  <2> SUFFICES ASSUME NEW d \in Callers, pc'[d] \in Locked PROVE holder'[slot'[d]] = d
    BY DEF LocalLock
  <2>1. d # c /\ pc[d] \in Locked /\ slot'[d] = slot[d] /\ holder[slot[d]] = d
    BY <1>3 DEF SlotInv, TypeOK, LocalLock, Locked
  <2>2. slot[d] = s => ~new
    BY <1>4, <1>9, <2>1 DEF SlotInv, OwnSlots, Here, Locked
  <2> QED BY <1>2, <1>3, <2>1, <2>2 DEF SlotInv, TypeOK
<1> QED BY <1>5, <1>6, <1>11, <1>12 DEF SlotInv

\* Leaving: the last user drops the slot.
LEMMA LeaveSlots ==
  ASSUME SlotInv, NEW c \in Callers, pc[c] # "out", Leave(c), pg' = pg,
         \/ pc[c] = "wait" /\ UNCHANGED holder
         \/ pc[c] = "unlocked" /\ holder' = [holder EXCEPT ![slot[c]] = None]
  PROVE  SlotInv'
<1> DEFINE p == Home[c]
           s == slot[c]
           n == users[s]
<1>1. /\ p \in Processes /\ c \in Here(p) /\ s \in SlotIds /\ s # None /\ Home[s[1]] = p
      /\ slots[p] = s
  BY LockAssumption DEF SlotInv, TypeOK, OwnSlots, OneSlot, Here
<1>2. n = Cardinality(Here(p)) /\ n \in Nat BY <1>1, HereFinite DEF SlotInv, OneSlot
<1> HIDE DEF s
<1>3. /\ pc' = [pc EXCEPT ![c] = "out"] /\ slot' = [slot EXCEPT ![c] = None]
      /\ slots' = [slots EXCEPT ![p] = IF n = 1 /\ slots[p] = s THEN None ELSE slots[p]]
      /\ users' = [users EXCEPT ![s] = n - 1] /\ entries' = entries
  BY DEF Leave, DropSlotUser, Goto, s
<1>4. Here(p)' = Here(p) \ {c} /\ \A q \in Processes \ {p} : Here(q)' = Here(q)
  BY <1>3 DEF Here, SlotInv, TypeOK
<1>5. Cardinality(Here(p)') = n - 1 /\ n - 1 \in Nat
  <2>1. Cardinality(Here(p) \ {c}) = Cardinality(Here(p)) - 1
    BY <1>1, HereFinite, FS_RemoveElement
  <2>2. Cardinality(Here(p) \ {c}) \in Nat
    <3>1. IsFiniteSet(Here(p) \ {c}) BY HereFinite, FS_RemoveElement, <1>1
    <3> QED BY <3>1, FS_CardinalityType
  <2> QED BY <1>2, <1>4, <2>1, <2>2
<1>6. n = 1 <=> Here(p)' = {}
  <2>1. IsFiniteSet(Here(p)') BY <1>4, HereFinite, FS_RemoveElement
  <2> QED BY <1>2, <1>5, <2>1, FS_EmptySet
<1>7. TypeOK'
  BY <1>1, <1>3, <1>5 DEF SlotInv, TypeOK, Places, s
<1>8. OwnSlots'
  BY <1>1, <1>3 DEF SlotInv, TypeOK, OwnSlots
<1>9. OneSlot'
  <2> SUFFICES ASSUME NEW q \in Processes
               PROVE  /\ \A d \in Here(q)' : /\ slot'[d] = slots'[q]
                                             /\ users'[slot'[d]] = Cardinality(Here(q)')
                      /\ Here(q)' = {} => slots'[q] = None
    BY DEF OneSlot, Here
  <2>1. CASE q = p
    <3>1. \A d \in Here(p)' : slot'[d] = s
      BY <1>1, <1>3, <1>4 DEF SlotInv, TypeOK, OneSlot, Here
    <3>2. users'[s] = n - 1 BY <1>1, <1>3 DEF SlotInv, TypeOK
    <3>3. slots'[p] = IF n = 1 THEN None ELSE s BY <1>1, <1>3 DEF SlotInv, TypeOK
    <3> QED BY <1>5, <1>6, <2>1, <3>1, <3>2, <3>3
  <2>2. CASE q # p
    <3>1. Here(q)' = Here(q) /\ slots'[q] = slots[q] BY <1>3, <1>4, <2>2 DEF SlotInv, TypeOK
    <3>2. \A d \in Here(q) : slot'[d] = slot[d] /\ users'[slot[d]] = users[slot[d]]
      BY <1>1, <1>3, <2>2 DEF SlotInv, TypeOK, OwnSlots, Here
    <3> QED BY <3>1, <3>2 DEF SlotInv, OneSlot
  <2> QED BY <2>1, <2>2
<1>10. LocalLock'
  <2> SUFFICES ASSUME NEW d \in Callers, pc'[d] \in Locked PROVE holder'[slot'[d]] = d
    BY DEF LocalLock
  <2>1. d # c /\ pc[d] \in Locked /\ slot'[d] = slot[d] /\ holder[slot[d]] = d
    BY <1>3 DEF SlotInv, TypeOK, LocalLock, Locked
  <2>2. pc[c] = "unlocked" => holder[s] = c BY DEF SlotInv, LocalLock, Locked, s
  <2>3. CASE UNCHANGED holder
    BY <2>1, <2>3
  <2>4. CASE pc[c] = "unlocked" /\ holder' = [holder EXCEPT ![s] = None]
    <3>1. slot[d] # s BY <2>1, <2>2, <2>4
    <3> QED BY <2>1, <2>4, <3>1 DEF SlotInv, TypeOK, OwnSlots, Locked
  <2> QED BY <2>3, <2>4 DEF s
<1> QED BY <1>7, <1>8, <1>9, <1>10 DEF SlotInv

\* A call that only moves on keeps the slots as they are.
LEMMA MoveSlots ==
  ASSUME SlotInv, NEW c \in Callers, NEW where \in Places \ {"out"}, pc[c] # "out",
         Goto(c, where), UNCHANGED <<slot, slots, users, entries>>,
         pg' \in Callers \union {None},
         \/ UNCHANGED holder /\ (where \in Locked => pc[c] \in Locked)
         \/ holder[slot[c]] = None /\ holder' = [holder EXCEPT ![slot[c]] = c]
  PROVE  SlotInv'
<1>1. slot[c] \in SlotIds BY DEF SlotInv, TypeOK, OwnSlots
<1>2. TypeOK' BY <1>1 DEF SlotInv, TypeOK, Goto
<1>3. OwnSlots' BY DEF SlotInv, TypeOK, OwnSlots, Goto
<1>4. \A p : Here(p)' = Here(p) BY DEF Here, SlotInv, TypeOK, Goto
<1>5. OneSlot' BY <1>4 DEF SlotInv, OneSlot
<1>6. LocalLock'
  <2> SUFFICES ASSUME NEW d \in Callers, pc'[d] \in Locked PROVE holder'[slot[d]] = d
    BY DEF LocalLock
  <2>1. d # c => pc[d] \in Locked BY DEF SlotInv, TypeOK, Goto
  <2>2. d = c => where \in Locked BY DEF SlotInv, TypeOK, Goto
  <2>3. CASE UNCHANGED holder /\ (where \in Locked => pc[c] \in Locked)
    BY <2>1, <2>2, <2>3 DEF SlotInv, LocalLock
  <2>4. CASE holder[slot[c]] = None /\ holder' = [holder EXCEPT ![slot[c]] = c]
    <3>1. holder'[slot[c]] = c BY <1>1, <2>4 DEF SlotInv, TypeOK
    <3>2. CASE d # c
      <4>1. holder[slot[d]] = d BY <2>1, <3>2 DEF SlotInv, LocalLock
      <4>2. slot[d] # slot[c] BY <2>4, <4>1, LockAssumption
      <4> QED BY <2>4, <4>1, <4>2, <1>1 DEF SlotInv, TypeOK
    <3> QED BY <3>1, <3>2
  <2> QED BY <2>3, <2>4
<1> QED BY <1>2, <1>3, <1>5, <1>6 DEF SlotInv

\* A process ends with its slots.
LEMMA CrashSlots ==
  ASSUME SlotInv, NEW p \in Processes, Crash(p)
  PROVE  SlotInv'
<1>1. /\ \A c \in Callers : Home[c] = p => pc'[c] = "out" /\ slot'[c] = None
      /\ \A c \in Callers : Home[c] # p => pc'[c] = pc[c] /\ slot'[c] = slot[c]
  BY DEF Crash
<1>2. /\ slots' = [slots EXCEPT ![p] = None] /\ entries' = entries
      /\ \A l \in SlotIds : Home[l[1]] # p => users'[l] = users[l] /\ holder'[l] = holder[l]
  BY DEF Crash
<1>3. TypeOK'
  BY DEF Crash, SlotInv, TypeOK, Places
<1>4. OwnSlots' BY <1>1, <1>2 DEF SlotInv, TypeOK, OwnSlots
<1>5. Here(p)' = {} /\ \A q \in Processes \ {p} : Here(q)' = Here(q) BY <1>1 DEF Here
<1>6. \A d \in Callers : Home[d] # p /\ slot[d] # None =>
        users'[slot[d]] = users[slot[d]] /\ holder'[slot[d]] = holder[slot[d]]
  BY <1>2 DEF SlotInv, TypeOK, OwnSlots
<1>7. OneSlot'
  <2> SUFFICES ASSUME NEW q \in Processes
               PROVE  /\ \A d \in Here(q)' : /\ slot'[d] = slots'[q]
                                             /\ users'[slot'[d]] = Cardinality(Here(q)')
                      /\ Here(q)' = {} => slots'[q] = None
    BY DEF OneSlot, Here
  <2>1. CASE q = p BY <1>2, <1>5, <2>1 DEF SlotInv, TypeOK
  <2>2. CASE q # p
    <3>1. Here(q)' = Here(q) /\ slots'[q] = slots[q] BY <1>2, <1>5, <2>2 DEF SlotInv, TypeOK
    <3>2. \A d \in Here(q) : slot'[d] = slot[d] /\ users'[slot[d]] = users[slot[d]]
      BY <1>1, <1>6, <2>2 DEF SlotInv, OwnSlots, Here
    <3> QED BY <3>1, <3>2 DEF SlotInv, OneSlot
  <2> QED BY <2>1, <2>2
<1>8. LocalLock'
  BY <1>1, <1>6 DEF SlotInv, OwnSlots, LocalLock, Locked
<1> QED BY <1>3, <1>4, <1>7, <1>8 DEF SlotInv

\* Every step keeps one slot per process and its lock with one call.
LEMMA SlotsStep ==
  ASSUME SlotInv, [Next]_vars
  PROVE  SlotInv'
<1>1. CASE UNCHANGED vars
  BY <1>1 DEF vars, SlotInv, TypeOK, OwnSlots, OneSlot, Here, LocalLock
<1>2. ASSUME NEW c \in Callers,
             AcquireLocal(c) \/ Connect(c) \/ AcquireShared(c) \/ Unlock(c) \/ SharedFails(c)
      PROVE  SlotInv'
  <2>1. PICK where \in Places \ {"out"} :
          /\ Goto(c, where) /\ pc[c] # "out"
          /\ UNCHANGED <<slot, slots, users, entries>>
          /\ \/ UNCHANGED holder /\ (where \in Locked => pc[c] \in Locked)
             \/ holder[slot[c]] = None /\ holder' = [holder EXCEPT ![slot[c]] = c]
    BY <1>2 DEF AcquireLocal, Connect, AcquireShared, Unlock, SharedFails, local, Places, Locked
  <2>2. pg' \in Callers \union {None}
    BY <1>2 DEF AcquireLocal, Connect, AcquireShared, Unlock, SharedFails, SlotInv, TypeOK
  <2> QED BY <2>1, <2>2, MoveSlots
<1>3. ASSUME NEW c \in Callers, Release(c) \/ CancelWait(c) PROVE SlotInv'
  BY <1>3, LeaveSlots DEF Release, CancelWait
<1>4. CASE SessionLost
  BY <1>4 DEF SessionLost, local, SlotInv, TypeOK, OwnSlots, OneSlot, Here, LocalLock
<1> QED BY <1>1, <1>2, <1>3, <1>4, EnterSlots, CrashSlots DEF Next, Proceed

\* Every call of a process that is under way uses the process's one slot, whose
\* user count is the number of those calls, and no two are in their bodies, even
\* when the database loses sessions: _drop_slot_user never drops a slot that a
\* call still waits for, and never keeps one that nobody uses.
THEOREM SlotsCorrect == Spec => []SlotsAgree
<1>1. Init => SlotInv
  <2> SUFFICES ASSUME Init PROVE SlotInv
    OBVIOUS
  <2>1. \A p : Here(p) = {} BY DEF Init, Here
  <2> QED BY <2>1, LockAssumption
          DEF Init, SlotInv, TypeOK, OwnSlots, OneSlot, LocalLock, Places, Locked
<1>2. SlotInv /\ [Next]_vars => SlotInv'
  BY SlotsStep
<1>3. SlotInv => SlotsAgree
  <2> SUFFICES ASSUME SlotInv, NEW c \in Callers, NEW d \in Callers, pc[c] = "in", pc[d] = "in",
                      Home[c] = Home[d]
               PROVE  c = d
    BY DEF SlotInv, SlotsAgree, ProcessExclusion
  <2>1. Home[c] \in Processes BY LockAssumption
  <2>2. slot[c] = slot[d] BY <2>1 DEF SlotInv, OneSlot, Here
  <2> QED BY <2>2 DEF SlotInv, LocalLock, Locked
<1> QED
  BY <1>1, <1>2, <1>3, PTL DEF Spec

=============================================================================
